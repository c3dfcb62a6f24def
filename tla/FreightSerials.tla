--------------------------- MODULE FreightSerials ---------------------------
(***************************************************************************)
(* The freight vouchers of one firm and the counter their serials come     *)
(* from.  Each transaction is one step, which is what DbLock establishes:  *)
(* TransactionsIsolated.  PATCH reads, and checks If-Match, in a statement *)
(* of its own, before the transaction that writes.                         *)
(***************************************************************************)
EXTENDS Naturals, Sequences, FiniteSets, SequencesExt

CONSTANTS
  Ids,       \* ids of entries
  Clients,   \* PATCH requests that can be in flight
  MaxRev     \* bound on the revisions of one row

ASSUME FreightConstants == IsFiniteSet(Ids) /\ MaxRev \in Nat \ {0}

VARIABLES
  rows,      \* id -> freight_entries row
  counter,   \* firm_counters.freight_serial
  edits      \* client -> the PATCH between its read and its write

freightVars == <<rows, counter, edits>>

NoRow  == [state |-> "none", serial |-> 0, rev |-> 0]
NoEdit == [state |-> "none"]
Row    == [state : {"none", "live", "dead"}, serial : Nat, rev : Nat]
Edit   == {NoEdit} \cup [state : {"read"}, id : Ids]

FreightTypeOK ==
  /\ rows \in [Ids -> Row]
  /\ counter \in Nat
  /\ edits \in [Clients -> Edit]

\* createFirmTx writes the counter row with the firm.
FreightInit ==
  /\ rows = [i \in Ids |-> NoRow]
  /\ counter = 0
  /\ edits = [c \in Clients |-> NoEdit]

LiveIn(tab) == {i \in Ids : tab[i].state = "live"}
Live        == LiveIn(rows)
Room(i)     == rows[i].rev < MaxRev

\* uk_entry_serial_live: no live row holds this serial.
Free(tab, s) == \A j \in LiveIn(tab) : tab[j].serial # s

Touched(r) == [r EXCEPT !.rev = @ + 1]
Fresh(s)   == [state |-> "live", serial |-> s, rev |-> 1]

----------------------------------------------------------------------------
\* A tombstoned id posted again comes back with a new serial.
Resurrected(r, s) == [state |-> "live", serial |-> s, rev |-> r.rev + 1]

\* POST: the live id is left alone; a collision on the index rolls the
\* transaction back and with it the counter: no step.
CreateEntry(i) ==
  /\ rows[i].state # "live" /\ Room(i)
  /\ Free(rows, counter + 1)
  /\ counter' = counter + 1
  /\ rows' = [rows EXCEPT ![i] =
       IF @.state = "none" THEN Fresh(counter + 1) ELSE Resurrected(@, counter + 1)]
  /\ UNCHANGED edits

\* Sync push of an unknown id: a collision is caught inside the group's
\* transaction, which commits the advanced counter without the row.
PushCreate(i) ==
  /\ rows[i].state = "none"
  /\ counter' = counter + 1
  /\ rows' = IF Free(rows, counter + 1)
             THEN [rows EXCEPT ![i] = Fresh(counter + 1)] ELSE rows
  /\ UNCHANGED edits

\* Sync push of a live id, at the revision the device holds.
PushEdit(i) ==
  /\ rows[i].state = "live" /\ Room(i)
  /\ rows' = [rows EXCEPT ![i] = Touched(@)]
  /\ UNCHANGED <<counter, edits>>

\* A request that is told 404, or 409 for another revision, changes nothing.
PatchRead(c, i) ==
  /\ edits[c] = NoEdit /\ rows[i].state = "live"
  /\ edits' = [edits EXCEPT ![c] = [state |-> "read", id |-> i]]
  /\ UNCHANGED <<rows, counter>>

\* The UPDATE names the id and nothing else; a purged row matches nothing.
PatchWrite(c) ==
  /\ edits[c] # NoEdit
  /\ LET i == edits[c].id
     IN /\ Room(i)
        /\ rows' = IF rows[i].state = "none" THEN rows ELSE [rows EXCEPT ![i] = Touched(@)]
  /\ edits' = [edits EXCEPT ![c] = NoEdit]
  /\ UNCHANGED counter

----------------------------------------------------------------------------
Above(tab, s) == {i \in LiveIn(tab) : tab[i].serial > s}

\* Mutant: shifted rows keep their revision.
Compacted_Quiet(tab, s) ==
  [i \in Ids |-> IF i \in Above(tab, s) THEN [tab[i] EXCEPT !.serial = @ - 1] ELSE tab[i]]

\* What compaction leaves: every later live row one serial lower.
Compacted(tab, s) ==
  [i \in Ids |-> IF i \in Above(tab, s)
                 THEN [Touched(tab[i]) EXCEPT !.serial = @ - 1] ELSE tab[i]]

\* Mutant: ORDER BY serial DESC.
ShiftOrder_Desc(tab, s) ==
  CHOOSE q \in SetToSeqs(Above(tab, s)) :
    \A m, n \in DOMAIN q : m < n => tab[q[m]].serial > tab[q[n]].serial

\* The rows compaction updates, in the order it updates them: by serial.
ShiftOrder(tab, s) ==
  CHOOSE q \in SetToSeqs(Above(tab, s)) :
    \A m, n \in DOMAIN q : m < n => tab[q[m]].serial < tab[q[n]].serial

\* One UPDATE of the loop, against the unique index.
ShiftOne(acc, i) ==
  LET to == acc.tab[i].serial - 1
  IN [ok  |-> acc.ok /\ Free(acc.tab, to),
      tab |-> [acc.tab EXCEPT ![i] = [Touched(@) EXCEPT !.serial = to]]]

\* The loop: after[n] is what its first n updates leave.
ShiftLoop(tab, s) ==
  LET order == ShiftOrder(tab, s)
      after[n \in 0..Len(order)] ==
        IF n = 0 THEN [ok |-> TRUE, tab |-> tab] ELSE ShiftOne(after[n - 1], order[n])
  IN  after[Len(order)]

Buried(tab, i) == [tab EXCEPT ![i] = [Touched(@) EXCEPT !.state = "dead"]]

\* Mutant: the counter is not taken back.
DeleteEntry_KeepCounter(i) ==
  /\ rows[i].state = "live"
  /\ \A j \in {i} \cup Above(rows, rows[i].serial) : Room(j)
  /\ rows' = Compacted(Buried(rows, i), rows[i].serial)
  /\ UNCHANGED <<counter, edits>>

\* DELETE, and the delete of a sync push that names the current revision.
DeleteEntry(i) ==
  /\ rows[i].state = "live"
  /\ \A j \in {i} \cup Above(rows, rows[i].serial) : Room(j)
  /\ rows' = Compacted(Buried(rows, i), rows[i].serial)
  /\ counter' = IF counter > 0 THEN counter - 1 ELSE 0
  /\ UNCHANGED edits

\* The daily purge of old tombstones.
PurgeEntry(i) ==
  /\ rows[i].state = "dead"
  /\ rows' = [rows EXCEPT ![i] = NoRow]
  /\ UNCHANGED <<counter, edits>>

\* The process ends: requests in flight are gone.
FreightRestart ==
  /\ edits' = [c \in Clients |-> NoEdit]
  /\ UNCHANGED <<rows, counter>>

FreightNext ==
  \/ \E i \in Ids : \/ CreateEntry(i) \/ PushCreate(i) \/ PushEdit(i)
                    \/ DeleteEntry(i) \/ PurgeEntry(i)
  \/ \E c \in Clients, i \in Ids : PatchRead(c, i)
  \/ \E c \in Clients : PatchWrite(c)
  \/ FreightRestart

FreightSpec == FreightInit /\ [][FreightNext]_freightVars

----------------------------------------------------------------------------
\* The visible vouchers are numbered 1..N without a hole or a repeat, and the
\* counter stands at N (the comment on compactSerialsAfterDelete).
Contiguous ==
  /\ {rows[i].serial : i \in Live} = 1..counter
  /\ \A i, j \in Live : rows[i].serial = rows[j].serial => i = j

\* Whichever live voucher is deleted next, the loop of single-row updates
\* never meets the unique index and ends where one simultaneous shift would.
LoopIsShift ==
  \A i \in Live :
    LET s == rows[i].serial
    IN ShiftLoop(Buried(rows, i), s) = [ok |-> TRUE, tab |-> Compacted(Buried(rows, i), s)]

\* A row that a step leaves in the table and changes in any way, its serial
\* included, carries a higher revision: devices and If-Match tell versions
\* apart by it.
RevGrows ==
  [][\A i \in Ids : rows'[i] # rows[i] /\ rows'[i].state # "none"
                      => rows'[i].rev > rows[i].rev]_freightVars
=============================================================================
