-------------------------------- MODULE Depot --------------------------------
(***************************************************************************)
(* The depot diary: trucks and the deliveries made off them, stock         *)
(* adjustments, steel and material items and their moves, day notes.  It   *)
(* is written by POST /sync/push alone, from apps of two ages, and by      *)
(* restoring a backup.  An old app knows neither returns nor the newer     *)
(* fields: it reads a return as a count correction and sends it back as    *)
(* one.  Diary rows are never purged.                                      *)
(*                                                                         *)
(* Of a row, `kind' is "special" for what is tied to something (a delivery *)
(* to its truck) or newer than the old app (a return; an item of the sand  *)
(* and gitti tab), `extra' is what the old app does not send (customer,    *)
(* voucher link, a return's dealer), and `body' all the rest.              *)
(***************************************************************************)
EXTENDS Naturals

CONSTANTS
  Trucks, Deliveries, Adjusts, Moves, Items, DayNotes,
  Settings,   \* the rates, a row nobody deletes
  Sheets,     \* steel tests, brands and estimates, by policy:
  Gated,      \* the rows whose revision is checked
  Needs,      \* delivery or move -> the truck or items it names
  Devices, OldApps,
  Bodies, MaxRow   \* bounds: what a row says, its revisions

Row == Trucks \cup Deliveries \cup Adjusts \cup Moves \cup Items \cup DayNotes \cup Settings \cup Sheets

ASSUME DepotConstants ==
  /\ OldApps \subseteq Devices /\ Bodies # {} /\ MaxRow \in Nat /\ Needs \in [Row -> SUBSET Row]
  /\ Trucks \cup Deliveries \cup Adjusts \cup Moves \cup DayNotes \subseteq Gated /\ Gated \subseteq Row
  /\ Gated \cap (Items \cup Settings) = {}
  /\ \A r \in Moves : \E i \in Items : Needs[r] = {i}
  /\ \A r \in Deliveries : \E t \in Trucks : Needs[r] = {t}

\* Trucks, deliveries, adjustments, moves, items, day notes and the sheets are
\* kept in tables of their own.
ASSUME DepotTables ==
  /\ Trucks \cap (Deliveries \cup Moves) = {} /\ Deliveries \cap (Adjusts \cup Moves) = {}
  /\ Moves \cap DayNotes = {} /\ Items \cap Sheets = {}

VARIABLES
  diary,    \* the rows
  held,     \* device -> row -> its copy; rev 0 is none
  late,     \* history: rows pushed while what they name was not live
  load,     \* the backup at hand, and the restore under way
  author    \* history: who took the last step

depotVars == <<diary, held, late, load, author>>

Kinds  == {"plain", "special"}
Bare   == [st |-> "none", rev |-> 0, kind |-> "plain", extra |-> FALSE, body |-> CHOOSE b \in Bodies : TRUE]
NoLoad == [todo |-> {}, file |-> {}, quiet |-> TRUE]
NoHeld == [rev |-> 0, kind |-> "plain", body |-> Bare.body]

Entry  == [row : Row, kind : Kinds, extra : BOOLEAN, body : Bodies]

DepotTypeOK ==
  /\ diary \in [Row -> [st : {"none", "live", "dead"}, rev : 0..MaxRow, kind : Kinds, extra : BOOLEAN, body : Bodies]]
  /\ held \in [Devices -> [Row -> [rev : 0..MaxRow, kind : Kinds, body : Bodies]]]
  /\ late \subseteq Row
  /\ load \in [todo : SUBSET Entry, file : SUBSET Entry, quiet : BOOLEAN]
  /\ author \in {"old", "new", "other"}

DepotInit ==
  /\ diary = [r \in Row |-> Bare]
  /\ held = [v \in Devices |-> [r \in Row |-> NoHeld]]
  /\ late = {} /\ load = NoLoad /\ author = "other"

----------------------------------------------------------------------------
LiveRow(r)  == diary[r].st = "live"
ThereRow(r) == diary[r].st # "none"
RoomIn(R)   == \A r \in R : diary[r].rev < MaxRow

\* What an app makes of a row: to an old one nothing is special, but for the
\* deliveries, which are as old as the diary.
View(v, r, kind) == IF v \in OldApps /\ r \notin Deliveries THEN "plain" ELSE kind

\* What the app of device v may send for a row it holds, or creates.
Sendable(v, r, w) ==
  /\ w.kind = "special" =>
       /\ r \in Deliveries \cup Adjusts \cup Moves \cup Items
       /\ v \notin OldApps \/ r \in Deliveries
       /\ r \in Adjusts => w.extra
  /\ w.extra => v \notin OldApps /\ (r \in Adjusts => w.kind = "special")
  /\ r \in Trucks \cup Items \cup DayNotes \cup Settings \cup Sheets => ~w.extra
  \* "this app never turns a return into a correction", nor moves sand
  /\ r \in Moves \cup Items /\ v \notin OldApps /\ held[v][r].kind = "special" => w.kind = "special"

\* ADJUSTMENTS.carry: a return an old app sends as a correction stays one.
AdjustCarries(v, old, w) == old.kind = "special" /\ w.kind = "plain" /\ v \in OldApps

\* MOVES.carry looks at the kind alone, and so does the category of itemUpsert.
MoveCarries(old, w) == old.kind = "special" /\ w.kind = "plain"

Stays(v, r, w) ==
  \/ r \in Adjusts /\ AdjustCarries(v, diary[r], w)
  \/ r \in Moves \cup Items /\ MoveCarries(diary[r], w)

\* Mutant: an old app's adjustment is stored with the kind it sends.
Carried_NoCarry(v, r, w) ==
  [kind  |-> IF r \notin Adjusts /\ Stays(v, r, w) THEN "special" ELSE w.kind,
   extra |-> IF ThereRow(r) /\ v \in OldApps THEN diary[r].extra ELSE w.extra,
   body  |-> w.body]
\* What is stored of a mutation: a column whose key is not sent stays.
Carried(v, r, w) ==
  [kind  |-> IF Stays(v, r, w) THEN "special" ELSE w.kind,
   extra |-> IF ThereRow(r) /\ v \in OldApps THEN diary[r].extra ELSE w.extra,
   body  |-> w.body]

\* Mutant: an update leaves the revision as it is.
Put_NoBump(r, c) ==
  [diary EXCEPT ![r] = [st |-> "live", rev |-> IF ThereRow(r) THEN @.rev ELSE 1,
                        kind |-> c.kind, extra |-> c.extra, body |-> c.body]]
\* r is written as c; `late' if what it names is not live.
Put(r, c) ==
  [diary EXCEPT ![r] = [st |-> "live", rev |-> @.rev + 1, kind |-> c.kind, extra |-> c.extra, body |-> c.body]]

Named(r, kind) == IF r \in Deliveries /\ kind = "plain" THEN {} ELSE Needs[r]

Lateness(r, c) ==
  IF \E n \in Named(r, c.kind) : ~LiveRow(n) THEN late \cup {r} ELSE late \ {r}

\* A device's mutation; a restore that is under way is no longer alone.
By(v) ==
  /\ author' = IF v \in OldApps THEN "old" ELSE "new"
  /\ load' = [load EXCEPT !.quiet = FALSE]

\* The device writes back what was applied, unless the answer was lost.
Reported(v, r, copies) == held' \in {held, [held EXCEPT ![v][r] = copies]}

----------------------------------------------------------------------------
\* DAY_NOTES may be written again when they are gone: the app derives their id.
Revives(r) == r \in DayNotes /\ diary[r].st = "dead"

\* recordUpsert: a new row, or one whose revision the device has.  A tombstone
\* that cannot be revived is a conflict.
RecordUpsert(v, r, w) ==
  /\ r \in Gated /\ RoomIn({r}) /\ Sendable(v, r, w)
  /\ ~ThereRow(r) \/ Revives(r) \/ (LiveRow(r) /\ held[v][r].rev = diary[r].rev)
  /\ diary' = Put(r, Carried(v, r, w))
  /\ late' = Lateness(r, Carried(v, r, w))
  /\ Reported(v, r, [rev |-> diary[r].rev + 1, kind |-> w.kind, body |-> w.body])
  /\ By(v)

\* What the three below have in common: last write wins, and revives.
Overwrite(v, r, w) ==
  /\ r \notin Gated /\ RoomIn({r}) /\ Sendable(v, r, w)
  /\ diary' = Put(r, Carried(v, r, w))
  /\ Reported(v, r, [rev |-> diary[r].rev + 1, kind |-> w.kind, body |-> w.body])
  /\ By(v)
  /\ UNCHANGED late

SettingsUpsert(v, r, w) == r \in Settings /\ Overwrite(v, r, w)
ItemUpsert(v, r, w)     == r \in Items /\ Overwrite(v, r, w)
BrandUpsert(v, r, w)    == r \in Sheets /\ Overwrite(v, r, w)

Tombstoned(R) ==
  [r \in Row |-> IF r \in R /\ LiveRow(r) THEN [diary[r] EXCEPT !.st = "dead", !.rev = @ + 1] ELSE diary[r]]

OffTruck(t) == {d \in Deliveries : LiveRow(d) /\ diary[d].kind = "special" /\ t \in Needs[d]}

\* Mutant: the truck goes, its deliveries stay.
RecordDelete_TruckOnly(v, r) ==
  /\ r \in Gated /\ LiveRow(r) /\ held[v][r].rev = diary[r].rev /\ RoomIn({r})
  /\ diary' = Tombstoned({r})
  /\ late' = late \ {r}
  /\ By(v)
  /\ UNCHANGED held

\* recordDelete, and afterDelete of a truck.
RecordDelete(v, r) ==
  LET gone == {r} \cup (IF r \in Trucks THEN OffTruck(r) ELSE {}) IN
  /\ r \in Gated /\ LiveRow(r) /\ held[v][r].rev = diary[r].rev /\ RoomIn(gone)
  /\ diary' = Tombstoned(gone)
  /\ late' = late \ gone
  /\ By(v)
  /\ UNCHANGED held

Discard(v, r) ==
  /\ r \notin Gated /\ LiveRow(r) /\ RoomIn({r})
  /\ diary' = Tombstoned({r})
  /\ By(v)
  /\ UNCHANGED <<held, late>>

\* itemDelete is refused while a live move has a line of the item ...
ItemDelete(v, r) ==
  r \in Items /\ ~(\E m \in Moves : LiveRow(m) /\ r \in Needs[m]) /\ Discard(v, r)

\* ... steelBrandDelete is not: an estimate has its own copy of the figures.
BrandDelete(v, r) == r \in Sheets /\ Discard(v, r)

\* A pull, or the record that comes with a conflict.
PullRow(v, r) ==
  /\ ThereRow(r)
  /\ held' = [held EXCEPT ![v][r] = [rev |-> diary[r].rev, kind |-> View(v, r, diary[r].kind), body |-> diary[r].body]]
  /\ author' = "other"
  /\ UNCHANGED <<diary, late, load>>

----------------------------------------------------------------------------
(* Backups.                                                                 *)

\* exportDepot: the live rows (a note emptied is as good as none).
ExportDiary ==
  /\ load.todo = {}
  /\ load' = [NoLoad EXCEPT !.file =
                {[row |-> r, kind |-> diary[r].kind, extra |-> diary[r].extra, body |-> diary[r].body] :
                 r \in {x \in Row : LiveRow(x)}}]
  /\ load' # load /\ author' = "other"
  /\ UNCHANGED <<diary, held, late>>

InFile(n) == \E e \in load.file : e.row = n

\* A delivery whose truck is not in the file is kept as one from the godown ...
LosesTruck(e) == e.row \in Deliveries /\ e.kind = "special" /\ \E n \in Needs[e.row] : ~InFile(n)

\* ... a return whose dealer is not known as a correction ...
LosesDealer(e, dealers) == e.row \in Adjusts \cup Moves /\ e.kind = "special" /\ ~dealers

\* ... and a delivery without its dealer, or a move without lines of known
\* items, is left out.  (So is a move that sends out goods without its dealer;
\* the moves of the model that are no returns name none.)
LeftOut(e, dealers) ==
  \/ e.row \in Deliveries /\ ~dealers
  \/ e.row \in Moves /\ \A n \in Needs[e.row] : ~InFile(n)

\* planDepot.
Planned(dealers) ==
  {[e EXCEPT !.kind  = IF LosesTruck(e) \/ LosesDealer(e, dealers) THEN "plain" ELSE @,
             !.extra = IF LosesDealer(e, dealers) /\ e.row \in Adjusts THEN FALSE ELSE @] :
   e \in {x \in load.file : ~LeftOut(x, dealers)}}

\* importBackup: a replace buries every live row but the settings, at once.
RestoreStart(mode, dealers) ==
  /\ load.todo = {} /\ load.file # {}
  /\ RoomIn({r \in Row : LiveRow(r)})
  /\ diary' = IF mode = "replace" THEN Tombstoned(Row \ Settings) ELSE diary
  /\ late' = IF mode = "replace" THEN {} ELSE late
  /\ load' = [load EXCEPT !.todo = Planned(dealers), !.quiet = TRUE]
  /\ author' = "other"
  /\ UNCHANGED held

\* Items before moves, trucks before deliveries (writeDepotLabours,
\* writeDepotRecords).
Stage(r) == IF r \in Items THEN 0 ELSE IF r \in Trucks \cup Settings THEN 1 ELSE IF r \in Deliveries THEN 2 ELSE 3

\* A chunk is a transaction: here of one row, the smallest there can be.
RestoreRow(e) ==
  /\ e \in load.todo /\ \A x \in load.todo : Stage(e.row) <= Stage(x.row)
  /\ RoomIn({e.row})
  /\ diary' = Put(e.row, e)
  /\ late' = IF load.quiet THEN late \ {e.row} ELSE Lateness(e.row, e)
  /\ load' = [load EXCEPT !.todo = @ \ {e}]
  /\ author' = "other"
  /\ UNCHANGED held

\* The process ends, or another table's chunk fails: what is committed stays.
RestoreStops ==
  /\ load.todo # {}
  /\ load' = [load EXCEPT !.todo = {}]
  /\ author' = "other"
  /\ UNCHANGED <<diary, held, late>>

----------------------------------------------------------------------------
DepotNext ==
  \/ \E v \in Devices, r \in Row :
       \/ \E w \in [kind : Kinds, extra : BOOLEAN, body : Bodies] :
            RecordUpsert(v, r, w) \/ SettingsUpsert(v, r, w) \/ ItemUpsert(v, r, w) \/ BrandUpsert(v, r, w)
       \/ RecordDelete(v, r) \/ ItemDelete(v, r) \/ BrandDelete(v, r) \/ PullRow(v, r)
  \/ ExportDiary \/ RestoreStops
  \/ \E mode \in {"merge", "replace"}, dealers \in BOOLEAN : RestoreStart(mode, dealers)
  \/ \E e \in load.todo : RestoreRow(e)

DepotSpec == DepotInit /\ [][DepotNext]_depotVars

----------------------------------------------------------------------------
\* No live delivery names a truck that is gone, and no live move an item that
\* is gone: a truck takes its deliveries along, an item in use stays, and a
\* restore that nobody runs into drops what its file cannot back.  Only a
\* record pushed after what it names had gone (or never came) is left so: no
\* handler looks.
DiaryWhole ==
  \A r \in Deliveries \cup Moves :
    LiveRow(r) /\ r \notin late => \A n \in Named(r, diary[r].kind) : LiveRow(n)

\* An edit by an old app never turns a return into a correction, moves an item
\* off its tab, or wipes what that app does not know of.
OldAppKeeps ==
  [][author' = "old" =>
       \A r \in Row : LiveRow(r) /\ diary'[r].st = "live" =>
         /\ diary'[r].extra = diary[r].extra
         /\ diary[r].kind = "special" => diary'[r].kind = "special" \/ r \in Deliveries]_depotVars

\* A device whose revision of a record is the server's sees what the server
\* has, as far as its app can tell, although the server may have stored
\* something else than it sent: the gate lets nobody overwrite a record unseen.
DiaryGate ==
  \A v \in Devices, r \in Gated :
    LiveRow(r) /\ held[v][r].rev = diary[r].rev =>
      held[v][r].body = diary[r].body /\ held[v][r].kind = View(v, r, diary[r].kind)
=============================================================================
