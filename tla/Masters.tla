------------------------------- MODULE Masters -------------------------------
(***************************************************************************)
(* A firm's masters (grades, parties, companies, scheme folders) and the   *)
(* records that name them (schemes, purchases, claims, routes, lines of    *)
(* the depot diary, lines of the stock sheets): what a delete takes along  *)
(* or refuses, and the two ways a record is written, one request at a time *)
(* over REST and in groups over POST /sync/push.                           *)
(*                                                                         *)
(* What a record says is abstracted to the records it names, a constant;   *)
(* only the folder of a scheme moves.  Revisions are abstracted to         *)
(* `touched', the rows a step updated: the trigger on updated_at is what   *)
(* makes a pull send a row (SyncPull).  A transaction is one step or, for  *)
(* a push group, a run of steps during which nobody else runs (DbLock).    *)
(***************************************************************************)
EXTENDS Naturals, Sequences, FiniteSets

CONSTANTS
  Grades, Parties, Companies, Folders,
  Schemes, Purchases, Claims, Routes, Diary,
  Day,        \* the stock day the sheet's cells and receipts belong to
  Lines,      \* lines of the sheet and of the opening baseline
  Cells,      \* those of them that are cells of the day
  Names,      \* record or line -> the records it names
  Pushes,     \* the sets of mutations devices send (bound)
  NoRec       \* no record: a scheme outside any folder, an idle request

Catalogue == Grades \cup Parties \cup Companies \cup Folders
Rec       == Catalogue \cup Schemes \cup Purchases \cup Claims \cup Routes \cup Diary
Mutation  == [op : {"up", "del"}, rec : Rec, folder : Folders \cup {NoRec}]

ASSUME MasterConstants ==
  /\ Names \in [Rec \cup Lines -> SUBSET Rec]
  /\ Cells \subseteq Lines /\ NoRec \notin Rec
  /\ \A M \in Pushes : M \subseteq Mutation

VARIABLES
  st,      \* record -> "none", "live" or "dead" (deleted_at set)
  folder,  \* scheme -> the folder it is filed in
  sheet,   \* the lines in the stock tables
  rest,    \* the REST request that has read and not yet written
  pushed,  \* the push being applied
  last,    \* history: the rows the last step touched, and its answer
  overtaken \* history: schemes filed in a folder that went after its check

masterVars == <<st, folder, sheet, rest, pushed, last, overtaken>>

NoRest == [pc |-> "idle", op |-> "none", rec |-> NoRec, folder |-> NoRec, revive |-> FALSE]
NoPush == [todo |-> {}, open |-> 0, promise |-> FALSE, broken |-> FALSE]

MastersTypeOK ==
  /\ st \in [Rec -> {"none", "live", "dead"}]
  /\ folder \in [Schemes -> Folders \cup {NoRec}]
  /\ sheet \subseteq Lines
  /\ rest \in [pc : {"idle", "row", "company", "second", "write"}, op : {"none", "row", "create", "patch"},
               rec : Rec \cup {NoRec}, folder : Folders \cup {NoRec}, revive : BOOLEAN]
  /\ pushed \in [todo : SUBSET Mutation, open : Nat, promise : BOOLEAN, broken : BOOLEAN]
  /\ last \in [touched : SUBSET (Rec \cup {Day}), said : {"ok", "refused", "conflict"}]
  /\ overtaken \subseteq Schemes

MastersInit ==
  /\ st = [r \in Rec |-> "none"]
  /\ folder = [s \in Schemes |-> NoRec]
  /\ sheet = {}
  /\ rest = NoRest
  /\ pushed = NoPush
  /\ last = [touched |-> {}, said |-> "ok"]
  /\ overtaken = {}

----------------------------------------------------------------------------
(* What the statements read.                                                *)

LiveRec(r)   == st[r] = "live"
ThereRec(r)  == st[r] # "none"
Naming(r)    == {x \in Rec : r \in Names[x]}
CompanyOf(x) == CHOOSE c \in Companies : c \in Names[x]

\* depotUsage: live lines of the diary that name a party, company or grade.
InUse(r) == \E t \in Diary : LiveRec(t) /\ r \in Names[t]

\* Live purchases and schemes that name a grade (decision D5).
Referenced(g) == \E x \in Naming(g) \cap (Schemes \cup Purchases) : LiveRec(x)

----------------------------------------------------------------------------
(* What they write.                                                         *)

Answer(said, T) == last' = [touched |-> T, said |-> said]
Refuse          == Answer("refused", {}) /\ UNCHANGED <<st, folder, sheet, overtaken>>

\* The records that are tombstoned with r: the routes of a party, the claims
\* of a scheme, and all that hangs on a company.
Fallen(r) ==
  {r} \cup (IF r \in Parties   THEN Naming(r) \cap Routes
       ELSE IF r \in Companies
            THEN (Naming(r) \cap (Purchases \cup Schemes \cup Claims))
                 \cup {k \in Claims : Names[k] \cap Naming(r) \cap Schemes # {}}
       ELSE IF r \in Schemes   THEN Naming(r) \cap Claims ELSE {})

Buried(R) == [x \in Rec |-> IF x \in R /\ LiveRec(x) THEN "dead" ELSE st[x]]

\* Mutant: the schemes keep the folder.
Unfiled_Kept(r) == folder
\* A folder is filing, not ownership: deleting one unfiles its schemes.
Unfiled(r) == [s \in Schemes |-> IF folder[s] = r THEN NoRec ELSE folder[s]]

\* The sheet's lines that name a deleted party or grade, and the day they
\* were on: bumpDaysForCellCleanup looks for days with a cell of it.
Cleared(r) == {l \in sheet : r \in Names[l]}

\* Mutant: the cells go and their day is not touched.
Bumped_Never(r) == {}
Bumped(r) == IF Cleared(r) \cap Cells # {} THEN {Day} ELSE {}

\* softDeleteRow, and what follows from it when a live row was tombstoned.
Bury(r) ==
  IF ~LiveRec(r) THEN Answer("ok", {}) /\ UNCHANGED <<st, folder, sheet, overtaken>>
  ELSE /\ st' = Buried(Fallen(r))
       /\ folder' = Unfiled(r)
       /\ sheet' = sheet \ Cleared(r)
       /\ overtaken' = {s \in overtaken : folder'[s] # NoRec}
       /\ Answer("ok", {x \in Fallen(r) : LiveRec(x)} \cup {s \in Schemes : folder[s] = r} \cup Bumped(r))

\* A row that is inserted, updated, or brought back.
Write(r) ==
  /\ st' = [st EXCEPT ![r] = "live"]
  /\ Answer("ok", {r})
  /\ UNCHANGED <<sheet, overtaken>>

----------------------------------------------------------------------------
(* REST.  Nobody runs while a push group holds the database.                *)

Free == pushed.open = 0

\* What another request changes breaks the promise made to a running push.
Disturb == pushed' = [pushed EXCEPT !.promise = FALSE]

\* Mutant: the delete is not in a transaction, and what it wrote before it
\* was refused stays.
DeleteMaster_NoTx(r) ==
  /\ Free /\ ThereRec(r) /\ Disturb
  /\ IF InUse(r) THEN Refuse
     ELSE IF r \in Grades /\ LiveRec(r) /\ Referenced(r)
          THEN st' = Buried({r}) /\ Answer("refused", {r}) /\ UNCHANGED <<folder, sheet, overtaken>>
     ELSE Bury(r)
  /\ UNCHANGED rest

\* DELETE of a master: deleteWithCascade in a transaction, which a refusal
\* rolls back.
DeleteMaster(r) ==
  /\ Free /\ ThereRec(r) /\ Disturb
  /\ IF InUse(r) \/ (r \in Grades /\ LiveRec(r) /\ Referenced(r)) THEN Refuse ELSE Bury(r)
  /\ UNCHANGED rest

\* deletePurchase, deleteClaim, deleteScheme, DELETE of a route.
DeleteRecord(r) ==
  /\ Free /\ LiveRec(r) /\ Disturb
  /\ Bury(r)
  /\ UNCHANGED rest

\* createRow with an id that is new; PUT of a route that is new.
CreateMaster(r) ==
  /\ Free /\ ~ThereRec(r) /\ Disturb
  /\ r \in Routes => \A p \in Names[r] : ThereRec(p)
  /\ Write(r)
  /\ UNCHANGED <<folder, rest>>

\* createRow of an id that exists, updateRow, PUT of a route: the row is read,
\* and updated by a later statement, which revives what was read as dead.
RowRead(r, create) ==
  /\ Free /\ rest = NoRest /\ ThereRec(r)
  /\ create \/ LiveRec(r)
  /\ rest' = [NoRest EXCEPT !.pc = "row", !.op = "row", !.rec = r, !.revive = (st[r] = "dead")]
  /\ Answer("ok", {})
  /\ UNCHANGED <<st, folder, sheet, pushed, overtaken>>

RowWrite ==
  LET r == rest.rec IN
  /\ Free /\ rest.pc = "row" /\ rest' = NoRest /\ Disturb
  /\ st' = IF rest.revive /\ ThereRec(r) THEN [st EXCEPT ![r] = "live"] ELSE st
  /\ Answer("ok", IF ThereRec(r) THEN {r} ELSE {})
  /\ UNCHANGED <<folder, sheet, overtaken>>

\* createScheme, patchScheme, createPurchase, patchPurchase: the row (of a
\* patch), then the company, then the folder or the grades, one statement
\* each; then the transaction that writes, which looks at none of them again.
WriteBegin(x, op, f) ==
  /\ Free /\ rest = NoRest
  /\ op = "patch" => LiveRec(x)
  /\ x \in Purchases => f = NoRec
  /\ rest' = [NoRest EXCEPT !.pc = "company", !.op = op, !.rec = x, !.folder = f]
  /\ Answer("ok", {})
  /\ UNCHANGED <<st, folder, sheet, pushed, overtaken>>

CheckCompany ==
  /\ Free /\ rest.pc = "company"
  /\ rest' = IF LiveRec(CompanyOf(rest.rec)) THEN [rest EXCEPT !.pc = "second"] ELSE NoRest
  /\ Answer("ok", {})
  /\ UNCHANGED <<st, folder, sheet, pushed, overtaken>>

\* checkFolder of a scheme, the rest of checkRefs of a purchase.
CheckSecond ==
  LET named == IF rest.rec \in Schemes THEN {rest.folder} \ {NoRec} ELSE Names[rest.rec] \cap Grades IN
  /\ Free /\ rest.pc = "second"
  /\ rest' = IF \A n \in named : LiveRec(n) THEN [rest EXCEPT !.pc = "write"] ELSE NoRest
  /\ Answer("ok", {})
  /\ UNCHANGED <<st, folder, sheet, pushed, overtaken>>

\* The folder of s becomes f; f may have been deleted since it was checked.
File(s, f) ==
  /\ folder' = [folder EXCEPT ![s] = f]
  /\ overtaken' = IF f # NoRec /\ ~LiveRec(f) THEN overtaken \cup {s} ELSE overtaken \ {s}

\* A create of a live id returns it as it is; a tombstone is deleted and
\* inserted anew; a patch updates whatever row is there, live or not.  The
\* foreign keys refuse a company or a scheme's grade that has been purged.
CheckedWrite ==
  LET x == rest.rec
      kept == IF rest.op = "create" THEN LiveRec(x) ELSE ~ThereRec(x)
      keys == Names[x] \cap (Companies \cup (IF x \in Schemes THEN Grades ELSE {})) IN
  /\ Free /\ rest.pc = "write" /\ rest' = NoRest /\ Disturb
  /\ IF ~kept /\ \E n \in keys : ~ThereRec(n) THEN Refuse
     ELSE IF kept THEN Answer("ok", {}) /\ UNCHANGED <<st, folder, sheet, overtaken>>
     ELSE /\ st' = IF rest.op = "create" THEN [st EXCEPT ![x] = "live"] ELSE st
          /\ Answer("ok", {x})
          /\ IF x \in Schemes THEN File(x, rest.folder) ELSE UNCHANGED <<folder, overtaken>>
          /\ UNCHANGED sheet

\* createClaim: no check of the scheme or the company, and no foreign key.
CreateClaim(k) ==
  /\ Free /\ ~LiveRec(k) /\ Disturb
  /\ Write(k)
  /\ UNCHANGED <<folder, rest>>

\* The sheet is filled in (StockDays): a line's party and grade must exist.
FillSheet ==
  /\ Free /\ Disturb
  /\ sheet' = {l \in Lines : \A n \in Names[l] : ThereRec(n)}
  /\ sheet' # sheet
  /\ Answer("ok", {Day})
  /\ UNCHANGED <<st, folder, rest, overtaken>>

\* One table of the purge job: a row that has been dead long enough goes, and
\* ON DELETE CASCADE takes the rows that name it, dead or alive.
PurgeRow(r) ==
  LET owned == {x \in Naming(r) : \/ r \in Parties /\ x \in Routes
                                  \/ r \in Companies /\ x \in Schemes \cup Purchases} IN
  /\ Free /\ st[r] = "dead" /\ r \notin Folders \cup Diary
  /\ st' = [x \in Rec |-> IF x \in {r} \cup owned THEN "none" ELSE st[x]]
  /\ folder' = [s \in Schemes |-> IF s \in {r} \cup owned THEN NoRec ELSE folder[s]]
  /\ overtaken' = overtaken \ ({r} \cup owned)
  /\ sheet' = sheet \ Cleared(r)
  /\ Answer("ok", {}) /\ Disturb
  /\ UNCHANGED rest

----------------------------------------------------------------------------
(* POST /sync/push.                                                         *)

Kind     == <<Grades, Parties, Companies, Routes, Folders, Schemes, Purchases, Claims, Diary>>
Order(r) == CHOOSE i \in DOMAIN Kind : r \in Kind[i]

\* Each kind has a table of its own, and names kinds that come before it.
ASSUME MasterTables ==
  /\ \A i, j \in DOMAIN Kind : i # j => Kind[i] \cap Kind[j] = {}
  /\ \A r \in Rec : \A n \in Names[r] : Order(n) < Order(r)

\* Mutant: deletes run in the order of the upserts.
Rank_SameOrder(m) == IF m.op = "up" THEN Order(m.rec) ELSE Len(Kind) + Order(m.rec)
\* The place of a mutation's group: upserts in GROUP_ORDER, then deletes in
\* the opposite order.
Rank(m) == IF m.op = "up" THEN Order(m.rec) ELSE 2 * Len(Kind) + 1 - Order(m.rec)

Due(m)      == m \in pushed.todo /\ \A n \in pushed.todo : Rank(m) <= Rank(n)
Rest(m)     == pushed.todo \ {m}
Ups(M)      == {m.rec : m \in {n \in M : n.op = "up"}}
Dels(M)     == {m.rec : m \in {n \in M : n.op = "del"}}

\* What a device may count on: a push that brings along, or finds there, all
\* that its records name, and deletes with a master all that would hold it.
SelfContained(M) ==
  /\ \A r \in Ups(M), n \in Rec : n \in Names[r] => ThereRec(n) \/ n \in Ups(M)
  /\ \A r \in Dels(M) \cap Catalogue, x \in Diary \cup Schemes \cup Purchases :
       /\ r \in Names[x]
       /\ LiveRec(x) \/ x \in Ups(M)
       /\ x \in Diary \/ r \in Grades
       => x \in Dels(M)

PushStart(M) ==
  /\ pushed.todo = {}
  /\ pushed' = [todo |-> M, open |-> 0, promise |-> SelfContained(M), broken |-> FALSE]
  /\ Answer("ok", {})
  /\ UNCHANGED <<st, folder, sheet, rest, overtaken>>

\* schemeUpsert: a folder that is gone leaves the scheme unfiled; a company
\* that was purged refuses it; a grade that was purged refuses it when the
\* scheme's row is already written, and the group's transaction commits it.
UpsertScheme(m) ==
  LET s == m.rec IN
  IF \E c \in Names[s] \cap Companies : ~ThereRec(c) THEN Refuse
  ELSE /\ st' = [st EXCEPT ![s] = "live"]
       /\ File(s, IF m.folder # NoRec /\ LiveRec(m.folder) THEN m.folder ELSE NoRec)
       /\ Answer(IF \A g \in Names[s] \cap Grades : ThereRec(g) THEN "ok" ELSE "refused", {s})
       /\ UNCHANGED sheet

\* Records whose revision is checked: purchaseUpsert, claimUpsert, and
\* recordUpsert of the diary.  `same' is whether the device's revision is the
\* row's.  A claim that is dead is written all the same, and stays dead.
UpsertGated(r, same) ==
  IF ~ThereRec(r)
  THEN IF r \in Purchases /\ \E c \in Names[r] \cap Companies : ~ThereRec(c) THEN Refuse
       ELSE Write(r) /\ UNCHANGED folder
  ELSE /\ Answer(IF ~same \/ (r \notin Claims /\ ~LiveRec(r)) THEN "conflict" ELSE "ok",
                 IF ~same \/ (r \notin Claims /\ ~LiveRec(r)) THEN {} ELSE {r})
       /\ UNCHANGED <<st, folder, sheet, overtaken>>

\* masterUpsert and routeUpsert: last write wins, and revives.
UpsertPlain(r) ==
  IF r \in Routes /\ \E p \in Names[r] : ~ThereRec(p) THEN Refuse
  ELSE Write(r) /\ UNCHANGED folder

Upsert(m, same) ==
  IF m.rec \in Schemes THEN UpsertScheme(m)
  ELSE IF m.rec \in Purchases \cup Claims \cup Diary THEN UpsertGated(m.rec, same)
  ELSE UpsertPlain(m.rec)

\* masterDelete: what deleteWithCascade throws is caught by applyOne, inside
\* the group's transaction.  A grade in use has its tombstone by then.  It is
\* handed the entity for a table, and `schemeFolders' is none.
PushDeleteMaster(r) ==
  IF r \in Folders \/ InUse(r) THEN Refuse
  ELSE IF r \in Grades /\ LiveRec(r) /\ Referenced(r)
       THEN st' = Buried({r}) /\ Answer("refused", {r}) /\ UNCHANGED <<folder, sheet, overtaken>>
  ELSE Bury(r)

PushDelete(m, same) ==
  IF m.rec \in Catalogue THEN PushDeleteMaster(m.rec)
  ELSE IF m.rec \in Purchases \cup Claims \cup Diary /\ LiveRec(m.rec) /\ ~same
       THEN Answer("conflict", {}) /\ UNCHANGED <<st, folder, sheet, overtaken>>
  ELSE Bury(m.rec)

\* applyOne for one mutation of the group at hand; the transaction ends with
\* the last one of the group.
PushOne(m) ==
  /\ Due(m)
  /\ \E same \in BOOLEAN : IF m.op = "up" THEN Upsert(m, same) ELSE PushDelete(m, same)
  /\ pushed' = [todo |-> Rest(m),
                open |-> IF \E n \in Rest(m) : Rank(n) = Rank(m) THEN Rank(m) ELSE 0,
                promise |-> pushed.promise /\ last'.said # "conflict",
                broken |-> /\ pushed.promise /\ last'.said = "refused"
                           /\ ~(m.op = "del" /\ m.rec \in Folders)]
  /\ UNCHANGED rest

\* The transaction of a group fails: GROUP_FAILED for each of its mutations.
PushGroupFails ==
  /\ Free /\ pushed.todo # {}
  /\ pushed' = [pushed EXCEPT !.todo = {m \in @ : ~Due(m)}, !.promise = FALSE]
  /\ Answer("refused", {})
  /\ UNCHANGED <<st, folder, sheet, rest, overtaken>>

----------------------------------------------------------------------------
MastersNext ==
  \/ \E r \in Catalogue : DeleteMaster(r)
  \/ \E r \in Schemes \cup Purchases \cup Claims \cup Routes : DeleteRecord(r)
  \/ \E r \in Catalogue \cup Routes : CreateMaster(r) \/ \E create \in BOOLEAN : RowRead(r, create)
  \/ RowWrite \/ CheckCompany \/ CheckSecond \/ CheckedWrite \/ FillSheet
  \/ \E x \in Schemes \cup Purchases, op \in {"create", "patch"}, f \in Folders \cup {NoRec} : WriteBegin(x, op, f)
  \/ \E k \in Claims : CreateClaim(k)
  \/ \E r \in Rec : PurgeRow(r)
  \/ \E M \in Pushes : PushStart(M)
  \/ \E m \in pushed.todo : PushOne(m)
  \/ PushGroupFails

MastersSpec == MastersInit /\ [][MastersNext]_masterVars

----------------------------------------------------------------------------
\* The order of the groups is enough: a push that is self-contained, and that
\* nobody runs into, has no mutation refused, whatever order the device put
\* its mutations in (sync/push.ts GROUP_ORDER), but for the delete of a
\* folder, which every push is refused (FolderPushApplies).
OrderSuffices == ~pushed.broken

\* A scheme is filed in a deleted folder only when a REST write checked the
\* folder before it was deleted; no delete, push, patch or revival of either
\* leaves one there.
FiledAlive ==
  \A s \in Schemes : folder[s] # NoRec /\ st[folder[s]] = "dead" => s \in overtaken

Purged == \E x \in Rec : ThereRec(x) /\ st'[x] = "none"

\* What a pull would send of a record does not change without its row being
\* updated, so that the next pull sends it: also the schemes a folder's
\* delete unfiles, and the day whose cells go with a party or a grade.
MastersTravel ==
  ~Purged =>
    /\ \A r \in Rec : st'[r] # st[r] => r \in last'.touched
    /\ \A s \in Schemes : folder'[s] # folder[s] => s \in last'.touched
    /\ sheet' \cap Cells # sheet \cap Cells => Day \in last'.touched

\* What is refused, or answered with a conflict, changes nothing, but for
\* what the catch inside a push group commits: the tombstone of a grade that
\* is still named, and a scheme that names a purged grade.
RefusalKeeps ==
  [][last'.said # "ok" =>
       /\ sheet' = sheet
       /\ \A r \in Rec : st'[r] # st[r] => /\ pushed'.todo # pushed.todo
                                           /\ r \in Grades => Referenced(r)
                                           /\ r \in Grades \cup Schemes]_masterVars

\* "Your push always applies": a push that nobody runs into is not refused
\* what it says of a scheme folder, a master without conditions.
FolderPushApplies ==
  [][\A m \in pushed.todo :
       m.rec \in Folders /\ ThereRec(m.rec) /\ pushed'.todo = Rest(m) /\ pushed'.promise
         => last'.said = "ok"]_masterVars
=============================================================================
