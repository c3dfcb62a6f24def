----------------------------- MODULE StockProofs -----------------------------
(***************************************************************************)
(* What a firm has in stock: proofs about the stock sheets and their       *)
(* baseline (StockDays) and about the depot diary (Depot); and, with what  *)
(* LandingProofs says of the masters, what a pull will notice of a firm.   *)
(***************************************************************************)
EXTENDS MCRecords, LandingProofs, TLAPS

----------------------------------------------------------------------------
(* Stock sheets: types.                                                     *)

SheetStates == {"none", "live", "dead"}
SeatRow == [pc : {"idle", "baseline", "absent", "create", "write", "delete"}, date : 0..LastDate,
            lines : [Slots -> Values], named : SUBSET Slots]

LEMMA SeatForms ==
  /\ Blank \in [Slots -> Values] /\ NoSeat \in SeatRow /\ Dates \subseteq 0..LastDate /\ 0 \in 0..LastDate
  /\ NoSeat.pc = "idle"
<1>1. Blank \in [Slots -> Values] /\ Dates \subseteq 0..LastDate /\ 0 \in 0..LastDate
  BY StockConstants DEF Blank, Dates
<1> QED BY <1>1 DEF NoSeat, SeatRow

LEMMA SeatTaken ==
  ASSUME NEW d \in Dates, NEW a \in {"baseline", "absent", "delete"}
  PROVE  LET q == [NoSeat EXCEPT !.pc = a, !.date = d] IN q \in SeatRow /\ q.date = d
BY SeatForms DEF SeatRow

LEMMA SeatMoved ==
  ASSUME NEW q \in SeatRow
  PROVE  [q EXCEPT !.pc = "create"] \in SeatRow /\ [q EXCEPT !.pc = "create"].date = q.date
BY DEF SeatRow

LEMMA StockTypes ==
  StockTypeOK <=>
    /\ base \in 0..LastDate /\ sheetSt \in [Dates -> SheetStates] /\ line \in [Dates -> [Slots -> Values]]
    /\ seat \in SeatRow /\ slipped \subseteq Dates /\ wrote \in [days : SUBSET Dates, half : BOOLEAN]
BY DEF StockTypeOK, SheetStates, SeatRow

\* The two ways a step says what it wrote.
LEMMA WroteForm ==
  ASSUME NEW D \in SUBSET Dates, NEW h \in BOOLEAN, wrote' = [days |-> D, half |-> h]
  PROVE  wrote' \in [days : SUBSET Dates, half : BOOLEAN] /\ wrote'.days = D /\ wrote'.half = h
OBVIOUS

LEMMA Quietly ==
  ASSUME NEW D \in SUBSET Dates, Wrote(D)
  PROVE  wrote' \in [days : SUBSET Dates, half : BOOLEAN] /\ wrote'.days = D
BY WroteForm DEF Wrote

LEMMA Merged ==
  ASSUME line \in [Dates -> [Slots -> Values]], NEW d \in Dates, NEW lines \in [Slots -> Values],
         NEW named \in SUBSET Slots, Merge(d, lines, named)
  PROVE  line' \in [Dates -> [Slots -> Values]] /\ \A e \in Dates \ {d} : line'[e] = line[e]
<1> DEFINE new == [i \in Slots |-> IF i \in named THEN lines[i] ELSE line[d][i]]
<1>1. new \in [Slots -> Values]
  OBVIOUS
<1>2. line' = [line EXCEPT ![d] = new]
  BY DEF Merge
<1> HIDE DEF new
<1> QED BY <1>1, <1>2

\* A sheet takes a state.
LEMMA SheetSet ==
  ASSUME sheetSt \in [Dates -> SheetStates], NEW d, NEW s \in SheetStates, sheetSt' = [sheetSt EXCEPT ![d] = s]
  PROVE  /\ sheetSt' \in [Dates -> SheetStates]
         /\ \A e \in Dates : sheetSt'[e] = IF e = d THEN s ELSE sheetSt[e]
OBVIOUS

----------------------------------------------------------------------------
(* Stock sheets: every step.                                                *)

\* A request that is under way is about a date.
Seated == seat.pc # "idle" => seat.date \in Dates

StockInv == StockTypeOK /\ Seated /\ DaysAfterBaseline

LEMMA StockInitInv == StockInit => StockInv
<1> SUFFICES ASSUME StockInit
             PROVE  StockInv
  OBVIOUS
<1>1. wrote \in [days : SUBSET Dates, half : BOOLEAN]
  <2>1. FALSE \in BOOLEAN
    OBVIOUS
  <2> QED BY <2>1 DEF StockInit
<1>2. StockTypeOK
  BY <1>1, SeatForms, StockTypes DEF StockInit, SheetStates
<1>3. UpTo(base) = {} /\ Seated
  BY DEF StockInit, UpTo, LiveSheet, Seated, NoSeat
<1> QED BY <1>2, <1>3 DEF StockInv, DaysAfterBaseline

LEMMA SheetsSame ==
  ASSUME StockInv, seat' \in SeatRow, Seated', Reads
  PROVE  StockInv' /\ SheetsTravel
<1>1. wrote' \in [days : SUBSET Dates, half : BOOLEAN] /\ UNCHANGED <<base, sheetSt, line, slipped>>
  BY Quietly DEF Reads
<1>2. StockTypeOK'
  BY <1>1 DEF StockInv, StockTypeOK, SeatRow
<1> QED BY <1>1, <1>2 DEF StockInv, DaysAfterBaseline, UpTo, LiveSheet, SheetsTravel

\* A step that writes: whichever sheets are live on the wrong side afterwards are known.
LEMMA SheetsWritten ==
  ASSUME StockInv, base' \in 0..LastDate, sheetSt' \in [Dates -> SheetStates], line' \in [Dates -> [Slots -> Values]],
         seat' \in {seat, NoSeat}, slipped' \subseteq Dates, wrote' \in [days : SUBSET Dates, half : BOOLEAN],
         \A d \in Dates : sheetSt'[d] = "live" /\ d <= base' => d \in slipped'
  PROVE  StockInv'
<1>1. seat' \in SeatRow /\ Seated'
  <2>1. seat \in SeatRow /\ Seated
    BY StockTypes DEF StockInv
  <2>2. CASE seat' = seat
    BY <2>1, <2>2 DEF Seated
  <2>3. CASE seat' = NoSeat
    BY <2>3, SeatForms DEF Seated
  <2> QED BY <2>2, <2>3
<1>2. StockTypeOK'
  BY <1>1 DEF StockTypeOK, SheetStates, SeatRow
<1> QED BY <1>1, <1>2 DEF StockInv, DaysAfterBaseline, UpTo, LiveSheet

\* What a step does to types, to the baseline's promise, and to what is pulled.
LEMMA StockStep ==
  ASSUME StockInv, StockNext
  PROVE  StockInv' /\ SheetsTravel
<1>1. /\ base \in 0..LastDate /\ sheetSt \in [Dates -> SheetStates] /\ line \in [Dates -> [Slots -> Values]]
      /\ seat \in SeatRow /\ slipped \subseteq Dates
      /\ \A d \in Dates : sheetSt[d] = "live" /\ d <= base => d \in slipped
  BY StockTypes DEF StockInv, DaysAfterBaseline, UpTo, LiveSheet
<1>2. seat.date \in 0..LastDate /\ seat.lines \in [Slots -> Values] /\ seat.named \in SUBSET Slots
      /\ (seat.pc # "idle" => seat.date \in Dates)
  BY <1>1 DEF StockInv, SeatRow, Seated
<1>3. ASSUME NEW d \in Dates, CountDays(d) \/ CheckBaseline(d) \/ FindToDelete(d)
      PROVE  StockInv' /\ SheetsTravel
  <2>1. seat' \in SeatRow /\ seat'.date = d
    BY <1>3, SeatTaken DEF CountDays, CheckBaseline, FindToDelete
  <2> QED BY <1>3, <2>1, SheetsSame DEF CountDays, CheckBaseline, FindToDelete, Seated
<1>4. CASE CheckAbsent
  <2>1. seat' = NoSeat \/ (seat' = [seat EXCEPT !.pc = "create"] /\ seat.pc = "absent")
    BY <1>4 DEF CheckAbsent
  <2>2. seat' \in SeatRow /\ Seated'
    BY <1>1, <1>2, <2>1, SeatForms, SeatMoved DEF Seated
  <2> QED BY <1>4, <2>2, SheetsSame DEF CheckAbsent
<1>5. ASSUME NEW d \in Dates, NEW i \in Slots, NEW v \in Values, FindDay(d, i, v)
      PROVE  StockInv' /\ SheetsTravel
  <2>1. [Blank EXCEPT ![i] = v] \in [Slots -> Values] /\ d \in 0..LastDate
    BY SeatForms
  <2>2. seat' \in SeatRow /\ Seated'
    BY <1>5, <2>1 DEF FindDay, SeatRow, Seated
  <2> QED BY <1>5, <2>2, SheetsSame DEF FindDay
<1>6. CASE PutBaseline
  <2>1. base' = seat.date /\ seat' = NoSeat /\ slipped' = UpTo(seat.date) /\ Wrote({}) /\ UNCHANGED <<sheetSt, line>>
    BY <1>6 DEF PutBaseline
  <2>2. wrote' \in [days : SUBSET Dates, half : BOOLEAN]
    BY <2>1, Quietly
  <2> QED BY <1>1, <1>2, <2>1, <2>2, SheetsWritten DEF UpTo, LiveSheet, SheetsTravel
<1>7. CASE CreateDay
  <2>1. CASE LiveSheet(seat.date)
    <3>1. seat' = NoSeat /\ Reads
      BY <1>7, <2>1 DEF CreateDay, Reads
    <3> QED BY <3>1, SeatForms, SheetsSame DEF Seated, NoSeat
  <2>2. CASE ~LiveSheet(seat.date)
    <3>1. /\ sheetSt' = [sheetSt EXCEPT ![seat.date] = "live"] /\ seat' = NoSeat /\ Wrote({seat.date})
          /\ UNCHANGED <<base, line>> /\ seat.date \in Dates
          /\ slipped' = IF After(seat.date) THEN slipped ELSE slipped \cup {seat.date}
      BY <1>2, <1>7, <2>2 DEF CreateDay
    <3>2. wrote' \in [days : SUBSET Dates, half : BOOLEAN] /\ wrote'.days = {seat.date}
      BY <3>1, Quietly
    <3>3. /\ sheetSt' \in [Dates -> SheetStates]
          /\ \A e \in Dates : sheetSt'[e] = IF e = seat.date THEN "live" ELSE sheetSt[e]
      BY <1>1, <3>1, SheetSet DEF SheetStates
    <3>4. After(seat.date) => ~(seat.date <= base)
      BY <1>1, <1>2 DEF After
    <3> QED BY <1>1, <1>2, <3>1, <3>2, <3>3, <3>4, SheetsWritten DEF SheetsTravel
  <2> QED BY <2>1, <2>2
<1>8. CASE WriteLine
  <2>1. seat.date \in Dates /\ seat' = NoSeat /\ UNCHANGED <<base, sheetSt, slipped>>
    BY <1>2, <1>8 DEF WriteLine
  <2>2. CASE sheetSt[seat.date] = "none"
    <3>1. Reads
      BY <1>8, <2>2 DEF WriteLine, Reads
    <3> QED BY <2>1, <3>1, SeatForms, SheetsSame DEF Seated, NoSeat
  <2>3. CASE sheetSt[seat.date] # "none"
    <3>1. Merge(seat.date, seat.lines, seat.named) /\ Wrote({seat.date})
      BY <1>8, <2>3 DEF WriteLine
    <3>2. line' \in [Dates -> [Slots -> Values]] /\ \A e \in Dates \ {seat.date} : line'[e] = line[e]
      BY <1>1, <1>2, <2>1, <3>1, Merged
    <3>3. wrote' \in [days : SUBSET Dates, half : BOOLEAN] /\ wrote'.days = {seat.date}
      BY <2>1, <3>1, Quietly
    <3> QED BY <1>1, <2>1, <3>2, <3>3, SheetsWritten DEF SheetsTravel
  <2> QED BY <2>2, <2>3
<1>9. ASSUME NEW d \in Dates, Gone(d), Wrote({d}), seat' \in {seat, NoSeat}, UNCHANGED <<base, line>>
      PROVE  StockInv' /\ SheetsTravel
  <2>1. \/ sheetSt[d] = "live" /\ sheetSt' = [sheetSt EXCEPT ![d] = "dead"]
        \/ sheetSt[d] # "live" /\ sheetSt' = sheetSt
    BY <1>1, <1>9 DEF Gone
  <2>2. /\ sheetSt' \in [Dates -> SheetStates] /\ sheetSt'[d] # "live"
        /\ \A e \in Dates \ {d} : sheetSt'[e] = sheetSt[e]
    BY <1>1, <2>1 DEF SheetStates
  <2>3. wrote' \in [days : SUBSET Dates, half : BOOLEAN] /\ wrote'.days = {d} /\ slipped' = slipped \ {d}
    BY <1>9, Quietly DEF Gone
  <2> QED BY <1>1, <1>9, <2>2, <2>3, SheetsWritten DEF SheetsTravel
<1>10. CASE DeleteDay
  <2>1. seat.date \in Dates
    BY <1>2, <1>10 DEF DeleteDay
  <2> QED BY <1>9, <1>10, <2>1 DEF DeleteDay
<1>11. ASSUME NEW d \in Dates, PushDayDelete(d)
       PROVE  StockInv' /\ SheetsTravel
  BY <1>9, <1>11 DEF PushDayDelete
<1>12. ASSUME NEW d \in Dates, PurgeDay(d)
       PROVE  StockInv' /\ SheetsTravel
  <2>1. /\ sheetSt' = [sheetSt EXCEPT ![d] = "none"] /\ line' = [line EXCEPT ![d] = Blank]
        /\ Wrote({}) /\ UNCHANGED <<base, seat, slipped>>
    BY <1>12 DEF PurgeDay
  <2>2. /\ sheetSt' \in [Dates -> SheetStates]
        /\ \A e \in Dates : sheetSt'[e] = IF e = d THEN "none" ELSE sheetSt[e]
    BY <1>1, <2>1, SheetSet DEF SheetStates
  <2>3. line' \in [Dates -> [Slots -> Values]] /\ \A e \in Dates \ {d} : line'[e] = line[e]
    BY <1>1, <2>1, SeatForms
  <2>4. wrote' \in [days : SUBSET Dates, half : BOOLEAN]
    BY <2>1, Quietly
  <2> QED BY <1>1, <2>1, <2>2, <2>3, <2>4, SheetsWritten DEF SheetsTravel
<1>13. ASSUME NEW d \in Dates, NEW named \in SUBSET Slots, NEW bad \in BOOLEAN, NEW lines \in [Slots -> Values],
              PushDay(d, lines, named, bad)
       PROVE  StockInv' /\ SheetsTravel
  <2>1. /\ sheetSt' = [sheetSt EXCEPT ![d] = "live"] /\ UNCHANGED <<base, seat, slipped>> /\ After(d)
    BY <1>13 DEF PushDay
  <2>2. /\ sheetSt' \in [Dates -> SheetStates]
        /\ \A e \in Dates : sheetSt'[e] = IF e = d THEN "live" ELSE sheetSt[e]
    BY <1>1, <2>1, SheetSet DEF SheetStates
  <2>3. ~(d <= base)
    BY <1>1, <2>1 DEF After, Dates
  <2>4. \E W \in SUBSET Slots : Merge(d, lines, W)
    BY <1>13 DEF PushDay
  <2>5. line' \in [Dates -> [Slots -> Values]] /\ \A e \in Dates \ {d} : line'[e] = line[e]
    BY <1>1, <2>4, Merged
  <2>6. wrote' \in [days : SUBSET Dates, half : BOOLEAN] /\ (wrote'.half \/ wrote'.days = {d})
    <3>1. CASE bad
      <4> DEFINE D == IF LiveSheet(d) THEN {} ELSE {d}
      <4>1. D \in SUBSET Dates /\ wrote' = [days |-> D, half |-> TRUE] /\ TRUE \in BOOLEAN
        BY <1>13, <3>1 DEF PushDay
      <4> HIDE DEF D
      <4> QED BY <4>1
    <3>2. CASE ~bad
      <4>1. Wrote({d})
        BY <1>13, <3>2 DEF PushDay
      <4> QED BY <4>1, Quietly
    <3> QED BY <3>1, <3>2
  <2> QED BY <1>1, <2>1, <2>2, <2>3, <2>5, <2>6, SheetsWritten DEF SheetsTravel
<1>14. ASSUME NEW d \in Dates, PushBaseline(d)
       PROVE  StockInv' /\ SheetsTravel
  <2>1. base' = d /\ UpTo(d) = {} /\ Wrote({}) /\ UNCHANGED <<sheetSt, line, seat, slipped>> /\ d \in 0..LastDate
    BY <1>14, SeatForms DEF PushBaseline
  <2>2. wrote' \in [days : SUBSET Dates, half : BOOLEAN]
    BY <2>1, Quietly
  <2> QED BY <1>1, <2>1, <2>2, SheetsWritten DEF UpTo, LiveSheet, SheetsTravel
<1>15. CASE ClearSheets
  <2>1. /\ base' = 0 /\ slipped' = {} /\ UNCHANGED <<line, seat>>
        /\ sheetSt' = [d \in Dates |-> IF LiveSheet(d) THEN "dead" ELSE sheetSt[d]]
        /\ Wrote({d \in Dates : LiveSheet(d)})
    BY <1>15 DEF ClearSheets
  <2>2. /\ sheetSt' \in [Dates -> SheetStates]
        /\ \A e \in Dates : sheetSt'[e] # "live" /\ (~LiveSheet(e) => sheetSt'[e] = sheetSt[e])
    BY <1>1, <2>1 DEF SheetStates, LiveSheet
  <2>3. wrote' \in [days : SUBSET Dates, half : BOOLEAN] /\ wrote'.days = {d \in Dates : LiveSheet(d)}
    BY <2>1, Quietly
  <2>4. base' \in 0..LastDate
    BY <2>1, StockConstants
  <2> QED BY <1>1, <2>1, <2>2, <2>3, <2>4, SheetsWritten DEF SheetsTravel
<1>16. ASSUME NEW d \in Dates, RestoreBaseline(d)
       PROVE  StockInv' /\ SheetsTravel
  <2>1. base' = d /\ slipped' = UpTo(d) /\ Wrote({}) /\ UNCHANGED <<sheetSt, line, seat>> /\ d \in 0..LastDate
    BY <1>16, SeatForms DEF RestoreBaseline
  <2>2. wrote' \in [days : SUBSET Dates, half : BOOLEAN]
    BY <2>1, Quietly
  <2> QED BY <1>1, <2>1, <2>2, SheetsWritten DEF UpTo, LiveSheet, SheetsTravel
<1>17. ASSUME NEW d \in Dates, NEW lines \in [Slots -> Values], RestoreDay(d, lines)
       PROVE  StockInv' /\ SheetsTravel
  <2>1. /\ sheetSt' = [sheetSt EXCEPT ![d] = "live"] /\ line' = [line EXCEPT ![d] = lines]
        /\ slipped' = (IF d <= base THEN slipped \cup {d} ELSE slipped)
        /\ Wrote({d}) /\ UNCHANGED <<base, seat>>
    BY <1>17 DEF RestoreDay
  <2>2. /\ sheetSt' \in [Dates -> SheetStates]
        /\ \A e \in Dates : sheetSt'[e] = IF e = d THEN "live" ELSE sheetSt[e]
    BY <1>1, <2>1, SheetSet DEF SheetStates
  <2>3. line' \in [Dates -> [Slots -> Values]] /\ \A e \in Dates \ {d} : line'[e] = line[e]
    BY <1>1, <2>1
  <2>4. wrote' \in [days : SUBSET Dates, half : BOOLEAN] /\ wrote'.days = {d}
    BY <2>1, Quietly
  <2>5. slipped' \subseteq Dates /\ slipped \subseteq slipped' /\ (d <= base => d \in slipped')
    BY <1>1, <2>1
  <2> QED BY <1>1, <2>1, <2>2, <2>3, <2>4, <2>5, SheetsWritten DEF SheetsTravel
<1> QED BY <1>3, <1>4, <1>5, <1>6, <1>7, <1>8, <1>10, <1>11, <1>12, <1>13, <1>14, <1>15, <1>16, <1>17 DEF StockNext

LEMMA StockNextInv == StockInv /\ [StockNext]_stockVars => StockInv' /\ (SheetsTravel \/ UNCHANGED stockVars)
<1> SUFFICES ASSUME StockInv, [StockNext]_stockVars
             PROVE  StockInv' /\ (SheetsTravel \/ UNCHANGED stockVars)
  OBVIOUS
<1>1. CASE UNCHANGED stockVars
  BY <1>1 DEF stockVars, StockInv, StockTypeOK, Seated, DaysAfterBaseline, UpTo, LiveSheet
<1> QED BY <1>1, StockStep

\* No sheet is live on or before the baseline's date but one that appeared, or
\* that the baseline passed, between a request's check and its write, or that a
\* restore brought or passed, which looks at neither (backup/backupImport.ts:130-179).
THEOREM BaselineFirst == StockSpec => []DaysAfterBaseline
<1>1. StockInv => DaysAfterBaseline
  BY DEF StockInv
<1> QED BY <1>1, StockInitInv, StockNextInv, PTL DEF StockSpec

\* Every step that changes what a pull sends of a sheet bumps that sheet, but for
\* a push that is rejected half-way (stock/service.ts, sync/appliers.ts).
THEOREM SheetsSeen == StockSpec => [][SheetsTravel]_stockVars
<1>1. StockInv /\ [StockNext]_stockVars => [SheetsTravel]_stockVars
  BY StockNextInv
<1>2. StockInv /\ [StockNext]_stockVars => StockInv'
  BY StockNextInv
<1> QED BY <1>1, <1>2, StockInitInv, PTL DEF StockSpec

----------------------------------------------------------------------------
(* The records of a firm together, as MCRecords joins them.                 *)

\* A step of the joined records is, of the masters and of the sheets, a step or
\* a stutter.
LEMMA RecordsPart == [RecordsNext]_recordVars => [MastersNext]_masterVars /\ [StockNext]_stockVars
BY DEF RecordsNext, MastersPart, PurchasesPart, ClaimsPart, StockPart, DepotPart, recordVars

\* What leaves the masters and the sheets alone leaves nothing for a pull to miss.
LEMMA NothingToSee ==
  /\ UNCHANGED masterVars => MastersTravel
  /\ UNCHANGED stockVars => SheetsTravel
BY DEF MastersTravel, SheetsTravel, masterVars, stockVars

\* Whatever REST writes, pushes and cascades do to the masters, to what names
\* them and to the sheets, a row that a pull would send differently was updated
\* by the step that changed it (masters/cascade.ts, stock/service.ts).
THEOREM ChangesAreSeen == RecordsSpec => ChangesSeen
<1> DEFINE Inv == MastersInv /\ StockInv
<1>1. RecordsInit => Inv
  BY MastersInitInv, StockInitInv DEF RecordsInit
<1>2. Inv /\ [RecordsNext]_recordVars => Inv'
  BY RecordsPart, MastersNextInv, StockNextInv
<1>3. Inv /\ [RecordsNext]_recordVars => MastersTravel /\ SheetsTravel
  BY RecordsPart, NothingToSee, MastersStep, StockNextInv
<1>4. Inv /\ [RecordsNext]_recordVars => [MastersTravel /\ SheetsTravel]_recordVars
  BY <1>3
<1> QED BY <1>1, <1>2, <1>4, PTL DEF RecordsSpec, ChangesSeen

----------------------------------------------------------------------------
(* The depot diary: types and the rows its steps write.                     *)

DiaryRow == [st : {"none", "live", "dead"}, rev : 0..MaxRow, kind : Kinds, extra : BOOLEAN, body : Bodies]
HeldRow  == [rev : 0..MaxRow, kind : Kinds, body : Bodies]
Content  == [kind : Kinds, extra : BOOLEAN, body : Bodies]
LoadRec  == [todo : SUBSET Entry, file : SUBSET Entry, quiet : BOOLEAN]
Tied     == Deliveries \cup Adjusts \cup Moves \cup Items

LEMMA DepotTypes ==
  DepotTypeOK <=>
    /\ diary \in [Row -> DiaryRow] /\ held \in [Devices -> [Row -> HeldRow]] /\ late \subseteq Row
    /\ load \in LoadRec /\ author \in {"old", "new", "other"}
BY DEF DepotTypeOK, DiaryRow, HeldRow, LoadRec

\* Which table a row is of.
LEMMA Tables ==
  /\ Deliveries \cup Moves \cup Adjusts \subseteq Gated /\ Gated \subseteq Row
  /\ Gated \cap (Items \cup Settings) = {}
  /\ \A r \in Moves : \E i \in Items : Needs[r] = {i}
  /\ \A r \in Deliveries : \E t \in Trucks : Needs[r] = {t}
  /\ Trucks \cap (Deliveries \cup Moves) = {} /\ Trucks \cap Items = {} /\ Deliveries \cap (Adjusts \cup Moves) = {}
  /\ Moves \cap DayNotes = {} /\ Items \cap Sheets = {} /\ Trucks \cup Items \subseteq Row
BY DepotConstants, DepotTables DEF Row

LEMMA BoundsNat == MaxRow \in Nat
BY DepotConstants

\* A row that is put, beside those that are not.
LEMMA PutRow ==
  ASSUME diary \in [Row -> DiaryRow], NEW r \in Row, NEW k \in Kinds, NEW x \in BOOLEAN, NEW b \in Bodies,
         diary[r].rev < MaxRow, NEW d,
         d = [diary EXCEPT ![r] = [st |-> "live", rev |-> @.rev + 1, kind |-> k, extra |-> x, body |-> b]]
  PROVE  /\ d \in [Row -> DiaryRow] /\ \A y \in Row \ {r} : d[y] = diary[y]
         /\ d[r].st = "live" /\ d[r].rev = diary[r].rev + 1 /\ d[r].kind = k /\ d[r].extra = x /\ d[r].body = b
<1> DEFINE row == [st |-> "live", rev |-> diary[r].rev + 1, kind |-> k, extra |-> x, body |-> b]
<1>1. diary[r].rev \in 0..MaxRow
  BY DEF DiaryRow
<1>2. diary[r].rev + 1 \in 0..MaxRow
  BY <1>1, BoundsNat
<1>3. /\ row \in DiaryRow /\ row.st = "live" /\ row.rev = diary[r].rev + 1
      /\ row.kind = k /\ row.extra = x /\ row.body = b
  BY <1>2 DEF DiaryRow
<1>4. d = [diary EXCEPT ![r] = row]
  OBVIOUS
<1> HIDE DEF row
<1> QED BY <1>3, <1>4

LEMMA BuriedRow ==
  ASSUME NEW e \in DiaryRow, e.rev < MaxRow
  PROVE  LET q == [e EXCEPT !.st = "dead", !.rev = e.rev + 1] IN
         q \in DiaryRow /\ q.st = "dead" /\ q.kind = e.kind /\ q.rev >= e.rev
<1>1. e.rev \in 0..MaxRow
  BY DEF DiaryRow
<1>2. e.rev + 1 \in 0..MaxRow /\ e.rev + 1 >= e.rev
  BY <1>1, BoundsNat
<1> DEFINE n == e.rev + 1
<1> HIDE DEF n
<1>3. n \in 0..MaxRow /\ n >= e.rev
  BY <1>2 DEF n
<1>4. LET q == [e EXCEPT !.st = "dead", !.rev = n] IN
      q \in DiaryRow /\ q.st = "dead" /\ q.kind = e.kind /\ q.rev = n
  BY <1>3 DEF DiaryRow
<1> QED BY <1>3, <1>4 DEF n

\* The rows of R are buried; nothing else changes.
LEMMA Burial ==
  ASSUME diary \in [Row -> DiaryRow], NEW R, \A r \in R \cap Row : LiveRow(r) => diary[r].rev < MaxRow,
         NEW d, d = Tombstoned(R)
  PROVE  /\ d \in [Row -> DiaryRow]
         /\ \A r \in Row : d[r].st = "live" <=> LiveRow(r) /\ r \notin R
         /\ \A r \in Row : /\ d[r].kind = diary[r].kind /\ d[r].rev >= diary[r].rev
                           /\ d[r].st = "none" <=> diary[r].st = "none"
         /\ \A r \in Row : d[r].st = "live" => d[r] = diary[r]
<1> DEFINE Interred(r) == [diary[r] EXCEPT !.st = "dead", !.rev = diary[r].rev + 1]
<1>1. ASSUME NEW r \in Row, LiveRow(r), r \in R
      PROVE  /\ Interred(r) \in DiaryRow /\ Interred(r).st = "dead" /\ Interred(r).kind = diary[r].kind
             /\ Interred(r).rev >= diary[r].rev
  <2>1. diary[r] \in DiaryRow /\ diary[r].rev < MaxRow
    BY <1>1
  <2> QED BY <1>1, <2>1, BuriedRow
<1>2. d = [r \in Row |-> IF r \in R /\ LiveRow(r) THEN Interred(r) ELSE diary[r]]
  BY DEF Tombstoned
<1> HIDE DEF Interred
<1>3. \A r \in Row : IF r \in R /\ LiveRow(r) THEN d[r] = Interred(r) ELSE d[r] = diary[r]
  BY <1>2
<1>4. d \in [Row -> DiaryRow]
  BY <1>1, <1>2
<1>5. \A r \in Row : diary[r].rev \in Nat
  BY DEF DiaryRow
<1> QED BY <1>1, <1>3, <1>4, <1>5 DEF LiveRow

\* What the server makes of a mutation.
LEMMA CarriedForm ==
  ASSUME diary \in [Row -> DiaryRow], NEW v, NEW r \in Row, NEW w \in Content
  PROVE  /\ Carried(v, r, w).kind = IF Stays(v, r, w) THEN "special" ELSE w.kind
         /\ Carried(v, r, w).kind \in Kinds
         /\ Carried(v, r, w).extra = IF ThereRow(r) /\ v \in OldApps THEN diary[r].extra ELSE w.extra
         /\ Carried(v, r, w).extra \in BOOLEAN
         /\ Carried(v, r, w).body = w.body /\ Carried(v, r, w).body \in Bodies
<1>1. diary[r].extra \in BOOLEAN /\ w.extra \in BOOLEAN
  BY DEF DiaryRow, Content
<1> DEFINE x == IF ThereRow(r) /\ v \in OldApps THEN diary[r].extra ELSE w.extra
<1>2. x \in BOOLEAN
  BY <1>1
<1>3. Carried(v, r, w).extra = x
  BY DEF Carried
<1> HIDE DEF x
<1>4. /\ Carried(v, r, w).kind = IF Stays(v, r, w) THEN "special" ELSE w.kind
      /\ Carried(v, r, w).kind \in Kinds
      /\ Carried(v, r, w).body = w.body /\ Carried(v, r, w).body \in Bodies
  BY DEF Carried, Content, Kinds
<1> QED BY <1>2, <1>3, <1>4 DEF x

----------------------------------------------------------------------------
(* The depot diary: the invariant.                                          *)

\* Only what is tied to something, or newer than the old app, is special.
Special ==
  /\ \A r \in Row : diary[r].kind = "special" => r \in Tied
  /\ \A e \in load.file \cup load.todo : e.kind = "special" => e.row \in Tied

\* A row that never was has no kind to keep.
Fresh == \A r \in Row : diary[r].st = "none" => diary[r].kind = "plain"

\* No device has a later revision than the server.
CopiesBehind == \A v \in Devices, r \in Row : held[v][r].rev <= diary[r].rev

\* What a restore nobody ran into has still to write names what is there, or what
\* it will write before.
Backed ==
  load.quiet => \A e \in load.todo : e.row \in Deliveries \cup Moves =>
    \A n \in Named(e.row, e.kind) : LiveRow(n) \/ \E x \in load.todo : x.row = n

DepotInv == DepotTypeOK /\ Special /\ Fresh /\ CopiesBehind /\ Backed /\ DiaryWhole /\ DiaryGate

\* What an old app's step keeps.
OldStep ==
  author' = "old" =>
    \A r \in Row : LiveRow(r) /\ diary'[r].st = "live" =>
      /\ diary'[r].extra = diary[r].extra
      /\ diary[r].kind = "special" => diary'[r].kind = "special" \/ r \in Deliveries

LEMMA LoadForms ==
  /\ NoLoad \in LoadRec /\ NoLoad.todo = {} /\ NoLoad.file = {}
  /\ \A b \in BOOLEAN, l \in LoadRec :
       LET q == [l EXCEPT !.quiet = b] IN q \in LoadRec /\ q.todo = l.todo /\ q.file = l.file /\ q.quiet = b
<1> DEFINE b == TRUE
<1>1. b \in BOOLEAN /\ NoLoad = [todo |-> {}, file |-> {}, quiet |-> b]
  BY DEF NoLoad
<1> HIDE DEF b
<1>2. NoLoad \in LoadRec /\ NoLoad.todo = {} /\ NoLoad.file = {}
  BY <1>1 DEF LoadRec
<1> QED BY <1>2 DEF LoadRec

LEMMA Interrupted ==
  ASSUME load \in LoadRec, NEW v, By(v)
  PROVE  /\ load' \in LoadRec /\ load'.todo = load.todo /\ load'.file = load.file /\ ~load'.quiet
         /\ author' \in {"old", "new"} /\ (author' = "old" => v \in OldApps)
<1> DEFINE b == FALSE
<1>1. b \in BOOLEAN /\ load' = [load EXCEPT !.quiet = b]
  BY DEF By
<1>2. ~b
  OBVIOUS
<1> HIDE DEF b
<1>3. load' \in LoadRec /\ load'.todo = load.todo /\ load'.file = load.file /\ load'.quiet = b
  BY <1>1 DEF LoadRec
<1> QED BY <1>2, <1>3 DEF By

LEMMA Bares ==
  Bodies # {} => Bare \in DiaryRow /\ Bare.kind = "plain" /\ Bare.st = "none" /\ Bare.rev = 0 /\ Bare.body \in Bodies
                 /\ NoHeld \in HeldRow /\ NoHeld.rev = 0
<1> SUFFICES ASSUME Bodies # {}
             PROVE  Bare \in DiaryRow /\ Bare.kind = "plain" /\ Bare.st = "none" /\ Bare.rev = 0 /\ Bare.body \in Bodies
                    /\ NoHeld \in HeldRow /\ NoHeld.rev = 0
  OBVIOUS
<1> DEFINE x == FALSE
           b == CHOOSE b \in Bodies : TRUE
<1>1. x \in BOOLEAN /\ b \in Bodies /\ 0 \in 0..MaxRow
  BY BoundsNat
<1>2. Bare = [st |-> "none", rev |-> 0, kind |-> "plain", extra |-> x, body |-> b]
  BY DEF Bare
<1> HIDE DEF x, b
<1>3. Bare \in DiaryRow /\ Bare.kind = "plain" /\ Bare.st = "none" /\ Bare.rev = 0 /\ Bare.body \in Bodies
  BY <1>1, <1>2 DEF DiaryRow, Kinds
<1> QED BY <1>1, <1>3 DEF NoHeld, HeldRow, Kinds

LEMMA DepotInitInv == DepotInit => DepotInv
<1> SUFFICES ASSUME DepotInit
             PROVE  DepotInv
  OBVIOUS
<1>1. Bodies # {}
  BY DepotConstants
<1>2. \A r \in Row : diary[r] = Bare
  BY DEF DepotInit
<1>3. \A v \in Devices, r \in Row : held[v][r].rev = 0
  BY <1>1, Bares DEF DepotInit
<1>4. DepotTypeOK
  BY <1>1, Bares, LoadForms, DepotTypes DEF DepotInit
<1>5. Special /\ Fresh
  BY <1>1, <1>2, Bares, LoadForms DEF DepotInit, Special, Fresh
<1>6. CopiesBehind /\ Backed
  BY <1>1, <1>2, <1>3, Bares, LoadForms DEF DepotInit, CopiesBehind, Backed
<1>7. DiaryWhole /\ DiaryGate
  <2>1. Deliveries \cup Moves \cup Gated \subseteq Row
    BY Tables
  <2> QED BY <1>1, <1>2, <2>1, Bares DEF DiaryWhole, DiaryGate, LiveRow
<1> QED BY <1>4, <1>5, <1>6, <1>7 DEF DepotInv

----------------------------------------------------------------------------
(* The depot diary: an upsert.                                              *)

\* What is stored of a special kind is of a table that has one, and what an old
\* app writes over keeps its kind and what that app does not know.
LEMMA CarriedKind ==
  ASSUME DepotInv, NEW v \in Devices, NEW r \in Row, NEW w \in Content, Sendable(v, r, w),
         NEW c, c = Carried(v, r, w)
  PROVE  /\ c.kind = "special" => r \in Tied
         /\ v \in OldApps /\ LiveRow(r) => /\ c.extra = diary[r].extra
                                           /\ diary[r].kind = "special" => c.kind = "special" \/ r \in Deliveries
<1>1. diary \in [Row -> DiaryRow] /\ Special
  BY DepotTypes DEF DepotInv
<1>2. /\ c.kind = IF Stays(v, r, w) THEN "special" ELSE w.kind
      /\ w.kind \in {"plain", "special"} /\ diary[r].kind \in {"plain", "special"}
  <2>1. c.kind = IF Stays(v, r, w) THEN "special" ELSE w.kind
    BY <1>1, CarriedForm
  <2> QED BY <1>1, <2>1 DEF Content, Kinds, DiaryRow
<1>3. c.kind = "special" => r \in Tied
  BY <1>1, <1>2 DEF Stays, AdjustCarries, MoveCarries, Sendable, Special, Tied
<1>4. v \in OldApps /\ LiveRow(r) => c.extra = diary[r].extra
  BY DEF Carried, LiveRow, ThereRow
<1>5. v \in OldApps /\ diary[r].kind = "special" => c.kind = "special" \/ r \in Deliveries
  BY <1>1, <1>2 DEF Stays, AdjustCarries, MoveCarries, Sendable, Special, Tied
<1> QED BY <1>3, <1>4, <1>5

\* What the device sent is what it sees of what is stored.
LEMMA CarriedSeen ==
  ASSUME DepotInv, NEW v \in Devices, NEW r \in Gated, NEW w \in Content, Sendable(v, r, w),
         NEW c, c = Carried(v, r, w),
         ~ThereRow(r) \/ Revives(r) \/ (LiveRow(r) /\ held[v][r].rev = diary[r].rev)
  PROVE  c.body = w.body /\ w.kind = View(v, r, c.kind)
<1>1. diary \in [Row -> DiaryRow] /\ r \in Row
  BY DepotTypes, Tables DEF DepotInv
<1>2. /\ c.kind = IF Stays(v, r, w) THEN "special" ELSE w.kind
      /\ c.body = w.body
      /\ w.kind \in {"plain", "special"} /\ diary[r].kind \in {"plain", "special"}
  <2>1. c.kind = (IF Stays(v, r, w) THEN "special" ELSE w.kind) /\ c.body = w.body
    BY <1>1, CarriedForm
  <2> QED BY <1>1, <2>1 DEF Content, Kinds, DiaryRow
<1>3. CASE Stays(v, r, w) /\ v \in OldApps
  BY <1>2, <1>3, Tables DEF Stays, AdjustCarries, MoveCarries, View
<1>4. CASE Stays(v, r, w) /\ v \notin OldApps
  <2>1. r \in Moves /\ diary[r].kind = "special" /\ w.kind = "plain"
    BY <1>4, Tables DEF Stays, AdjustCarries, MoveCarries
  <2>2. ThereRow(r) /\ ~Revives(r)
    BY <1>1, <2>1, Tables DEF DepotInv, Fresh, ThereRow, Revives
  <2>3. held[v][r].kind = "special"
    BY <1>4, <2>1, <2>2 DEF DepotInv, DiaryGate, View
  <2> QED BY <1>4, <2>1, <2>3 DEF Sendable
<1>5. CASE ~Stays(v, r, w)
  BY <1>2, <1>5 DEF View, Sendable
<1> QED BY <1>3, <1>4, <1>5

\* The copies of a device after its mutation.
LEMMA ReportedForm ==
  ASSUME held \in [Devices -> [Row -> HeldRow]], NEW v \in Devices, NEW r \in Row, NEW c \in HeldRow, Reported(v, r, c)
  PROVE  /\ held' \in [Devices -> [Row -> HeldRow]]
         /\ \A u \in Devices, y \in Row : held'[u][y] = held[u][y] \/ (u = v /\ y = r /\ held'[u][y] = c)
<1>1. CASE held' = held
  BY <1>1
<1>2. CASE held' = [held EXCEPT ![v][r] = c]
  BY <1>2
<1> QED BY <1>1, <1>2 DEF Reported

LEMMA NeedsRows ==
  ASSUME NEW r \in Deliveries \cup Moves, NEW k, NEW n \in Named(r, k)
  PROVE  n \in Row /\ n \notin Deliveries \cup Moves /\ n \in Needs[r] /\ n \in Trucks \cup Items
         /\ (r \in Deliveries => k # "plain" /\ n \in Trucks) /\ (r \in Moves => n \in Items)
<1>1. n \in Needs[r] /\ (r \in Deliveries => k # "plain")
  BY DEF Named
<1>2. (r \in Deliveries => n \in Trucks) /\ (r \in Moves => n \in Items)
  BY <1>1, Tables
<1>3. n \in Trucks => n \notin Deliveries
  BY Tables
<1>4. n \in Items => n \notin Deliveries \cup Moves
  BY Tables
<1> QED BY <1>1, <1>2, <1>3, <1>4, Tables

LEMMA DepotTypedNext ==
  DepotTypeOK' <=>
    /\ diary' \in [Row -> DiaryRow] /\ held' \in [Devices -> [Row -> HeldRow]] /\ late' \subseteq Row
    /\ load' \in LoadRec /\ author' \in {"old", "new", "other"}
BY DEF DepotTypeOK, DiaryRow, HeldRow, LoadRec

\* A row r is put live as c, and the others stay: a delivery or a move that is not
\* late has what it names.
LEMMA WholeAfterPut ==
  ASSUME DepotInv, NEW r \in Row, NEW k, \A y \in Row \ {r} : diary'[y] = diary[y],
         diary'[r].st = "live", diary'[r].kind = k, late \ {r} \subseteq late',
         r \in (Deliveries \cup Moves) \ late' => \A n \in Named(r, k) : LiveRow(n) \/ n = r
  PROVE  DiaryWhole'
<1> SUFFICES ASSUME NEW y \in Deliveries \cup Moves, LiveRow(y)', y \notin late', NEW n \in Named(y, diary'[y].kind)
             PROVE  LiveRow(n)'
  BY DEF DiaryWhole, Named
<1>1. n \in Row /\ y \in Row
  BY NeedsRows, Tables
<1>2. LiveRow(n) \/ n = r
  <2>1. CASE y = r
    BY <2>1
  <2>2. CASE y # r
    BY <1>1, <2>2 DEF DepotInv, DiaryWhole, LiveRow
  <2> QED BY <2>1, <2>2
<1> QED BY <1>1, <1>2 DEF LiveRow

LEMMA Upserted ==
  ASSUME DepotInv, NEW v \in Devices, NEW r \in Row, NEW w \in Content, RecordUpsert(v, r, w) \/ Overwrite(v, r, w)
  PROVE  DepotInv' /\ OldStep
<1> DEFINE c == Carried(v, r, w)
<1>1. /\ diary \in [Row -> DiaryRow] /\ held \in [Devices -> [Row -> HeldRow]] /\ late \subseteq Row /\ load \in LoadRec
  BY DepotTypes DEF DepotInv
<1>2. diary' = Put(r, c) /\ diary[r].rev < MaxRow /\ Sendable(v, r, w) /\ By(v)
      /\ Reported(v, r, [rev |-> diary[r].rev + 1, kind |-> w.kind, body |-> w.body])
  BY DEF RecordUpsert, Overwrite, RoomIn
<1>3. \/ /\ r \in Gated /\ late' = Lateness(r, c)
         /\ ~ThereRow(r) \/ Revives(r) \/ (LiveRow(r) /\ held[v][r].rev = diary[r].rev)
      \/ r \notin Gated /\ late' = late
  BY DEF RecordUpsert, Overwrite
<1>4. c.kind \in Kinds /\ c.extra \in BOOLEAN /\ c.body \in Bodies
  BY <1>1, CarriedForm
<1>5. /\ c.kind = "special" => r \in Tied
      /\ v \in OldApps /\ LiveRow(r) => /\ c.extra = diary[r].extra
                                        /\ diary[r].kind = "special" => c.kind = "special" \/ r \in Deliveries
  BY <1>2, CarriedKind
<1>6. r \in Gated => c.body = w.body /\ w.kind = View(v, r, c.kind)
  BY <1>2, <1>3, CarriedSeen
<1> HIDE DEF c
<1>7. /\ diary' \in [Row -> DiaryRow] /\ \A y \in Row \ {r} : diary'[y] = diary[y]
      /\ diary'[r].st = "live" /\ diary'[r].rev = diary[r].rev + 1
      /\ diary'[r].kind = c.kind /\ diary'[r].extra = c.extra /\ diary'[r].body = c.body
  BY <1>1, <1>2, <1>4, PutRow DEF Put
<1> DEFINE seen == [rev |-> diary[r].rev + 1, kind |-> w.kind, body |-> w.body]
<1>8. seen \in HeldRow /\ seen.rev = diary'[r].rev /\ seen.kind = w.kind /\ seen.body = w.body
  <2>1. diary'[r].rev \in 0..MaxRow
    BY <1>7 DEF DiaryRow
  <2> QED BY <1>7, <2>1 DEF HeldRow, Content
<1>9. Reported(v, r, seen)
  BY <1>2
<1> HIDE DEF seen
<1>10. /\ held' \in [Devices -> [Row -> HeldRow]]
       /\ \A u \in Devices, y \in Row : held'[u][y] = held[u][y] \/ (u = v /\ y = r /\ held'[u][y] = seen)
  BY <1>1, <1>8, <1>9, ReportedForm
<1>11. /\ load' \in LoadRec /\ load'.todo = load.todo /\ load'.file = load.file /\ ~load'.quiet
       /\ author' \in {"old", "new"} /\ (author' = "old" => v \in OldApps)
  BY <1>1, <1>2, Interrupted
<1>12. late' \subseteq Row /\ late \ {r} \subseteq late'
  BY <1>1, <1>3 DEF Lateness
<1>13. DepotTypeOK'
  BY <1>7, <1>10, <1>11, <1>12, DepotTypedNext
<1>14. Special' /\ Fresh'
  BY <1>5, <1>7, <1>11 DEF DepotInv, Special, Fresh
<1>15. CopiesBehind' /\ Backed'
  <2>1. \A y \in Row : diary[y].rev \in Nat
    BY <1>1 DEF DiaryRow
  <2>2. \A u \in Devices, y \in Row : held[u][y].rev \in Nat
    BY <1>1 DEF HeldRow
  <2>3. CopiesBehind'
    BY <1>7, <1>8, <1>10, <2>1, <2>2 DEF DepotInv, CopiesBehind
  <2> QED BY <1>11, <2>3 DEF Backed
<1>16. DiaryWhole'
  <2>1. r \in Deliveries \cup Moves => late' = Lateness(r, c)
    BY <1>3, Tables
  <2>2. r \in (Deliveries \cup Moves) \ late' => \A n \in Named(r, c.kind) : LiveRow(n)
    BY <2>1 DEF Lateness
  <2> HIDE DEF c
  <2> QED BY <1>7, <1>12, <2>2, WholeAfterPut
<1>17. DiaryGate'
  <2> SUFFICES ASSUME NEW u \in Devices, NEW y \in Gated, LiveRow(y)', held'[u][y].rev = diary'[y].rev
               PROVE  held'[u][y].body = diary'[y].body /\ held'[u][y].kind = View(u, y, diary'[y].kind)
    BY DEF DiaryGate, View
  <2>1. y \in Row
    BY Tables
  <2>2. CASE held'[u][y] = seen /\ u = v /\ y = r
    BY <1>6, <1>7, <1>8, <2>2
  <2>3. CASE held'[u][y] = held[u][y] /\ y # r
    BY <1>7, <2>1, <2>3 DEF DepotInv, DiaryGate, LiveRow
  <2>4. CASE held'[u][y] = held[u][y] /\ y = r
    <3>1. held[u][r].rev <= diary[r].rev /\ diary[r].rev \in Nat /\ held[u][r].rev \in Nat
      BY <1>1 DEF DepotInv, CopiesBehind, DiaryRow, HeldRow
    <3> QED BY <1>7, <2>4, <3>1
  <2> QED BY <1>10, <2>1, <2>2, <2>3, <2>4
<1>18. OldStep
  BY <1>5, <1>7, <1>11 DEF OldStep, LiveRow
<1> QED BY <1>13, <1>14, <1>15, <1>16, <1>17, <1>18 DEF DepotInv

----------------------------------------------------------------------------
(* The depot diary: deletes, pulls, backups.                                *)

\* Rows that nothing live needs, or whose needers go too, can be buried.
LEMMA BuriedWhole ==
  ASSUME DepotInv, NEW R, RoomIn({y \in R \cap Row : LiveRow(y)}), diary' = Tombstoned(R), late' \subseteq Row,
         (late \ R) \cap (Deliveries \cup Moves) \subseteq late', UNCHANGED held,
         \A y \in (Deliveries \cup Moves) \ (R \cup late) : \A n \in Named(y, diary[y].kind) \cap R : ~LiveRow(y)
  PROVE  /\ diary' \in [Row -> DiaryRow] /\ Fresh' /\ CopiesBehind' /\ DiaryWhole' /\ DiaryGate'
         /\ \A y \in Row : diary'[y].kind = diary[y].kind
         /\ \A y \in Row : diary'[y].st = "live" => LiveRow(y) /\ diary'[y] = diary[y]
<1>1. /\ diary \in [Row -> DiaryRow] /\ held \in [Devices -> [Row -> HeldRow]] /\ late \subseteq Row
  BY DepotTypes DEF DepotInv
<1>2. \A y \in R \cap Row : LiveRow(y) => diary[y].rev < MaxRow
  BY DEF RoomIn
<1>3. /\ diary' \in [Row -> DiaryRow]
      /\ \A r \in Row : diary'[r].st = "live" <=> LiveRow(r) /\ r \notin R
      /\ \A r \in Row : /\ diary'[r].kind = diary[r].kind /\ diary'[r].rev >= diary[r].rev
                        /\ diary'[r].st = "none" <=> diary[r].st = "none"
      /\ \A r \in Row : diary'[r].st = "live" => diary'[r] = diary[r]
  BY <1>1, <1>2, Burial
<1>4. Fresh'
  BY <1>3 DEF DepotInv, Fresh
<1>5. CopiesBehind'
  <2>1. \A y \in Row : diary[y].rev \in Nat /\ diary'[y].rev \in Nat
    BY <1>1, <1>3 DEF DiaryRow
  <2>2. \A u \in Devices, y \in Row : held[u][y].rev \in Nat
    BY <1>1 DEF HeldRow
  <2>3. \A u \in Devices, y \in Row : held[u][y].rev <= diary[y].rev /\ diary'[y].rev >= diary[y].rev
    BY <1>3 DEF DepotInv, CopiesBehind
  <2>4. \A u \in Devices, y \in Row : held[u][y].rev <= diary'[y].rev
    BY <2>1, <2>2, <2>3
  <2> QED BY <2>4 DEF CopiesBehind
<1>6. DiaryWhole'
  <2> SUFFICES ASSUME NEW y \in Deliveries \cup Moves, LiveRow(y)', y \notin late', NEW n \in Named(y, diary'[y].kind)
               PROVE  LiveRow(n)'
    BY DEF DiaryWhole, Named
  <2>1. y \in Row /\ n \in Row
    BY NeedsRows, Tables
  <2>2. LiveRow(y) /\ y \notin R /\ diary'[y] = diary[y]
    BY <1>3, <2>1 DEF LiveRow
  <2>3. y \notin late /\ n \in Named(y, diary[y].kind)
    BY <2>2
  <2>4. LiveRow(n) /\ n \notin R
    BY <2>2, <2>3 DEF DepotInv, DiaryWhole
  <2> QED BY <1>3, <2>1, <2>4 DEF LiveRow
<1>7. DiaryGate'
  <2> SUFFICES ASSUME NEW u \in Devices, NEW y \in Gated, LiveRow(y)', held'[u][y].rev = diary'[y].rev
               PROVE  held'[u][y].body = diary'[y].body /\ held'[u][y].kind = View(u, y, diary'[y].kind)
    BY DEF DiaryGate, View
  <2>1. y \in Row /\ diary'[y] = diary[y] /\ LiveRow(y)
    BY <1>3, Tables DEF LiveRow
  <2> QED BY <2>1 DEF DepotInv, DiaryGate
<1> QED BY <1>3, <1>4, <1>5, <1>6, <1>7

LEMMA Deleted ==
  ASSUME DepotInv, NEW v \in Devices, NEW r \in Row, RecordDelete(v, r) \/ ItemDelete(v, r) \/ BrandDelete(v, r)
  PROVE  DepotInv' /\ OldStep
<1>1. /\ diary \in [Row -> DiaryRow] /\ held \in [Devices -> [Row -> HeldRow]] /\ late \subseteq Row /\ load \in LoadRec
  BY DepotTypes DEF DepotInv
<1>2. By(v) /\ UNCHANGED held
  BY DEF RecordDelete, ItemDelete, BrandDelete, Discard
<1>3. /\ load' \in LoadRec /\ load'.todo = load.todo /\ load'.file = load.file /\ ~load'.quiet
      /\ author' \in {"old", "new"}
  BY <1>1, <1>2, Interrupted
<1>4. ASSUME NEW R, R \subseteq Row, RoomIn({y \in R : LiveRow(y)}), diary' = Tombstoned(R), late' \subseteq Row,
             late \ R \subseteq late',
             \A y \in (Deliveries \cup Moves) \ (R \cup late) : \A n \in Named(y, diary[y].kind) \cap R : ~LiveRow(y)
      PROVE  DepotInv' /\ OldStep
  <2>1. /\ diary' \in [Row -> DiaryRow] /\ Fresh' /\ CopiesBehind' /\ DiaryWhole' /\ DiaryGate'
        /\ \A y \in Row : diary'[y].kind = diary[y].kind
        /\ \A y \in Row : diary'[y].st = "live" => LiveRow(y) /\ diary'[y] = diary[y]
    <3>1. RoomIn({y \in R \cap Row : LiveRow(y)})
      BY <1>4 DEF RoomIn
    <3> QED BY <1>2, <1>4, <3>1, BuriedWhole
  <2>2. DepotTypeOK'
    BY <1>1, <1>2, <1>3, <1>4, <2>1, DepotTypedNext
  <2>3. Special' /\ Backed'
    BY <1>3, <2>1 DEF DepotInv, Special, Backed
  <2>4. OldStep
    BY <2>1 DEF OldStep
  <2> QED BY <2>1, <2>2, <2>3, <2>4 DEF DepotInv
<1>5. CASE RecordDelete(v, r)
  <2> DEFINE gone == {r} \cup (IF r \in Trucks THEN OffTruck(r) ELSE {})
  <2>1. r \in Gated /\ RoomIn(gone) /\ diary' = Tombstoned(gone) /\ late' = late \ gone
    BY <1>5 DEF RecordDelete
  <2>2. gone \subseteq Row /\ (\A y \in gone : y = r \/ (r \in Trucks /\ y \in OffTruck(r)))
    BY Tables DEF OffTruck
  <2>3. ASSUME NEW y \in (Deliveries \cup Moves) \ (gone \cup late), NEW n \in Named(y, diary[y].kind) \cap gone
        PROVE  ~LiveRow(y)
    <3>1. n \in Trucks \cup Items /\ n \notin Deliveries \cup Moves /\ n \in Needs[y]
          /\ (y \in Deliveries => diary[y].kind # "plain") /\ (y \in Moves => n \in Items)
      BY <2>3, NeedsRows
    <3>2. n = r
      BY <2>2, <2>3, <3>1 DEF OffTruck
    <3>3. n \notin Items
      BY <2>1, <3>2, Tables
    <3>4. y \in Deliveries /\ n \in Trucks
      BY <2>3, <3>1, <3>3
    <3>5. diary[y].kind = "special"
      BY <1>1, <3>1, <3>4, Tables DEF DiaryRow, Kinds
    <3> QED BY <2>3, <3>1, <3>2, <3>4, <3>5 DEF OffTruck
  <2> HIDE DEF gone
  <2>4. RoomIn({y \in gone : LiveRow(y)})
    BY <2>1 DEF RoomIn
  <2> QED BY <1>1, <1>4, <2>1, <2>2, <2>3, <2>4
<1>6. CASE ItemDelete(v, r) \/ BrandDelete(v, r)
  <2>1. r \notin Gated /\ RoomIn({r}) /\ diary' = Tombstoned({r}) /\ late' = late
    BY <1>6 DEF ItemDelete, BrandDelete, Discard
  <2>2. ASSUME NEW y \in (Deliveries \cup Moves) \ ({r} \cup late), NEW n \in Named(y, diary[y].kind) \cap {r}
        PROVE  ~LiveRow(y)
    <3>1. n \in Trucks \cup Items /\ n \in Needs[y] /\ n = r /\ (y \in Deliveries => n \in Trucks) /\ (y \in Moves => n \in Items)
      BY <2>2, NeedsRows
    <3>2. n \in Items
      BY <2>1, <3>1, DepotConstants
    <3>3. ItemDelete(v, r) /\ y \in Moves
      BY <1>6, <2>2, <3>1, <3>2, Tables DEF BrandDelete
    <3> QED BY <3>1, <3>3 DEF ItemDelete
  <2>3. RoomIn({y \in {r} : LiveRow(y)}) /\ {r} \subseteq Row
    BY <2>1 DEF RoomIn
  <2> QED BY <1>1, <1>4, <2>1, <2>2, <2>3
<1> QED BY <1>5, <1>6

LEMMA Pulled ==
  ASSUME DepotInv, NEW v \in Devices, NEW r \in Row, PullRow(v, r)
  PROVE  DepotInv' /\ OldStep
<1>1. /\ diary \in [Row -> DiaryRow] /\ held \in [Devices -> [Row -> HeldRow]] /\ late \subseteq Row /\ load \in LoadRec
  BY DepotTypes DEF DepotInv
<1> DEFINE seen == [rev |-> diary[r].rev, kind |-> View(v, r, diary[r].kind), body |-> diary[r].body]
<1>2. held' = [held EXCEPT ![v][r] = seen] /\ author' = "other" /\ UNCHANGED <<diary, late, load>>
  BY DEF PullRow
<1>3. seen \in HeldRow /\ seen.rev = diary[r].rev /\ seen.kind = View(v, r, diary[r].kind) /\ seen.body = diary[r].body
  <2>1. diary[r] \in DiaryRow
    BY <1>1
  <2>2. View(v, r, diary[r].kind) \in Kinds
    BY <2>1 DEF View, DiaryRow, Kinds
  <2> QED BY <2>1, <2>2 DEF HeldRow, DiaryRow
<1> HIDE DEF seen
<1>4. /\ held' \in [Devices -> [Row -> HeldRow]]
      /\ \A u \in Devices, y \in Row : held'[u][y] = held[u][y] \/ (u = v /\ y = r /\ held'[u][y] = seen)
  BY <1>1, <1>2, <1>3, ReportedForm DEF Reported
<1>5. DepotTypeOK'
  BY <1>1, <1>2, <1>4, DepotTypedNext
<1>6. Special' /\ Fresh' /\ Backed' /\ DiaryWhole'
  BY <1>2 DEF DepotInv, Special, Fresh, Backed, DiaryWhole, LiveRow
<1>7. CopiesBehind'
  <2>1. diary[r].rev \in Nat
    BY <1>1 DEF DiaryRow
  <2> QED BY <1>2, <1>3, <1>4, <2>1 DEF DepotInv, CopiesBehind
<1>8. DiaryGate'
  <2> SUFFICES ASSUME NEW u \in Devices, NEW y \in Gated, LiveRow(y)', held'[u][y].rev = diary'[y].rev
               PROVE  held'[u][y].body = diary'[y].body /\ held'[u][y].kind = View(u, y, diary'[y].kind)
    BY DEF DiaryGate, View
  <2>1. y \in Row /\ LiveRow(y) /\ diary'[y] = diary[y]
    BY <1>2, Tables DEF LiveRow
  <2>2. CASE held'[u][y] = held[u][y]
    BY <2>1, <2>2 DEF DepotInv, DiaryGate
  <2>3. CASE u = v /\ y = r /\ held'[u][y] = seen
    BY <1>2, <1>3, <2>1, <2>3
  <2> QED BY <1>4, <2>1, <2>2, <2>3
<1>9. OldStep
  BY <1>2 DEF OldStep
<1> QED BY <1>5, <1>6, <1>7, <1>8, <1>9 DEF DepotInv

\* A restore plans entries of the file: kept, or stripped to what it can back.
LEMMA PlannedForm ==
  ASSUME load \in LoadRec, NEW dealers \in BOOLEAN, NEW p \in Planned(dealers)
  PROVE  /\ p \in Entry
         /\ \E e \in load.file :
              /\ ~LeftOut(e, dealers) /\ p.row = e.row
              /\ p.kind = IF LosesTruck(e) \/ LosesDealer(e, dealers) THEN "plain" ELSE e.kind
<1>1. PICK e \in load.file :
        /\ ~LeftOut(e, dealers)
        /\ p = [e EXCEPT !.kind = IF LosesTruck(e) \/ LosesDealer(e, dealers) THEN "plain" ELSE @,
                         !.extra = IF LosesDealer(e, dealers) /\ e.row \in Adjusts THEN FALSE ELSE @]
  BY DEF Planned
<1>2. e \in Entry
  BY DEF LoadRec
<1> DEFINE k == IF LosesTruck(e) \/ LosesDealer(e, dealers) THEN "plain" ELSE e.kind
           x == IF LosesDealer(e, dealers) /\ e.row \in Adjusts THEN FALSE ELSE e.extra
<1>3. k \in Kinds
  BY <1>2 DEF Entry, Kinds
<1>4. x \in BOOLEAN
  <2>1. FALSE \in BOOLEAN /\ e.extra \in BOOLEAN
    BY <1>2 DEF Entry
  <2> QED BY <2>1
<1>5. p = [e EXCEPT !.kind = k, !.extra = x]
  BY <1>1
<1>6. k = IF LosesTruck(e) \/ LosesDealer(e, dealers) THEN "plain" ELSE e.kind
  OBVIOUS
<1> HIDE DEF k, x
<1>7. p \in Entry /\ p.row = e.row /\ p.kind = k
  BY <1>2, <1>3, <1>4, <1>5 DEF Entry
<1> QED BY <1>1, <1>6, <1>7

\* Whatever of the file is not left out is planned.
LEMMA PlannedRows ==
  ASSUME NEW dealers, NEW e \in load.file, load \in LoadRec, ~LeftOut(e, dealers)
  PROVE  \E p \in Planned(dealers) : p.row = e.row
<1> DEFINE p == [e EXCEPT !.kind = IF LosesTruck(e) \/ LosesDealer(e, dealers) THEN "plain" ELSE @,
                          !.extra = IF LosesDealer(e, dealers) /\ e.row \in Adjusts THEN FALSE ELSE @]
<1>1. p \in Planned(dealers)
  BY DEF Planned
<1>2. p.row = e.row
  BY DEF LoadRec, Entry
<1> QED BY <1>1, <1>2

\* What the plan writes names what the plan writes.
LEMMA PlanBacked ==
  ASSUME load \in LoadRec, NEW dealers \in BOOLEAN, NEW p \in Planned(dealers), NEW n \in Named(p.row, p.kind),
         p.row \in Deliveries \cup Moves
  PROVE  \E x \in Planned(dealers) : x.row = n
<1>1. PICK e \in load.file :
        /\ ~LeftOut(e, dealers) /\ p.row = e.row
        /\ p.kind = IF LosesTruck(e) \/ LosesDealer(e, dealers) THEN "plain" ELSE e.kind
  BY PlannedForm
<1>2. n \in Needs[e.row] /\ n \in Trucks \cup Items /\ n \notin Deliveries \cup Moves
      /\ (p.row \in Deliveries => p.kind # "plain")
  BY <1>1, NeedsRows
<1>3. InFile(n)
  <2>1. CASE e.row \in Deliveries
    <3>1. p.kind = e.kind /\ p.kind # "plain" /\ ~LosesTruck(e)
      BY <1>1, <1>2, <2>1
    <3>2. e.kind = "special"
      BY <1>1, <3>1 DEF LoadRec, Entry, Kinds
    <3> QED BY <1>2, <2>1, <3>1, <3>2 DEF LosesTruck
  <2>2. CASE e.row \in Moves
    BY <1>1, <1>2, <2>2, Tables DEF LeftOut
  <2> QED BY <1>1, <2>1, <2>2
<1>4. PICK x \in load.file : x.row = n
  BY <1>3 DEF InFile
<1>5. ~LeftOut(x, dealers)
  BY <1>2, <1>4 DEF LeftOut
<1> QED BY <1>4, <1>5, PlannedRows

LEMMA Exported ==
  ASSUME DepotInv, ExportDiary
  PROVE  DepotInv' /\ OldStep
<1>1. /\ diary \in [Row -> DiaryRow] /\ held \in [Devices -> [Row -> HeldRow]] /\ late \subseteq Row /\ load \in LoadRec
  BY DepotTypes DEF DepotInv
<1> DEFINE Copy(r) == [row |-> r, kind |-> diary[r].kind, extra |-> diary[r].extra, body |-> diary[r].body]
           f == {Copy(r) : r \in {x \in Row : LiveRow(x)}}
<1>2. load' = [NoLoad EXCEPT !.file = f] /\ author' = "other" /\ UNCHANGED <<diary, held, late>>
  BY DEF ExportDiary
<1>3. \A r \in Row : Copy(r) \in Entry /\ Copy(r).row = r /\ Copy(r).kind = diary[r].kind
  BY <1>1 DEF Entry, DiaryRow
<1> HIDE DEF Copy
<1>4. f \in SUBSET Entry /\ \A e \in f : e.kind = "special" => e.row \in Tied
  BY <1>3 DEF DepotInv, Special
<1> HIDE DEF f
<1>5. load' \in LoadRec /\ load'.todo = {} /\ load'.file = f
  BY <1>2, <1>4, LoadForms DEF LoadRec
<1>6. DepotTypeOK'
  BY <1>1, <1>2, <1>5, DepotTypedNext
<1>7. Special' /\ Backed'
  BY <1>2, <1>4, <1>5 DEF DepotInv, Special, Backed
<1>8. Fresh' /\ CopiesBehind' /\ DiaryWhole' /\ DiaryGate'
  BY <1>2 DEF DepotInv, Fresh, CopiesBehind, DiaryWhole, DiaryGate, LiveRow
<1>9. OldStep
  BY <1>2 DEF OldStep
<1> QED BY <1>6, <1>7, <1>8, <1>9 DEF DepotInv

LEMMA Stopped ==
  ASSUME DepotInv, RestoreStops
  PROVE  DepotInv' /\ OldStep
<1>1. /\ diary \in [Row -> DiaryRow] /\ held \in [Devices -> [Row -> HeldRow]] /\ late \subseteq Row /\ load \in LoadRec
  BY DepotTypes DEF DepotInv
<1>2. load' = [load EXCEPT !.todo = {}] /\ author' = "other" /\ UNCHANGED <<diary, held, late>>
  BY DEF RestoreStops
<1>3. load' \in LoadRec /\ load'.todo = {} /\ load'.file = load.file
  BY <1>1, <1>2 DEF LoadRec
<1>4. DepotTypeOK'
  BY <1>1, <1>2, <1>3, DepotTypedNext
<1>5. Special' /\ Backed' /\ Fresh' /\ CopiesBehind' /\ DiaryWhole' /\ DiaryGate' /\ OldStep
  BY <1>2, <1>3 DEF DepotInv, Special, Backed, Fresh, CopiesBehind, DiaryWhole, DiaryGate, LiveRow, OldStep
<1> QED BY <1>4, <1>5 DEF DepotInv

LEMMA Started ==
  ASSUME DepotInv, NEW mode \in {"merge", "replace"}, NEW dealers \in BOOLEAN, RestoreStart(mode, dealers)
  PROVE  DepotInv' /\ OldStep
<1>1. /\ diary \in [Row -> DiaryRow] /\ held \in [Devices -> [Row -> HeldRow]] /\ late \subseteq Row /\ load \in LoadRec
  BY DepotTypes DEF DepotInv
<1> DEFINE plans == Planned(dealers)
           b == TRUE
<1>2. load' = [load EXCEPT !.todo = plans, !.quiet = b] /\ author' = "other" /\ UNCHANGED held
  BY DEF RestoreStart
<1>3. plans \in SUBSET Entry /\ b \in BOOLEAN
  BY <1>1, PlannedForm
<1>4. \A p \in plans : p.kind = "special" => p.row \in Tied
  <2> SUFFICES ASSUME NEW p \in plans, p.kind = "special"
               PROVE  p.row \in Tied
    OBVIOUS
  <2>1. PICK e \in load.file : p.row = e.row /\ p.kind = IF LosesTruck(e) \/ LosesDealer(e, dealers) THEN "plain" ELSE e.kind
    BY <1>1, PlannedForm
  <2> QED BY <2>1 DEF DepotInv, Special
<1>5. \A p \in plans : p.row \in Deliveries \cup Moves => \A n \in Named(p.row, p.kind) : \E x \in plans : x.row = n
  BY <1>1, PlanBacked
<1> HIDE DEF plans, b
<1>6. load' \in LoadRec /\ load'.todo = plans /\ load'.file = load.file
  BY <1>1, <1>2, <1>3 DEF LoadRec
<1>7. Backed'
  BY <1>5, <1>6 DEF Backed
<1>8. /\ diary' \in [Row -> DiaryRow] /\ late' \subseteq Row /\ Fresh' /\ CopiesBehind' /\ DiaryWhole' /\ DiaryGate'
      /\ \A y \in Row : diary'[y].kind = diary[y].kind
  <2>1. CASE mode = "replace"
    <3>1. /\ diary' = Tombstoned(Row \ Settings) /\ late' = {}
          /\ RoomIn({y \in (Row \ Settings) \cap Row : LiveRow(y)})
      BY <2>1 DEF RestoreStart, RoomIn
    <3>2. Deliveries \cup Moves \subseteq Row \ Settings
      BY Tables
    <3> DEFINE R == Row \ Settings
    <3>3. (late \ R) \cap (Deliveries \cup Moves) \subseteq late' /\ (Deliveries \cup Moves) \ (R \cup late) = {}
      BY <3>2
    <3>4. diary' = Tombstoned(R) /\ RoomIn({y \in R \cap Row : LiveRow(y)}) /\ late' \subseteq Row
      BY <3>1
    <3> HIDE DEF R
    <3> QED BY <1>2, <3>3, <3>4, BuriedWhole
  <2>2. CASE mode = "merge"
    <3>1. UNCHANGED <<diary, held, late>>
      BY <1>2, <2>2 DEF RestoreStart
    <3> QED BY <1>1, <3>1 DEF DepotInv, Fresh, CopiesBehind, DiaryWhole, DiaryGate, LiveRow
  <2> QED BY <2>1, <2>2
<1>9. DepotTypeOK'
  BY <1>1, <1>2, <1>6, <1>8, DepotTypedNext
<1>10. Special'
  BY <1>4, <1>6, <1>8 DEF DepotInv, Special
<1>11. OldStep
  BY <1>2 DEF OldStep
<1> QED BY <1>7, <1>8, <1>9, <1>10, <1>11 DEF DepotInv

LEMMA Restored ==
  ASSUME DepotInv, NEW e \in load.todo, RestoreRow(e)
  PROVE  DepotInv' /\ OldStep
<1>1. /\ diary \in [Row -> DiaryRow] /\ held \in [Devices -> [Row -> HeldRow]] /\ late \subseteq Row /\ load \in LoadRec
  BY DepotTypes DEF DepotInv
<1>2. e \in Entry /\ e.row \in Row
  BY <1>1 DEF LoadRec, Entry
<1>3. /\ diary' = Put(e.row, e) /\ diary[e.row].rev < MaxRow /\ load' = [load EXCEPT !.todo = @ \ {e}]
      /\ late' = IF load.quiet THEN late \ {e.row} ELSE Lateness(e.row, e)
      /\ \A x \in load.todo : Stage(e.row) <= Stage(x.row)
      /\ author' = "other" /\ UNCHANGED held
  BY DEF RestoreRow, RoomIn
<1>4. e.kind \in Kinds /\ e.extra \in BOOLEAN /\ e.body \in Bodies
  BY <1>2 DEF Entry
<1>5. /\ diary' \in [Row -> DiaryRow] /\ \A y \in Row \ {e.row} : diary'[y] = diary[y]
      /\ diary'[e.row].st = "live" /\ diary'[e.row].rev = diary[e.row].rev + 1 /\ diary'[e.row].kind = e.kind
  BY <1>1, <1>2, <1>3, <1>4, PutRow DEF Put
<1>6. load' \in LoadRec /\ load'.todo = load.todo \ {e} /\ load'.file = load.file /\ load'.quiet = load.quiet
  BY <1>1, <1>3 DEF LoadRec
<1>7. late' \subseteq Row /\ late \ {e.row} \subseteq late'
  BY <1>1, <1>2, <1>3 DEF Lateness
<1>8. DepotTypeOK'
  BY <1>1, <1>3, <1>5, <1>6, <1>7, DepotTypedNext
<1>9. Special' /\ Fresh'
  BY <1>5, <1>6 DEF DepotInv, Special, Fresh
<1>10. CopiesBehind'
  <2>1. \A u \in Devices, y \in Row : held[u][y].rev \in Nat /\ diary[y].rev \in Nat
    BY <1>1 DEF HeldRow, DiaryRow
  <2> QED BY <1>3, <1>5, <2>1 DEF DepotInv, CopiesBehind
<1>11. Backed'
  <2> SUFFICES ASSUME load.quiet, NEW y \in load.todo \ {e}, y.row \in Deliveries \cup Moves,
                      NEW n \in Named(y.row, y.kind)
               PROVE  LiveRow(n)' \/ \E x \in load.todo \ {e} : x.row = n
    BY <1>6 DEF Backed, Named
  <2>1. n \in Row
    BY NeedsRows
  <2>2. LiveRow(n) \/ \E x \in load.todo : x.row = n
    BY DEF DepotInv, Backed
  <2> QED BY <1>5, <2>1, <2>2 DEF LiveRow
<1>12. DiaryWhole'
  <2> SUFFICES ASSUME e.row \in (Deliveries \cup Moves) \ late', NEW n \in Named(e.row, e.kind)
               PROVE  LiveRow(n) \/ n = e.row
    BY <1>2, <1>5, <1>7, WholeAfterPut
  <2>1. CASE load.quiet
    <3>1. /\ n \in Trucks \cup Items /\ n \notin Deliveries \cup Moves
          /\ (e.row \in Deliveries => n \in Trucks) /\ (e.row \in Moves => n \in Items)
      BY NeedsRows
    <3>2. Stage(n) < Stage(e.row)
      BY <3>1, Tables DEF Stage
    <3>3. Stage(n) \in Nat /\ Stage(e.row) \in Nat
      BY DEF Stage
    <3>4. ~\E x \in load.todo : x.row = n
      BY <1>3, <3>2, <3>3
    <3> QED BY <2>1, <3>4 DEF DepotInv, Backed
  <2>2. CASE ~load.quiet
    BY <1>3, <2>2 DEF Lateness
  <2> QED BY <2>1, <2>2
<1>13. DiaryGate'
  <2> SUFFICES ASSUME NEW u \in Devices, NEW y \in Gated, LiveRow(y)', held'[u][y].rev = diary'[y].rev
               PROVE  held'[u][y].body = diary'[y].body /\ held'[u][y].kind = View(u, y, diary'[y].kind)
    BY DEF DiaryGate, View
  <2>1. y \in Row
    BY Tables
  <2>2. CASE y # e.row
    BY <1>3, <1>5, <2>1, <2>2 DEF DepotInv, DiaryGate, LiveRow
  <2>3. CASE y = e.row
    <3>1. held[u][y].rev <= diary[y].rev /\ diary[y].rev \in Nat /\ held[u][y].rev \in Nat
      BY <1>1, <2>1 DEF DepotInv, CopiesBehind, DiaryRow, HeldRow
    <3> QED BY <1>3, <1>5, <2>3, <3>1
  <2> QED BY <2>2, <2>3
<1>14. OldStep
  BY <1>3 DEF OldStep
<1> QED BY <1>8, <1>9, <1>10, <1>11, <1>12, <1>13, <1>14 DEF DepotInv

LEMMA DepotStep == DepotInv /\ [DepotNext]_depotVars => DepotInv' /\ (OldStep \/ UNCHANGED depotVars)
<1> SUFFICES ASSUME DepotInv, [DepotNext]_depotVars
             PROVE  DepotInv' /\ (OldStep \/ UNCHANGED depotVars)
  OBVIOUS
<1>1. CASE UNCHANGED depotVars
  <2>1. UNCHANGED <<diary, held, late, load, author>>
    BY <1>1 DEF depotVars
  <2>2. DepotTypeOK' /\ Special' /\ Fresh' /\ CopiesBehind'
    BY <2>1 DEF DepotInv, DepotTypeOK, Special, Fresh, CopiesBehind
  <2>3. Backed' /\ DiaryWhole' /\ DiaryGate'
    BY <2>1 DEF DepotInv, Backed, DiaryWhole, DiaryGate, LiveRow
  <2> QED BY <1>1, <2>2, <2>3 DEF DepotInv
<1>2. CASE DepotNext
  <2>1. ASSUME NEW v \in Devices, NEW r \in Row, NEW w \in Content,
               RecordUpsert(v, r, w) \/ SettingsUpsert(v, r, w) \/ ItemUpsert(v, r, w) \/ BrandUpsert(v, r, w)
        PROVE  DepotInv' /\ OldStep
    BY <2>1, Upserted DEF SettingsUpsert, ItemUpsert, BrandUpsert
  <2> QED BY <1>2, <2>1, Deleted, Pulled, Exported, Stopped, Started, Restored DEF DepotNext, Content
<1> QED BY <1>1, <1>2

\* No live delivery names a truck that is gone, and no live move an item that is
\* gone, but for a record pushed when what it names was not there: deletes take
\* along or are refused, and a restore drops what its file cannot back.
THEOREM DiaryHangsTogether == DepotSpec => []DiaryWhole
<1>1. DepotInv => DiaryWhole
  BY DEF DepotInv
<1> QED BY <1>1, DepotInitInv, DepotStep, PTL DEF DepotSpec

\* A device that has the server's revision of a gated record sees what the server
\* has, although the server may have stored something else than it sent.
THEOREM SeenBeforeWritten == DepotSpec => []DiaryGate
<1>1. DepotInv => DiaryGate
  BY DEF DepotInv
<1> QED BY <1>1, DepotInitInv, DepotStep, PTL DEF DepotSpec

\* An old app's edit keeps a return a return, an item on its tab, and what that
\* app does not know of (sync/appliers.ts, depot).
THEOREM OldAppsHarmless == DepotSpec => OldAppKeeps
<1>1. DepotInv /\ [DepotNext]_depotVars => DepotInv'
  BY DepotStep
<1>2. DepotInv /\ [DepotNext]_depotVars => [OldStep]_depotVars
  BY DepotStep
<1>3. [OldStep]_depotVars =>
        [author' = "old" =>
           \A r \in Row : LiveRow(r) /\ diary'[r].st = "live" =>
             /\ diary'[r].extra = diary[r].extra
             /\ diary[r].kind = "special" => diary'[r].kind = "special" \/ r \in Deliveries]_depotVars
  BY DEF OldStep
<1> QED BY <1>1, <1>2, <1>3, DepotInitInv, PTL DEF DepotSpec, OldAppKeeps
=============================================================================
