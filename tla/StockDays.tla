------------------------------ MODULE StockDays ------------------------------
(***************************************************************************)
(* The stock sheets of a firm, one per date, and its opening baseline.  A  *)
(* sheet is only meaningful after the baseline's date.  Its lines (cells,  *)
(* receipts, the note) are filled in by several people at once, over REST  *)
(* and by POST /sync/push, and merged line by line.                        *)
(*                                                                         *)
(* A line has a value, 0 for none.  A sheet's revision is abstracted to    *)
(* `wrote', the sheets a step bumped.  What a delete of a party or a grade *)
(* clears is in Masters.                                                   *)
(***************************************************************************)
EXTENDS Naturals

CONSTANTS
  LastDate,   \* bound: the dates are 1..LastDate, 0 stands for no baseline
  Slots,      \* the lines a sheet can have
  Values      \* what a line can say

ASSUME StockConstants == LastDate \in Nat /\ Values \subseteq Nat /\ 0 \in Values

Dates == 1..LastDate

VARIABLES
  base,     \* the date of the baseline
  sheetSt,  \* date -> "none", "live" or "dead"
  line,     \* date -> line -> value
  seat,     \* the REST request that has read and not yet written
  slipped,  \* history: sheets that got on the wrong side of the baseline
            \* while a request was between its check and its write, or by a
            \* restore, which does not look
  wrote     \* history: the sheets the last step bumped, the lines it names, and
            \* whether it was a push that stopped half-way

stockVars == <<base, sheetSt, line, seat, slipped, wrote>>

Blank  == [i \in Slots |-> 0]
NoSeat == [pc |-> "idle", date |-> 0, lines |-> Blank, named |-> {}]

StockTypeOK ==
  /\ base \in 0..LastDate
  /\ sheetSt \in [Dates -> {"none", "live", "dead"}]
  /\ line \in [Dates -> [Slots -> Values]]
  /\ seat \in [pc : {"idle", "baseline", "absent", "create", "write", "delete"}, date : 0..LastDate,
               lines : [Slots -> Values], named : SUBSET Slots]
  /\ slipped \subseteq Dates
  /\ wrote \in [days : SUBSET Dates, half : BOOLEAN]

StockInit ==
  /\ base = 0
  /\ sheetSt = [d \in Dates |-> "none"]
  /\ line = [d \in Dates |-> Blank]
  /\ seat = NoSeat
  /\ slipped = {}
  /\ wrote = [days |-> {}, half |-> FALSE]

----------------------------------------------------------------------------
LiveSheet(d) == sheetSt[d] = "live"
UpTo(b)      == {d \in Dates : LiveSheet(d) /\ d <= b}
After(d)     == base # 0 /\ d > base

Wrote(D) == wrote' = [days |-> D, half |-> FALSE]
Reads       == Wrote({}) /\ UNCHANGED <<base, sheetSt, line, slipped>>

\* The lines that are named take their new value, 0 deletes one (a cell of
\* {0,0} is not stored); the others stay.
Merge(d, lines, named) ==
  line' = [line EXCEPT ![d] = [i \in Slots |-> IF i \in named THEN lines[i] ELSE @[i]]]

----------------------------------------------------------------------------
(* REST.                                                                    *)

\* putBaseline counts the sheets it would leave behind ...
CountDays(b) ==
  /\ seat = NoSeat /\ UpTo(b) = {}
  /\ seat' = [NoSeat EXCEPT !.pc = "baseline", !.date = b]
  /\ Reads

\* ... and then writes the date and the lines of the baseline.
PutBaseline ==
  /\ seat.pc = "baseline"
  /\ base' = seat.date /\ seat' = NoSeat
  /\ slipped' = UpTo(seat.date)
  /\ Wrote({})
  /\ UNCHANGED <<sheetSt, line>>

\* createStockDay: the baseline, then the sheet, one statement each ...
CheckBaseline(d) ==
  /\ seat = NoSeat /\ After(d)
  /\ seat' = [NoSeat EXCEPT !.pc = "absent", !.date = d]
  /\ Reads

CheckAbsent ==
  /\ seat.pc = "absent"
  /\ seat' = IF LiveSheet(seat.date) THEN NoSeat ELSE [seat EXCEPT !.pc = "create"]
  /\ Reads

\* ... and a transaction brings a tombstone back with its lines, or inserts a
\* sheet, which fails if there is a live one by now.
CreateDay ==
  LET d == seat.date IN
  /\ seat.pc = "create" /\ seat' = NoSeat
  /\ IF LiveSheet(d) THEN Wrote({}) /\ UNCHANGED <<sheetSt, slipped>>
     ELSE /\ sheetSt' = [sheetSt EXCEPT ![d] = "live"]
          /\ slipped' = IF After(d) THEN slipped ELSE slipped \cup {d}
          /\ Wrote({d})
  /\ UNCHANGED <<base, line>>

\* putCell, putDayNote, addReceipt, deleteReceipt: the sheet is read live ...
FindDay(d, i, v) ==
  /\ seat = NoSeat /\ LiveSheet(d)
  /\ seat' = [pc |-> "write", date |-> d, lines |-> [Blank EXCEPT ![i] = v], named |-> {i}]
  /\ Reads

\* Mutant: the sheet's revision is left alone.
WriteLine_NoBump ==
  /\ seat.pc = "write" /\ seat' = NoSeat
  /\ IF sheetSt[seat.date] = "none" THEN UNCHANGED line
     ELSE Merge(seat.date, seat.lines, seat.named)
  /\ Wrote({})
  /\ UNCHANGED <<base, sheetSt, slipped>>

\* ... and a transaction writes the line and bumps the sheet, which may be a
\* tombstone by now; of a purged one nothing is left to write to.
WriteLine ==
  /\ seat.pc = "write" /\ seat' = NoSeat
  /\ IF sheetSt[seat.date] = "none" THEN Wrote({}) /\ UNCHANGED line
     ELSE Merge(seat.date, seat.lines, seat.named) /\ Wrote({seat.date})
  /\ UNCHANGED <<base, sheetSt, slipped>>

\* deleteStockDay: the sheet is read live, and deleted by its id.
FindToDelete(d) ==
  /\ seat = NoSeat /\ LiveSheet(d)
  /\ seat' = [NoSeat EXCEPT !.pc = "delete", !.date = d]
  /\ Reads

Gone(d) == sheetSt' = [sheetSt EXCEPT ![d] = IF @ = "live" THEN "dead" ELSE @] /\ slipped' = slipped \ {d}

DeleteDay ==
  /\ seat.pc = "delete" /\ seat' = NoSeat
  /\ Gone(seat.date)
  /\ Wrote({seat.date})
  /\ UNCHANGED <<base, line>>

PurgeDay(d) ==
  /\ sheetSt[d] = "dead"
  /\ sheetSt' = [sheetSt EXCEPT ![d] = "none"]
  /\ line' = [line EXCEPT ![d] = Blank]
  /\ Wrote({})
  /\ UNCHANGED <<base, seat, slipped>>

----------------------------------------------------------------------------
(* POST /sync/push: a mutation is one step.                                 *)

\* stockDayUpsert: the sheet is made or brought back, and the lines merged,
\* whatever revision the device has.  A receipt without a valid grade rejects
\* the mutation when the sheet is there and the receipts before it are
\* written, and that is committed with the group.
PushDay(d, lines, named, bad) ==
  /\ After(d)
  /\ sheetSt' = [sheetSt EXCEPT ![d] = "live"]
  /\ IF bad
     THEN \E W \in SUBSET named \ {named} :
            /\ Merge(d, lines, W)
            /\ wrote' = [days |-> IF LiveSheet(d) THEN {} ELSE {d}, half |-> TRUE]
     ELSE Merge(d, lines, named) /\ Wrote({d})
  /\ UNCHANGED <<base, seat, slipped>>

PushDayDelete(d) ==
  /\ Gone(d)
  /\ Wrote({d})
  /\ UNCHANGED <<base, line, seat>>

\* Mutant: the sheets are not counted.
PushBaseline_Uncounted(b) ==
  /\ base' = b
  /\ Wrote({})
  /\ UNCHANGED <<sheetSt, line, seat, slipped>>

\* baselineUpsert: counted and written in one transaction.  A line of an
\* unknown grade rejects it when the date is written, which is kept.
PushBaseline(b) ==
  /\ UpTo(b) = {}
  /\ base' = b
  /\ Wrote({})
  /\ UNCHANGED <<sheetSt, line, seat, slipped>>

----------------------------------------------------------------------------
(* POST /backup/import: what a restore that replaces clears, the baseline   *)
(* and each sheet of the file are one step each.                            *)

ClearSheets ==
  /\ base' = 0 /\ slipped' = {}
  /\ sheetSt' = [d \in Dates |-> IF LiveSheet(d) THEN "dead" ELSE sheetSt[d]]
  /\ Wrote({d \in Dates : LiveSheet(d)})
  /\ UNCHANGED <<line, seat>>

\* The sheets that are there are not counted.
RestoreBaseline(b) ==
  /\ base' = b /\ slipped' = UpTo(b)
  /\ Wrote({})
  /\ UNCHANGED <<sheetSt, line, seat>>

\* The sheet of the file replaces the lines there are; only the baseline of
\* the file, if it has one, was looked at.
RestoreDay(d, lines) ==
  /\ sheetSt' = [sheetSt EXCEPT ![d] = "live"]
  /\ line' = [line EXCEPT ![d] = lines]
  /\ slipped' = IF d <= base THEN slipped \cup {d} ELSE slipped
  /\ Wrote({d})
  /\ UNCHANGED <<base, seat>>

----------------------------------------------------------------------------
StockNext ==
  \/ PutBaseline \/ CheckAbsent \/ CreateDay \/ WriteLine \/ DeleteDay \/ ClearSheets
  \/ \E d \in Dates : \/ CountDays(d) \/ CheckBaseline(d) \/ FindToDelete(d) \/ PurgeDay(d)
                      \/ PushDayDelete(d) \/ PushBaseline(d) \/ RestoreBaseline(d)
                      \/ \E lines \in [Slots -> Values] : RestoreDay(d, lines)
                      \/ \E i \in Slots, v \in Values : FindDay(d, i, v)
                      \/ \E named \in SUBSET Slots, bad \in BOOLEAN, lines \in [Slots -> Values] :
                           (\A i \in Slots \ named : lines[i] = 0) /\ PushDay(d, lines, named, bad)

StockSpec == StockInit /\ [][StockNext]_stockVars

----------------------------------------------------------------------------
\* No live sheet is on or before the baseline's date, however the two are
\* moved by requests and pushes, but for a sheet that appeared (or a baseline
\* that moved) between a REST request's check and its write, and for what a
\* restore wrote: it counts no sheets and looks at no stored baseline.
DaysAfterBaseline == UpTo(base) \subseteq slipped

\* What a pull would send of a sheet does not change without the sheet being
\* bumped, so that the next pull sends it, but for the receipts of a push that
\* is rejected half-way.
SheetsTravel ==
  \A d \in Dates :
    (line'[d] # line[d] \/ sheetSt'[d] # sheetSt[d]) /\ sheetSt'[d] # "none" /\ ~wrote'.half
    => d \in wrote'.days
=============================================================================
