------------------------------ MODULE MCRecords ------------------------------
(***************************************************************************)
(* The records of a firm for TLC: Masters, Purchases, Claims, StockDays    *)
(* and Depot in one run.  They share no variable, so nothing is lost by    *)
(* letting one of them move per behaviour: `part' says which, and of the   *)
(* two large ones which records (and devices) take part, a bound.          *)
(***************************************************************************)
EXTENDS Masters, Purchases, Claims, StockDays, Depot

CONSTANTS
  grade, party, company, folder1, scheme, bought, claimed, route, drop, cell, receipt,
  note1, note2,
  truck, delivery, adjust, move, item, dayNote, rates, brand, oldApp, newApp

NamesOf == [x \in Rec \cup Lines |->
  CASE x = scheme   -> {company, grade} [] x = bought -> {company, grade}
    [] x = claimed  -> {scheme}         [] x = route  -> {party}
    [] x = drop     -> {party, company, grade}
    [] x = cell     -> {party, grade}   [] x = receipt -> {grade}
    [] OTHER -> {}]

Up(x)      == [op |-> "up", rec |-> x, folder |-> NoRec]
UpIn(x, f) == [op |-> "up", rec |-> x, folder |-> f]
Del(x)     == [op |-> "del", rec |-> x, folder |-> NoRec]

SomePushes ==
  {{Del(grade), Del(scheme)}, {Del(grade), Del(bought)}, {Del(party), Del(drop)},
   {UpIn(scheme, folder1), Up(folder1)}, {Up(bought), Up(company)}, {Del(company), Up(claimed)},
   {Up(drop)}, {Del(party), Up(route)}, {Up(grade), UpIn(scheme, folder1)}, {Del(claimed)},
   {Del(folder1), UpIn(scheme, folder1)}}

AmountOf == [n \in Notes |-> IF n = note1 THEN 1 ELSE 2]
NeedsOf  == [r \in Row |-> IF r = delivery THEN {truck} ELSE IF r = move THEN {item} ELSE {}]

VARIABLE part

Part(name, R, V, B) == [name |-> name, recs |-> R, crew |-> V, bodies |-> B]
Both  == {oldApp, newApp}
Pairs == {{truck, delivery}, {move, item}}
Revised == 2    \* a bound: in a pair, revisions of the row the other one names
Parts ==
  {Part("masters", R, {}, {}) : R \in
     {{company, grade, scheme, claimed}, {company, bought, grade}, {company, grade, scheme, folder1}, {party, route, grade, drop}}}
  \cup {Part(n, {}, {}, {}) : n \in {"purchases", "claims", "stock"}}
  \cup {Part("depot", R, {newApp}, {1}) : R \in Pairs}
  \cup {Part("depot", {r}, Both, {1, 2}) : r \in {delivery, adjust, move, item, dayNote}}
  \cup {Part("depot", {r}, Both, {1}) : r \in {rates, brand}}

recordVars == <<part, masterVars, purchaseVars, claimVars, stockVars, depotVars>>

RecordsInit ==
  MastersInit /\ PurchasesInit /\ ClaimsInit /\ StockInit /\ DepotInit /\ part \in Parts

\* A bound: where the folder takes part, a grade is deleted over REST only.
MastersPart ==
  /\ part.name = "masters" /\ MastersNext
  /\ \A r \in Rec \ part.recs : st'[r] = "none"
  /\ folder1 \in part.recs => Del(grade) \notin pushed'.todo
  /\ {m.rec : m \in pushed'.todo} \cup ({rest'.rec} \ {NoRec}) \subseteq part.recs
  /\ UNCHANGED <<purchaseVars, claimVars, stockVars, depotVars>>

PurchasesPart ==
  /\ part.name = "purchases" /\ PurchasesNext
  /\ UNCHANGED <<masterVars, claimVars, stockVars, depotVars>>

ClaimsPart ==
  /\ part.name = "claims" /\ ClaimsNext
  /\ UNCHANGED <<masterVars, purchaseVars, stockVars, depotVars>>

StockPart ==
  /\ part.name = "stock" /\ StockNext
  /\ UNCHANGED <<masterVars, purchaseVars, claimVars, depotVars>>

DepotPart ==
  /\ part.name = "depot" /\ DepotNext
  /\ \A r \in Row : diary'[r].st # "none" => r \in part.recs /\ diary'[r].body \in part.bodies
  /\ part.recs \in Pairs => \A r \in Trucks \cup Items : diary'[r].rev <= Revised
  /\ \A v \in Devices \ part.crew : held'[v] = held[v]
  /\ author' = "old" => oldApp \in part.crew
  /\ UNCHANGED <<masterVars, purchaseVars, claimVars, stockVars>>

RecordsNext ==
  (MastersPart \/ PurchasesPart \/ ClaimsPart \/ StockPart \/ DepotPart) /\ UNCHANGED part

RecordsSpec == RecordsInit /\ [][RecordsNext]_recordVars

\* What a pull would send does not change without its row being updated, be it
\* a master, a record that hangs on one, or a sheet: the next pull sends it.
ChangesSeen == [][MastersTravel /\ SheetsTravel]_recordVars
=============================================================================
