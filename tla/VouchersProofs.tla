------------------------------ MODULE VouchersProofs -------------------------------
(* The vouchers of a firm, and the backup that is restored over them, for    *)
(* every set of vouchers, every chunk size and every backup: the live        *)
(* serials are 1..counter until a backup is restored, a changed row always   *)
(* carries a higher revision, a merge renumbers nothing, and an import that  *)
(* nothing disturbed and that succeeded restored its whole file.             *)
EXTENDS BackupImport, FiniteSetTheorems, WellFoundedInduction, TLAPS

----------------------------------------------------------------------------
(* FreightSerials.                                                           *)

Blank == \A i \in Ids : rows[i].state = "none" => rows[i].rev = 0

IInv == FreightTypeOK /\ Contiguous /\ Blank

\* What the invariant says of one row, and of the table with one row replaced.
LEMMA RowTyped ==
  ASSUME FreightTypeOK, NEW i \in Ids
  PROVE  /\ rows[i] \in Row /\ rows[i].state \in {"none", "live", "dead"}
         /\ rows[i].serial \in Nat /\ rows[i].rev \in Nat
         /\ \A r : [rows EXCEPT ![i] = r][i] = r
         /\ \A r : \A j \in Ids \ {i} : [rows EXCEPT ![i] = r][j] = rows[j]
         /\ \A r \in Row : [rows EXCEPT ![i] = r] \in [Ids -> Row]
BY DEF FreightTypeOK, Row

\* The rows a step can write.
LEMMA RowForms ==
  ASSUME NEW r \in Row, NEW s \in Nat
  PROVE  /\ Touched(r) \in Row /\ Touched(r).state = r.state
         /\ Touched(r).serial = r.serial /\ Touched(r).rev = r.rev + 1
         /\ Resurrected(r, s) \in Row /\ Resurrected(r, s).state = "live"
         /\ Resurrected(r, s).serial = s /\ Resurrected(r, s).rev = r.rev + 1
         /\ Fresh(s) \in Row /\ Fresh(s).state = "live"
         /\ Fresh(s).serial = s /\ Fresh(s).rev = 1
         /\ NoRow \in Row /\ NoRow.state = "none"
<1>1. /\ r.state \in {"none", "live", "dead"} /\ r.serial \in Nat /\ r.rev \in Nat
      /\ r = [state |-> r.state, serial |-> r.serial, rev |-> r.rev]
  BY DEF Row
<1>2. Touched(r) = [state |-> r.state, serial |-> r.serial, rev |-> r.rev + 1]
  BY <1>1 DEF Touched
<1>3. Resurrected(r, s) = [state |-> "live", serial |-> s, rev |-> r.rev + 1]
  BY DEF Resurrected
<1>4. \A x \in {"none", "live", "dead"}, y \in Nat, z \in Nat :
        [state |-> x, serial |-> y, rev |-> z] \in Row
  BY DEF Row
<1>5. r.rev + 1 \in Nat /\ 1 \in Nat /\ 0 \in Nat
  BY <1>1
<1>6. Touched(r) \in Row
  BY <1>1, <1>2, <1>4, <1>5
<1>7. Resurrected(r, s) \in Row
  BY <1>3, <1>4, <1>5
<1>8. Fresh(s) \in Row /\ NoRow \in Row
  BY <1>4, <1>5 DEF Fresh, NoRow
<1> QED BY <1>2, <1>3, <1>6, <1>7, <1>8 DEF Fresh, NoRow

\* A live row shifted down, and a row that is buried.
LEMMA RowShift ==
  ASSUME NEW r \in Row
  PROVE  /\ [Touched(r) EXCEPT !.state = "dead"] \in Row
         /\ [Touched(r) EXCEPT !.state = "dead"].state = "dead"
         /\ [Touched(r) EXCEPT !.state = "dead"].rev = r.rev + 1
         /\ [Touched(r) EXCEPT !.serial = @ - 1].state = r.state
         /\ [Touched(r) EXCEPT !.serial = @ - 1].serial = r.serial - 1
         /\ [Touched(r) EXCEPT !.serial = @ - 1].rev = r.rev + 1
         /\ r.serial - 1 \in Nat => [Touched(r) EXCEPT !.serial = @ - 1] \in Row
<1>1. /\ r.state \in {"none", "live", "dead"} /\ r.serial \in Nat /\ r.rev + 1 \in Nat
      /\ r = [state |-> r.state, serial |-> r.serial, rev |-> r.rev]
  BY DEF Row
<1>2. Touched(r) = [state |-> r.state, serial |-> r.serial, rev |-> r.rev + 1]
  BY <1>1 DEF Touched
<1>3. [Touched(r) EXCEPT !.state = "dead"] = [state |-> "dead", serial |-> r.serial, rev |-> r.rev + 1]
  BY <1>2
<1>4. [Touched(r) EXCEPT !.serial = @ - 1]
        = [state |-> r.state, serial |-> r.serial - 1, rev |-> r.rev + 1]
  BY <1>2
<1>5. \A x \in {"none", "live", "dead"}, y \in Nat, z \in Nat :
        [state |-> x, serial |-> y, rev |-> z] \in Row
  BY DEF Row
<1>6. [Touched(r) EXCEPT !.state = "dead"] \in Row
  BY <1>1, <1>3, <1>5
<1>7. r.serial - 1 \in Nat => [Touched(r) EXCEPT !.serial = @ - 1] \in Row
  BY <1>1, <1>4, <1>5
<1> QED BY <1>3, <1>4, <1>6, <1>7

\* A table in which the same rows live under the same serials.
LEMMA SameSerials ==
  ASSUME FreightTypeOK, Contiguous, counter' = counter, rows' \in [Ids -> Row],
         \A i \in Ids : (rows'[i].state = "live") <=> (rows[i].state = "live"),
         \A i \in Ids : rows[i].state = "live" => rows'[i].serial = rows[i].serial
  PROVE  Contiguous'
<1>1. LiveIn(rows') = Live /\ \A i \in Live : rows'[i].serial = rows[i].serial
  BY DEF Live, LiveIn
<1>2. {rows'[i].serial : i \in LiveIn(rows')} = {rows[i].serial : i \in Live}
  BY <1>1
<1> QED BY <1>1, <1>2 DEF Contiguous, Live

\* A row that was not alive comes alive under the next serial.
LEMMA NextSerial ==
  ASSUME FreightTypeOK, Contiguous, NEW i \in Ids, rows[i].state # "live",
         NEW r \in Row, r.state = "live", r.serial = counter + 1,
         counter' = counter + 1, rows' = [rows EXCEPT ![i] = r]
  PROVE  Contiguous'
<1>1. /\ rows'[i] = r /\ \A j \in Ids \ {i} : rows'[j] = rows[j]
      /\ counter \in Nat
  BY RowTyped DEF FreightTypeOK
<1>2. LiveIn(rows') = Live \cup {i} /\ i \notin Live /\ Live \subseteq Ids
  BY <1>1 DEF Live, LiveIn
<1>3. {rows'[j].serial : j \in LiveIn(rows')} = {rows[j].serial : j \in Live} \cup {counter + 1}
  <2>1. \A j \in Live : rows'[j].serial = rows[j].serial
    BY <1>1, <1>2
  <2>2. rows'[i].serial = counter + 1
    BY <1>1
  <2>3. \A j \in LiveIn(rows') :
          rows'[j].serial \in {rows[k].serial : k \in Live} \cup {counter + 1}
    BY <1>2, <2>1, <2>2
  <2>4. \A n \in {rows[k].serial : k \in Live} \cup {counter + 1} :
          \E j \in LiveIn(rows') : rows'[j].serial = n
    <3> TAKE n \in {rows[k].serial : k \in Live} \cup {counter + 1}
    <3>1. CASE n = counter + 1 BY <1>2, <2>2, <3>1
    <3>2. CASE n \in {rows[k].serial : k \in Live}
      <4>1. PICK k \in Live : rows[k].serial = n BY <3>2
      <4> QED BY <1>2, <2>1, <4>1
    <3> QED BY <3>1, <3>2
  <2>5. {rows'[j].serial : j \in LiveIn(rows')}
           \subseteq {rows[k].serial : k \in Live} \cup {counter + 1}
    BY <2>3
  <2>6. {rows[k].serial : k \in Live} \cup {counter + 1}
           \subseteq {rows'[j].serial : j \in LiveIn(rows')}
    BY <2>4
  <2> QED BY <2>5, <2>6
<1>4. {rows[j].serial : j \in Live} = 1..counter
  BY DEF Contiguous
<1>5. (1..counter) \cup {counter + 1} = 1..(counter + 1)
  BY <1>1
<1>6. \A j \in Live : rows[j].serial # counter + 1
  BY <1>1, <1>4
<1>7. ASSUME NEW j \in LiveIn(rows'), NEW k \in LiveIn(rows'), rows'[j].serial = rows'[k].serial
      PROVE  j = k
  <2>1. \A l \in Live : rows'[l].serial = rows[l].serial
    BY <1>1, <1>2
  <2>2. rows'[i].serial = counter + 1
    BY <1>1
  <2>3. CASE j \in Live /\ k \in Live
    BY <1>7, <2>1, <2>3 DEF Contiguous
  <2>4. CASE j = i /\ k \in Live
    BY <1>6, <1>7, <2>1, <2>2, <2>4
  <2>5. CASE k = i /\ j \in Live
    BY <1>6, <1>7, <2>1, <2>2, <2>5
  <2> QED BY <1>2, <1>7, <2>3, <2>4, <2>5
<1>8. {rows'[j].serial : j \in LiveIn(rows')} = 1..(counter + 1)
  BY <1>3, <1>4, <1>5
<1> QED BY <1>1, <1>7, <1>8 DEF Contiguous, Live

\* What DELETE leaves of each row.
LEMMA AfterDelete ==
  ASSUME FreightTypeOK, NEW i \in Ids, DeleteEntry(i)
  PROVE  /\ rows' \in [Ids -> Row] /\ rows[i].state = "live" /\ rows'[i].state = "dead"
         /\ rows'[i].rev = rows[i].rev + 1
         /\ \A j \in Ids \ {i} :
              /\ rows'[j].state = rows[j].state
              /\ rows[j].state = "live" /\ rows[j].serial > rows[i].serial
                   => rows'[j].serial = rows[j].serial - 1 /\ rows'[j].rev = rows[j].rev + 1
              /\ ~(rows[j].state = "live" /\ rows[j].serial > rows[i].serial)
                   => rows'[j] = rows[j]
<1> DEFINE s == rows[i].serial
           b == Buried(rows, i)
           up(r) == [Touched(r) EXCEPT !.serial = @ - 1]
<1>1. rows' = Compacted(b, s) /\ rows[i].state = "live"
  BY DEF DeleteEntry
<1>2. /\ b[i] = [Touched(rows[i]) EXCEPT !.state = "dead"]
      /\ \A j \in Ids \ {i} : b[j] = rows[j]
  BY RowTyped DEF Buried, FreightTypeOK
<1>3. b[i] \in Row /\ b[i].state = "dead" /\ b[i].rev = rows[i].rev + 1
  <2>1. rows[i] \in Row BY RowTyped
  <2> HIDE DEF b
  <2> QED BY <1>2, <2>1, RowShift
<1>4. /\ i \notin Above(b, s)
      /\ \A j \in Ids \ {i} : j \in Above(b, s) <=> rows[j].state = "live" /\ rows[j].serial > s
  BY <1>2, <1>3 DEF Above, LiveIn
<1>5. rows' = [j \in Ids |-> IF j \in Above(b, s) THEN up(b[j]) ELSE b[j]]
  BY <1>1 DEF Compacted
<1>6. ASSUME NEW r \in Row, r.serial > s
      PROVE  /\ up(r) \in Row /\ up(r).state = r.state /\ up(r).serial = r.serial - 1
             /\ up(r).rev = r.rev + 1
  <2>1. s \in Nat /\ r.serial \in Nat /\ r.serial - 1 \in Nat
    BY <1>6, RowTyped DEF Row
  <2> QED BY <2>1, RowShift
<1>7. rows'[i] = b[i]
  BY <1>4, <1>5
<1>8. ASSUME NEW j \in Ids \ {i}, rows[j].state = "live", rows[j].serial > s
      PROVE  rows'[j] = up(rows[j])
  BY <1>2, <1>4, <1>5, <1>8
<1>9. ASSUME NEW j \in Ids \ {i}, ~(rows[j].state = "live" /\ rows[j].serial > s)
      PROVE  rows'[j] = rows[j]
  BY <1>2, <1>4, <1>5, <1>9
<1>10. ASSUME NEW j \in Ids PROVE rows'[j] \in Row
  <2>1. rows[j] \in Row BY RowTyped
  <2>2. CASE j = i BY <1>3, <1>7, <2>2
  <2>3. CASE j # i /\ rows[j].state = "live" /\ rows[j].serial > s
    <3> HIDE DEF up, s, b
    <3> QED BY <1>6, <1>8, <2>1, <2>3
  <2>4. CASE j # i /\ ~(rows[j].state = "live" /\ rows[j].serial > s)
    BY <1>9, <2>1, <2>4
  <2> QED BY <2>2, <2>3, <2>4
<1>11. rows' \in [Ids -> Row]
  BY <1>5, <1>10
<1> HIDE DEF b, up, s
<1>12. \A j \in Ids \ {i} : rows[j] \in Row
  BY RowTyped
<1> QED BY <1>1, <1>3, <1>6, <1>7, <1>8, <1>9, <1>11, <1>12 DEF s

\* Compaction closes the hole a deleted voucher leaves.
LEMMA Closes ==
  ASSUME FreightTypeOK, Contiguous, NEW i \in Ids, DeleteEntry(i)
  PROVE  Contiguous'
<1> DEFINE s == rows[i].serial
           f(j) == IF rows[j].serial > s THEN rows[j].serial - 1 ELSE rows[j].serial
<1>1. /\ counter \in Nat /\ \A j \in Ids : rows[j].serial \in Nat
      /\ i \in Live /\ Live \subseteq Ids
  BY RowTyped DEF FreightTypeOK, DeleteEntry, Live, LiveIn
<1>2. /\ {rows[j].serial : j \in Live} = 1..counter
      /\ \A j, k \in Live : rows[j].serial = rows[k].serial => j = k
  BY DEF Contiguous
<1>3. s \in 1..counter /\ counter' = counter - 1
  BY <1>1, <1>2 DEF DeleteEntry
<1>4. LiveIn(rows') = Live \ {i}
  BY AfterDelete DEF Live, LiveIn
<1>5. \A j \in Live \ {i} : rows'[j].serial = f(j) /\ rows[j].serial # s /\ rows[j].serial \in 1..counter
  <2> TAKE j \in Live \ {i}
  <2>1. rows[j].state = "live" /\ j \in Ids \ {i} BY <1>1 DEF Live, LiveIn
  <2>2. rows'[j].serial = f(j)
    BY <2>1, AfterDelete
  <2>3. rows[j].serial # s
    BY <1>1, <1>2
  <2>4. rows[j].serial \in 1..counter
    BY <1>2
  <2> QED BY <2>2, <2>3, <2>4
<1>6. \A j, k \in Live \ {i} : f(j) = f(k) => j = k
  <2> SUFFICES ASSUME NEW j \in Live \ {i}, NEW k \in Live \ {i}, f(j) = f(k)
               PROVE  rows[j].serial = rows[k].serial
    BY <1>2
  <2>1. /\ rows[j].serial # s /\ rows[k].serial # s /\ s \in Nat
        /\ rows[j].serial \in Nat /\ rows[k].serial \in Nat
    BY <1>1, <1>5
  <2> QED BY <2>1
<1>7. ASSUME NEW n \in 1..(counter - 1) PROVE \E j \in Live \ {i} : f(j) = n
  <2>1. CASE n < s
    <3>1. n \in 1..counter BY <1>1
    <3>2. PICK j \in Live : rows[j].serial = n BY <1>2, <3>1
    <3> QED BY <1>3, <2>1, <3>2
  <2>2. CASE n >= s
    <3>1. n + 1 \in 1..counter BY <1>1
    <3>2. PICK j \in Live : rows[j].serial = n + 1 BY <1>2, <3>1
    <3>3. j # i BY <1>3, <2>2, <3>1, <3>2
    <3>4. f(j) = n BY <1>3, <2>2, <3>2
    <3> QED BY <3>2, <3>3, <3>4
  <2> QED BY <1>3, <2>1, <2>2
<1>8. ASSUME NEW j \in Live \ {i} PROVE f(j) \in 1..(counter - 1)
  BY <1>1, <1>3, <1>5
<1>9. {rows'[j].serial : j \in LiveIn(rows')} = 1..(counter - 1)
  <2> HIDE DEF f
  <2> QED BY <1>4, <1>5, <1>7, <1>8
<1>10. \A j, k \in LiveIn(rows') : rows'[j].serial = rows'[k].serial => j = k
  <2> HIDE DEF f
  <2> QED BY <1>4, <1>5, <1>6
<1> QED BY <1>3, <1>9, <1>10 DEF Contiguous, Live

----------------------------------------------------------------------------
LEMMA InitHolds == FreightInit => IInv
<1> SUFFICES ASSUME FreightInit PROVE IInv OBVIOUS
<1>1. \A i \in Ids : rows[i] = NoRow /\ NoRow \in Row /\ NoRow.state = "none"
  BY DEF FreightInit, NoRow, Row
<1>2. FreightTypeOK
  BY <1>1 DEF FreightInit, FreightTypeOK, Edit
<1>3. Live = {} /\ counter = 0
  BY <1>1 DEF Live, LiveIn, FreightInit
<1>4. {rows[i].serial : i \in Live} = 1..counter
  BY <1>3
<1>5. Blank
  BY <1>1 DEF Blank, NoRow
<1> QED BY <1>2, <1>3, <1>4, <1>5 DEF IInv, Contiguous

\* The ways a step replaces one row.
Enters(i, r) ==
  /\ rows[i].state # "live" /\ r.state = "live"
  /\ r.serial = counter + 1 /\ counter' = counter + 1
  /\ r.rev = IF rows[i].state = "none" THEN 1 ELSE rows[i].rev + 1

Stays(i, r) ==
  /\ rows[i].state # "none" /\ r.state = rows[i].state
  /\ r.serial = rows[i].serial /\ r.rev = rows[i].rev + 1 /\ counter' = counter

Leaves(i, r) == rows[i].state = "dead" /\ r = NoRow /\ counter' = counter

Replaces(i, r) ==
  rows' = [rows EXCEPT ![i] = r] /\ (Enters(i, r) \/ Stays(i, r) \/ Leaves(i, r))

\* Every step is a deletion, replaces one row, or leaves the table alone.
LEMMA StepForms ==
  ASSUME IInv, FreightNext
  PROVE  /\ edits' \in [Clients -> Edit]
         /\ \/ \E i \in Ids : DeleteEntry(i)
            \/ \E i \in Ids, r \in Row : Replaces(i, r)
            \/ UNCHANGED <<rows, counter>>
<1>0. FreightTypeOK /\ Contiguous /\ counter \in Nat /\ edits \in [Clients -> Edit]
      /\ rows \in [Ids -> Row]
  BY DEF IInv, FreightTypeOK
<1>1. ASSUME NEW i \in Ids, CreateEntry(i)
      PROVE  edits' \in [Clients -> Edit] /\ \E r \in Row : Replaces(i, r)
  <2>1. edits' = edits /\ counter' = counter + 1 /\ rows[i].state # "live" /\ rows[i] \in Row
    BY <1>0, <1>1, RowTyped DEF CreateEntry
  <2>2. CASE rows[i].state = "none"
    <3>1. rows' = [rows EXCEPT ![i] = Fresh(counter + 1)]
      BY <1>0, <1>1, <2>2 DEF CreateEntry
    <3>2. Fresh(counter + 1) \in Row /\ Enters(i, Fresh(counter + 1))
      BY <1>0, <2>1, <2>2, RowForms DEF Enters
    <3> QED BY <1>0, <2>1, <3>1, <3>2 DEF Replaces
  <2>3. CASE rows[i].state # "none"
    <3>1. rows' = [rows EXCEPT ![i] = Resurrected(rows[i], counter + 1)]
      BY <1>0, <1>1, <2>3 DEF CreateEntry
    <3> DEFINE r == Resurrected(rows[i], counter + 1)
    <3>2. /\ r \in Row /\ r.state = "live" /\ r.serial = counter + 1
          /\ r.rev = rows[i].rev + 1
      BY <1>0, <2>1, RowForms
    <3> HIDE DEF r
    <3>3. Enters(i, r)
      BY <2>1, <2>3, <3>2 DEF Enters
    <3>4. rows' = [rows EXCEPT ![i] = r]
      BY <3>1 DEF r
    <3> QED BY <1>0, <2>1, <3>2, <3>3, <3>4 DEF Replaces
  <2> QED BY <2>2, <2>3
<1>2. ASSUME NEW i \in Ids, PushCreate(i)
      PROVE  edits' \in [Clients -> Edit] /\ \E r \in Row : Replaces(i, r)
  <2>1. ASSUME NEW j \in Live PROVE rows[j].serial # counter + 1
    <3>1. rows[j].serial \in 1..counter BY <1>0 DEF Contiguous
    <3> QED BY <1>0, <3>1
  <2>2. Free(rows, counter + 1)
    BY <2>1 DEF Free, Live
  <2>3. /\ rows' = [rows EXCEPT ![i] = Fresh(counter + 1)]
        /\ counter' = counter + 1 /\ edits' = edits /\ rows[i].state = "none"
    BY <1>2, <2>2 DEF PushCreate
  <2>4. Fresh(counter + 1) \in Row /\ Enters(i, Fresh(counter + 1))
    BY <1>0, <2>3, RowForms, RowTyped DEF Enters
  <2> QED BY <1>0, <2>3, <2>4 DEF Replaces
<1>3. ASSUME NEW i \in Ids, rows[i].state # "none", counter' = counter,
             rows' = [rows EXCEPT ![i] = Touched(rows[i])]
      PROVE  \E r \in Row : Replaces(i, r)
  <2>1. rows[i] \in Row BY <1>0, RowTyped
  <2>2. Touched(rows[i]) \in Row /\ Stays(i, Touched(rows[i]))
    BY <1>0, <1>3, <2>1, RowForms DEF Stays
  <2> QED BY <1>3, <2>2 DEF Replaces
<1>4. ASSUME NEW i \in Ids, PushEdit(i)
      PROVE  edits' \in [Clients -> Edit] /\ \E r \in Row : Replaces(i, r)
  BY <1>0, <1>3, <1>4 DEF PushEdit
<1>5. ASSUME NEW i \in Ids, DeleteEntry(i) PROVE edits' \in [Clients -> Edit]
  BY <1>0, <1>5 DEF DeleteEntry
<1>6. ASSUME NEW i \in Ids, PurgeEntry(i)
      PROVE  edits' \in [Clients -> Edit] /\ \E r \in Row : Replaces(i, r)
  <2>1. NoRow \in Row BY DEF NoRow, Row
  <2>2. Leaves(i, NoRow) /\ rows' = [rows EXCEPT ![i] = NoRow] /\ edits' = edits
    BY <1>6 DEF PurgeEntry, Leaves
  <2> QED BY <1>0, <2>1, <2>2 DEF Replaces
<1>7. ASSUME NEW c \in Clients, NEW i \in Ids, PatchRead(c, i)
      PROVE  edits' \in [Clients -> Edit] /\ UNCHANGED <<rows, counter>>
  <2>1. [state |-> "read", id |-> i] \in Edit
    BY DEF Edit
  <2> QED BY <1>0, <1>7, <2>1 DEF PatchRead
<1>8. ASSUME NEW c \in Clients, PatchWrite(c)
      PROVE  /\ edits' \in [Clients -> Edit]
             /\ (\E i \in Ids, r \in Row : Replaces(i, r)) \/ UNCHANGED <<rows, counter>>
  <2>1. edits[c].id \in Ids /\ edits' \in [Clients -> Edit] /\ counter' = counter
    BY <1>0, <1>8 DEF PatchWrite, Edit, NoEdit
  <2>2. CASE rows[edits[c].id].state = "none"
    BY <1>8, <2>1, <2>2 DEF PatchWrite
  <2>3. CASE rows[edits[c].id].state # "none"
    <3>1. rows' = [rows EXCEPT ![edits[c].id] = Touched(rows[edits[c].id])]
      BY <1>8, <2>3 DEF PatchWrite
    <3> QED BY <1>3, <2>1, <2>3, <3>1
  <2> QED BY <2>2, <2>3
<1>9. ASSUME FreightRestart
      PROVE  edits' \in [Clients -> Edit] /\ UNCHANGED <<rows, counter>>
  BY <1>9 DEF FreightRestart, Edit
<1> QED BY <1>1, <1>2, <1>4, <1>5, <1>6, <1>7, <1>8, <1>9 DEF FreightNext

LEMMA StepHolds == IInv /\ [FreightNext]_freightVars => IInv'
<1> SUFFICES ASSUME IInv, [FreightNext]_freightVars PROVE IInv' OBVIOUS
<1>0. FreightTypeOK /\ Contiguous /\ Blank /\ counter \in Nat /\ edits \in [Clients -> Edit]
      /\ rows \in [Ids -> Row]
  BY DEF IInv, FreightTypeOK
<1>1. ASSUME NEW i \in Ids, DeleteEntry(i), edits' \in [Clients -> Edit] PROVE IInv'
  <2>1. counter' \in Nat
    BY <1>0, <1>1 DEF DeleteEntry
  <2>2. Blank'
    <3> SUFFICES ASSUME NEW j \in Ids, rows'[j].state = "none" PROVE rows'[j].rev = 0
      BY DEF Blank
    <3>1. j # i /\ rows[j].state = "none"
      BY <1>0, <1>1, AfterDelete
    <3> QED BY <1>0, <1>1, <3>1, AfterDelete DEF Blank
  <2> QED BY <1>0, <1>1, <2>1, <2>2, AfterDelete, Closes DEF IInv, FreightTypeOK
<1>2. ASSUME NEW i \in Ids, NEW r \in Row, Replaces(i, r), edits' \in [Clients -> Edit]
      PROVE  IInv'
  <2>1. /\ rows' \in [Ids -> Row] /\ rows'[i] = r
        /\ \A j \in Ids \ {i} : rows'[j] = rows[j]
        /\ rows' = [rows EXCEPT ![i] = r]
    BY <1>0, <1>2, RowTyped DEF Replaces
  <2>2. counter' \in Nat
    BY <1>0, <1>2 DEF Replaces, Enters, Stays, Leaves
  <2>3. r.state = "none" => r.rev = 0
    BY <1>2 DEF Replaces, Enters, Stays, Leaves, NoRow
  <2>4. Blank'
    BY <1>0, <2>1, <2>3 DEF Blank
  <2>5. CASE Enters(i, r)
    <3>1. Contiguous'
      BY <1>0, <2>1, <2>5, NextSerial DEF Enters
    <3> QED BY <1>2, <2>1, <2>2, <2>4, <3>1 DEF IInv, FreightTypeOK
  <2>6. CASE Stays(i, r) \/ Leaves(i, r)
    <3>1. \A j \in Ids : /\ (rows'[j].state = "live") <=> (rows[j].state = "live")
                         /\ rows[j].state = "live" => rows'[j].serial = rows[j].serial
      BY <2>1, <2>6 DEF Stays, Leaves, NoRow
    <3>2. counter' = counter
      BY <2>6 DEF Stays, Leaves
    <3>3. Contiguous'
      BY <1>0, <2>1, <3>1, <3>2, SameSerials
    <3> QED BY <1>2, <2>1, <2>2, <2>4, <3>3 DEF IInv, FreightTypeOK
  <2> QED BY <1>2, <2>5, <2>6 DEF Replaces
<1>3. ASSUME UNCHANGED <<rows, counter>>, edits' \in [Clients -> Edit] PROVE IInv'
  <2>1. Contiguous'
    BY <1>0, <1>3, SameSerials
  <2>2. Blank'
    BY <1>0, <1>3 DEF Blank
  <2> QED BY <1>0, <1>3, <2>1, <2>2 DEF IInv, FreightTypeOK
<1>4. CASE FreightNext
  BY <1>1, <1>2, <1>3, <1>4, StepForms
<1>5. CASE UNCHANGED freightVars
  BY <1>0, <1>3, <1>5 DEF freightVars
<1> QED BY <1>4, <1>5

LEMMA Inductive == FreightSpec => []IInv
BY InitHolds, StepHolds, PTL DEF FreightSpec

\* The state stays within its types.
THEOREM VouchersTyped == FreightSpec => []FreightTypeOK
<1>1. IInv => FreightTypeOK BY DEF IInv
<1> QED BY <1>1, Inductive, PTL

\* Creates, pushes, edits, deletes and purges, in any order and number, keep
\* the live vouchers numbered 1..counter.
THEOREM VouchersContiguous == FreightSpec => []Contiguous
<1>1. IInv => Contiguous BY DEF IInv
<1> QED BY <1>1, Inductive, PTL

\* No step changes a row and leaves it at its revision.
THEOREM RevisionsGrow == FreightSpec => RevGrows
<1> DEFINE Grows == \A i \in Ids : rows'[i] # rows[i] /\ rows'[i].state # "none"
                                     => rows'[i].rev > rows[i].rev
<1>1. IInv /\ [FreightNext]_freightVars => [Grows]_freightVars
  <2> SUFFICES ASSUME IInv, FreightNext, NEW i \in Ids,
                      rows'[i] # rows[i], rows'[i].state # "none"
               PROVE  rows'[i].rev > rows[i].rev
    OBVIOUS
  <2>0. FreightTypeOK /\ Blank /\ rows \in [Ids -> Row] /\ rows[i].rev \in Nat
    BY RowTyped DEF IInv, FreightTypeOK
  <2>1. ASSUME NEW j \in Ids, DeleteEntry(j) PROVE rows'[i].rev > rows[i].rev
    <3>1. rows'[i].rev = rows[i].rev + 1
      BY <2>0, <2>1, AfterDelete
    <3> QED BY <2>0, <3>1
  <2>2. ASSUME NEW j \in Ids, NEW r \in Row, Replaces(j, r) PROVE rows'[i].rev > rows[i].rev
    <3>1. i = j /\ rows'[i] = r
      BY <2>0, <2>2, RowTyped DEF Replaces
    <3>2. r.state # "none" BY <3>1
    <3>3. ~Leaves(j, r) BY <3>2 DEF Leaves, NoRow
    <3>4. rows[i].state = "none" => rows[i].rev = 0 BY <2>0 DEF Blank
    <3> QED BY <2>0, <2>2, <3>1, <3>3, <3>4 DEF Replaces, Enters, Stays
  <2> QED BY <2>1, <2>2, StepForms
<1> QED BY <1>1, Inductive, PTL DEF FreightSpec, RevGrows

----------------------------------------------------------------------------
(* BackupImport.                                                             *)

\* Before any restore the vouchers are as in FreightSerials.
Untouched == restored \/ (IInv /\ imp.pc = "none")

\* What an undisturbed import has written so far is alive.
SoFar ==
  /\ imp.quiet /\ imp.pc = "write" => DOMAIN file \ imp.todo \subseteq Live
  /\ imp.quiet /\ imp.pc \in {"ensure", "done"} => DOMAIN file \subseteq Live

----------------------------------------------------------------------------
LEMMA UntouchedStep == Untouched /\ [BackupNext]_backupVars => Untouched'
<1> SUFFICES ASSUME Untouched, [BackupNext]_backupVars PROVE Untouched'
  OBVIOUS
<1>1. ASSUME [FreightNext]_freightVars, restored' = restored,
             restored \/ (imp' = imp \/ imp' = Idle)
      PROVE  Untouched'
  BY <1>1, StepHolds DEF Untouched, Idle
<1>2. CASE FreightStep
  <2>1. restored \/ imp' = Idle
    BY <1>2 DEF FreightStep, Untouched, Running
  <2> QED BY <1>1, <1>2, <2>1 DEF FreightStep
<1>3. CASE Export
  BY <1>1, <1>3 DEF Export, freightVars
<1>4. ASSUME NEW mode \in {"merge", "replace"}, ImportStart(mode) PROVE Untouched'
  BY <1>4 DEF ImportStart, Untouched
<1>5. CASE ImportChunk
  BY <1>5 DEF ImportChunk, Untouched
<1>6. CASE ImportEnsure
  BY <1>6 DEF ImportEnsure, Untouched
<1>7. CASE ImportAbort
  BY <1>7 DEF ImportAbort, Untouched, Running
<1>8. CASE UNCHANGED backupVars
  BY <1>1, <1>8 DEF backupVars, freightVars
<1> QED BY <1>2, <1>3, <1>4, <1>5, <1>6, <1>7, <1>8 DEF BackupNext

----------------------------------------------------------------------------
\* The vouchers keep their types whether or not their numbers are contiguous.
LEMMA TypesKept == FreightTypeOK /\ FreightNext => FreightTypeOK'
<1> SUFFICES ASSUME FreightTypeOK, FreightNext PROVE FreightTypeOK'
  OBVIOUS
<1>0. rows \in [Ids -> Row] /\ counter \in Nat /\ edits \in [Clients -> Edit]
  BY DEF FreightTypeOK
<1>1. ASSUME NEW i \in Ids, NEW r \in Row, rows' = [rows EXCEPT ![i] = r] \/ rows' = rows,
             counter' \in Nat, edits' \in [Clients -> Edit]
      PROVE  FreightTypeOK'
  BY <1>0, <1>1 DEF FreightTypeOK
<1>2. ASSUME NEW i \in Ids
      PROVE  /\ rows[i] \in Row /\ NoRow \in Row /\ Touched(rows[i]) \in Row
             /\ Fresh(counter + 1) \in Row /\ Resurrected(rows[i], counter + 1) \in Row
             /\ counter + 1 \in Nat
  <2>1. rows[i] \in Row /\ counter + 1 \in Nat BY <1>0
  <2> QED BY <2>1, RowForms
<1>3. ASSUME NEW i \in Ids, CreateEntry(i) PROVE FreightTypeOK'
  <2>1. counter' \in Nat /\ edits' \in [Clients -> Edit]
    BY <1>0, <1>2, <1>3 DEF CreateEntry
  <2>2. CASE rows[i].state = "none"
    <3>1. rows' = [rows EXCEPT ![i] = Fresh(counter + 1)]
      BY <1>3, <2>2 DEF CreateEntry
    <3> QED BY <1>1, <1>2, <2>1, <3>1
  <2>3. CASE rows[i].state # "none"
    <3>1. rows' = [rows EXCEPT ![i] = Resurrected(rows[i], counter + 1)]
      BY <1>3, <2>3 DEF CreateEntry
    <3> QED BY <1>1, <1>2, <2>1, <3>1
  <2> QED BY <2>2, <2>3
<1>4. ASSUME NEW i \in Ids, PushCreate(i) PROVE FreightTypeOK'
  <2>1. counter' \in Nat /\ edits' \in [Clients -> Edit]
    BY <1>0, <1>2, <1>4 DEF PushCreate
  <2>2. rows' = [rows EXCEPT ![i] = Fresh(counter + 1)] \/ rows' = rows
    BY <1>4 DEF PushCreate
  <2> QED BY <1>1, <1>2, <2>1, <2>2
<1>5. ASSUME NEW i \in Ids, PushEdit(i) PROVE FreightTypeOK'
  <2>1. rows' = [rows EXCEPT ![i] = Touched(rows[i])] /\ counter' \in Nat
        /\ edits' \in [Clients -> Edit]
    BY <1>0, <1>5 DEF PushEdit
  <2> QED BY <1>1, <1>2, <2>1
<1>6. ASSUME NEW i \in Ids, DeleteEntry(i) PROVE FreightTypeOK'
  <2>1. rows' \in [Ids -> Row]
    BY <1>6, AfterDelete
  <2>2. counter' = (IF counter > 0 THEN counter - 1 ELSE 0) /\ edits' = edits
    BY <1>6 DEF DeleteEntry
  <2>3. counter' \in Nat
    BY <1>0, <2>2
  <2> QED BY <1>0, <2>1, <2>2, <2>3 DEF FreightTypeOK
<1>7. ASSUME NEW i \in Ids, PurgeEntry(i) PROVE FreightTypeOK'
  <2>1. rows' = [rows EXCEPT ![i] = NoRow] /\ counter' \in Nat /\ edits' \in [Clients -> Edit]
    BY <1>0, <1>7 DEF PurgeEntry
  <2> QED BY <1>1, <1>2, <2>1
<1>8. ASSUME NEW c \in Clients, NEW i \in Ids, PatchRead(c, i) PROVE FreightTypeOK'
  <2>1. [state |-> "read", id |-> i] \in Edit BY DEF Edit
  <2> QED BY <1>0, <1>8, <2>1 DEF PatchRead, FreightTypeOK
<1>9. ASSUME NEW c \in Clients, PatchWrite(c) PROVE FreightTypeOK'
  <2>1. edits[c].id \in Ids /\ edits' \in [Clients -> Edit] /\ counter' = counter
    BY <1>0, <1>9 DEF PatchWrite, Edit, NoEdit
  <2>2. rows' = [rows EXCEPT ![edits[c].id] = Touched(rows[edits[c].id])] \/ rows' = rows
    BY <1>9 DEF PatchWrite
  <2> QED BY <1>0, <1>1, <1>2, <2>1, <2>2
<1>10. CASE FreightRestart
  BY <1>0, <1>10 DEF FreightRestart, FreightTypeOK, Edit
<1> QED BY <1>3, <1>4, <1>5, <1>6, <1>7, <1>8, <1>9, <1>10 DEF FreightNext

\* What one row becomes when the file is written over it.
LEMMA Brought ==
  ASSUME NEW r \in Row, NEW s \in Nat
  PROVE  /\ Upserted(r, s) \in Row /\ Upserted(r, s).state = "live"
         /\ r.state = "live" => Upserted(r, s).serial = r.serial
<1>1. CASE r.state = "none"
  BY <1>1, RowForms DEF Upserted
<1>2. CASE r.state # "none"
  <2>1. Upserted(r, s) = [r EXCEPT !.state = "live", !.rev = @ + 1]
    BY <1>2 DEF Upserted
  <2>2. r.serial \in Nat /\ r.rev + 1 \in Nat
        /\ r = [state |-> r.state, serial |-> r.serial, rev |-> r.rev]
    BY DEF Row
  <2>3. Upserted(r, s) = [state |-> "live", serial |-> r.serial, rev |-> r.rev + 1]
    BY <2>1, <2>2
  <2> QED BY <2>2, <2>3 DEF Row
<1> QED BY <1>1, <1>2

LEMMA WrittenRows ==
  ASSUME ImportTypeOK, NEW S \in SUBSET imp.todo
  PROVE  /\ Written(S) \in [Ids -> Row]
         /\ \A i \in Live \cup S : Written(S)[i].state = "live"
         /\ \A i \in Live : Written(S)[i].serial = rows[i].serial
<1>1. rows \in [Ids -> Row] /\ S \subseteq Ids /\ \A i \in S : file[i] \in Nat
  BY DEF ImportTypeOK, FreightTypeOK
<1>2. \A i \in S : /\ Written(S)[i] \in Row /\ Written(S)[i].state = "live"
                   /\ rows[i].state = "live" => Written(S)[i].serial = rows[i].serial
  BY <1>1, Brought DEF Written
<1>3. \A i \in Ids \ S : Written(S)[i] = rows[i]
  BY DEF Written
<1> QED BY <1>1, <1>2, <1>3 DEF Written, Live, LiveIn

----------------------------------------------------------------------------
BInv == ImportTypeOK /\ SoFar

\* The steps of an import, seen from the rows and from what is left to write.
LEMMA ChunkForms ==
  ASSUME ImportTypeOK, ImportChunk
  PROVE  /\ imp.pc = "write" /\ UNCHANGED <<counter, edits, file, restored>>
         /\ \/ imp' = [imp EXCEPT !.pc = "failed"] /\ rows' = rows
            \/ \E S \in SUBSET imp.todo :
                 /\ rows' = Written(S)
                 /\ imp' = [imp EXCEPT !.todo = imp.todo \ S,
                                       !.pc = IF imp.todo = S THEN "ensure" ELSE "write"]
BY DEF ImportChunk

LEMMA ImportTypesKept == ImportTypeOK /\ [BackupNext]_backupVars => ImportTypeOK'
<1> SUFFICES ASSUME ImportTypeOK, [BackupNext]_backupVars PROVE ImportTypeOK'
  OBVIOUS
<1> DEFINE Imports(f) == [pc : {"none", "write", "ensure", "done", "failed"},
                          mode : {"merge", "replace"}, todo : SUBSET DOMAIN f, quiet : BOOLEAN]
<1>0. /\ FreightTypeOK /\ rows \in [Ids -> Row] /\ counter \in Nat
      /\ DOMAIN file \subseteq Ids /\ (\A i \in DOMAIN file : file[i] \in Nat)
      /\ imp \in Imports(file) /\ restored \in BOOLEAN
  BY DEF ImportTypeOK, FreightTypeOK
<1>1. \A f : Idle \in Imports(f)
  BY DEF Idle
<1>2. ASSUME rows' \in [Ids -> Row], counter' \in Nat, edits' = edits, file' = file,
             imp' \in Imports(file), restored' \in BOOLEAN
      PROVE  ImportTypeOK'
  BY <1>0, <1>2 DEF ImportTypeOK, FreightTypeOK
<1>3. CASE FreightStep
  <2>1. FreightTypeOK' /\ file' = file /\ restored' = restored
    BY <1>0, <1>3, TypesKept DEF FreightStep
  <2>2. imp' = [imp EXCEPT !.quiet = FALSE] \/ imp' = Idle
    BY <1>3 DEF FreightStep
  <2>3. imp' \in Imports(file)
    BY <1>0, <1>1, <2>2
  <2> QED BY <1>0, <2>1, <2>3 DEF ImportTypeOK
<1>4. CASE Export
  <2>1. file' = [i \in Live |-> rows[i].serial] /\ Live \subseteq Ids /\ imp' = Idle
        /\ UNCHANGED <<rows, counter, edits, restored>>
    BY <1>4 DEF Export, Live, LiveIn
  <2>2. DOMAIN file' \subseteq Ids /\ \A i \in DOMAIN file' : file'[i] \in Nat
    BY <1>0, <2>1 DEF Row
  <2>3. imp' \in Imports(file')
    BY <1>1, <2>1
  <2> QED BY <1>0, <2>1, <2>2, <2>3 DEF ImportTypeOK, FreightTypeOK
<1>5. ASSUME NEW mode \in {"merge", "replace"}, ImportStart(mode) PROVE ImportTypeOK'
  <2>1. /\ UNCHANGED <<counter, edits, file>> /\ restored' = TRUE
        /\ imp' = [pc |-> IF DOMAIN file = {} THEN "ensure" ELSE "write", mode |-> mode,
                   todo |-> DOMAIN file, quiet |-> TRUE]
        /\ rows' = IF mode = "merge" THEN rows
                   ELSE [i \in Ids |-> IF i \in Live
                           THEN [Touched(rows[i]) EXCEPT !.state = "dead"] ELSE rows[i]]
    BY <1>5 DEF ImportStart
  <2>2. \A i \in Ids : rows[i] \in Row /\ [Touched(rows[i]) EXCEPT !.state = "dead"] \in Row
    BY <1>0, RowShift
  <2>3. rows' \in [Ids -> Row]
    BY <1>0, <2>1, <2>2
  <2>4. imp' \in Imports(file)
    BY <2>1
  <2> QED BY <1>0, <1>2, <2>1, <2>3, <2>4
<1>6. CASE ImportChunk
  <2>1. UNCHANGED <<counter, edits, file, restored>>
    BY <1>6, ChunkForms
  <2>2. CASE imp' = [imp EXCEPT !.pc = "failed"] /\ rows' = rows
    BY <1>0, <1>2, <2>1, <2>2
  <2>3. ASSUME NEW S \in SUBSET imp.todo, rows' = Written(S),
               imp' = [imp EXCEPT !.todo = imp.todo \ S,
                                  !.pc = IF imp.todo = S THEN "ensure" ELSE "write"]
        PROVE  ImportTypeOK'
    <3>1. rows' \in [Ids -> Row]
      BY <2>3, WrittenRows
    <3>2. imp' \in Imports(file)
      BY <1>0, <2>3
    <3> QED BY <1>0, <1>2, <2>1, <3>1, <3>2
  <2> QED BY <1>6, <2>2, <2>3, ChunkForms
<1>7. CASE ImportEnsure
  <2>1. UNCHANGED <<rows, edits, file, restored>> /\ imp' = [imp EXCEPT !.pc = "done"]
        /\ counter' \in {counter} \cup {file[i] : i \in DOMAIN file}
    BY <1>7 DEF ImportEnsure
  <2> QED BY <1>0, <1>2, <2>1
<1>8. CASE ImportAbort
  BY <1>0, <1>2, <1>8 DEF ImportAbort
<1>9. CASE UNCHANGED backupVars
  BY <1>0, <1>2, <1>9 DEF backupVars
<1> QED BY <1>3, <1>4, <1>5, <1>6, <1>7, <1>8, <1>9 DEF BackupNext

LEMMA SoFarKept == BInv /\ [BackupNext]_backupVars => SoFar'
<1> SUFFICES ASSUME ImportTypeOK, SoFar, [BackupNext]_backupVars PROVE SoFar'
  BY DEF BInv
<1>0. imp \in [pc : {"none", "write", "ensure", "done", "failed"},
               mode : {"merge", "replace"}, todo : SUBSET DOMAIN file, quiet : BOOLEAN]
      /\ DOMAIN file \subseteq Ids
  BY DEF ImportTypeOK
<1>1. ASSUME ~imp'.quiet \/ imp'.pc \in {"none", "failed"} PROVE SoFar'
  BY <1>1 DEF SoFar
<1>2. ASSUME file' = file, imp' = imp, rows' = rows PROVE SoFar'
  BY <1>2 DEF SoFar, Live, LiveIn
<1>3. CASE FreightStep
  BY <1>0, <1>1, <1>3 DEF FreightStep, Idle
<1>4. CASE Export
  BY <1>1, <1>4 DEF Export, Idle
<1>5. ASSUME NEW mode \in {"merge", "replace"}, ImportStart(mode) PROVE SoFar'
  <2>1. file' = file /\ imp'.todo = DOMAIN file
        /\ imp'.pc = (IF DOMAIN file = {} THEN "ensure" ELSE "write")
    BY <1>5 DEF ImportStart
  <2> QED BY <2>1 DEF SoFar
<1>6. CASE ImportChunk
  <2>1. imp.pc = "write" /\ file' = file
    BY <1>6, ChunkForms
  <2>2. CASE imp' = [imp EXCEPT !.pc = "failed"]
    BY <1>0, <1>1, <2>2
  <2>3. ASSUME NEW S \in SUBSET imp.todo, rows' = Written(S),
               imp' = [imp EXCEPT !.todo = imp.todo \ S,
                                  !.pc = IF imp.todo = S THEN "ensure" ELSE "write"]
        PROVE  SoFar'
    <3>1. S \subseteq Ids /\ Live \cup S \subseteq Live'
      BY <1>0, <2>3, WrittenRows DEF Live, LiveIn
    <3>2. /\ imp'.quiet = imp.quiet /\ imp'.todo = imp.todo \ S
          /\ imp'.pc = IF imp.todo = S THEN "ensure" ELSE "write"
      BY <1>0, <2>3
    <3>3. imp.quiet => DOMAIN file \ imp.todo \subseteq Live
      BY <2>1 DEF SoFar
    <3> QED BY <2>1, <3>1, <3>2, <3>3 DEF SoFar
  <2> QED BY <1>6, <2>2, <2>3, ChunkForms
<1>7. CASE ImportEnsure
  BY <1>0, <1>7 DEF ImportEnsure, SoFar, Live, LiveIn
<1>8. CASE ImportAbort
  BY <1>0, <1>1, <1>8 DEF ImportAbort
<1>9. CASE UNCHANGED backupVars
  BY <1>2, <1>9 DEF backupVars
<1> QED BY <1>3, <1>4, <1>5, <1>6, <1>7, <1>8, <1>9 DEF BackupNext

LEMMA BackupInitHolds == BackupInit => BInv /\ Untouched
<1> SUFFICES ASSUME BackupInit PROVE BInv /\ Untouched
  OBVIOUS
<1>1. IInv /\ imp = Idle /\ restored = FALSE /\ file \in LegacyFiles
  BY InitHolds DEF BackupInit
<1>2. PICK S \in SUBSET Ids : file \in [S -> 1..Cardinality(Ids)]
  BY <1>1 DEF LegacyFiles
<1>3. Cardinality(Ids) \in Nat
  BY FreightConstants, FS_CardinalityType
<1>4. DOMAIN file \subseteq Ids /\ \A i \in DOMAIN file : file[i] \in Nat
  BY <1>2, <1>3
<1> QED BY <1>1, <1>4 DEF BInv, ImportTypeOK, SoFar, Untouched, Idle, IInv

LEMMA BackupInductive == BackupSpec => [](BInv /\ Untouched)
<1>1. BInv /\ Untouched /\ [BackupNext]_backupVars => BInv' /\ Untouched'
  BY UntouchedStep, ImportTypesKept, SoFarKept DEF BInv
<1> QED BY <1>1, BackupInitHolds, PTL DEF BackupSpec

----------------------------------------------------------------------------
\* The state stays within its types, imports included.
THEOREM ImportsTyped == BackupSpec => []ImportTypeOK
<1>1. BInv => ImportTypeOK BY DEF BInv
<1> QED BY <1>1, BackupInductive, PTL

\* Whatever is created, edited, deleted, purged or exported, numbers are
\* contiguous for as long as no backup has been restored.
THEOREM NumberedUntilRestore == BackupSpec => []ContiguousUntilRestore
<1>1. Untouched => ContiguousUntilRestore
  BY DEF Untouched, IInv, ContiguousUntilRestore
<1> QED BY <1>1, BackupInductive, PTL

\* An undisturbed import that reports success leaves its whole file alive,
\* for every file and every size of a chunk.
THEOREM RestoresAll == BackupSpec => []SuccessRestoresAll
<1>1. BInv => SuccessRestoresAll
  BY DEF BInv, SoFar, SuccessRestoresAll
<1> QED BY <1>1, BackupInductive, PTL

\* A merge changes neither the life nor the number of a live voucher.
THEOREM MergeRenumbersNothing == BackupSpec => MergeKeepsNumbers
<1> DEFINE Merges == ImportStart("merge")
                     \/ (imp.mode = "merge" /\ (ImportChunk \/ ImportEnsure))
           Keeps  == \A i \in Live : rows'[i].state = "live" /\ rows'[i].serial = rows[i].serial
<1>1. BInv => [Merges => Keeps]_backupVars
  <2> SUFFICES ASSUME ImportTypeOK, Merges PROVE Keeps
    BY DEF BInv
  <2>1. ASSUME rows' = rows PROVE Keeps
    BY <2>1 DEF Live, LiveIn
  <2>2. CASE ImportStart("merge") BY <2>1, <2>2 DEF ImportStart
  <2>3. CASE ImportChunk
    <3>1. CASE rows' = rows BY <2>1, <3>1
    <3>2. ASSUME NEW S \in SUBSET imp.todo, rows' = Written(S) PROVE Keeps
      BY <3>2, WrittenRows
    <3> QED BY <2>3, <3>1, <3>2, ChunkForms
  <2>4. CASE ImportEnsure BY <2>1, <2>4 DEF ImportEnsure
  <2> QED BY <2>2, <2>3, <2>4
<1> QED BY <1>1, BackupInductive, PTL DEF MergeKeepsNumbers

----------------------------------------------------------------------------
(* Compaction: the loop of single-row updates, for every table of rows       *)
(* whose live serials are distinct.                                          *)

LEMMA LeastOf ==
  ASSUME NEW S \in SUBSET Nat, S # {}
  PROVE  \E x \in S : \A y \in S : x <= y
<1> DEFINE R == OpToRel(<, Nat)
<1>1. IsWellFoundedOn(R, Nat)
  BY NatLessThanWellFounded
<1> HIDE DEF R
<1>2. PICK x \in S : \A y \in S : ~(<<y, x>> \in R)
  BY <1>1, WFMin
<1>3. ASSUME NEW y \in S PROVE x <= y
  <2>0. x \in Nat /\ y \in Nat
    OBVIOUS
  <2>1. y < x => <<y, x>> \in R
    BY <2>0 DEF R, OpToRel
  <2> QED BY <1>2, <2>0, <2>1
<1> QED BY <1>3

\* No two rows alive in a table hold one serial.
DistinctIn(tab) == \A i, j \in LiveIn(tab) : tab[i].serial = tab[j].serial => i = j

\* q lists the rows of S once each, by ascending serial.
Ascending(tab, q) == \A m, n \in DOMAIN q : m < n => tab[q[m]].serial < tab[q[n]].serial
Sorts(tab, q, S)  == q \in SetToSeqs(S) /\ Ascending(tab, q)

\* An ascending list of one row fewer, with the row of least serial put first.
LEMMA PutFirst ==
  ASSUME NEW tab \in [Ids -> Row], NEW n \in Nat, NEW S \in SUBSET Ids,
         NEW x \in S, \A y \in S \ {x} : tab[x].serial < tab[y].serial,
         IsFiniteSet(S), Cardinality(S) = n + 1,
         NEW q, Sorts(tab, q, S \ {x})
  PROVE  \E r : Sorts(tab, r, S)
<1>0. Cardinality(S \ {x}) = Cardinality(S) - 1
  BY FS_RemoveElement
<1>1. Cardinality(S \ {x}) = n
  BY <1>0
<1> DEFINE r == [m \in 1..(n + 1) |-> IF m = 1 THEN x ELSE q[m - 1]]
<1>2. /\ q \in [1..n -> S \ {x}] /\ DOMAIN q = 1..n
      /\ \A k, m \in 1..n : k # m => q[k] # q[m]
      /\ \A k, m \in 1..n : k < m => tab[q[k]].serial < tab[q[m]].serial
  BY <1>1 DEF Sorts, Ascending, SetToSeqs
<1>3. /\ r[1] = x
      /\ \A m \in 1..(n + 1) : m # 1 => m - 1 \in 1..n /\ r[m] = q[m - 1] /\ r[m] \in S \ {x}
  BY <1>2
<1>4. r \in [1..(n + 1) -> S] /\ DOMAIN r = 1..(n + 1)
  BY <1>3
<1>5. ASSUME NEW k \in 1..(n + 1), NEW m \in 1..(n + 1), k < m
      PROVE  r[k] # r[m] /\ tab[r[k]].serial < tab[r[m]].serial
  <2> HIDE DEF r
  <2>1. m # 1 /\ r[m] = q[m - 1] /\ r[m] \in S \ {x} /\ m - 1 \in 1..n
    BY <1>3, <1>5
  <2>2. CASE k = 1
    BY <1>3, <2>1, <2>2
  <2>3. CASE k # 1
    <3>1. r[k] = q[k - 1] /\ k - 1 \in 1..n /\ k - 1 < m - 1
      BY <1>3, <1>5, <2>3
    <3> QED BY <1>2, <2>1, <3>1
  <2> QED BY <2>2, <2>3
<1> HIDE DEF r
<1>6. \A k, m \in 1..(n + 1) : k # m => r[k] # r[m]
  <2> SUFFICES ASSUME NEW k \in 1..(n + 1), NEW m \in 1..(n + 1), k # m
               PROVE  r[k] # r[m]
    OBVIOUS
  <2>1. k < m \/ m < k
    OBVIOUS
  <2> QED BY <1>5, <2>1
<1>7. r \in SetToSeqs(S)
  BY <1>4, <1>6 DEF SetToSeqs
<1>8. Ascending(tab, r)
  BY <1>4, <1>5 DEF Ascending
<1> QED BY <1>7, <1>8 DEF Sorts

\* There is an order to update the rows in.
LEMMA OrderExists ==
  ASSUME NEW tab \in [Ids -> Row], NEW A \in SUBSET Ids, IsFiniteSet(A),
         \A i, j \in A : tab[i].serial = tab[j].serial => i = j
  PROVE  \E q : Sorts(tab, q, A)
<1> DEFINE Bad == {n \in Nat : \E S \in SUBSET A : /\ IsFiniteSet(S) /\ Cardinality(S) = n
                                                   /\ ~\E q : Sorts(tab, q, S)}
<1>1. Bad = {}
  <2> SUFFICES ASSUME Bad # {} PROVE FALSE
    OBVIOUS
  <2>1. PICK n \in Bad : \A m \in Bad : n <= m
    BY LeastOf
  <2>2. PICK S \in SUBSET A : IsFiniteSet(S) /\ Cardinality(S) = n /\ ~\E q : Sorts(tab, q, S)
    OBVIOUS
  <2>3. n \in Nat
    OBVIOUS
  <2>4. CASE n = 0
    <3>1. S = {}
      BY <2>2, <2>4, FS_EmptySet
    <3>2. << >> \in [1..0 -> S] /\ DOMAIN << >> = {}
      OBVIOUS
    <3>3. Sorts(tab, << >>, S)
      BY <2>2, <2>4, <3>2 DEF Sorts, Ascending, SetToSeqs
    <3> QED BY <2>2, <3>3
  <2>5. CASE n # 0
    <3> DEFINE V == {tab[i].serial : i \in S}
    <3>1. S # {} /\ n - 1 \in Nat
      BY <2>2, <2>3, <2>5, FS_EmptySet
    <3>2. V \in SUBSET Nat /\ V # {}
      BY <3>1 DEF Row
    <3>3. PICK v \in V : \A w \in V : v <= w
      BY <3>2, LeastOf
    <3>4. PICK x \in S : tab[x].serial = v
      BY <3>3
    <3>5. ASSUME NEW y \in S \ {x} PROVE tab[x].serial < tab[y].serial
      <4>1. tab[y].serial \in V /\ x \in A /\ y \in A /\ y # x
        BY <2>2, <3>4
      <4>2. v \in Nat /\ tab[y].serial \in Nat /\ v <= tab[y].serial
        BY <3>2, <3>3, <4>1
      <4>3. tab[y].serial # v
        BY <3>4, <4>1
      <4> QED BY <3>4, <4>2, <4>3
    <3>6. /\ S \ {x} \in SUBSET A /\ IsFiniteSet(S \ {x})
          /\ Cardinality(S \ {x}) = n - 1
      BY <2>2, <3>4, FS_RemoveElement
    <3>7. n - 1 \notin Bad
      BY <2>1, <2>3
    <3>8. PICK q : Sorts(tab, q, S \ {x})
      BY <3>1, <3>6, <3>7
    <3>9. Cardinality(S) = (n - 1) + 1 /\ S \in SUBSET Ids
      BY <2>2, <2>3
    <3>10. \E r : Sorts(tab, r, S)
      BY <2>2, <3>1, <3>4, <3>5, <3>8, <3>9, PutFirst
    <3> QED BY <2>2, <3>10
  <2> QED BY <2>4, <2>5
<1>2. Cardinality(A) \in Nat
  BY FS_CardinalityType
<1> QED BY <1>1, <1>2

\* The order the loop takes: every row above the hole once, by serial.
LEMMA OrderIs ==
  ASSUME NEW tab \in [Ids -> Row], DistinctIn(tab), NEW s \in Nat
  PROVE  LET q == ShiftOrder(tab, s)
             N == Cardinality(Above(tab, s))
         IN  /\ N \in Nat /\ q \in [1..N -> Above(tab, s)] /\ DOMAIN q = 1..N /\ Len(q) = N
             /\ \A m, n \in 1..N : m < n => tab[q[m]].serial < tab[q[n]].serial
             /\ \A j \in Above(tab, s) : \E m \in 1..N : q[m] = j
<1> DEFINE A == Above(tab, s)
           q == ShiftOrder(tab, s)
           N == Cardinality(A)
<1>1. A \in SUBSET Ids /\ A \subseteq LiveIn(tab)
  BY DEF Above, LiveIn
<1>2. IsFiniteSet(A) /\ N \in Nat
  BY <1>1, FreightConstants, FS_Subset, FS_CardinalityType
<1>3. \A i, j \in A : tab[i].serial = tab[j].serial => i = j
  BY <1>1 DEF DistinctIn
<1>4. \E r : Sorts(tab, r, A)
  BY <1>1, <1>2, <1>3, OrderExists
<1>5. \E r \in SetToSeqs(A) : \A m, n \in DOMAIN r : m < n => tab[r[m]].serial < tab[r[n]].serial
  BY <1>4 DEF Sorts, Ascending
<1>6. /\ q \in SetToSeqs(A)
      /\ \A m, n \in DOMAIN q : m < n => tab[q[m]].serial < tab[q[n]].serial
  BY <1>5 DEF ShiftOrder
<1>7. /\ q \in [1..N -> A] /\ DOMAIN q = 1..N
      /\ \A m, n \in 1..N : m # n => q[m] # q[n]
  BY <1>6 DEF SetToSeqs
<1>8. Len(q) = N
  BY <1>2, <1>7
<1>9. q \in Injection(1..N, A)
  BY <1>7 DEF Injection, IsInjective
<1>10. Cardinality(1..N) = N /\ IsFiniteSet(1..N)
  BY <1>2, FS_Interval
<1>11. q \in Surjection(1..N, A)
  BY <1>2, <1>9, <1>10, FS_Injection
<1>12. \A j \in A : \E m \in 1..N : q[m] = j
  BY <1>11 DEF Surjection
<1> QED BY <1>2, <1>6, <1>7, <1>8, <1>12

\* What the first n updates leave, were each to write its row where it was.
Shifted(r) == [Touched(r) EXCEPT !.serial = @ - 1]
After(tab, q, n) ==
  [j \in Ids |-> IF \E m \in 1..n : q[m] = j THEN Shifted(tab[j]) ELSE tab[j]]
Through(tab, q, n) == [ok |-> TRUE, tab |-> After(tab, q, n)]

LEMMA ShiftedRow ==
  ASSUME NEW r \in Row, r.serial > 0
  PROVE  /\ Shifted(r) \in Row /\ Shifted(r).state = r.state
         /\ Shifted(r).serial = r.serial - 1
<1>1. r.serial - 1 \in Nat
  BY DEF Row
<1> QED BY <1>1, RowShift DEF Shifted

\* One update: the serial it takes is the hole, or was given up by the update
\* before it; every row it has not reached stands higher.
LEMMA OneUpdate ==
  ASSUME NEW tab \in [Ids -> Row], DistinctIn(tab), NEW s \in Nat,
         \A j \in LiveIn(tab) : tab[j].serial # s,
         NEW n \in 1..Cardinality(Above(tab, s))
  PROVE  LET q == ShiftOrder(tab, s)
         IN  ShiftOne(Through(tab, q, n - 1), q[n]) = Through(tab, q, n)
<1> DEFINE q == ShiftOrder(tab, s)
           N == Cardinality(Above(tab, s))
           i == q[n]
           T == After(tab, q, n - 1)
           to == tab[i].serial - 1
<1>1. /\ N \in Nat /\ \A m \in 1..N : q[m] \in Above(tab, s)
      /\ \A k, m \in 1..N : k < m => tab[q[k]].serial < tab[q[m]].serial
      /\ \A j \in Above(tab, s) : \E m \in 1..N : q[m] = j
  BY OrderIs
<1>2. /\ \A j \in Ids : tab[j] \in Row /\ tab[j].serial \in Nat
      /\ \A j : j \in Above(tab, s) <=> j \in Ids /\ tab[j].state = "live" /\ tab[j].serial > s
      /\ \A j : j \in LiveIn(tab) <=> j \in Ids /\ tab[j].state = "live"
  BY DEF Row, Above, LiveIn
<1> HIDE DEF q, N
<1>3. n \in 1..N /\ n \in Nat /\ n - 1 \in Nat
  BY <1>1 DEF N
<1>4. i \in Above(tab, s) /\ i \in Ids /\ tab[i].serial > s
  BY <1>1, <1>2, <1>3
<1>5. \A m \in 1..(n - 1) : m \in 1..N /\ m < n /\ q[m] # i /\ tab[q[m]].serial < tab[i].serial
  <2> TAKE m \in 1..(n - 1)
  <2>1. m \in 1..N /\ m < n
    BY <1>1, <1>3
  <2>2. tab[q[m]].serial < tab[i].serial /\ q[m] \in Ids
    BY <1>1, <1>2, <1>3, <2>1
  <2> QED BY <1>2, <1>4, <2>1, <2>2
<1>6. T[i] = tab[i]
  BY <1>4, <1>5 DEF After
<1>7. Free(T, to)
  <2> SUFFICES ASSUME NEW j \in Ids, T[j].state = "live" PROVE T[j].serial # to
    BY DEF Free, LiveIn
  <2>1. CASE \E m \in 1..(n - 1) : q[m] = j
    <3>1. PICK m \in 1..(n - 1) : q[m] = j
      BY <2>1
    <3>2. j \in Above(tab, s) /\ tab[j].serial < tab[i].serial
      BY <1>1, <1>5, <3>1
    <3>3. T[j] = Shifted(tab[j])
      BY <2>1 DEF After
    <3>4. T[j].serial = tab[j].serial - 1
      BY <1>2, <3>2, <3>3, ShiftedRow
    <3> QED BY <1>2, <1>4, <3>2, <3>4
  <2>2. CASE ~\E m \in 1..(n - 1) : q[m] = j
    <3>1. T[j] = tab[j] /\ j \in LiveIn(tab)
      BY <1>2, <2>2 DEF After
    <3>2. CASE tab[j].serial > s
      <4>1. PICK m \in 1..N : q[m] = j
        BY <1>1, <1>2, <3>1, <3>2
      <4>2. m >= n
        BY <1>1, <1>3, <2>2, <4>1
      <4>3. tab[i].serial <= tab[j].serial
        BY <1>1, <1>2, <1>3, <1>4, <4>1, <4>2
      <4> QED BY <1>2, <1>4, <3>1, <4>3
    <3>3. CASE ~(tab[j].serial > s)
      BY <1>2, <1>4, <3>1, <3>3
    <3> QED BY <3>2, <3>3
  <2> QED BY <2>1, <2>2
<1>8. [T EXCEPT ![i] = Shifted(tab[i])] = After(tab, q, n)
  <2>1. \A j \in Ids : (\E m \in 1..n : q[m] = j) <=> (j = i \/ \E m \in 1..(n - 1) : q[m] = j)
    <3> TAKE j \in Ids
    <3>1. \A m : m \in 1..n <=> (m \in 1..(n - 1) \/ m = n)
      BY <1>3
    <3> QED BY <3>1
  <2>2. \A j \in Ids : [T EXCEPT ![i] = Shifted(tab[i])][j] = After(tab, q, n)[j]
    BY <1>4, <2>1 DEF After
  <2>3. [T EXCEPT ![i] = Shifted(tab[i])] \in [Ids -> {[T EXCEPT ![i] = Shifted(tab[i])][j] : j \in Ids}]
    BY DEF After
  <2> QED BY <2>2 DEF After
<1>9. Through(tab, q, n - 1).ok = TRUE /\ Through(tab, q, n - 1).tab = T
  BY DEF Through
<1>10. [T EXCEPT ![i] = [Touched(@) EXCEPT !.serial = to]] = [T EXCEPT ![i] = Shifted(tab[i])]
  <2>1. [Touched(tab[i]) EXCEPT !.serial = to] = Shifted(tab[i])
    <3>1. tab[i] \in Row
      BY <1>2, <1>4
    <3>2. Touched(tab[i]).serial = tab[i].serial
      BY <3>1, RowForms
    <3> QED BY <3>2 DEF Shifted
  <2> QED BY <1>6, <2>1
<1>11. T[i].serial - 1 = to
  BY <1>6
<1>12. ShiftOne(Through(tab, q, n - 1), i) = [ok |-> TRUE, tab |-> After(tab, q, n)]
  <2> HIDE DEF T, to, i
  <2> QED BY <1>7, <1>8, <1>9, <1>10, <1>11 DEF ShiftOne
<1> QED BY <1>12 DEF Through, q

\* The loop as a function of the number of updates made.
LoopBody(tab, q, g) ==
  [n \in 0..Len(q) |-> IF n = 0 THEN [ok |-> TRUE, tab |-> tab] ELSE ShiftOne(g[n - 1], q[n])]

\* A function that satisfies the loop's equation is what the loop computes:
\* the equation leaves no choice at any n.
LEMMA LoopIs ==
  ASSUME NEW tab, NEW s, NEW N \in Nat, Len(ShiftOrder(tab, s)) = N,
         NEW g, g = LoopBody(tab, ShiftOrder(tab, s), g)
  PROVE  ShiftLoop(tab, s) = g[N]
<1> DEFINE q == ShiftOrder(tab, s)
           is(h) == h = [n \in 0..Len(q) |-> IF n = 0 THEN [ok |-> TRUE, tab |-> tab]
                                             ELSE ShiftOne(h[n - 1], q[n])]
           after == CHOOSE h : is(h)
<1>1. is(g)
  BY Zenon DEF LoopBody
<1>2. is(after)
  BY <1>1, Zenon
<1>3. ShiftLoop(tab, s) = after[Len(q)]
  BY Zenon DEF ShiftLoop
<1>4. \A n \in 0..N : g[n] = after[n]
  <2> DEFINE Off == {n \in 0..N : g[n] # after[n]}
  <2> SUFFICES ASSUME Off # {} PROVE FALSE
    OBVIOUS
  <2>0. Off \in SUBSET Nat /\ Off # {}
    OBVIOUS
  <2>1. PICK n \in Off : \A m \in Off : n <= m
    <3> HIDE DEF Off
    <3> QED BY <2>0, LeastOf
  <2>2. n \in 0..N /\ g[n] # after[n]
    OBVIOUS
  <2>3. \A h : is(h) => h[n] = IF n = 0 THEN [ok |-> TRUE, tab |-> tab]
                               ELSE ShiftOne(h[n - 1], q[n])
    <3> HIDE DEF q
    <3> SUFFICES ASSUME NEW h, is(h)
                 PROVE  h[n] = IF n = 0 THEN [ok |-> TRUE, tab |-> tab]
                               ELSE ShiftOne(h[n - 1], q[n])
      OBVIOUS
    <3>1. n \in 0..Len(q)
      BY <2>2 DEF q
    <3> QED BY <3>1, Zenon
  <2> HIDE DEF q, is, after
  <2>4. CASE n = 0
    BY <1>1, <1>2, <2>2, <2>3, <2>4
  <2>5. CASE n # 0
    <3>1. n - 1 \in 0..N /\ n - 1 \notin Off
      BY <2>1, <2>2, <2>5
    <3>2. g[n - 1] = after[n - 1]
      BY <3>1
    <3> QED BY <1>1, <1>2, <2>2, <2>3, <2>5, <3>2
  <2> QED BY <2>4, <2>5
<1>5. N \in 0..N
  OBVIOUS
<1> QED BY <1>3, <1>4, <1>5

\* Over a table whose live serials are distinct, none of them the hole's, the
\* loop runs through and ends where the simultaneous shift does.
LEMMA LoopShifts ==
  ASSUME NEW tab \in [Ids -> Row], DistinctIn(tab), NEW s \in Nat,
         \A j \in LiveIn(tab) : tab[j].serial # s
  PROVE  ShiftLoop(tab, s) = [ok |-> TRUE, tab |-> Compacted(tab, s)]
<1> DEFINE q == ShiftOrder(tab, s)
           N == Cardinality(Above(tab, s))
           g == [n \in 0..N |-> Through(tab, q, n)]
<1>1. /\ N \in Nat /\ Len(q) = N /\ \A m \in 1..N : q[m] \in Above(tab, s)
      /\ \A j \in Above(tab, s) : \E m \in 1..N : q[m] = j
  BY OrderIs
<1>2. \A n \in 1..N : ShiftOne(Through(tab, q, n - 1), q[n]) = Through(tab, q, n)
  BY OneUpdate
<1> HIDE DEF q, N
<1>3. Through(tab, q, 0) = [ok |-> TRUE, tab |-> tab]
  <2>1. After(tab, q, 0) = tab
    BY DEF After
  <2> QED BY <2>1 DEF Through
<1>4. g = LoopBody(tab, q, g)
  <2>1. \A n \in 0..N : g[n] = Through(tab, q, n)
    OBVIOUS
  <2> HIDE DEF g
  <2>2. \A n \in 0..N : Through(tab, q, n) = IF n = 0 THEN [ok |-> TRUE, tab |-> tab]
                                             ELSE ShiftOne(g[n - 1], q[n])
    <3> TAKE n \in 0..N
    <3>1. CASE n = 0 BY <1>3, <3>1
    <3>2. CASE n # 0
      <4>1. n \in 1..N /\ n - 1 \in 0..N BY <1>1, <3>2
      <4> QED BY <1>2, <2>1, <3>2, <4>1
    <3> QED BY <3>1, <3>2
  <2>3. g = [n \in 0..N |-> IF n = 0 THEN [ok |-> TRUE, tab |-> tab] ELSE ShiftOne(g[n - 1], q[n])]
    BY <2>2 DEF g
  <2> QED BY <1>1, <2>3, Zenon DEF LoopBody
<1>5. ShiftLoop(tab, s) = g[N]
  BY <1>1, <1>4, LoopIs DEF q
<1>6. g[N] = Through(tab, q, N)
  BY <1>1
<1>7. After(tab, q, N) = Compacted(tab, s)
  <2>1. \A j \in Ids : (\E m \in 1..N : q[m] = j) <=> j \in Above(tab, s)
    BY <1>1
  <2> QED BY <2>1 DEF After, Compacted, Shifted
<1> QED BY <1>5, <1>6, <1>7 DEF Through

----------------------------------------------------------------------------
(* Numbers stay distinct through imports, which leave holes and move the     *)
(* counter away from the highest of them.                                    *)

Distinct == DistinctIn(rows)

LEMMA DistinctShift ==
  ASSUME FreightTypeOK, Distinct, NEW i \in Ids, rows[i].state = "live"
  PROVE  LET b == Buried(rows, i)
         IN  /\ b \in [Ids -> Row] /\ DistinctIn(b)
             /\ \A j \in LiveIn(b) : b[j].serial # rows[i].serial
<1> DEFINE b == Buried(rows, i)
           r == [Touched(rows[i]) EXCEPT !.state = "dead"]
<1>1. rows \in [Ids -> Row] /\ rows[i] \in Row
  BY DEF FreightTypeOK
<1>2. r \in Row /\ r.state = "dead"
  BY <1>1, RowShift
<1> HIDE DEF r
<1>3. b = [rows EXCEPT ![i] = r]
  BY <1>1 DEF Buried, r
<1>4. b \in [Ids -> Row] /\ b[i] = r /\ \A j \in Ids \ {i} : b[j] = rows[j]
  BY <1>1, <1>2, <1>3
<1> HIDE DEF b
<1>5. \A j \in LiveIn(b) : j # i /\ j \in LiveIn(rows) /\ b[j] = rows[j]
  BY <1>2, <1>4 DEF LiveIn
<1>6. i \in LiveIn(rows)
  BY DEF LiveIn
<1> QED BY <1>4, <1>5, <1>6 DEF Distinct, DistinctIn, b

LEMMA DistinctKept == FreightTypeOK /\ Distinct /\ FreightNext => Distinct'
<1> SUFFICES ASSUME FreightTypeOK, Distinct, FreightNext PROVE Distinct'
  OBVIOUS
<1>0. rows \in [Ids -> Row] /\ counter \in Nat /\ (\A i \in Ids : rows[i] \in Row)
      /\ edits \in [Clients -> Edit]
  BY DEF FreightTypeOK
<1>1. ASSUME rows' = rows PROVE Distinct'
  BY <1>1 DEF Distinct, DistinctIn, LiveIn
<1>2. ASSUME NEW i \in Ids, NEW r \in Row, rows' = [rows EXCEPT ![i] = r],
             r.state = "live" => \/ rows[i].state = "live" /\ r.serial = rows[i].serial
                                 \/ Free(rows, r.serial)
      PROVE  Distinct'
  <2>1. rows'[i] = r /\ \A j \in Ids \ {i} : rows'[j] = rows[j]
    BY <1>0, <1>2
  <2>2. ASSUME NEW j \in LiveIn(rows'), NEW k \in LiveIn(rows'), rows'[j].serial = rows'[k].serial
        PROVE  j = k
    <3>1. j \in Ids /\ k \in Ids /\ rows'[j].state = "live" /\ rows'[k].state = "live"
      BY DEF LiveIn
    <3>2. \A l \in Ids \ {i} : rows'[l].state = "live" => l \in LiveIn(rows)
      BY <2>1 DEF LiveIn
    <3>3. rows[i].state = "live" => i \in LiveIn(rows)
      BY DEF LiveIn
    <3> QED BY <1>2, <2>1, <2>2, <3>1, <3>2, <3>3 DEF Distinct, DistinctIn, Free
  <2> QED BY <2>2 DEF Distinct, DistinctIn
<1>3. ASSUME NEW i \in Ids, CreateEntry(i) PROVE Distinct'
  <2>1. Free(rows, counter + 1) /\ counter + 1 \in Nat
    BY <1>0, <1>3 DEF CreateEntry
  <2>2. CASE rows[i].state = "none"
    <3>1. rows' = [rows EXCEPT ![i] = Fresh(counter + 1)]
      BY <1>3, <2>2 DEF CreateEntry
    <3>2. Fresh(counter + 1) \in Row /\ Fresh(counter + 1).serial = counter + 1
      BY <1>0, <2>1, RowForms
    <3> QED BY <1>2, <2>1, <3>1, <3>2
  <2>3. CASE rows[i].state # "none"
    <3> DEFINE r == Resurrected(rows[i], counter + 1)
    <3>1. rows' = [rows EXCEPT ![i] = r]
      BY <1>3, <2>3 DEF CreateEntry
    <3>2. r \in Row /\ r.serial = counter + 1
      BY <1>0, <2>1, RowForms
    <3> HIDE DEF r
    <3> QED BY <1>2, <2>1, <3>1, <3>2
  <2> QED BY <2>2, <2>3
<1>4. ASSUME NEW i \in Ids, PushCreate(i) PROVE Distinct'
  <2>1. CASE Free(rows, counter + 1)
    <3>1. rows' = [rows EXCEPT ![i] = Fresh(counter + 1)] /\ counter + 1 \in Nat
      BY <1>0, <1>4, <2>1 DEF PushCreate
    <3>2. Fresh(counter + 1) \in Row /\ Fresh(counter + 1).serial = counter + 1
      BY <1>0, <3>1, RowForms
    <3> QED BY <1>2, <2>1, <3>1, <3>2
  <2>2. CASE ~Free(rows, counter + 1)
    BY <1>1, <1>4, <2>2 DEF PushCreate
  <2> QED BY <2>1, <2>2
<1>5. ASSUME NEW i \in Ids, rows' = [rows EXCEPT ![i] = Touched(rows[i])] PROVE Distinct'
  <2>1. /\ Touched(rows[i]) \in Row /\ Touched(rows[i]).state = rows[i].state
        /\ Touched(rows[i]).serial = rows[i].serial
    BY <1>0, RowForms
  <2> QED BY <1>2, <1>5, <2>1
<1>6. ASSUME NEW i \in Ids, PushEdit(i) PROVE Distinct'
  BY <1>0, <1>5, <1>6 DEF PushEdit
<1>7. ASSUME NEW i \in Ids, DeleteEntry(i) PROVE Distinct'
  <2> DEFINE s == rows[i].serial
             f(j) == IF rows[j].serial > s THEN rows[j].serial - 1 ELSE rows[j].serial
  <2>1. /\ s \in Nat /\ \A j \in Ids : rows[j].serial \in Nat
        /\ i \in LiveIn(rows) /\ rows[i].state = "live"
    BY <1>0, <1>7, RowTyped DEF DeleteEntry, LiveIn
  <2>2. \A j \in LiveIn(rows') :
          /\ j \in LiveIn(rows) /\ j \in Ids /\ rows'[j].serial = f(j) /\ rows[j].serial # s
    <3> SUFFICES ASSUME NEW j \in LiveIn(rows')
                 PROVE  j \in LiveIn(rows) /\ j \in Ids /\ rows'[j].serial = f(j) /\ rows[j].serial # s
      OBVIOUS
    <3>1. j \in Ids \ {i} /\ rows'[j].state = "live" /\ rows[j].state = "live"
      BY <1>7, AfterDelete DEF LiveIn
    <3>2. j \in LiveIn(rows) /\ rows[j].serial # s
      BY <2>1, <3>1 DEF LiveIn, Distinct, DistinctIn
    <3>3. rows'[j].serial = f(j)
      BY <1>7, <3>1, AfterDelete
    <3> QED BY <3>1, <3>2, <3>3
  <2>3. \A j, k \in Ids : rows[j].serial # s /\ rows[k].serial # s /\ f(j) = f(k)
                            => rows[j].serial = rows[k].serial
    BY <2>1
  <2> HIDE DEF f, s
  <2> QED BY <2>2, <2>3 DEF Distinct, DistinctIn
<1>8. ASSUME NEW i \in Ids, PurgeEntry(i) PROVE Distinct'
  <2>1. NoRow \in Row /\ NoRow.state = "none"
    BY <1>0, RowForms
  <2> QED BY <1>2, <1>8, <2>1 DEF PurgeEntry
<1>9. ASSUME NEW c \in Clients, NEW i \in Ids, PatchRead(c, i) PROVE Distinct'
  BY <1>1, <1>9 DEF PatchRead
<1>10. ASSUME NEW c \in Clients, PatchWrite(c) PROVE Distinct'
  <2>1. edits[c].id \in Ids
    BY <1>0, <1>10 DEF PatchWrite, Edit, NoEdit
  <2>2. rows' = [rows EXCEPT ![edits[c].id] = Touched(rows[edits[c].id])] \/ rows' = rows
    BY <1>10 DEF PatchWrite
  <2> QED BY <1>1, <1>5, <2>1, <2>2
<1>11. CASE FreightRestart
  BY <1>1, <1>11 DEF FreightRestart
<1> QED BY <1>3, <1>4, <1>6, <1>7, <1>8, <1>9, <1>10, <1>11 DEF FreightNext

LEMMA DistinctThrough == ImportTypeOK /\ Distinct /\ [BackupNext]_backupVars => Distinct'
<1> SUFFICES ASSUME ImportTypeOK, Distinct, [BackupNext]_backupVars PROVE Distinct'
  OBVIOUS
<1>0. FreightTypeOK /\ \A i \in Ids : rows[i] \in Row
  BY DEF ImportTypeOK, FreightTypeOK
<1>1. ASSUME rows' = rows PROVE Distinct'
  BY <1>1 DEF Distinct, DistinctIn, LiveIn
<1>2. CASE FreightStep
  BY <1>0, <1>2, DistinctKept DEF FreightStep
<1>3. CASE Export
  BY <1>1, <1>3 DEF Export
<1>4. ASSUME NEW mode \in {"merge", "replace"}, ImportStart(mode) PROVE Distinct'
  <2>1. CASE mode = "merge"
    BY <1>1, <1>4, <2>1 DEF ImportStart
  <2>2. CASE mode # "merge"
    <3>1. rows' = [i \in Ids |-> IF i \in Live THEN [Touched(rows[i]) EXCEPT !.state = "dead"]
                                 ELSE rows[i]]
      BY <1>4, <2>2 DEF ImportStart
    <3>2. \A i \in Ids : [Touched(rows[i]) EXCEPT !.state = "dead"].state = "dead"
      BY <1>0, RowShift
    <3>3. LiveIn(rows') = {}
      BY <3>1, <3>2 DEF Live, LiveIn
    <3> QED BY <3>3 DEF Distinct, DistinctIn
  <2> QED BY <2>1, <2>2
<1>5. CASE ImportChunk
  <2>1. rows' = rows \/ ~Collides(rows')
    BY <1>5 DEF ImportChunk
  <2> QED BY <1>1, <2>1 DEF Collides, Distinct, DistinctIn
<1>6. CASE ImportEnsure
  BY <1>1, <1>6 DEF ImportEnsure
<1>7. CASE ImportAbort
  BY <1>1, <1>7 DEF ImportAbort
<1>8. CASE UNCHANGED backupVars
  BY <1>1, <1>8 DEF backupVars
<1> QED BY <1>2, <1>3, <1>4, <1>5, <1>6, <1>7, <1>8 DEF BackupNext

LEMMA DistinctAlways == BackupSpec => [](ImportTypeOK /\ Distinct)
<1>1. BackupInit => Distinct
  BY DEF BackupInit, FreightInit, NoRow, Distinct, DistinctIn, LiveIn
<1>2. BInv => ImportTypeOK
  BY DEF BInv
<1>3. BackupInit => ImportTypeOK
  BY BackupInitHolds, <1>2
<1>4. ImportTypeOK /\ Distinct /\ [BackupNext]_backupVars => ImportTypeOK' /\ Distinct'
  BY ImportTypesKept, DistinctThrough
<1> QED BY <1>1, <1>3, <1>4, PTL DEF BackupSpec

\* Whichever live voucher is deleted, at any moment of any history of restores,
\* the loop of single-row updates never meets the unique index and leaves every
\* later voucher exactly one number lower.
THEOREM CompactionIsShift == BackupSpec => []LoopIsShift
<1>1. ImportTypeOK /\ Distinct => LoopIsShift
  <2> SUFFICES ASSUME FreightTypeOK, Distinct, NEW i \in Live
               PROVE  LET s == rows[i].serial
                      IN ShiftLoop(Buried(rows, i), s)
                           = [ok |-> TRUE, tab |-> Compacted(Buried(rows, i), s)]
    BY DEF ImportTypeOK, LoopIsShift
  <2>1. i \in Ids /\ rows[i].state = "live" /\ rows[i].serial \in Nat
    BY RowTyped DEF Live, LiveIn
  <2> QED BY <2>1, DistinctShift, LoopShifts
<1> QED BY <1>1, DistinctAlways, PTL
=============================================================================
