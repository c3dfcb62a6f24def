---------------------------- MODULE LandingProofs ----------------------------
(* The landing cost of a firm, for every set of masters, records, payments,  *)
(* contents, claims and credit notes: a claim reads received exactly when    *)
(* its notes make up what was accrued, the revision gate of a purchase       *)
(* compares contents, and what masters and the records that name them        *)
(* promise each other, and a push, holds.                                    *)
EXTENDS Claims, Purchases, Masters, TLAPS

----------------------------------------------------------------------------
(* Claims.                                                                  *)

\* A claim that is not in the table has left no notes behind.
GoneBare == \A k \in ClaimIds : ~ThereClaim(k) => claim[k] = NoClaim /\ notes[k] = {}

\* The status a patch is about to write is that of the notes as they are, unless
\* they changed since it read them, or the claim itself is gone.
PendingRight ==
  \A k \in ClaimIds : PatchPending(k) /\ k \notin loose /\ ThereClaim(k) =>
    (desk.status = "received" <=> Covered(notes[k]))

ClaimsInv == ClaimsTypeOK /\ GoneBare /\ PendingRight /\ StatusTrue

\* claimAutoStatus gives the status the notes make, whatever it is given.
LEMMA AutoRight ==
  ASSUME NEW s \in Statuses, NEW N
  PROVE  AutoStatus(s, N) \in Statuses /\ (AutoStatus(s, N) = "received" <=> Covered(N))
BY DEF AutoStatus, Statuses

LEMMA NothingCovers == ~Covered({})
BY DEF Covered

ClaimRow == [st : {"none", "live", "dead"}, status : Statuses]

\* The rows the actions write.
LEMMA ClaimForms ==
  ASSUME NEW r \in ClaimRow, NEW s \in Statuses
  PROVE  /\ r.st \in {"none", "live", "dead"} /\ r.status \in Statuses
         /\ [r EXCEPT !.status = s] \in ClaimRow
         /\ [r EXCEPT !.status = s].st = r.st /\ [r EXCEPT !.status = s].status = s
         /\ \A x \in {"none", "live", "dead"} :
              /\ [r EXCEPT !.st = x] \in ClaimRow
              /\ [r EXCEPT !.st = x].st = x /\ [r EXCEPT !.st = x].status = r.status
         /\ NoClaim \in ClaimRow /\ NoClaim.st = "none" /\ NoClaim.status = "open"
BY DEF ClaimRow, NoClaim, Statuses

\* What a step that rewrites one claim has to show.
LEMMA OneClaim ==
  ASSUME ClaimsInv, NEW k \in ClaimIds,
         claim' \in [ClaimIds -> ClaimRow], notes' \in [ClaimIds -> SUBSET Notes],
         loose' \subseteq ClaimIds,
         desk' = desk \/ desk' = NoDesk,
         \A j \in ClaimIds \ {k} :
           claim'[j] = claim[j] /\ notes'[j] = notes[j] /\ (j \in loose' <=> j \in loose),
         claim'[k].st = "none" => claim'[k] = NoClaim /\ notes'[k] = {},
         claim'[k].st = "live" /\ k \notin loose' =>
           (claim'[k].status = "received" <=> Covered(notes'[k])),
         desk' = desk /\ PatchPending(k) /\ k \notin loose' /\ claim'[k].st # "none" =>
           (desk.status = "received" <=> Covered(notes'[k]))
  PROVE  ClaimsInv'
<1>1. desk' \in [op : {"none", "add", "remove", "patch", "update"},
                 id : SUBSET ClaimIds, note : SUBSET Notes, status : Statuses]
  BY DEF ClaimsInv, ClaimsTypeOK, NoDesk, Statuses
<1>2. ClaimsTypeOK'
  BY <1>1 DEF ClaimsTypeOK, ClaimRow
<1>3. GoneBare'
  BY DEF ClaimsInv, GoneBare, ThereClaim
<1>4. StatusTrue'
  BY DEF ClaimsInv, StatusTrue, LiveClaim
<1>5. PendingRight'
  <2> SUFFICES ASSUME NEW j \in ClaimIds, PatchPending(j)', j \notin loose', ThereClaim(j)'
               PROVE  (desk.status = "received" <=> Covered(notes[j]))' 
    BY DEF PendingRight
  <2>1. desk' = desk /\ PatchPending(j)
    BY DEF PatchPending, NoDesk
  <2>2. CASE j = k
    BY <2>1, <2>2 DEF ThereClaim
  <2>3. CASE j # k
    <3>1. j \notin loose /\ ThereClaim(j) /\ notes'[j] = notes[j]
      BY <2>3 DEF ThereClaim
    <3>2. desk.status = "received" <=> Covered(notes[j])
      BY <2>1, <3>1 DEF ClaimsInv, PendingRight
    <3> QED BY <2>1, <3>1, <3>2
  <2> QED BY <2>2, <2>3
<1> QED BY <1>2, <1>3, <1>4, <1>5 DEF ClaimsInv

\* How the history of loose claims moves when the notes of one change.
LEMMA TightenedOne ==
  ASSUME ClaimsInv, NEW k \in ClaimIds
  PROVE  /\ Tightened(k) \subseteq ClaimIds
         /\ \A j \in ClaimIds \ {k} : j \in Tightened(k) <=> j \in loose
         /\ PatchPending(k) => k \in Tightened(k)
BY DEF Tightened, ClaimsInv, ClaimsTypeOK

\* A writer that gives claim k the notes N and the status they make.
LEMMA SettledStep ==
  ASSUME ClaimsInv, NEW k \in ClaimIds, NEW N \in SUBSET Notes, NEW s \in Statuses,
         ThereClaim(k),
         claim' = [claim EXCEPT ![k].status = AutoStatus(s, N)],
         Renote(k, N), desk' = desk \/ desk' = NoDesk
  PROVE  ClaimsInv'
<1> DEFINE t == AutoStatus(s, N)
<1>1. t \in Statuses /\ (t = "received" <=> Covered(N))
  BY AutoRight
<1> HIDE DEF t
<1>2. claim \in [ClaimIds -> ClaimRow] /\ notes \in [ClaimIds -> SUBSET Notes] /\ claim[k] \in ClaimRow
  BY DEF ClaimsInv, ClaimsTypeOK, ClaimRow
<1>3. /\ [claim[k] EXCEPT !.status = t] \in ClaimRow
      /\ [claim[k] EXCEPT !.status = t].st = claim[k].st
      /\ [claim[k] EXCEPT !.status = t].status = t
  BY <1>1, <1>2 DEF ClaimRow
<1>4. claim' = [claim EXCEPT ![k] = [claim[k] EXCEPT !.status = t]]
  BY <1>2 DEF t
<1>5. /\ claim' \in [ClaimIds -> ClaimRow]
      /\ claim'[k].st = claim[k].st /\ claim'[k].status = t
      /\ \A j \in ClaimIds \ {k} : claim'[j] = claim[j]
  BY <1>2, <1>3, <1>4
<1>6. /\ notes' \in [ClaimIds -> SUBSET Notes] /\ notes'[k] = N
      /\ \A j \in ClaimIds \ {k} : notes'[j] = notes[j]
  BY <1>2 DEF Renote
<1>7. loose' = Tightened(k)
  BY DEF Renote
<1>8. claim'[k].st # "none"
  BY <1>5 DEF ThereClaim
<1> QED BY <1>1, <1>5, <1>6, <1>7, <1>8, TightenedOne, OneClaim

LEMMA ClaimsInitInv == ClaimsInit => ClaimsInv
<1> SUFFICES ASSUME ClaimsInit PROVE ClaimsInv
  OBVIOUS
<1>1. \A k \in ClaimIds : claim[k] = NoClaim /\ notes[k] = {} /\ ~PatchPending(k) /\ claim[k].st = "none"
  BY DEF ClaimsInit, NoClaim, PatchPending, NoDesk
<1>2. ClaimsTypeOK
  BY DEF ClaimsInit, ClaimsTypeOK, NoClaim, NoDesk, Statuses
<1> QED BY <1>1, <1>2 DEF ClaimsInv, GoneBare, PendingRight, StatusTrue, LiveClaim

\* Nothing but the desk moves, and what it is about to write is right.
LEMMA DeskStep ==
  ASSUME ClaimsInv, UNCHANGED <<claim, notes, loose>>,
         desk' \in [op : {"none", "add", "remove", "patch", "update"},
                    id : SUBSET ClaimIds, note : SUBSET Notes, status : Statuses],
         \A k \in ClaimIds : PatchPending(k)' => (desk'.status = "received" <=> Covered(notes[k]))
  PROVE  ClaimsInv'
<1>1. ClaimsTypeOK'
  BY DEF ClaimsInv, ClaimsTypeOK
<1>2. GoneBare'
  BY DEF ClaimsInv, GoneBare, ThereClaim
<1>3. StatusTrue'
  BY DEF ClaimsInv, StatusTrue, LiveClaim, Covered
<1>4. PendingRight'
  BY DEF PendingRight, Covered
<1> QED BY <1>1, <1>2, <1>3, <1>4 DEF ClaimsInv

LEMMA ClaimsNextInv == ClaimsInv /\ [ClaimsNext]_claimVars => ClaimsInv'
<1> SUFFICES ASSUME ClaimsInv, [ClaimsNext]_claimVars PROVE ClaimsInv'
  OBVIOUS
<1> DEFINE Desk == [op : {"none", "add", "remove", "patch", "update"},
                    id : SUBSET ClaimIds, note : SUBSET Notes, status : Statuses]
<1>t. /\ claim \in [ClaimIds -> ClaimRow] /\ notes \in [ClaimIds -> SUBSET Notes]
      /\ desk \in Desk /\ loose \subseteq ClaimIds
  BY DEF ClaimsInv, ClaimsTypeOK, ClaimRow
<1>o. NoDesk.op = "none" /\ NoDesk \in Desk
  BY DEF NoDesk, Statuses
<1>1. ASSUME NEW k \in ClaimIds, CreateClaimRow(k) PROVE ClaimsInv'
  <2>1. /\ claim' \in [ClaimIds -> ClaimRow] /\ notes' = [j \in ClaimIds |-> {}]
        /\ claim'[k].st = "live" /\ claim'[k].status = "open"
        /\ \A j \in ClaimIds \ {k} : claim'[j] = NoClaim
    BY <1>1, ClaimForms DEF CreateClaimRow, ClaimRow, NoClaim, Statuses
  <2>2. loose' = Tightened(k) /\ desk' = desk /\ loose' \subseteq ClaimIds
    BY <1>1, TightenedOne DEF CreateClaimRow
  <2>3. ClaimsTypeOK'
    BY <1>t, <2>1, <2>2 DEF ClaimsTypeOK, ClaimRow
  <2>4. \A j \in ClaimIds \ {k} : claim'[j].st = "none"
    BY <2>1 DEF NoClaim
  <2>5. GoneBare'
    BY <2>1, <2>4 DEF GoneBare, ThereClaim
  <2>6. ~Covered({})' /\ \A j \in ClaimIds : notes'[j] = {}
    BY <2>1 DEF Covered
  <2>7. StatusTrue'
    BY <2>1, <2>4, <2>6 DEF StatusTrue, LiveClaim, Covered
  <2>8. PatchPending(k)' => k \in loose'
    BY <2>2, TightenedOne DEF PatchPending
  <2>9. PendingRight'
    BY <2>4, <2>8 DEF PendingRight, ThereClaim
  <2> QED BY <2>3, <2>5, <2>7, <2>9 DEF ClaimsInv
<1>2. ASSUME NEW k \in ClaimIds, DeleteClaim(k) PROVE ClaimsInv'
  <2>1. /\ claim' \in [ClaimIds -> ClaimRow] /\ claim'[k].st = "dead"
        /\ \A j \in ClaimIds \ {k} : claim'[j] = claim[j]
    BY <1>2, <1>t DEF DeleteClaim, ClaimRow
  <2>2. desk' = desk /\ notes' = notes /\ loose' = loose
    BY <1>2 DEF DeleteClaim
  <2>3. ThereClaim(k)
    BY <1>2 DEF DeleteClaim, LiveClaim, ThereClaim
  <2>4. PatchPending(k) /\ k \notin loose => (desk.status = "received" <=> Covered(notes[k]))
    BY <2>3 DEF ClaimsInv, PendingRight
  <2> QED BY <1>t, <2>1, <2>2, <2>4, OneClaim
<1>3. ASSUME NEW k \in ClaimIds, PurgeClaim(k) PROVE ClaimsInv'
  <2>1. /\ claim' \in [ClaimIds -> ClaimRow] /\ claim'[k] = NoClaim /\ claim'[k].st = "none"
        /\ \A j \in ClaimIds \ {k} : claim'[j] = claim[j]
    BY <1>3, <1>t, ClaimForms DEF PurgeClaim, ClaimRow, NoClaim, Statuses
  <2>2. /\ desk' = desk /\ notes' \in [ClaimIds -> SUBSET Notes] /\ notes'[k] = {} /\ loose' = Tightened(k)
        /\ \A j \in ClaimIds \ {k} : notes'[j] = notes[j]
    BY <1>3, <1>t DEF PurgeClaim, Renote
  <2> QED BY <2>1, <2>2, TightenedOne, OneClaim
<1>4. ASSUME NEW k \in ClaimIds, PushNewClaim(k) PROVE ClaimsInv'
  <2>1. ~ThereClaim(k)
    BY <1>4 DEF PushNewClaim, Rows
  <2>2. claim[k] = NoClaim /\ notes[k] = {}
    BY <2>1 DEF ClaimsInv, GoneBare
  <2>3. /\ claim' \in [ClaimIds -> ClaimRow] /\ claim'[k].st = "live" /\ claim'[k].status = "open"
        /\ \A j \in ClaimIds \ {k} : claim'[j] = claim[j]
    BY <1>4, <1>t, <2>2 DEF PushNewClaim, ClaimRow, NoClaim
  <2>4. desk' = desk /\ notes' = notes /\ loose' = Tightened(k)
    BY <1>4 DEF PushNewClaim
  <2> QED BY <1>t, <2>2, <2>3, <2>4, TightenedOne, NothingCovers, OneClaim
<1>5. ASSUME NEW k \in ClaimIds, NoteWrite(k) PROVE ClaimsInv'
  <2> DEFINE N == IF desk.op = "add" THEN notes[k] \cup desk.note ELSE notes[k] \ desk.note
  <2>1. N \in SUBSET Notes /\ claim[k].status \in Statuses
    BY <1>t DEF ClaimRow
  <2>2. CASE ThereClaim(k)
    <3>1. claim' = [claim EXCEPT ![k].status = AutoStatus(claim[k].status, N)] /\ Renote(k, N) /\ desk' = NoDesk
      BY <1>5, <2>2, <1>t DEF NoteWrite, Settled
    <3> HIDE DEF N
    <3> QED BY <2>1, <2>2, <3>1, SettledStep
  <2>3. CASE ~ThereClaim(k)
    <3>1. UNCHANGED <<claim, notes, loose>> /\ desk' = NoDesk
      BY <1>5, <2>3 DEF NoteWrite
    <3> QED BY <3>1, <1>o, DeskStep DEF PatchPending
  <2> QED BY <2>2, <2>3
<1>6. ASSUME NEW k \in ClaimIds, PatchClaimNotes(k) PROVE ClaimsInv'
  <2>1. /\ UNCHANGED <<claim, notes, loose>> /\ desk.id = {k}
        /\ desk' = [op |-> "update", id |-> desk.id, note |-> desk.note, status |-> AutoStatus(desk.status, notes[k])]
    BY <1>6, <1>t DEF PatchClaimNotes
  <2>2. desk.status \in Statuses
    BY <1>t
  <2>3. desk'.status \in Statuses /\ (desk'.status = "received" <=> Covered(notes[k]))
    BY <2>1, <2>2, AutoRight
  <2>4. desk' \in Desk
    BY <1>t, <2>1, <2>3
  <2>5. \A j \in ClaimIds : PatchPending(j)' => j = k
    BY <2>1 DEF PatchPending
  <2> QED BY <2>1, <2>3, <2>4, <2>5, DeskStep
<1>7. ASSUME NEW k \in ClaimIds, PatchClaimWrite(k) PROVE ClaimsInv'
  <2>1. desk' = NoDesk /\ notes' = notes /\ loose' = loose /\ PatchPending(k)
    BY <1>7 DEF PatchClaimWrite
  <2>2. CASE ThereClaim(k)
    <3>1. /\ claim' \in [ClaimIds -> ClaimRow] /\ claim'[k].st = claim[k].st /\ claim'[k].status = desk.status
          /\ \A j \in ClaimIds \ {k} : claim'[j] = claim[j]
      BY <1>7, <2>2, <1>t DEF PatchClaimWrite, ClaimRow
    <3>2. k \notin loose => (desk.status = "received" <=> Covered(notes[k]))
      BY <2>1, <2>2 DEF ClaimsInv, PendingRight
    <3>3. claim'[k].st # "none"
      BY <2>2, <3>1 DEF ThereClaim
    <3>4. desk' # desk
      BY <2>1, <1>o DEF PatchPending
    <3> QED BY <1>t, <2>1, <3>1, <3>2, <3>3, <3>4, OneClaim
  <2>3. CASE ~ThereClaim(k)
    <3>1. UNCHANGED <<claim, notes, loose>>
      BY <1>7, <2>3 DEF PatchClaimWrite
    <3> QED BY <2>1, <3>1, <1>o, DeskStep DEF PatchPending
  <2> QED BY <2>2, <2>3
<1>8. ASSUME NEW k \in ClaimIds, NEW s \in Statuses, PatchClaimRead(k, s) PROVE ClaimsInv'
  <2>1. UNCHANGED <<claim, notes, loose>> /\ desk' = [op |-> "patch", id |-> {k}, note |-> {}, status |-> s]
    BY <1>8 DEF PatchClaimRead
  <2>2. desk' \in Desk /\ desk'.op = "patch"
    BY <2>1
  <2> QED BY <2>1, <2>2, DeskStep DEF PatchPending
<1>9. ASSUME NEW k \in ClaimIds, NEW n \in Notes, NEW op \in {"add", "remove"}, NoteRead(k, n, op) PROVE ClaimsInv'
  <2>1. UNCHANGED <<claim, notes, loose>> /\ desk' = [op |-> op, id |-> {k}, note |-> {n}, status |-> "open"]
    BY <1>9 DEF NoteRead, NoDesk
  <2>2. desk' \in Desk /\ desk'.op # "update"
    BY <2>1 DEF Statuses
  <2> QED BY <2>1, <2>2, DeskStep DEF PatchPending
<1>10. ASSUME NEW k \in ClaimIds, NEW s \in Statuses, NEW N \in SUBSET Notes, NEW bad \in BOOLEAN,
              PushClaim(k, s, N, bad)
       PROVE  ClaimsInv'
  <2>1. CASE ~bad
    <3>1. /\ claim' = [claim EXCEPT ![k].status = AutoStatus(s, notes[k] \cup N)]
          /\ Renote(k, notes[k] \cup N) /\ ThereClaim(k) /\ desk' = desk
      BY <1>10, <2>1 DEF PushClaim
    <3>2. notes[k] \cup N \in SUBSET Notes
      BY <1>t
    <3> QED BY <3>1, <3>2, SettledStep
  <2>2. CASE bad
    <3>1. PICK W \in SUBSET N \ {N} :
            /\ claim' = [claim EXCEPT ![k].status = s]
            /\ notes' = [notes EXCEPT ![k] = notes[k] \cup W]
            /\ loose' = loose \cup {k}
      BY <1>10, <2>2, <1>t DEF PushClaim
    <3>2. desk' = desk /\ ThereClaim(k)
      BY <1>10 DEF PushClaim
    <3>3. /\ claim' \in [ClaimIds -> ClaimRow] /\ claim'[k].st = claim[k].st
          /\ \A j \in ClaimIds \ {k} : claim'[j] = claim[j]
      BY <1>t, <3>1 DEF ClaimRow
    <3>4. /\ notes' \in [ClaimIds -> SUBSET Notes] /\ \A j \in ClaimIds \ {k} : notes'[j] = notes[j]
      BY <1>t, <3>1
    <3>5. loose' \subseteq ClaimIds /\ k \in loose' /\ \A j \in ClaimIds \ {k} : j \in loose' <=> j \in loose
      BY <1>t, <3>1
    <3>6. claim'[k].st # "none"
      BY <3>2, <3>3 DEF ThereClaim
    <3> QED BY <3>2, <3>3, <3>4, <3>5, <3>6, OneClaim
  <2> QED BY <2>1, <2>2
<1>11. ASSUME NEW k \in ClaimIds, NEW n \in Notes, PushNote(k, n) \/ PushNoteDelete(k, n) PROVE ClaimsInv'
  <2>1. PICK N \in {notes[k] \cup {n}, notes[k] \ {n}} :
          claim' = Settled(k, N) /\ Renote(k, N) /\ desk' = desk /\ ThereClaim(k)
    BY <1>11 DEF PushNote, PushNoteDelete, LiveClaim, ThereClaim
  <2>2. claim' = [claim EXCEPT ![k].status = AutoStatus(claim[k].status, N)]
    BY <2>1, <1>t DEF Settled
  <2>3. N \in SUBSET Notes /\ claim[k].status \in Statuses
    BY <1>t DEF ClaimRow
  <2> QED BY <2>1, <2>2, <2>3, SettledStep
<1>12. ASSUME NEW k \in ClaimIds, NEW s \in Statuses, NEW N \in SUBSET Notes, RestoreClaim(k, s, N) PROVE ClaimsInv'
  <2>1. /\ claim' \in [ClaimIds -> ClaimRow] /\ claim'[k].st = "live" /\ claim'[k].status = s
        /\ \A j \in ClaimIds \ {k} : claim'[j] = NoClaim
    BY <1>12, ClaimForms DEF RestoreClaim, ClaimRow, NoClaim, Statuses
  <2>2. /\ notes' \in [ClaimIds -> SUBSET Notes] /\ notes'[k] = notes[k] \cup N
        /\ \A j \in ClaimIds \ {k} : notes'[j] = {}
    BY <1>12, <1>t DEF RestoreClaim
  <2>3. /\ desk' = desk /\ loose' \subseteq ClaimIds /\ (PatchPending(k)' => k \in loose')
    BY <1>12, <1>t, TightenedOne DEF RestoreClaim, PatchPending
  <2>4. k \notin loose' => (s = "received" <=> Covered(N)) /\ notes'[k] = N
    BY <1>12, <2>2 DEF RestoreClaim
  <2>5. \A j \in ClaimIds \ {k} : claim'[j].st = "none"
    BY <2>1 DEF NoClaim
  <2>6. ClaimsTypeOK'
    BY <1>t, <2>1, <2>2, <2>3 DEF ClaimsTypeOK, ClaimRow
  <2>7. GoneBare'
    BY <2>1, <2>2 DEF GoneBare, ThereClaim
  <2>8. StatusTrue'
    BY <2>1, <2>4, <2>5 DEF StatusTrue, LiveClaim, Covered
  <2>9. PendingRight'
    BY <2>3, <2>5 DEF PendingRight, ThereClaim, PatchPending
  <2> QED BY <2>6, <2>7, <2>8, <2>9 DEF ClaimsInv
<1>13. CASE UNCHANGED claimVars
  <2>1. UNCHANGED <<claim, notes, loose>> /\ desk' = desk
    BY <1>13 DEF claimVars
  <2> QED BY <2>1 DEF ClaimsInv, ClaimsTypeOK, GoneBare, PendingRight, StatusTrue, ThereClaim, LiveClaim, PatchPending, Covered
<1> QED BY <1>1, <1>2, <1>3, <1>4, <1>5, <1>6, <1>7, <1>8, <1>9, <1>10, <1>11, <1>12, <1>13 DEF ClaimsNext

\* The variables of the claims keep their types (landing/claims.ts).
THEOREM ClaimsTyped == ClaimsSpec => []ClaimsTypeOK
<1>1. ClaimsInv => ClaimsTypeOK
  BY DEF ClaimsInv
<1> QED BY <1>1, ClaimsInitInv, ClaimsNextInv, PTL DEF ClaimsSpec

\* A claim reads `received' exactly when its credit notes make up what was accrued,
\* however many claims and notes there are, but for the three things StatusTrue
\* names: a note in the window of a PATCH, a push that throws half-way, and a
\* restore of a file that is not true to the notes (backup/backupImport.ts:238-259).
THEOREM StatusFollowsNotes == ClaimsSpec => []StatusTrue
<1>1. ClaimsInv => StatusTrue
  BY DEF ClaimsInv
<1> QED BY <1>1, ClaimsInitInv, ClaimsNextInv, PTL DEF ClaimsSpec
----------------------------------------------------------------------------
(* Purchases.                                                               *)

\* A row of the table has a revision, and a device is not ahead of a live one.
NotAhead ==
  /\ BillLive => bill.rev > 0
  /\ BillLive /\ ~earlier => copy.rev <= bill.rev

PurchasesInv == PurchasesTypeOK /\ NotAhead /\ GateSeesContent

BillRow == [st : {"none", "live", "dead"}, rev : 0..MaxRev, ver : Vers, pays : SUBSET Payments]
CopyRow == [rev : Nat, ver : Vers, pays : SUBSET Payments]

LEMMA RevLimits == MaxRev \in Nat /\ MaxRev > 0
BY PurchaseConstants

LEMMA BillBlanks ==
  /\ NoBill \in BillRow /\ NoCopy \in CopyRow /\ NoBill.st = "none" /\ NoCopy.rev = 0
  /\ NoBill = [st |-> "none", rev |-> 0, ver |-> NoBill.ver, pays |-> {}]
<1>1. NoBill.ver \in Vers
  BY PurchaseConstants DEF NoBill
<1> QED BY <1>1, RevLimits DEF NoBill, NoCopy, BillRow, CopyRow

\* What the types say of the two records.
LEMMA BillFields ==
  ASSUME PurchasesTypeOK
  PROVE  /\ bill \in BillRow /\ copy \in CopyRow /\ earlier \in BOOLEAN
         /\ bill.st \in {"none", "live", "dead"} /\ bill.rev \in Nat /\ bill.rev <= MaxRev
         /\ bill.ver \in Vers /\ bill.pays \in SUBSET Payments
         /\ copy.rev \in Nat /\ copy.ver \in Vers /\ copy.pays \in SUBSET Payments
         /\ bill = [st |-> bill.st, rev |-> bill.rev, ver |-> bill.ver, pays |-> bill.pays]
         /\ copy = [rev |-> copy.rev, ver |-> copy.ver, pays |-> copy.pays]
BY RevLimits DEF PurchasesTypeOK, BillRow, CopyRow

\* What the invariant says of any two records.
GateGood(b, c, e) ==
  b.st = "live" =>
    /\ b.rev > 0
    /\ ~e => /\ c.rev <= b.rev
             /\ c.rev = b.rev => c.ver = b.ver /\ c.pays = b.pays

LEMMA BillMeaning ==
  ASSUME bill \in BillRow, copy \in CopyRow, earlier \in BOOLEAN,
         clerk \in [op : {"none", "patch", "pay", "unpay"}, pays : SUBSET Payments],
         GateGood(bill, copy, earlier)
  PROVE  PurchasesInv
BY DEF PurchasesInv, PurchasesTypeOK, NotAhead, GateSeesContent, GateGood, BillRow, CopyRow, BillLive, SameRev

LEMMA GateNow == PurchasesInv => GateGood(bill, copy, earlier)
BY DEF PurchasesInv, NotAhead, GateSeesContent, GateGood, BillLive, SameRev

LEMMA PurchasesInitInv == PurchasesInit => PurchasesInv
<1> SUFFICES ASSUME PurchasesInit PROVE PurchasesInv
  OBVIOUS
<1>1. bill = NoBill /\ copy = NoCopy /\ earlier = FALSE /\ clerk = AtEase
  BY DEF PurchasesInit
<1>2. clerk \in [op : {"none", "patch", "pay", "unpay"}, pays : SUBSET Payments]
  BY <1>1 DEF AtEase
<1> QED BY <1>1, <1>2, BillBlanks, BillMeaning DEF GateGood

\* The next revision of a row.
LEMMA TouchedIs ==
  ASSUME NEW x, NEW n \in Nat, NEW v, NEW P
  PROVE  Touched([st |-> x, rev |-> n, ver |-> v, pays |-> P]) = [st |-> x, rev |-> n + 1, ver |-> v, pays |-> P]
BY DEF Touched

\* Payments added to a row.
LEMMA MorePays ==
  ASSUME NEW x, NEW n, NEW v, NEW P, NEW W
  PROVE  [[st |-> x, rev |-> n, ver |-> v, pays |-> P] EXCEPT !.pays = @ \cup W]
           = [st |-> x, rev |-> n, ver |-> v, pays |-> P \cup W]
OBVIOUS

\* A copy that is written back after a payment.
LEMMA CopyPaid ==
  ASSUME NEW c \in CopyRow, NEW m \in Nat, NEW W
  PROVE  /\ [c EXCEPT !.rev = m, !.pays = @ \cup W] = [rev |-> m, ver |-> c.ver, pays |-> c.pays \cup W]
         /\ [c EXCEPT !.rev = m, !.pays = @ \ W] = [rev |-> m, ver |-> c.ver, pays |-> c.pays \ W]
<1>1. [c EXCEPT !.rev = m, !.pays = @ \cup W] = [rev |-> m, ver |-> c.ver, pays |-> c.pays \cup W]
  <2> DEFINE n == [c EXCEPT !.rev = m, !.pays = @ \cup W]
  <2>1. n \in [rev : {n.rev}, ver : {n.ver}, pays : {n.pays}]
    BY DEF CopyRow
  <2>2. n.rev = m /\ n.ver = c.ver /\ n.pays = c.pays \cup W
    BY DEF CopyRow
  <2> HIDE DEF n
  <2>3. n = [rev |-> n.rev, ver |-> n.ver, pays |-> n.pays]
    BY <2>1
  <2>4. n = [rev |-> m, ver |-> c.ver, pays |-> c.pays \cup W]
    BY <2>2, <2>3
  <2> QED BY <2>4 DEF n
<1>2. [c EXCEPT !.rev = m, !.pays = @ \ W] = [rev |-> m, ver |-> c.ver, pays |-> c.pays \ W]
  <2> DEFINE n == [c EXCEPT !.rev = m, !.pays = @ \ W]
  <2>1. n \in [rev : {n.rev}, ver : {n.ver}, pays : {n.pays}]
    BY DEF CopyRow
  <2>2. n.rev = m /\ n.ver = c.ver /\ n.pays = c.pays \ W
    BY DEF CopyRow
  <2> HIDE DEF n
  <2>3. n = [rev |-> n.rev, ver |-> n.ver, pays |-> n.pays]
    BY <2>1
  <2>4. n = [rev |-> m, ver |-> c.ver, pays |-> c.pays \ W]
    BY <2>2, <2>3
  <2> QED BY <2>4 DEF n
<1> QED BY <1>1, <1>2

\* A purchase that starts.
LEMMA FreshRow ==
  ASSUME NEW v \in Vers
  PROVE  [NoBill EXCEPT !.st = "live", !.rev = 1, !.ver = v] = [st |-> "live", rev |-> 1, ver |-> v, pays |-> {}]
<1> DEFINE n == [NoBill EXCEPT !.st = "live", !.rev = 1, !.ver = v]
<1>1. NoBill = [st |-> "none", rev |-> 0, ver |-> NoBill.ver, pays |-> {}]
  BY BillBlanks
<1>2. n.st = "live" /\ n.rev = 1 /\ n.ver = v /\ n.pays = {}
  BY <1>1
<1>3. n \in [st : {n.st}, rev : {n.rev}, ver : {n.ver}, pays : {n.pays}]
  BY <1>1
<1> HIDE DEF n
<1>4. n = [st |-> n.st, rev |-> n.rev, ver |-> n.ver, pays |-> n.pays]
  BY <1>3
<1>5. n = [st |-> "live", rev |-> 1, ver |-> v, pays |-> {}]
  BY <1>2, <1>4
<1> QED BY <1>5 DEF n

\* What the updates make of it: other payments, other fields, a tombstone.
LEMMA NextRev ==
  ASSUME NEW b \in BillRow, b.rev < MaxRev
  PROVE  /\ \A P \in SUBSET Payments :
              LET n == Touched([b EXCEPT !.pays = P]) IN
              n = [st |-> b.st, rev |-> b.rev + 1, ver |-> b.ver, pays |-> P] /\ n \in BillRow
         /\ \A v \in Vers :
              LET n == Touched([b EXCEPT !.ver = v]) IN
              n = [st |-> b.st, rev |-> b.rev + 1, ver |-> v, pays |-> b.pays] /\ n \in BillRow
         /\ LET n == Touched([b EXCEPT !.st = "dead"]) IN
            n = [st |-> "dead", rev |-> b.rev + 1, ver |-> b.ver, pays |-> b.pays] /\ n \in BillRow
<1>1. /\ b.rev \in Nat /\ b.rev + 1 \in 0..MaxRev /\ b.st \in {"none", "live", "dead"}
      /\ b.ver \in Vers /\ b.pays \in SUBSET Payments
      /\ b = [st |-> b.st, rev |-> b.rev, ver |-> b.ver, pays |-> b.pays]
  BY RevLimits DEF BillRow
<1>2. ASSUME NEW P \in SUBSET Payments
      PROVE  LET n == Touched([b EXCEPT !.pays = P]) IN
             n = [st |-> b.st, rev |-> b.rev + 1, ver |-> b.ver, pays |-> P] /\ n \in BillRow
  <2>1. [b EXCEPT !.pays = P] = [st |-> b.st, rev |-> b.rev, ver |-> b.ver, pays |-> P]
    BY <1>1
  <2>2. Touched([b EXCEPT !.pays = P]) = [st |-> b.st, rev |-> b.rev + 1, ver |-> b.ver, pays |-> P]
    BY <1>1, <2>1, TouchedIs
  <2> QED BY <1>1, <1>2, <2>2 DEF BillRow
<1>3. ASSUME NEW v \in Vers
      PROVE  LET n == Touched([b EXCEPT !.ver = v]) IN
             n = [st |-> b.st, rev |-> b.rev + 1, ver |-> v, pays |-> b.pays] /\ n \in BillRow
  <2>1. [b EXCEPT !.ver = v] = [st |-> b.st, rev |-> b.rev, ver |-> v, pays |-> b.pays]
    BY <1>1
  <2>2. Touched([b EXCEPT !.ver = v]) = [st |-> b.st, rev |-> b.rev + 1, ver |-> v, pays |-> b.pays]
    BY <1>1, <2>1, TouchedIs
  <2> QED BY <1>1, <1>3, <2>2 DEF BillRow
<1>4. LET n == Touched([b EXCEPT !.st = "dead"]) IN
      n = [st |-> "dead", rev |-> b.rev + 1, ver |-> b.ver, pays |-> b.pays] /\ n \in BillRow
  <2>1. [b EXCEPT !.st = "dead"] = [st |-> "dead", rev |-> b.rev, ver |-> b.ver, pays |-> b.pays]
    BY <1>1
  <2>2. Touched([b EXCEPT !.st = "dead"]) = [st |-> "dead", rev |-> b.rev + 1, ver |-> b.ver, pays |-> b.pays]
    BY <1>1, <2>1, TouchedIs
  <2> QED BY <1>1, <2>2 DEF BillRow
<1> QED BY <1>2, <1>3, <1>4

\* What a restore makes of a row there is.
LEMMA RestoredIs ==
  ASSUME NEW b \in BillRow, NEW v \in Vers, NEW W \in SUBSET Payments
  PROVE  Touched([b EXCEPT !.st = "live", !.ver = v, !.pays = @ \cup W])
           = [st |-> "live", rev |-> b.rev + 1, ver |-> v, pays |-> b.pays \cup W]
<1> DEFINE n == [b EXCEPT !.st = "live", !.ver = v, !.pays = @ \cup W]
<1>1. n.st = "live" /\ n.rev = b.rev /\ n.ver = v /\ n.pays = b.pays \cup W
  BY DEF BillRow
<1>2. n \in [st : {n.st}, rev : {n.rev}, ver : {n.ver}, pays : {n.pays}]
  BY DEF BillRow
<1>3. b.rev \in Nat
  BY RevLimits DEF BillRow
<1> HIDE DEF n
<1>4. n = [st |-> n.st, rev |-> n.rev, ver |-> n.ver, pays |-> n.pays]
  BY <1>2
<1>5. n = [st |-> "live", rev |-> b.rev, ver |-> v, pays |-> b.pays \cup W]
  BY <1>1, <1>4
<1>6. Touched(n) = [st |-> "live", rev |-> b.rev + 1, ver |-> v, pays |-> b.pays \cup W]
  BY <1>3, <1>5, TouchedIs
<1> QED BY <1>6 DEF n

LEMMA PurchasesNextInv == PurchasesInv /\ [PurchasesNext]_purchaseVars => PurchasesInv'
<1> SUFFICES ASSUME PurchasesInv, [PurchasesNext]_purchaseVars PROVE PurchasesInv'
  OBVIOUS
<1> DEFINE Clerk == [op : {"none", "patch", "pay", "unpay"}, pays : SUBSET Payments]
<1>f. /\ bill \in BillRow /\ copy \in CopyRow /\ earlier \in BOOLEAN /\ clerk \in Clerk
      /\ bill.st \in {"none", "live", "dead"} /\ bill.rev \in Nat /\ bill.rev <= MaxRev
      /\ bill.ver \in Vers /\ bill.pays \in SUBSET Payments
      /\ copy.rev \in Nat /\ copy.ver \in Vers /\ copy.pays \in SUBSET Payments
      /\ bill = [st |-> bill.st, rev |-> bill.rev, ver |-> bill.ver, pays |-> bill.pays]
      /\ copy = [rev |-> copy.rev, ver |-> copy.ver, pays |-> copy.pays]
  BY BillFields DEF PurchasesInv, PurchasesTypeOK
<1>g. GateGood(bill, copy, earlier)
  BY GateNow
<1>e. AtEase \in Clerk
  BY DEF AtEase
<1>m. bill' \in BillRow /\ copy' \in CopyRow /\ earlier' \in BOOLEAN /\ clerk' \in Clerk /\ GateGood(bill', copy', earlier') => PurchasesInv'
  BY DEF PurchasesInv, PurchasesTypeOK, NotAhead, GateSeesContent, GateGood, BillRow, CopyRow, BillLive, SameRev
<1>1. ASSUME NEW v \in Vers, NEW P \in SUBSET Payments, CreatePurchase(v, P) PROVE PurchasesInv'
  <2>1. bill' = [st |-> "live", rev |-> 1, ver |-> v, pays |-> P] /\ copy' = copy /\ clerk' = clerk
        /\ earlier' = (copy.rev # 0)
    BY <1>1 DEF CreatePurchase
  <2>2. bill' \in BillRow
    BY <2>1, RevLimits DEF BillRow
  <2>3. earlier' \in BOOLEAN /\ (~earlier' => copy.rev = 0)
    BY <2>1
  <2>4. GateGood(bill', copy', earlier')
    BY <2>1, <2>3 DEF GateGood
  <2> QED BY <1>f, <1>m, <2>1, <2>2, <2>3, <2>4
<1>2. ASSUME NEW op \in {"pay", "unpay", "patch"}, NEW P \in SUBSET Payments, ClerkReads(op, P) PROVE PurchasesInv'
  <2>1. clerk' \in Clerk /\ UNCHANGED <<bill, copy, earlier>>
    BY <1>2 DEF ClerkReads
  <2> QED BY <1>f, <1>g, <1>m, <2>1
<1>3. ASSUME NEW v \in Vers, PatchPurchase(v) PROVE PurchasesInv'
  <2>1. copy' = copy /\ earlier' = earlier /\ clerk' = AtEase
    BY <1>3 DEF PatchPurchase
  <2>2. CASE BillThere
    <3>1. bill' = [st |-> bill.st, rev |-> bill.rev + 1, ver |-> v, pays |-> bill.pays] /\ bill' \in BillRow
      BY <1>3, <2>2, <1>f, NextRev DEF PatchPurchase, RoomForRev
    <3> QED BY <1>e, <1>f, <1>g, <1>m, <2>1, <3>1 DEF GateGood
  <2>3. CASE ~BillThere
    <3>1. bill' = bill
      BY <1>3, <2>3 DEF PatchPurchase
    <3> QED BY <1>e, <1>f, <1>g, <1>m, <2>1, <3>1
  <2> QED BY <2>2, <2>3
<1>4. ASSUME AddPayment \/ DeletePayment PROVE PurchasesInv'
  <2>1. copy' = copy /\ earlier' = earlier /\ clerk' = AtEase
    BY <1>4 DEF AddPayment, DeletePayment
  <2>2. CASE BillThere
    <3>1. PICK P \in {bill.pays \cup clerk.pays, bill.pays \ clerk.pays} :
            bill' = Touched([bill EXCEPT !.pays = P]) /\ bill.rev < MaxRev
      BY <1>4, <2>2 DEF AddPayment, DeletePayment, RoomForRev
    <3>2. P \in SUBSET Payments
      BY <1>f
    <3>3. bill' = [st |-> bill.st, rev |-> bill.rev + 1, ver |-> bill.ver, pays |-> P] /\ bill' \in BillRow
      BY <1>f, <3>1, <3>2, NextRev
    <3> QED BY <1>e, <1>f, <1>g, <1>m, <2>1, <3>3 DEF GateGood
  <2>3. CASE ~BillThere
    <3>1. bill' = bill
      BY <1>4, <2>3 DEF AddPayment, DeletePayment
    <3> QED BY <1>e, <1>f, <1>g, <1>m, <2>1, <3>1
  <2> QED BY <2>2, <2>3
<1>5. ASSUME DeletePurchase PROVE PurchasesInv'
  <2>1. copy' = copy /\ earlier' = earlier /\ clerk' = clerk
    BY <1>5 DEF DeletePurchase
  <2>2. bill' = [st |-> "dead", rev |-> bill.rev + 1, ver |-> bill.ver, pays |-> bill.pays] /\ bill' \in BillRow
    BY <1>5, <1>f, NextRev DEF DeletePurchase, RoomForRev
  <2> QED BY <1>f, <1>m, <2>1, <2>2 DEF GateGood
<1>6. ASSUME PurgePurchase PROVE PurchasesInv'
  <2>1. bill' = NoBill /\ copy' = copy /\ earlier' = earlier /\ clerk' = clerk
    BY <1>6 DEF PurgePurchase
  <2> QED BY <1>f, <1>m, <2>1, BillBlanks DEF GateGood
<1>7. ASSUME PullPurchase PROVE PurchasesInv'
  <2>1. bill' = bill /\ earlier' = FALSE /\ clerk' = clerk
    BY <1>7 DEF PullPurchase
  <2>2. CASE BillLive
    <3>1. copy' = [rev |-> bill.rev, ver |-> bill.ver, pays |-> bill.pays]
      BY <1>7, <2>2 DEF PullPurchase
    <3>2. copy' \in CopyRow
      BY <1>f, <3>1 DEF CopyRow
    <3>3. GateGood(bill', copy', earlier')
      BY <1>f, <1>g, <2>1, <3>1 DEF GateGood, BillLive
    <3>4. earlier' \in BOOLEAN
      BY <2>1, <3>1
    <3> QED BY <1>f, <1>m, <2>1, <3>1, <3>2, <3>3, <3>4
  <2>3. CASE ~BillLive
    <3>1. copy' = NoCopy
      BY <1>7, <2>3 DEF PullPurchase
    <3> QED BY <1>f, <1>m, <2>1, <2>3, <3>1, BillBlanks DEF GateGood, BillLive
  <2> QED BY <2>2, <2>3
<1>8. ASSUME NEW v \in Vers, NEW P \in SUBSET Payments, NEW bad \in BOOLEAN, PushNewPurchase(v, P, bad)
      PROVE  PurchasesInv'
  <2> DEFINE row == [NoBill EXCEPT !.st = "live", !.rev = 1, !.ver = v]
  <2>1. row = [st |-> "live", rev |-> 1, ver |-> v, pays |-> {}]
    BY FreshRow
  <2>2. Written(row, P, bad) /\ clerk' = clerk /\ copy.pays \subseteq P
    BY <1>8 DEF PushNewPurchase
  <2>3. earlier' \in BOOLEAN /\ (~earlier' => copy' # copy \/ copy.rev = 0)
    BY <1>8 DEF PushNewPurchase
  <2> HIDE DEF row
  <2>4. ASSUME NEW W \in SUBSET Payments, bill' = [row EXCEPT !.pays = @ \cup W]
        PROVE  bill' = [st |-> "live", rev |-> 1, ver |-> v, pays |-> W] /\ bill' \in BillRow
    <3>1. [row EXCEPT !.pays = @ \cup W] = [st |-> "live", rev |-> 1, ver |-> v, pays |-> {} \cup W]
      BY <2>1, MorePays
    <3> QED BY <2>4, <3>1, RevLimits DEF BillRow
  <2>5. CASE bad
    <3>1. PICK W \in SUBSET P \ {P} : bill' = [row EXCEPT !.pays = @ \cup W] /\ copy' = copy
      BY <2>2, <2>5 DEF Written
    <3>2. W \in SUBSET Payments
      OBVIOUS
    <3>3. bill' = [st |-> "live", rev |-> 1, ver |-> v, pays |-> W] /\ bill' \in BillRow
      BY <2>4, <3>1, <3>2
    <3>4. GateGood(bill', copy', earlier')
      BY <2>3, <3>1, <3>3 DEF GateGood
    <3> QED BY <1>f, <1>m, <2>2, <2>3, <3>1, <3>3, <3>4
  <2>6. CASE ~bad
    <3>1. /\ bill' = [row EXCEPT !.pays = @ \cup P]
          /\ Told([rev |-> row.rev, ver |-> row.ver, pays |-> copy.pays \cup P])
      BY <2>2, <2>6 DEF Written
    <3>2. bill' = [st |-> "live", rev |-> 1, ver |-> v, pays |-> P] /\ bill' \in BillRow
      BY <2>4, <3>1
    <3>3. copy.pays \cup P = P
      BY <2>2
    <3>4. copy' \in {copy, [rev |-> 1, ver |-> v, pays |-> P]}
      BY <2>1, <3>1, <3>3 DEF Told
    <3>5. [rev |-> 1, ver |-> v, pays |-> P] \in CopyRow
      BY DEF CopyRow
    <3>6. GateGood(bill', copy', earlier')
      BY <2>3, <3>2, <3>4 DEF GateGood
    <3> QED BY <1>f, <1>m, <2>2, <2>3, <3>2, <3>4, <3>5, <3>6
  <2> QED BY <2>5, <2>6
<1>9. ASSUME NEW v \in Vers, NEW P \in SUBSET Payments, NEW bad \in BOOLEAN, PushPurchase(v, P, bad), copy.pays \subseteq P
      PROVE  PurchasesInv'
  <2> DEFINE row == Touched([bill EXCEPT !.ver = v])
  <2>1. clerk' = clerk /\ BillLive
    BY <1>9 DEF PushPurchase
  <2>2. CASE SameRev
    <3>1. Written(row, P, bad) /\ bill.rev < MaxRev /\ earlier' = earlier
      BY <1>9, <2>1, <2>2 DEF PushPurchase, RoomForRev
    <3>2. row = [st |-> "live", rev |-> bill.rev + 1, ver |-> v, pays |-> bill.pays]
      BY <1>f, <2>1, <3>1, NextRev DEF BillLive
    <3> HIDE DEF row
    <3>3. bill.rev + 1 \in 0..MaxRev
      BY <1>f, <3>1, RevLimits
    <3>4. ASSUME NEW W \in SUBSET Payments, bill' = [row EXCEPT !.pays = @ \cup W]
          PROVE  bill' = [st |-> "live", rev |-> bill.rev + 1, ver |-> v, pays |-> bill.pays \cup W] /\ bill' \in BillRow
      <4>1. bill' = [st |-> "live", rev |-> bill.rev + 1, ver |-> v, pays |-> bill.pays \cup W]
        BY <3>2, <3>4, MorePays
      <4>2. bill.pays \cup W \in SUBSET Payments
        BY <1>f
      <4> QED BY <3>3, <4>1, <4>2 DEF BillRow
    <3>5. CASE bad
      <4>1. PICK W \in SUBSET P \ {P} : bill' = [row EXCEPT !.pays = @ \cup W] /\ copy' = copy
        BY <3>1, <3>5 DEF Written
      <4>2. W \in SUBSET Payments
        OBVIOUS
      <4>3. bill' = [st |-> "live", rev |-> bill.rev + 1, ver |-> v, pays |-> bill.pays \cup W] /\ bill' \in BillRow
        BY <3>4, <4>1, <4>2
      <4>4. GateGood(bill', copy', earlier')
        BY <1>f, <1>g, <2>1, <3>1, <4>1, <4>3 DEF GateGood, BillLive
      <4> QED BY <1>f, <1>m, <2>1, <3>1, <4>1, <4>3, <4>4
    <3>6. CASE ~bad
      <4>1. /\ bill' = [row EXCEPT !.pays = @ \cup P]
            /\ Told([rev |-> row.rev, ver |-> row.ver, pays |-> copy.pays \cup P])
        BY <3>1, <3>6 DEF Written
      <4>2. bill' = [st |-> "live", rev |-> bill.rev + 1, ver |-> v, pays |-> bill.pays \cup P] /\ bill' \in BillRow
        BY <3>4, <4>1
      <4>3. copy' \in {copy, [rev |-> bill.rev + 1, ver |-> v, pays |-> copy.pays \cup P]}
        BY <3>2, <4>1 DEF Told
      <4>4. [rev |-> bill.rev + 1, ver |-> v, pays |-> copy.pays \cup P] \in CopyRow
        BY <1>f DEF CopyRow
      <4>5. ~earlier => copy.pays = bill.pays
        BY <1>g, <2>1, <2>2 DEF GateGood, BillLive, SameRev
      <4>6. GateGood(bill', copy', earlier')
        BY <1>f, <1>g, <2>1, <3>1, <4>2, <4>3, <4>5 DEF GateGood, BillLive
      <4> QED BY <1>f, <1>m, <2>1, <3>1, <4>2, <4>3, <4>4, <4>6
    <3> QED BY <3>5, <3>6
  <2>3. CASE ~SameRev
    <3>1. bill' = bill /\ earlier' = FALSE /\ copy' = [rev |-> bill.rev, ver |-> bill.ver, pays |-> bill.pays]
      BY <1>9, <2>1, <2>3 DEF PushPurchase
    <3>2. copy' \in CopyRow
      BY <1>f, <3>1 DEF CopyRow
    <3>3. GateGood(bill', copy', earlier')
      BY <1>f, <1>g, <2>1, <3>1 DEF GateGood, BillLive
    <3>4. earlier' \in BOOLEAN
      BY <2>1, <3>1
    <3> QED BY <1>f, <1>m, <2>1, <3>1, <3>2, <3>3, <3>4
  <2> QED BY <2>2, <2>3
<1>10. ASSUME NEW p \in Payments, PushPayment(p) PROVE PurchasesInv'
  <2>1. /\ bill' = Touched([bill EXCEPT !.pays = bill.pays \cup {p}]) /\ bill.rev < MaxRev /\ BillLive
        /\ earlier' = earlier /\ clerk' = clerk
    BY <1>10 DEF PushPayment, RoomForRev
  <2>2. bill' = [st |-> "live", rev |-> bill.rev + 1, ver |-> bill.ver, pays |-> bill.pays \cup {p}] /\ bill' \in BillRow
    BY <1>f, <2>1, NextRev DEF BillLive
  <2>3. PICK known \in {0, copy.rev} : Told([copy EXCEPT !.rev = known + 1, !.pays = @ \cup {p}])
    BY <1>10 DEF PushPayment
  <2>n. known + 1 \in Nat
    BY <1>f
  <2>4. [copy EXCEPT !.rev = known + 1, !.pays = @ \cup {p}] = [rev |-> known + 1, ver |-> copy.ver, pays |-> copy.pays \cup {p}]
    BY <1>f, <2>n, CopyPaid
  <2>5. copy' \in {copy, [rev |-> known + 1, ver |-> copy.ver, pays |-> copy.pays \cup {p}]}
    BY <2>3, <2>4 DEF Told
  <2>6. [rev |-> known + 1, ver |-> copy.ver, pays |-> copy.pays \cup {p}] \in CopyRow
    BY <1>f DEF CopyRow
  <2>7. GateGood(bill', copy', earlier')
    <3>1. bill.rev > 0 /\ (~earlier => copy.rev <= bill.rev /\ (copy.rev = bill.rev => copy.ver = bill.ver /\ copy.pays = bill.pays))
      BY <1>g, <2>1 DEF GateGood, BillLive
    <3>r. bill'.rev = bill.rev + 1
      BY <2>2
    <3>2. CASE copy' = copy
      <4>1. ~earlier => copy'.rev <= bill.rev /\ copy'.rev # bill'.rev /\ copy'.rev <= bill'.rev
        BY <1>f, <3>1, <3>2, <3>r
      <4> QED BY <1>f, <2>1, <3>1, <3>r, <4>1 DEF GateGood
    <3>3. CASE copy' = [rev |-> known + 1, ver |-> copy.ver, pays |-> copy.pays \cup {p}] /\ known = 0
      <4>1. copy'.rev = 1
        BY <3>3
      <4>2. copy'.rev <= bill'.rev /\ copy'.rev # bill'.rev
        BY <1>f, <3>1, <3>r, <4>1
      <4> QED BY <1>f, <3>1, <3>r, <4>2 DEF GateGood
    <3>4. CASE copy' = [rev |-> known + 1, ver |-> copy.ver, pays |-> copy.pays \cup {p}] /\ known = copy.rev
      <4>1. copy'.rev = copy.rev + 1 /\ copy'.ver = copy.ver /\ copy'.pays = copy.pays \cup {p}
        BY <3>4
      <4>2. bill'.ver = bill.ver /\ bill'.pays = bill.pays \cup {p}
        BY <2>2
      <4>3. /\ bill'.rev > 0 /\ (~earlier => copy'.rev <= bill'.rev)
            /\ copy'.rev = bill'.rev => copy.rev = bill.rev
        BY <1>f, <3>1, <3>r, <4>1
      <4> QED BY <2>1, <3>1, <4>1, <4>2, <4>3 DEF GateGood
    <3> QED BY <2>5, <3>2, <3>3, <3>4
  <2> QED BY <1>f, <1>m, <2>1, <2>2, <2>5, <2>6, <2>7
<1>11. ASSUME NEW p \in Payments, PushPaymentDelete(p) PROVE PurchasesInv'
  <2> DEFINE r == IF BillLive THEN bill.rev + 1 ELSE bill.rev
  <2>1. earlier' = earlier /\ clerk' = clerk /\ bill.rev < MaxRev
    BY <1>11 DEF PushPaymentDelete, RoomForRev
  <2>2. bill' = [st |-> bill.st, rev |-> r, ver |-> bill.ver, pays |-> bill.pays \ {p}]
    BY <1>11, <1>f DEF PushPaymentDelete, BillRow
  <2>3. bill' \in BillRow
    <3>1. r \in 0..MaxRev /\ bill.pays \ {p} \in SUBSET Payments
      BY <1>f, <2>1, RevLimits
    <3> QED BY <1>f, <2>2, <3>1 DEF BillRow
  <2>4. PICK known \in {0, copy.rev} : Told([copy EXCEPT !.rev = known + 1, !.pays = @ \ {p}])
    BY <1>11 DEF PushPaymentDelete
  <2>n. known + 1 \in Nat
    BY <1>f
  <2>5. [copy EXCEPT !.rev = known + 1, !.pays = @ \ {p}] = [rev |-> known + 1, ver |-> copy.ver, pays |-> copy.pays \ {p}]
    BY <1>f, <2>n, CopyPaid
  <2>6. copy' \in {copy, [rev |-> known + 1, ver |-> copy.ver, pays |-> copy.pays \ {p}]}
    BY <2>4, <2>5 DEF Told
  <2>7. [rev |-> known + 1, ver |-> copy.ver, pays |-> copy.pays \ {p}] \in CopyRow
    BY <1>f DEF CopyRow
  <2>8. GateGood(bill', copy', earlier')
    BY <1>f, <1>g, <2>1, <2>2, <2>6 DEF GateGood, BillLive
  <2> QED BY <1>f, <1>m, <2>1, <2>3, <2>6, <2>7, <2>8
<1>12. ASSUME PushPurchaseDelete PROVE PurchasesInv'
  <2>1. earlier' = earlier /\ clerk' = clerk /\ copy' \in {copy, NoCopy}
    BY <1>12 DEF PushPurchaseDelete, Told
  <2>2. bill' = [st |-> "dead", rev |-> bill.rev + 1, ver |-> bill.ver, pays |-> bill.pays] /\ bill' \in BillRow
    BY <1>12, <1>f, NextRev DEF PushPurchaseDelete, RoomForRev
  <2> QED BY <1>f, <1>m, <2>1, <2>2, BillBlanks DEF GateGood
<1>13. ASSUME NEW v \in Vers, NEW P \in SUBSET Payments, RestorePurchase(v, P) PROVE PurchasesInv'
  <2>1. copy' = copy /\ clerk' = clerk
    BY <1>13 DEF RestorePurchase
  <2>2. CASE BillThere
    <3>1. bill.rev < MaxRev /\ bill' = Touched([bill EXCEPT !.st = "live", !.ver = v, !.pays = @ \cup P])
      BY <1>13, <2>2 DEF RestorePurchase, RoomForRev
    <3>2. bill' = [st |-> "live", rev |-> bill.rev + 1, ver |-> v, pays |-> bill.pays \cup P]
      BY <1>f, <3>1, RestoredIs
    <3>3. bill.rev + 1 \in 0..MaxRev /\ bill.pays \cup P \in SUBSET Payments
      BY <1>f, <3>1, RevLimits
    <3>4. bill' \in BillRow
      BY <3>2, <3>3 DEF BillRow
    <3>5. earlier' \in BOOLEAN /\ (~earlier' => copy.rev <= bill.rev)
      <4>1. CASE BillLive
        <5>1. earlier' = earlier
          BY <1>13, <4>1 DEF RestorePurchase
        <5> QED BY <1>f, <1>g, <4>1, <5>1 DEF GateGood, BillLive
      <4>2. CASE ~BillLive
        <5>1. earlier' = (copy.rev # 0)
          BY <1>13, <4>2 DEF RestorePurchase
        <5>2. (copy.rev # 0) \in BOOLEAN
          OBVIOUS
        <5>3. earlier' \in BOOLEAN
          BY <5>1, <5>2
        <5>4. copy.rev = 0 => copy.rev <= bill.rev
          BY <1>f
        <5> QED BY <5>1, <5>3, <5>4
      <4> QED BY <4>1, <4>2
    <3>6. GateGood(bill', copy', earlier')
      BY <1>f, <2>1, <3>2, <3>5 DEF GateGood
    <3> QED BY <1>f, <1>m, <2>1, <3>4, <3>5, <3>6
  <2>3. CASE ~BillThere
    <3>1. bill' = [st |-> "live", rev |-> 1, ver |-> v, pays |-> P] /\ earlier' = (copy.rev # 0)
      BY <1>13, <2>3 DEF RestorePurchase, BillThere, BillLive
    <3>2. bill' \in BillRow
      BY <3>1, RevLimits DEF BillRow
    <3>3. earlier' \in BOOLEAN /\ (~earlier' => copy.rev = 0)
      BY <3>1
    <3>4. GateGood(bill', copy', earlier')
      BY <2>1, <3>1, <3>3 DEF GateGood
    <3> QED BY <1>f, <1>m, <2>1, <3>2, <3>3, <3>4
  <2> QED BY <2>2, <2>3
<1>14. CASE UNCHANGED purchaseVars
  BY <1>14, <1>f, <1>g, <1>m DEF purchaseVars
<1> QED
  BY <1>1, <1>2, <1>3, <1>4, <1>5, <1>6, <1>7, <1>8, <1>9, <1>10, <1>11, <1>12, <1>13, <1>14 DEF PurchasesNext

\* The variables of a purchase keep their types (landing/purchases.ts).
THEOREM PurchasesTyped == PurchasesSpec => []PurchasesTypeOK
<1>1. PurchasesInv => PurchasesTypeOK
  BY DEF PurchasesInv
<1> QED BY <1>1, PurchasesInitInv, PurchasesNextInv, PTL DEF PurchasesSpec

\* A device whose revision of a live purchase is the server's has the server's fields
\* and payments, whoever wrote them, unless the purchase was purged in between, or
\* deleted and then restored (backup/backupImport.ts:225-236).
THEOREM GateComparesContent == PurchasesSpec => []GateSeesContent
<1>1. PurchasesInv => GateSeesContent
  BY DEF PurchasesInv
<1> QED BY <1>1, PurchasesInitInv, PurchasesNextInv, PTL DEF PurchasesSpec

----------------------------------------------------------------------------
(* Masters: tables and types.                                               *)

LEMMA TablesListed ==
  /\ DOMAIN Kind = 1..9 /\ Len(Kind) = 9
  /\ Kind[1] = Grades /\ Kind[2] = Parties /\ Kind[3] = Companies /\ Kind[4] = Routes /\ Kind[5] = Folders
  /\ Kind[6] = Schemes /\ Kind[7] = Purchases /\ Kind[8] = Claims /\ Kind[9] = Diary
BY DEF Kind

LEMMA Ordered ==
  /\ \A i \in 1..9 : \A r \in Kind[i] : Order(r) = i
  /\ \A r \in Rec : Order(r) \in 1..9 /\ r \in Kind[Order(r)]
<1>1. ASSUME NEW i \in 1..9, NEW r \in Kind[i]
      PROVE  Order(r) = i
  <2>1. \A j \in DOMAIN Kind : r \in Kind[j] => j = i
    BY TablesListed, MasterTables
  <2> QED BY <2>1, TablesListed DEF Order
<1>2. ASSUME NEW r \in Rec
      PROVE  \E i \in 1..9 : r \in Kind[i]
  BY TablesListed DEF Rec, Catalogue
<1> QED BY <1>1, <1>2

\* The kinds share no record.
LEMMA Apart ==
  /\ Folders \cap (Grades \cup Parties \cup Companies \cup Routes \cup Schemes \cup Purchases \cup Claims \cup Diary) = {}
  /\ Schemes \cap (Grades \cup Purchases \cup Claims \cup Diary \cup Catalogue) = {}
  /\ (Purchases \cup Claims \cup Diary) \cap Catalogue = {}
  /\ Claims \cap (Purchases \cup Diary) = {}
<1>1. \A i, j \in 1..9 : i # j => Kind[i] \cap Kind[j] = {}
  BY TablesListed, MasterTables
<1> QED BY <1>1, TablesListed DEF Catalogue

States   == {"none", "live", "dead"}
RestRow  == [pc : {"idle", "row", "company", "second", "write"}, op : {"none", "row", "create", "patch"},
             rec : Rec \cup {NoRec}, folder : Folders \cup {NoRec}, revive : BOOLEAN]
PushRow  == [todo : SUBSET Mutation, open : Nat, promise : BOOLEAN, broken : BOOLEAN]
LastRow  == [touched : SUBSET (Rec \cup {Day}), said : {"ok", "refused", "conflict"}]

\* What is stored, apart from the requests.
StoreTyped == /\ st \in [Rec -> States] /\ folder \in [Schemes -> Folders \cup {NoRec}]
              /\ sheet \subseteq Lines /\ last \in LastRow /\ overtaken \subseteq Schemes

\* A request under way is about a record of the kind its operation is for.
RestTyped == /\ rest \in RestRow
             /\ rest.pc = "row" => rest.rec \in Rec
             /\ rest.pc \in {"company", "second", "write"} => rest.rec \in Schemes \cup Purchases

LEMMA MastersTypes ==
  /\ MastersTypeOK <=> StoreTyped /\ rest \in RestRow /\ pushed \in PushRow
  /\ MastersTypeOK' <=> StoreTyped' /\ rest' \in RestRow /\ pushed' \in PushRow
BY DEF MastersTypeOK, StoreTyped, States, RestRow, PushRow, LastRow

LEMMA Answered ==
  ASSUME NEW said \in {"ok", "refused", "conflict"}, NEW T \in SUBSET (Rec \cup {Day}), Answer(said, T)
  PROVE  last' \in LastRow /\ last'.said = said /\ last'.touched = T
BY DEF Answer, LastRow

----------------------------------------------------------------------------
(* Masters: what the statements do.                                         *)

\* What is refused leaves everything but the tombstone of a grade that is named,
\* and a scheme.
Meek == last'.said # "ok" =>
  /\ sheet' = sheet
  /\ \A r \in Rec : st'[r] # st[r] => (r \in Grades => Referenced(r)) /\ r \in Grades \cup Schemes

\* A statement that leaves the store typed, files no scheme in a dead folder
\* unknown, answers for what it changes, and takes no row out of its table.
Sound == StoreTyped' /\ FiledAlive' /\ MastersTravel /\ Meek
         /\ \A x \in Rec : ThereRec(x) => ThereRec(x)'

LEMMA NothingWritten ==
  ASSUME StoreTyped, FiledAlive, NEW said \in {"ok", "refused", "conflict"}, Answer(said, {}),
         UNCHANGED <<st, folder, sheet, overtaken>>
  PROVE  Sound /\ last'.said = said
<1>1. last' \in LastRow /\ last'.said = said
  BY Answered
<1> QED BY <1>1 DEF Sound, StoreTyped, FiledAlive, MastersTravel, Meek, ThereRec

LEMMA Refused ==
  ASSUME StoreTyped, FiledAlive, Refuse
  PROVE  Sound /\ last'.said = "refused" /\ st' = st
BY NothingWritten DEF Refuse

\* Only a folder's own delete buries it.
LEMMA FallenForm ==
  ASSUME NEW r \in Rec
  PROVE  Fallen(r) \subseteq Rec /\ r \in Fallen(r) /\ (Fallen(r) \ {r}) \cap Folders = {}
<1>1. Fallen(r) \ {r} \subseteq Routes \cup Purchases \cup Schemes \cup Claims
  BY DEF Fallen
<1>2. r \in Fallen(r)
  BY DEF Fallen
<1> QED BY <1>1, <1>2, Apart DEF Rec

LEMMA BuriedForm ==
  ASSUME st \in [Rec -> States], NEW R, st' = Buried(R)
  PROVE  /\ st' \in [Rec -> States]
         /\ \A x \in Rec : IF x \in R /\ LiveRec(x) THEN st'[x] = "dead" ELSE st'[x] = st[x]
BY DEF Buried, States

LEMMA BuryStep ==
  ASSUME StoreTyped, FiledAlive, NEW r \in Rec, Bury(r)
  PROVE  /\ Sound /\ last'.said = "ok" /\ ~LiveRec(r)'
         /\ \A x \in Rec : LiveRec(x)' => LiveRec(x)
<1>1. CASE ~LiveRec(r)
  <2>1. Answer("ok", {}) /\ UNCHANGED <<st, folder, sheet, overtaken>>
    BY <1>1 DEF Bury
  <2> QED BY <1>1, <2>1, NothingWritten DEF LiveRec
<1>2. CASE LiveRec(r)
  <2> DEFINE T == {x \in Fallen(r) : LiveRec(x)} \cup {s \in Schemes : folder[s] = r} \cup Bumped(r)
  <2>1. /\ st' = Buried(Fallen(r)) /\ folder' = Unfiled(r) /\ sheet' = sheet \ Cleared(r)
        /\ overtaken' = {s \in overtaken : folder'[s] # NoRec} /\ Answer("ok", T)
    BY <1>2 DEF Bury
  <2>2. Fallen(r) \subseteq Rec /\ r \in Fallen(r) /\ (Fallen(r) \ {r}) \cap Folders = {}
    BY FallenForm
  <2>3. T \in SUBSET (Rec \cup {Day})
    BY <2>2 DEF Bumped, Rec
  <2>4. last' \in LastRow /\ last'.said = "ok" /\ last'.touched = T
    BY <2>1, <2>3, Answered
  <2>5. /\ st' \in [Rec -> States]
        /\ \A x \in Rec : IF x \in Fallen(r) /\ LiveRec(x) THEN st'[x] = "dead" ELSE st'[x] = st[x]
    BY <2>1, BuriedForm DEF StoreTyped
  <2>6. /\ folder' \in [Schemes -> Folders \cup {NoRec}]
        /\ \A s \in Schemes : folder'[s] = IF folder[s] = r THEN NoRec ELSE folder[s]
    BY <2>1 DEF Unfiled, StoreTyped
  <2>7. StoreTyped'
    BY <2>1, <2>4, <2>5, <2>6 DEF StoreTyped
  <2>8. FiledAlive'
    <3> SUFFICES ASSUME NEW s \in Schemes, folder'[s] # NoRec, st'[folder'[s]] = "dead"
                 PROVE  s \in overtaken'
      BY DEF FiledAlive
    <3>1. folder'[s] = folder[s] /\ folder[s] # r /\ folder[s] \in Folders
      BY <2>6 DEF StoreTyped
    <3>2. folder[s] \in Rec /\ folder[s] \notin Fallen(r)
      BY <2>2, <3>1 DEF Rec, Catalogue
    <3>3. s \in overtaken
      BY <2>5, <3>1, <3>2 DEF FiledAlive
    <3> QED BY <2>1, <3>3
  <2>9. MastersTravel
    <3>1. sheet' \cap Cells # sheet \cap Cells => Day \in Bumped(r)
      BY <2>1 DEF Bumped
    <3> QED BY <2>4, <2>5, <2>6, <3>1 DEF MastersTravel, LiveRec
  <2>10. \A x \in Rec : (ThereRec(x) => ThereRec(x)') /\ (LiveRec(x)' => LiveRec(x))
    BY <2>5 DEF ThereRec, LiveRec
  <2>11. ~LiveRec(r)'
    BY <1>2, <2>2, <2>5 DEF LiveRec
  <2> QED BY <2>4, <2>7, <2>8, <2>9, <2>10, <2>11 DEF Sound, Meek
<1> QED BY <1>1, <1>2

\* One record becomes live; a scheme may be filed along with it.
LEMMA Raised ==
  ASSUME StoreTyped, NEW r \in Rec, NEW said \in {"ok", "refused"}, st' = [st EXCEPT ![r] = "live"],
         Answer(said, {r}), said = "ok" \/ r \in Schemes, UNCHANGED sheet, overtaken' \subseteq Schemes,
         folder' \in [Schemes -> Folders \cup {NoRec}], \A s \in Schemes : folder'[s] # folder[s] => s = r, FiledAlive'
  PROVE  /\ Sound /\ last'.said = said /\ LiveRec(r)'
         /\ \A x \in Rec \ {r} : st'[x] = st[x]
<1>1. last' \in LastRow /\ last'.said = said /\ last'.touched = {r}
  BY Answered
<1>2. st' \in [Rec -> States] /\ st'[r] = "live" /\ \A x \in Rec \ {r} : st'[x] = st[x]
  BY DEF StoreTyped, States
<1>3. StoreTyped'
  BY <1>1, <1>2 DEF StoreTyped
<1>4. MastersTravel
  BY <1>1, <1>2 DEF MastersTravel
<1>5. Meek
  BY <1>1, <1>2, Apart DEF Meek
<1>6. \A x \in Rec : ThereRec(x) => ThereRec(x)'
  BY <1>2 DEF ThereRec
<1> QED BY <1>1, <1>2, <1>3, <1>4, <1>5, <1>6 DEF Sound, LiveRec

LEMMA WriteStep ==
  ASSUME StoreTyped, FiledAlive, NEW r \in Rec, Write(r), UNCHANGED folder
  PROVE  /\ Sound /\ last'.said = "ok" /\ LiveRec(r)'
         /\ \A x \in Rec \ {r} : st'[x] = st[x]
<1>1. st' = [st EXCEPT ![r] = "live"] /\ Answer("ok", {r}) /\ UNCHANGED <<sheet, overtaken>>
  BY DEF Write
<1>2. FiledAlive'
  <2>1. \A x \in Rec : st'[x] = "dead" => st[x] = "dead"
    BY <1>1 DEF StoreTyped
  <2>2. \A s \in Schemes : folder[s] # NoRec => folder[s] \in Rec
    BY DEF StoreTyped, Rec, Catalogue
  <2> QED BY <1>1, <2>1, <2>2 DEF FiledAlive
<1> QED BY <1>1, <1>2, Raised DEF StoreTyped

\* Filing notes a folder that is gone.
LEMMA FileStep ==
  ASSUME StoreTyped, FiledAlive, NEW s \in Schemes, NEW f \in Folders \cup {NoRec}, File(s, f),
         \A x \in Folders : st'[x] = st[x]
  PROVE  /\ folder' \in [Schemes -> Folders \cup {NoRec}] /\ overtaken' \subseteq Schemes
         /\ \A y \in Schemes : folder'[y] # folder[y] => y = s
         /\ FiledAlive'
<1>1. folder' = [folder EXCEPT ![s] = f]
      /\ overtaken' = IF f # NoRec /\ ~LiveRec(f) THEN overtaken \cup {s} ELSE overtaken \ {s}
  BY DEF File
<1>2. folder' \in [Schemes -> Folders \cup {NoRec}] /\ folder'[s] = f /\ \A y \in Schemes \ {s} : folder'[y] = folder[y]
  BY <1>1 DEF StoreTyped
<1>3. overtaken' \subseteq Schemes /\ overtaken \ {s} \subseteq overtaken'
  BY <1>1 DEF StoreTyped
<1>4. FiledAlive'
  <2> SUFFICES ASSUME NEW y \in Schemes, folder'[y] # NoRec, st'[folder'[y]] = "dead"
               PROVE  y \in overtaken'
    BY DEF FiledAlive
  <2>1. CASE y = s
    <3>1. f # NoRec /\ f \in Folders /\ st[f] = "dead"
      BY <1>2, <2>1
    <3> QED BY <1>1, <2>1, <3>1 DEF LiveRec
  <2>2. CASE y # s
    <3>1. folder'[y] = folder[y] /\ folder[y] \in Folders
      BY <1>2, <2>2
    <3> QED BY <1>3, <2>2, <3>1 DEF FiledAlive
  <2> QED BY <2>1, <2>2
<1> QED BY <1>2, <1>3, <1>4

\* What a push's upsert is refused for, and what it changes.
UpsertDone(r) == /\ Sound
                 /\ last'.said = "refused" => \E n \in Names[r] : ~ThereRec(n)
                 /\ last'.said = "ok" => ThereRec(r)'
                 /\ \A x \in Rec \ {r} : st'[x] = st[x]

LEMMA UpsertSchemeStep ==
  ASSUME StoreTyped, FiledAlive, NEW m \in Mutation, m.rec \in Schemes, UpsertScheme(m)
  PROVE  UpsertDone(m.rec)
<1> DEFINE s == m.rec
           f == IF m.folder # NoRec /\ LiveRec(m.folder) THEN m.folder ELSE NoRec
           said == IF \A g \in Names[s] \cap Grades : ThereRec(g) THEN "ok" ELSE "refused"
<1>1. CASE \E c \in Names[s] \cap Companies : ~ThereRec(c)
  <2>1. Refuse
    BY <1>1 DEF UpsertScheme
  <2> QED BY <1>1, <2>1, Refused DEF UpsertDone
<1>2. CASE ~\E c \in Names[s] \cap Companies : ~ThereRec(c)
  <2>1. st' = [st EXCEPT ![s] = "live"] /\ File(s, f) /\ Answer(said, {s}) /\ sheet' = sheet
    BY <1>2 DEF UpsertScheme
  <2>2. s \in Rec /\ f \in Folders \cup {NoRec}
    BY DEF Mutation, Rec
  <2>3. \A x \in Folders : st'[x] = st[x]
    BY <2>1, Apart DEF StoreTyped
  <2>4. /\ folder' \in [Schemes -> Folders \cup {NoRec}] /\ overtaken' \subseteq Schemes
        /\ \A y \in Schemes : folder'[y] # folder[y] => y = s
        /\ FiledAlive'
    BY <2>1, <2>2, <2>3, FileStep
  <2>5. said \in {"ok", "refused"} /\ (said = "refused" => \E n \in Names[s] : ~ThereRec(n))
    OBVIOUS
  <2> HIDE DEF said, f
  <2>6. Sound /\ last'.said = said /\ LiveRec(s)' /\ \A x \in Rec \ {s} : st'[x] = st[x]
    BY <2>1, <2>2, <2>4, <2>5, Raised
  <2> QED BY <2>5, <2>6 DEF UpsertDone, LiveRec, ThereRec
<1> QED BY <1>1, <1>2

LEMMA UpsertStep ==
  ASSUME StoreTyped, FiledAlive, NEW m \in Mutation, NEW same \in BOOLEAN, Upsert(m, same)
  PROVE  UpsertDone(m.rec)
<1> DEFINE r == m.rec
<1>0. r \in Rec
  BY DEF Mutation
<1>1. ASSUME Write(r), UNCHANGED folder
      PROVE  UpsertDone(r)
  BY <1>0, <1>1, WriteStep DEF UpsertDone, LiveRec, ThereRec
<1>2. ASSUME Refuse, \E n \in Names[r] : ~ThereRec(n)
      PROVE  UpsertDone(r)
  BY <1>2, Refused DEF UpsertDone
<1>3. CASE r \in Schemes
  BY <1>3, UpsertSchemeStep DEF Upsert
<1>4. CASE r \in Purchases \cup Claims \cup Diary
  <2>1. r \notin Schemes
    BY <1>4, Apart
  <2>2. UpsertGated(r, same)
    BY <1>4, <2>1 DEF Upsert
  <2>3. CASE ~ThereRec(r)
    BY <2>2, <2>3, <1>1, <1>2 DEF UpsertGated
  <2>4. CASE ThereRec(r)
    <3> DEFINE odd == ~same \/ (r \notin Claims /\ ~LiveRec(r))
    <3>1. CASE odd
      <4>1. Answer("conflict", {}) /\ UNCHANGED <<st, folder, sheet, overtaken>>
        BY <2>2, <2>4, <3>1 DEF UpsertGated
      <4> QED BY <4>1, NothingWritten DEF UpsertDone
    <3>2. CASE ~odd
      <4>1. Answer("ok", {r}) /\ UNCHANGED <<st, folder, sheet, overtaken>>
        BY <2>2, <2>4, <3>2 DEF UpsertGated
      <4>2. last' \in LastRow /\ last'.said = "ok" /\ last'.touched = {r}
        BY <1>0, <4>1, Answered
      <4> QED BY <2>4, <4>1, <4>2 DEF UpsertDone, Sound, StoreTyped, FiledAlive, MastersTravel, Meek, ThereRec
    <3> QED BY <3>1, <3>2
  <2> QED BY <2>3, <2>4
<1>5. CASE r \notin Schemes \cup Purchases \cup Claims \cup Diary
  <2>1. UpsertPlain(r)
    BY <1>5 DEF Upsert
  <2> QED BY <2>1, <1>1, <1>2 DEF UpsertPlain
<1> QED BY <1>3, <1>4, <1>5

\* What a push's delete is refused for, and what it changes.
DeleteDone(r) == /\ Sound
                 /\ last'.said = "refused" => /\ r \in Catalogue
                                              /\ r \in Folders \/ InUse(r) \/ (r \in Grades /\ Referenced(r))
                 /\ last'.said = "ok" => ~LiveRec(r)'
                 /\ \A x \in Rec : LiveRec(x)' => LiveRec(x)

LEMMA PushDeleteStep ==
  ASSUME StoreTyped, FiledAlive, NEW m \in Mutation, NEW same \in BOOLEAN, PushDelete(m, same)
  PROVE  DeleteDone(m.rec)
<1> DEFINE r == m.rec
<1>0. r \in Rec
  BY DEF Mutation
<1>1. ASSUME Bury(r)
      PROVE  DeleteDone(r)
  BY <1>0, <1>1, BuryStep DEF DeleteDone
<1>2. CASE r \in Catalogue
  <2>1. PushDeleteMaster(r)
    BY <1>2 DEF PushDelete
  <2>2. CASE r \in Folders \/ InUse(r)
    <3>1. Refuse
      BY <2>1, <2>2 DEF PushDeleteMaster
    <3> QED BY <1>2, <2>2, <3>1, Refused DEF DeleteDone, LiveRec
  <2>3. CASE ~(r \in Folders \/ InUse(r)) /\ r \in Grades /\ LiveRec(r) /\ Referenced(r)
    <3>1. st' = Buried({r}) /\ Answer("refused", {r}) /\ UNCHANGED <<folder, sheet, overtaken>>
      BY <2>1, <2>3 DEF PushDeleteMaster
    <3>2. last' \in LastRow /\ last'.said = "refused" /\ last'.touched = {r}
      BY <1>0, <3>1, Answered
    <3>3. /\ st' \in [Rec -> States]
          /\ \A x \in Rec : IF x \in {r} /\ LiveRec(x) THEN st'[x] = "dead" ELSE st'[x] = st[x]
      BY <3>1, BuriedForm DEF StoreTyped
    <3>4. StoreTyped'
      BY <3>1, <3>2, <3>3 DEF StoreTyped
    <3>5. FiledAlive'
      <4>1. \A s \in Schemes : folder[s] # NoRec => folder[s] \in Rec /\ folder[s] # r
        BY <2>3 DEF StoreTyped, Rec, Catalogue
      <4> QED BY <3>1, <3>3, <4>1 DEF FiledAlive
    <3>6. MastersTravel /\ Meek
      BY <2>3, <3>1, <3>2, <3>3 DEF MastersTravel, Meek
    <3> QED BY <1>2, <2>3, <3>2, <3>3, <3>4, <3>5, <3>6 DEF DeleteDone, Sound, LiveRec, ThereRec
  <2> QED BY <1>1, <2>1, <2>2, <2>3 DEF PushDeleteMaster
<1>3. CASE r \notin Catalogue
  <2>1. CASE r \in Purchases \cup Claims \cup Diary /\ LiveRec(r) /\ ~same
    <3>1. Answer("conflict", {}) /\ UNCHANGED <<st, folder, sheet, overtaken>>
      BY <1>3, <2>1 DEF PushDelete
    <3> QED BY <3>1, NothingWritten DEF DeleteDone, LiveRec
  <2> QED BY <1>1, <1>3, <2>1 DEF PushDelete
<1> QED BY <1>2, <1>3

----------------------------------------------------------------------------
(* Masters: the promise made to a push.                                     *)

\* A push that nobody ran into is still self-contained in what it has left,
\* and none of it has been refused.
Pledge == /\ pushed \in PushRow
          /\ pushed.promise => SelfContained(pushed.todo)
          /\ ~pushed.broken

LEMMA Ranked ==
  ASSUME NEW m \in Mutation
  PROVE  /\ m.op \in {"up", "del"} /\ m.rec \in Rec
         /\ m.op = "up" => Rank(m) = Order(m.rec)
         /\ m.op = "del" => Rank(m) = 19 - Order(m.rec)
         /\ Order(m.rec) \in 1..9
<1>1. m.op \in {"up", "del"} /\ m.rec \in Rec
  BY DEF Mutation
<1> QED BY <1>1, TablesListed, Ordered DEF Rank

LEMMA OfThePush ==
  ASSUME pushed \in PushRow, NEW m, Due(m)
  PROVE  m \in Mutation /\ pushed.todo \subseteq Mutation /\ m \in pushed.todo
BY DEF Due, PushRow

\* The masters a record names come before it: what is not there when it is its
\* turn would have been brought along.
LEMMA NotRefusedUp ==
  ASSUME Pledge, pushed.promise, NEW m, Due(m), m.op = "up", NEW n \in Names[m.rec]
  PROVE  ThereRec(n)
<1>1. m \in Mutation /\ pushed.todo \subseteq Mutation /\ m \in pushed.todo
  BY OfThePush DEF Pledge
<1>2. m.rec \in Rec /\ Rank(m) = Order(m.rec)
  BY <1>1, Ranked
<1>3. n \in Rec /\ Order(n) < Order(m.rec)
  BY <1>2, MasterTables, MasterConstants
<1>4. m.rec \in Ups(pushed.todo)
  BY <1>1 DEF Ups
<1>5. CASE n \in Ups(pushed.todo)
  <2>1. PICK k \in pushed.todo : k.op = "up" /\ k.rec = n
    BY <1>5 DEF Ups
  <2>2. Rank(k) = Order(n) /\ Order(n) \in 1..9
    BY <1>1, <2>1, Ranked
  <2>3. Rank(m) <= Rank(k)
    BY <2>1 DEF Due
  <2> QED BY <1>2, <1>3, <2>2, <2>3, Ordered
<1> QED BY <1>3, <1>4, <1>5 DEF Pledge, SelfContained

\* The records that hold a master are deleted before it.
LEMMA NotRefusedDelete ==
  ASSUME Pledge, pushed.promise, NEW m, Due(m), m.op = "del", m.rec \in Catalogue
  PROVE  ~InUse(m.rec) /\ ~(m.rec \in Grades /\ Referenced(m.rec))
<1>1. m \in Mutation /\ pushed.todo \subseteq Mutation /\ m \in pushed.todo
  BY OfThePush DEF Pledge
<1>2. m.rec \in Rec /\ Rank(m) = 19 - Order(m.rec) /\ Order(m.rec) \in 1..9
  BY <1>1, Ranked
<1>3. m.rec \in Dels(pushed.todo) \cap Catalogue
  BY <1>1 DEF Dels
<1>4. ASSUME NEW x \in Diary \cup Schemes \cup Purchases, LiveRec(x), m.rec \in Names[x],
             x \in Diary \/ m.rec \in Grades
      PROVE  FALSE
  <2>1. x \in Dels(pushed.todo)
    BY <1>3, <1>4 DEF Pledge, SelfContained
  <2>2. PICK k \in pushed.todo : k.op = "del" /\ k.rec = x
    BY <2>1 DEF Dels
  <2>3. x \in Rec /\ Rank(k) = 19 - Order(x) /\ Order(x) \in 1..9
    BY <1>1, <2>2, Ranked
  <2>4. Rank(m) <= Rank(k)
    BY <2>2 DEF Due
  <2>5. Order(m.rec) < Order(x)
    BY <1>4, <2>3, MasterTables
  <2> QED BY <1>2, <2>3, <2>4, <2>5
<1> QED BY <1>4 DEF InUse, Referenced, Naming

LEMMA Fewer ==
  ASSUME NEW m, NEW M, m \in M
  PROVE  /\ m.op = "up" => /\ Ups(M \ {m}) \subseteq Ups(M) /\ Ups(M) \subseteq Ups(M \ {m}) \cup {m.rec}
                           /\ Dels(M \ {m}) = Dels(M)
         /\ m.op = "del" => /\ Dels(M \ {m}) \subseteq Dels(M) /\ Dels(M) \subseteq Dels(M \ {m}) \cup {m.rec}
                            /\ Ups(M \ {m}) = Ups(M)
BY DEF Ups, Dels

\* An upsert that is done: its record is there, and what it named is too.
LEMMA LeftAfterUp ==
  ASSUME Pledge, pushed.promise, NEW m, Due(m), m.op = "up", UpsertDone(m.rec), last'.said = "ok",
         pushed'.todo = pushed.todo \ {m}
  PROVE  SelfContained(pushed.todo)'
<1> DEFINE M == pushed.todo
           L == pushed'.todo
<1>1. m \in Mutation /\ m \in M
  BY OfThePush DEF Pledge
<1>2. SelfContained(M)
  BY DEF Pledge
<1>3. Ups(L) \subseteq Ups(M) /\ Ups(M) \subseteq Ups(L) \cup {m.rec} /\ Dels(L) = Dels(M) /\ m.rec \in Ups(M)
  BY <1>1, Fewer DEF Ups
<1>4. /\ ThereRec(m.rec)'
      /\ \A x \in Rec \ {m.rec} : st'[x] = st[x]
      /\ \A x \in Rec : ThereRec(x) => ThereRec(x)'
  BY DEF UpsertDone, Sound
<1>5. \A r \in Ups(L), n \in Rec : n \in Names[r] => ThereRec(n)' \/ n \in Ups(L)
  BY <1>2, <1>3, <1>4 DEF SelfContained
<1>6. ASSUME NEW r \in Dels(L) \cap Catalogue, NEW x \in Diary \cup Schemes \cup Purchases,
             r \in Names[x], LiveRec(x)' \/ x \in Ups(L), x \in Diary \/ r \in Grades
      PROVE  x \in Dels(L)
  <2>1. LiveRec(x) \/ x \in Ups(M)
    BY <1>3, <1>4, <1>6 DEF LiveRec, Rec
  <2> QED BY <1>2, <1>3, <1>6, <2>1 DEF SelfContained
<1> QED BY <1>5, <1>6 DEF SelfContained, Ups, Dels

\* A delete that is done: its record is gone, and no upsert is left to bring it back.
LEMMA LeftAfterDelete ==
  ASSUME Pledge, pushed.promise, NEW m, Due(m), m.op = "del", DeleteDone(m.rec),
         last'.said = "ok" \/ m.rec \in Folders, pushed'.todo = pushed.todo \ {m}
  PROVE  SelfContained(pushed.todo)'
<1> DEFINE M == pushed.todo
           L == pushed'.todo
<1>1. m \in Mutation /\ m \in M /\ M \subseteq Mutation
  BY OfThePush DEF Pledge
<1>2. SelfContained(M)
  BY DEF Pledge
<1>3. Ups(L) = Ups(M) /\ Dels(L) \subseteq Dels(M) /\ Dels(M) \subseteq Dels(L) \cup {m.rec}
  <2>1. L = M \ {m}
    OBVIOUS
  <2> QED BY <1>1, <2>1, Fewer
<1>4. /\ \A x \in Rec : (ThereRec(x) => ThereRec(x)') /\ (LiveRec(x)' => LiveRec(x))
      /\ m.rec \in Folders \/ ~LiveRec(m.rec)'
  BY DEF DeleteDone, Sound
<1>5. \A r \in Ups(L), n \in Rec : n \in Names[r] => ThereRec(n)' \/ n \in Ups(L)
  BY <1>2, <1>3, <1>4 DEF SelfContained
<1>6. Ups(M) = {}
  <2> SUFFICES ASSUME NEW k \in M, k.op = "up"
               PROVE  FALSE
    BY DEF Ups
  <2>1. Rank(k) \in 1..9
    BY <1>1, Ranked
  <2>2. Rank(m) \in 10..18
    BY <1>1, Ranked
  <2>3. Rank(m) <= Rank(k)
    BY DEF Due
  <2> QED BY <2>1, <2>2, <2>3
<1>7. ASSUME NEW r \in Dels(L) \cap Catalogue, NEW x \in Diary \cup Schemes \cup Purchases,
             r \in Names[x], LiveRec(x)' \/ x \in Ups(L), x \in Diary \/ r \in Grades
      PROVE  x \in Dels(L)
  <2>1. x \in Rec /\ x \notin Folders
    BY Apart DEF Rec
  <2>2. LiveRec(x)'
    BY <1>3, <1>6, <1>7
  <2>3. x # m.rec
    BY <1>4, <2>1, <2>2
  <2>4. x \in Dels(M)
    BY <1>2, <1>3, <1>4, <1>7, <2>1, <2>2 DEF SelfContained
  <2> QED BY <1>3, <2>3, <2>4
<1> QED BY <1>5, <1>7 DEF SelfContained, Ups, Dels

\* One mutation of a push: what it was promised is kept for the rest.
LEMMA PushOneStep ==
  ASSUME StoreTyped, FiledAlive, Pledge, NEW m, PushOne(m)
  PROVE  Sound /\ Pledge' /\ pushed'.todo # pushed.todo
<1> DEFINE open == IF \E n \in Rest(m) : Rank(n) = Rank(m) THEN Rank(m) ELSE 0
           kept == pushed.promise /\ last'.said # "conflict"
           broke == /\ pushed.promise /\ last'.said = "refused"
                    /\ ~(m.op = "del" /\ m.rec \in Folders)
           row == [todo |-> Rest(m), open |-> open, promise |-> kept, broken |-> broke]
<1>1. /\ Due(m) /\ pushed' = row
      /\ \E same \in BOOLEAN : IF m.op = "up" THEN Upsert(m, same) ELSE PushDelete(m, same)
  BY DEF PushOne
<1>2. m \in Mutation /\ pushed.todo \subseteq Mutation /\ m \in pushed.todo
  BY <1>1, OfThePush DEF Pledge
<1>3. PICK same \in BOOLEAN : IF m.op = "up" THEN Upsert(m, same) ELSE PushDelete(m, same)
  BY <1>1
<1>4. m.op \in {"up", "del"}
  BY <1>2 DEF Mutation
<1>5. m.op = "up" => UpsertDone(m.rec)
  BY <1>2, <1>3, UpsertStep
<1>6. m.op = "del" => DeleteDone(m.rec)
  BY <1>2, <1>3, PushDeleteStep
<1>7. Sound
  BY <1>4, <1>5, <1>6 DEF UpsertDone, DeleteDone
<1>8. last'.said \in {"ok", "refused", "conflict"}
  BY <1>7 DEF Sound, StoreTyped, LastRow
<1>9. ~broke
  <2>1. CASE m.op = "up"
    BY <1>1, <1>5, <2>1, NotRefusedUp DEF UpsertDone
  <2>2. CASE m.op = "del"
    BY <1>1, <1>6, <2>2, NotRefusedDelete DEF DeleteDone
  <2> QED BY <1>4, <2>1, <2>2
<1>10. Rest(m) \subseteq Mutation /\ Rest(m) = pushed.todo \ {m}
  BY <1>2 DEF Rest
<1>11. open \in Nat
  BY <1>2, Ranked
<1>12. kept \in BOOLEAN /\ broke \in BOOLEAN
  BY <1>9 DEF Pledge, PushRow
<1>13. kept => pushed.promise /\ (last'.said = "ok" \/ (m.op = "del" /\ m.rec \in Folders))
  BY <1>8, <1>9
<1> HIDE DEF open, kept, broke
<1>14. row \in PushRow /\ row.todo = Rest(m) /\ row.promise = kept /\ row.broken = broke
  BY <1>10, <1>11, <1>12 DEF PushRow
<1>15. pushed' \in PushRow /\ pushed'.todo = pushed.todo \ {m} /\ pushed'.promise = kept /\ ~pushed'.broken
  BY <1>1, <1>9, <1>10, <1>14
<1>16. pushed'.promise => SelfContained(pushed.todo)'
  <2>1. CASE kept /\ m.op = "up"
    <3>1. last'.said = "ok" /\ pushed.promise
      BY <1>13, <2>1
    <3> QED BY <1>1, <1>5, <1>15, <2>1, <3>1, LeftAfterUp
  <2>2. CASE kept /\ m.op = "del"
    <3>1. (last'.said = "ok" \/ m.rec \in Folders) /\ pushed.promise
      BY <1>13, <2>2
    <3> QED BY <1>1, <1>6, <1>15, <2>2, <3>1, LeftAfterDelete
  <2> QED BY <1>4, <1>15, <2>1, <2>2
<1>17. pushed'.todo # pushed.todo
  BY <1>2, <1>15
<1> QED BY <1>7, <1>15, <1>16, <1>17 DEF Pledge

LEMMA Unmoved ==
  ASSUME Pledge, UNCHANGED <<st, pushed>>
  PROVE  Pledge'
BY DEF Pledge, SelfContained, ThereRec, LiveRec, Ups, Dels

\* Whoever writes meanwhile ends the promise.
LEMMA Disturbed ==
  ASSUME Pledge, Disturb
  PROVE  Pledge' /\ pushed'.todo = pushed.todo
<1> DEFINE no == FALSE
<1>0. no \in BOOLEAN /\ ~no
  OBVIOUS
<1>1. pushed' = [pushed EXCEPT !.promise = no]
  BY DEF Disturb
<1> HIDE DEF no
<1>2. pushed' \in PushRow /\ pushed'.promise = no /\ pushed'.broken = pushed.broken /\ pushed'.todo = pushed.todo
  BY <1>0, <1>1 DEF Pledge, PushRow
<1> QED BY <1>0, <1>2 DEF Pledge

LEMMA PushStartStep ==
  ASSUME Pledge, NEW M \in Pushes, PushStart(M)
  PROVE  Pledge'
<1> DEFINE p == SelfContained(M)
           b == FALSE
           row == [todo |-> M, open |-> 0, promise |-> p, broken |-> b]
<1>1. pushed' = row /\ st' = st
  BY DEF PushStart
<1>2. M \in SUBSET Mutation /\ 0 \in Nat
  BY MasterConstants
<1>3. p \in BOOLEAN
  BY DEF SelfContained
<1>4. b \in BOOLEAN /\ ~b
  OBVIOUS
<1> HIDE DEF p, b
<1>5. row \in PushRow /\ row.todo = M /\ row.promise = p /\ row.broken = b
  BY <1>2, <1>3, <1>4 DEF PushRow
<1>6. p => SelfContained(pushed.todo)'
  <2> SUFFICES ASSUME p PROVE SelfContained(pushed.todo)'
    OBVIOUS
  <2>1. SelfContained(M)
    BY DEF p
  <2>2. pushed'.todo = M
    BY <1>1, <1>5
  <2> QED BY <1>1, <2>1, <2>2 DEF SelfContained, ThereRec, LiveRec, Ups, Dels
<1> QED BY <1>1, <1>4, <1>5, <1>6 DEF Pledge

LEMMA PushGroupFailsStep ==
  ASSUME Pledge, PushGroupFails
  PROVE  Pledge'
<1> DEFINE no == FALSE
           left == {m \in pushed.todo : ~Due(m)}
<1>0. no \in BOOLEAN /\ ~no
  OBVIOUS
<1>1. pushed' = [pushed EXCEPT !.todo = left, !.promise = no]
  BY DEF PushGroupFails
<1>2. left \in SUBSET Mutation
  BY DEF Pledge, PushRow
<1> HIDE DEF no, left
<1>3. pushed' \in PushRow /\ pushed'.promise = no /\ pushed'.broken = pushed.broken
  BY <1>0, <1>1, <1>2 DEF Pledge, PushRow
<1> QED BY <1>0, <1>3 DEF Pledge

----------------------------------------------------------------------------
(* Masters: the requests.                                                   *)

\* RefusalKeeps, of one step.
Keeping == last'.said # "ok" =>
  /\ sheet' = sheet
  /\ \A r \in Rec : st'[r] # st[r] => /\ pushed'.todo # pushed.todo
                                      /\ r \in Grades => Referenced(r)
                                      /\ r \in Grades \cup Schemes

MastersInv == StoreTyped /\ RestTyped /\ FiledAlive /\ Pledge

\* A statement that is Sound, in a request that ends the promise if it writes.
LEMMA Answering ==
  ASSUME Sound, Pledge', RestTyped', pushed'.todo # pushed.todo \/ st' = st \/ last'.said = "ok"
  PROVE  MastersInv' /\ MastersTravel /\ Keeping
<1>1. StoreTyped' /\ FiledAlive' /\ MastersTravel /\ Meek
  BY DEF Sound
<1>2. MastersInv'
  BY <1>1 DEF MastersInv
<1>3. Keeping
  BY <1>1 DEF Meek, Keeping
<1> QED BY <1>1, <1>2, <1>3

\* A request that only reads.
LEMMA OnlyReads ==
  ASSUME MastersInv, Answer("ok", {}), UNCHANGED <<st, folder, sheet, pushed, overtaken>>, RestTyped'
  PROVE  MastersInv' /\ MastersTravel /\ Keeping
<1>1. Sound /\ last'.said = "ok"
  BY NothingWritten DEF MastersInv
<1>2. Pledge'
  BY Unmoved DEF MastersInv
<1> QED BY <1>1, <1>2, Answering

\* No request is under way.
LEMMA Idle == ASSUME rest' = NoRest PROVE RestTyped'
<1> DEFINE no == FALSE
<1>0. no \in BOOLEAN
  OBVIOUS
<1>1. NoRest = [pc |-> "idle", op |-> "none", rec |-> NoRec, folder |-> NoRec, revive |-> no]
  BY DEF NoRest
<1> HIDE DEF no
<1>2. NoRest \in RestRow /\ NoRest.pc = "idle"
  BY <1>0, <1>1 DEF RestRow
<1> QED BY <1>2 DEF RestTyped

LEMMA RowReadStep ==
  ASSUME NEW r \in Rec, NEW create \in BOOLEAN, RowRead(r, create)
  PROVE  RestTyped'
<1> DEFINE dead == st[r] = "dead"
<1>1. dead \in BOOLEAN
  OBVIOUS
<1>2. rest' = [NoRest EXCEPT !.pc = "row", !.op = "row", !.rec = r, !.revive = dead]
  BY DEF RowRead
<1> HIDE DEF dead
<1>3. rest' = [pc |-> "row", op |-> "row", rec |-> r, folder |-> NoRec, revive |-> dead]
  BY <1>2 DEF NoRest
<1>4. rest' \in RestRow /\ rest'.pc = "row" /\ rest'.rec = r
  BY <1>1, <1>3 DEF RestRow
<1> QED BY <1>4 DEF RestTyped

LEMMA WriteBeginStep ==
  ASSUME NEW x \in Schemes \cup Purchases, NEW op \in {"create", "patch"}, NEW f \in Folders \cup {NoRec},
         WriteBegin(x, op, f)
  PROVE  RestTyped'
<1> DEFINE no == FALSE
<1>0. no \in BOOLEAN /\ x \in Rec
  BY DEF Rec
<1>1. rest' = [NoRest EXCEPT !.pc = "company", !.op = op, !.rec = x, !.folder = f]
  BY DEF WriteBegin
<1>2. NoRest = [pc |-> "idle", op |-> "none", rec |-> NoRec, folder |-> NoRec, revive |-> no]
  BY DEF NoRest
<1> HIDE DEF no
<1>3. rest' = [pc |-> "company", op |-> op, rec |-> x, folder |-> f, revive |-> no]
  BY <1>1, <1>2
<1>4. rest' \in RestRow /\ rest'.pc = "company" /\ rest'.rec = x
  BY <1>0, <1>3 DEF RestRow
<1> QED BY <1>4 DEF RestTyped

\* A check that passes moves the request on.
LEMMA CheckedOn ==
  ASSUME RestTyped, rest.pc \in {"company", "second"}, NEW pc \in {"second", "write"},
         rest' \in {[rest EXCEPT !.pc = pc], NoRest}
  PROVE  RestTyped'
<1>1. CASE rest' = NoRest
  BY <1>1, Idle
<1>2. CASE rest' = [rest EXCEPT !.pc = pc]
  <2>1. rest \in RestRow /\ rest.rec \in Schemes \cup Purchases
    BY DEF RestTyped
  <2>2. rest' \in RestRow /\ rest'.pc = pc /\ rest'.rec = rest.rec
    BY <1>2, <2>1 DEF RestRow
  <2> QED BY <2>1, <2>2 DEF RestTyped
<1> QED BY <1>1, <1>2

LEMMA RowWriteStep ==
  ASSUME StoreTyped, FiledAlive, RestTyped, RowWrite
  PROVE  Sound /\ last'.said = "ok"
<1> DEFINE r == rest.rec
<1>1. r \in Rec
  BY DEF RowWrite, RestTyped
<1>2. /\ st' = IF rest.revive /\ ThereRec(r) THEN [st EXCEPT ![r] = "live"] ELSE st
      /\ Answer("ok", IF ThereRec(r) THEN {r} ELSE {})
      /\ UNCHANGED <<folder, sheet, overtaken>>
  BY DEF RowWrite
<1>3. CASE rest.revive /\ ThereRec(r)
  BY <1>1, <1>2, <1>3, WriteStep DEF Write
<1>4. CASE ~(rest.revive /\ ThereRec(r)) /\ ThereRec(r)
  <2>1. last' \in LastRow /\ last'.said = "ok"
    BY <1>1, <1>2, <1>4, Answered
  <2> QED BY <1>2, <1>4, <2>1 DEF Sound, StoreTyped, FiledAlive, MastersTravel, Meek, ThereRec
<1>5. CASE ~ThereRec(r)
  BY <1>2, <1>5, NothingWritten
<1> QED BY <1>3, <1>4, <1>5

LEMMA CheckedWriteStep ==
  ASSUME StoreTyped, FiledAlive, RestTyped, CheckedWrite
  PROVE  Sound /\ (st' = st \/ last'.said = "ok")
<1> DEFINE x == rest.rec
           kept == IF rest.op = "create" THEN LiveRec(x) ELSE ~ThereRec(x)
           keys == Names[x] \cap (Companies \cup (IF x \in Schemes THEN Grades ELSE {}))
<1>1. x \in Schemes \cup Purchases /\ x \in Rec /\ rest.folder \in Folders \cup {NoRec}
  BY DEF CheckedWrite, RestTyped, RestRow, Rec
<1>2. IF ~kept /\ \E n \in keys : ~ThereRec(n) THEN Refuse
      ELSE IF kept THEN Answer("ok", {}) /\ UNCHANGED <<st, folder, sheet, overtaken>>
      ELSE /\ st' = IF rest.op = "create" THEN [st EXCEPT ![x] = "live"] ELSE st
           /\ Answer("ok", {x})
           /\ IF x \in Schemes THEN File(x, rest.folder) ELSE UNCHANGED <<folder, overtaken>>
           /\ UNCHANGED sheet
  BY DEF CheckedWrite
<1> HIDE DEF keys, kept
<1>3. CASE ~kept /\ \E n \in keys : ~ThereRec(n)
  BY <1>2, <1>3, Refused
<1>4. CASE kept
  BY <1>2, <1>4, NothingWritten
<1>5. CASE ~kept /\ ~\E n \in keys : ~ThereRec(n)
  <2>1. /\ st' = IF rest.op = "create" THEN [st EXCEPT ![x] = "live"] ELSE st
        /\ Answer("ok", {x})
        /\ IF x \in Schemes THEN File(x, rest.folder) ELSE UNCHANGED <<folder, overtaken>>
        /\ sheet' = sheet
    BY <1>2, <1>5
  <2>2. /\ st' \in [Rec -> States]
        /\ \A y \in Rec : st'[y] # st[y] => y = x /\ st'[y] = "live"
    BY <1>1, <2>1 DEF StoreTyped, States
  <2>3. \A y \in Folders : y \in Rec /\ y # x
    BY <1>1, Apart DEF Rec, Catalogue
  <2>4. /\ folder' \in [Schemes -> Folders \cup {NoRec}] /\ overtaken' \subseteq Schemes
        /\ \A y \in Schemes : folder'[y] # folder[y] => y = x
        /\ FiledAlive'
    <3>1. CASE x \in Schemes
      <4>1. \A y \in Folders : st'[y] = st[y]
        BY <2>2, <2>3
      <4> QED BY <1>1, <2>1, <3>1, <4>1, FileStep
    <3>2. CASE x \notin Schemes
      <4>1. folder' = folder /\ overtaken' = overtaken
        BY <2>1, <3>2
      <4>2. \A y \in Schemes : folder[y] # NoRec => folder[y] \in Folders
        BY DEF StoreTyped
      <4> QED BY <2>2, <2>3, <4>1, <4>2 DEF StoreTyped, FiledAlive
    <3> QED BY <3>1, <3>2
  <2>5. last' \in LastRow /\ last'.said = "ok" /\ last'.touched = {x}
    BY <1>1, <2>1, Answered
  <2>6. StoreTyped'
    BY <2>1, <2>2, <2>4, <2>5 DEF StoreTyped
  <2>7. MastersTravel /\ Meek
    BY <2>1, <2>2, <2>4, <2>5 DEF MastersTravel, Meek
  <2>8. \A y \in Rec : ThereRec(y) => ThereRec(y)'
    BY <2>2 DEF ThereRec
  <2> QED BY <2>4, <2>5, <2>6, <2>7, <2>8 DEF Sound
<1> QED BY <1>3, <1>4, <1>5

LEMMA PurgeStep ==
  ASSUME StoreTyped, FiledAlive, NEW r \in Rec, PurgeRow(r)
  PROVE  StoreTyped' /\ FiledAlive' /\ MastersTravel /\ last'.said = "ok"
<1> DEFINE owned == {x \in Naming(r) : \/ r \in Parties /\ x \in Routes
                                       \/ r \in Companies /\ x \in Schemes \cup Purchases}
           gone == {r} \cup owned
<1>1. /\ st[r] = "dead" /\ r \notin Folders
      /\ st' = [x \in Rec |-> IF x \in gone THEN "none" ELSE st[x]]
      /\ folder' = [s \in Schemes |-> IF s \in gone THEN NoRec ELSE folder[s]]
      /\ overtaken' = overtaken \ gone
      /\ sheet' = sheet \ Cleared(r)
      /\ Answer("ok", {})
  BY DEF PurgeRow
<1>2. r \in gone
  OBVIOUS
<1>3. \A f \in Folders : f \in Rec /\ f \notin gone
  BY <1>1, Apart DEF Rec, Catalogue
<1> HIDE DEF owned, gone
<1>4. st' \in [Rec -> States] /\ \A x \in Rec : st'[x] = IF x \in gone THEN "none" ELSE st[x]
  BY <1>1 DEF StoreTyped, States
<1>5. /\ folder' \in [Schemes -> Folders \cup {NoRec}]
      /\ \A s \in Schemes : folder'[s] = IF s \in gone THEN NoRec ELSE folder[s]
  BY <1>1 DEF StoreTyped
<1>6. last' \in LastRow /\ last'.said = "ok"
  BY <1>1, Answered
<1>7. StoreTyped'
  BY <1>1, <1>4, <1>5, <1>6 DEF StoreTyped
<1>8. FiledAlive'
  <2> SUFFICES ASSUME NEW s \in Schemes, folder'[s] # NoRec, st'[folder'[s]] = "dead"
               PROVE  s \in overtaken'
    BY DEF FiledAlive
  <2>1. s \notin gone /\ folder'[s] = folder[s] /\ folder[s] \in Folders
    BY <1>5
  <2>2. st[folder[s]] = "dead"
    BY <1>3, <1>4, <2>1
  <2> QED BY <1>1, <2>1, <2>2 DEF FiledAlive
<1>9. Purged
  BY <1>1, <1>2, <1>4 DEF Purged, ThereRec
<1> QED BY <1>6, <1>7, <1>8, <1>9 DEF MastersTravel

LEMMA MastersInitInv == MastersInit => MastersInv
<1> SUFFICES ASSUME MastersInit PROVE MastersInv
  OBVIOUS
<1> DEFINE no == FALSE
<1>0. no \in BOOLEAN /\ ~no
  OBVIOUS
<1>1. StoreTyped
  <2>1. last = [touched |-> {}, said |-> "ok"] /\ {} \in SUBSET (Rec \cup {Day})
    BY DEF MastersInit
  <2>2. last \in LastRow
    BY <2>1 DEF LastRow
  <2> QED BY <2>2 DEF MastersInit, StoreTyped, States
<1>2. RestTyped
  <2>1. rest = [pc |-> "idle", op |-> "none", rec |-> NoRec, folder |-> NoRec, revive |-> no]
    BY DEF MastersInit, NoRest
  <2> HIDE DEF no
  <2>2. rest \in RestRow /\ rest.pc = "idle"
    BY <1>0, <2>1 DEF RestRow
  <2> QED BY <2>2 DEF RestTyped
<1>3. FiledAlive
  BY DEF MastersInit, FiledAlive
<1>4. Pledge
  <2>1. pushed = [todo |-> {}, open |-> 0, promise |-> no, broken |-> no]
    BY DEF MastersInit, NoPush
  <2> HIDE DEF no
  <2>2. pushed \in PushRow /\ pushed.promise = no /\ pushed.broken = no
    BY <1>0, <2>1 DEF PushRow
  <2> QED BY <1>0, <2>2 DEF Pledge
<1> QED BY <1>1, <1>2, <1>3, <1>4 DEF MastersInv

LEMMA MastersStep ==
  ASSUME MastersInv, MastersNext
  PROVE  MastersInv' /\ MastersTravel /\ Keeping
<1> DEFINE Good == MastersInv' /\ MastersTravel /\ Keeping
<1>i. StoreTyped /\ RestTyped /\ FiledAlive /\ Pledge
  BY DEF MastersInv
\* A request of one statement.
<1>o. ASSUME Sound, Disturb, RestTyped', st' = st \/ last'.said = "ok"
      PROVE  Good
  BY <1>i, <1>o, Disturbed, Answering
<1>r. ASSUME UNCHANGED rest PROVE RestTyped'
  BY <1>i, <1>r DEF RestTyped
<1>1. ASSUME NEW r \in Catalogue, DeleteMaster(r) PROVE Good
  <2>1. r \in Rec /\ Disturb /\ RestTyped' /\ (Refuse \/ Bury(r))
    BY <1>1, <1>r DEF DeleteMaster, Rec
  <2>2. CASE Refuse
    BY <1>i, <1>o, <2>1, <2>2, Refused
  <2>3. CASE Bury(r)
    BY <1>i, <1>o, <2>1, <2>3, BuryStep
  <2> QED BY <2>1, <2>2, <2>3
<1>2. ASSUME NEW r \in Schemes \cup Purchases \cup Claims \cup Routes, DeleteRecord(r) PROVE Good
  <2>1. r \in Rec /\ Disturb /\ RestTyped' /\ Bury(r)
    BY <1>2, <1>r DEF DeleteRecord, Rec
  <2> QED BY <1>i, <1>o, <2>1, BuryStep
<1>3. ASSUME NEW r \in Catalogue \cup Routes, CreateMaster(r) PROVE Good
  <2>1. r \in Rec /\ Disturb /\ RestTyped' /\ Write(r) /\ UNCHANGED folder
    BY <1>3, <1>r DEF CreateMaster, Rec
  <2> QED BY <1>i, <1>o, <2>1, WriteStep
<1>4. ASSUME NEW r \in Catalogue \cup Routes, NEW create \in BOOLEAN, RowRead(r, create) PROVE Good
  <2>1. r \in Rec /\ Answer("ok", {}) /\ UNCHANGED <<st, folder, sheet, pushed, overtaken>>
    BY <1>4 DEF RowRead, Rec
  <2>2. RestTyped'
    BY <1>4, <2>1, RowReadStep
  <2> QED BY <2>1, <2>2, OnlyReads
<1>5. ASSUME RowWrite PROVE Good
  <2>1. Disturb /\ RestTyped'
    BY <1>5, Idle DEF RowWrite
  <2> QED BY <1>5, <1>i, <1>o, <2>1, RowWriteStep
<1>6. ASSUME CheckCompany PROVE Good
  <2>1. /\ Answer("ok", {}) /\ UNCHANGED <<st, folder, sheet, pushed, overtaken>>
        /\ rest.pc \in {"company", "second"} /\ rest' \in {[rest EXCEPT !.pc = "second"], NoRest}
    BY <1>6 DEF CheckCompany
  <2>2. RestTyped'
    BY <1>i, <2>1, CheckedOn
  <2> QED BY <2>1, <2>2, OnlyReads
<1>7. ASSUME CheckSecond PROVE Good
  <2>1. /\ Answer("ok", {}) /\ UNCHANGED <<st, folder, sheet, pushed, overtaken>>
        /\ rest.pc \in {"company", "second"} /\ rest' \in {[rest EXCEPT !.pc = "write"], NoRest}
    BY <1>7 DEF CheckSecond
  <2>2. RestTyped'
    BY <1>i, <2>1, CheckedOn
  <2> QED BY <2>1, <2>2, OnlyReads
<1>8. ASSUME CheckedWrite PROVE Good
  <2>1. Disturb /\ RestTyped'
    BY <1>8, Idle DEF CheckedWrite
  <2> QED BY <1>8, <1>i, <1>o, <2>1, CheckedWriteStep
<1>9. ASSUME FillSheet PROVE Good
  <2>1. /\ Disturb /\ RestTyped' /\ Answer("ok", {Day}) /\ sheet' \subseteq Lines
        /\ UNCHANGED <<st, folder, overtaken>>
    BY <1>9, <1>r DEF FillSheet
  <2>2. last' \in LastRow /\ last'.said = "ok" /\ last'.touched = {Day}
    BY <2>1, Answered
  <2>3. Sound
    BY <1>i, <2>1, <2>2 DEF Sound, StoreTyped, FiledAlive, MastersTravel, Meek, ThereRec
  <2> QED BY <1>o, <2>1, <2>3
<1>10. ASSUME NEW x \in Schemes \cup Purchases, NEW op \in {"create", "patch"}, NEW f \in Folders \cup {NoRec},
              WriteBegin(x, op, f)
       PROVE  Good
  <2>1. Answer("ok", {}) /\ UNCHANGED <<st, folder, sheet, pushed, overtaken>>
    BY <1>10 DEF WriteBegin
  <2>2. RestTyped'
    BY <1>10, WriteBeginStep
  <2> QED BY <2>1, <2>2, OnlyReads
<1>11. ASSUME NEW k \in Claims, CreateClaim(k) PROVE Good
  <2>1. k \in Rec /\ Disturb /\ RestTyped' /\ Write(k) /\ UNCHANGED folder
    BY <1>11, <1>r DEF CreateClaim, Rec
  <2> QED BY <1>i, <1>o, <2>1, WriteStep
<1>12. ASSUME NEW r \in Rec, PurgeRow(r) PROVE Good
  <2>1. Disturb /\ RestTyped'
    BY <1>12, <1>r DEF PurgeRow
  <2>2. StoreTyped' /\ FiledAlive' /\ MastersTravel /\ last'.said = "ok"
    BY <1>12, <1>i, PurgeStep
  <2>3. Pledge'
    BY <1>i, <2>1, Disturbed
  <2> QED BY <2>1, <2>2, <2>3 DEF MastersInv, Keeping
<1>13. ASSUME NEW M \in Pushes, PushStart(M) PROVE Good
  <2>1. Answer("ok", {}) /\ UNCHANGED <<st, folder, sheet, overtaken>> /\ RestTyped'
    BY <1>13, <1>r DEF PushStart
  <2>2. Sound /\ last'.said = "ok"
    BY <1>i, <2>1, NothingWritten
  <2>3. Pledge'
    BY <1>i, <1>13, PushStartStep
  <2> QED BY <2>1, <2>2, <2>3, Answering
<1>14. ASSUME NEW m \in pushed.todo, PushOne(m) PROVE Good
  <2>1. RestTyped'
    BY <1>14, <1>r DEF PushOne
  <2>2. Sound /\ Pledge' /\ pushed'.todo # pushed.todo
    BY <1>i, <1>14, PushOneStep
  <2> QED BY <2>1, <2>2, Answering
<1>15. ASSUME PushGroupFails PROVE Good
  <2>1. Answer("refused", {}) /\ UNCHANGED <<st, folder, sheet, overtaken>> /\ RestTyped'
    BY <1>15, <1>r DEF PushGroupFails
  <2>2. Sound
    BY <1>i, <2>1, NothingWritten
  <2>3. Pledge'
    BY <1>i, <1>15, PushGroupFailsStep
  <2> QED BY <2>1, <2>2, <2>3, Answering
<1> QED
  BY <1>1, <1>2, <1>3, <1>4, <1>5, <1>6, <1>7, <1>8, <1>9, <1>10, <1>11, <1>12, <1>13, <1>14, <1>15 DEF MastersNext

LEMMA MastersNextInv == MastersInv /\ [MastersNext]_masterVars => MastersInv'
<1>1. ASSUME MastersInv, UNCHANGED masterVars PROVE MastersInv'
  <2>1. Pledge'
    BY <1>1, Unmoved DEF MastersInv, masterVars
  <2>2. StoreTyped' /\ FiledAlive'
    BY <1>1 DEF MastersInv, masterVars, StoreTyped, FiledAlive
  <2>3. RestTyped'
    BY <1>1 DEF MastersInv, masterVars, RestTyped
  <2> QED BY <2>1, <2>2, <2>3 DEF MastersInv
<1> QED BY <1>1, MastersStep

\* The variables of the masters keep their types (masters/service.ts, sync/push.ts).
THEOREM MastersTyped == MastersSpec => []MastersTypeOK
<1>1. MastersInv => MastersTypeOK
  BY MastersTypes DEF MastersInv, RestTyped, Pledge
<1> QED BY <1>1, MastersInitInv, MastersNextInv, PTL DEF MastersSpec

\* A push that brings or finds all that it names, and deletes with a master all that
\* would hold it, has nothing refused but the delete of a folder, whatever the order it
\* was sent in: GROUP_ORDER puts each record after what it names, and the deletes the
\* other way round (sync/push.ts).
THEOREM GroupOrder == MastersSpec => []OrderSuffices
<1>1. MastersInv => OrderSuffices
  BY DEF MastersInv, Pledge, OrderSuffices
<1> QED BY <1>1, MastersInitInv, MastersNextInv, PTL DEF MastersSpec

\* A scheme is filed in a deleted folder only if a REST write had looked at the folder
\* before it went (landing/schemes.ts checkFolder, masters/service.ts).
THEOREM FoldersFiledAlive == MastersSpec => []FiledAlive
<1>1. MastersInv => FiledAlive
  BY DEF MastersInv
<1> QED BY <1>1, MastersInitInv, MastersNextInv, PTL DEF MastersSpec

\* What is refused changes nothing, but for a named grade's tombstone and a scheme that
\* names a purged grade, inside a push (sync/push.ts applyOne).
THEOREM NothingHalfRefused == MastersSpec => RefusalKeeps
<1>1. MastersInv /\ [MastersNext]_masterVars => [Keeping]_masterVars
  BY MastersStep
<1>2. MastersSpec => [][Keeping]_masterVars
  BY <1>1, MastersInitInv, MastersNextInv, PTL DEF MastersSpec
<1> QED BY <1>2, PTL DEF RefusalKeeps, Keeping

\* What changes of a record, of a scheme's folder or of the day's cells is on a row the
\* step updated, so that the next pull sends it (masters/cascade.ts).
THEOREM ChangesTravel == MastersSpec => [][MastersTravel]_masterVars
<1>1. MastersInv /\ [MastersNext]_masterVars => [MastersTravel]_masterVars
  BY MastersStep
<1> QED BY <1>1, MastersInitInv, MastersNextInv, PTL DEF MastersSpec
=============================================================================
