-------------------------------- MODULE Claims --------------------------------
(***************************************************************************)
(* The claims of one scheme and period, of which the tables hold one at    *)
(* most (uk_claim_period, dead rows included), and their credit notes.  A  *)
(* claim's status follows from its notes: every writer, of the claim or of *)
(* a note, over REST or by POST /sync/push, has to recompute it.           *)
(*                                                                         *)
(* Amounts are small integers.  `open' is claimable or claimed, which      *)
(* sentOn tells apart.  The revision gate of a push is a choice: whether   *)
(* the device's revision is the row's (Purchases has the gate itself).     *)
(***************************************************************************)
EXTENDS Naturals
LOCAL INSTANCE Functions

CONSTANTS
  ClaimIds,
  Notes,      \* credit notes, each with
  Amount,     \*   its amount
  Accrued     \* what the claim accrued when it was frozen

ASSUME ClaimConstants == Amount \in [Notes -> Nat] /\ Accrued \in Nat

VARIABLES
  claim,    \* id -> its row: st, status
  notes,    \* id -> the credit notes it has
  desk,     \* the REST request that has read and not yet written
  loose     \* history: claims whose notes changed between the read and the
            \* write of a patch, whose push threw half-way, or that a restore
            \* left with a status that is not of their notes

claimVars == <<claim, notes, desk, loose>>

Statuses == {"open", "received"}
NoClaim  == [st |-> "none", status |-> "open"]
NoDesk   == [op |-> "none", id |-> {}, note |-> {}, status |-> "open"]

ClaimsTypeOK ==
  /\ claim \in [ClaimIds -> [st : {"none", "live", "dead"}, status : Statuses]]
  /\ notes \in [ClaimIds -> SUBSET Notes]
  /\ desk \in [op : {"none", "add", "remove", "patch", "update"},
               id : SUBSET ClaimIds, note : SUBSET Notes, status : Statuses]
  /\ loose \subseteq ClaimIds

ClaimsInit ==
  /\ claim = [k \in ClaimIds |-> NoClaim]
  /\ notes = [k \in ClaimIds |-> {}]
  /\ desk = NoDesk /\ loose = {}

----------------------------------------------------------------------------
ThereClaim(k) == claim[k].st # "none"
LiveClaim(k)  == claim[k].st = "live"

\* The notes make up what was accrued.
Covered(N) == N # {} /\ SumFunctionOnSet(Amount, N) >= Accrued
\* claimAutoStatus.
AutoStatus(status, N) ==
  IF Covered(N) THEN "received" ELSE IF status = "received" THEN "open" ELSE status

\* applyAutoStatus of claim k, with the status it has and the notes N.
Settled(k, N) == [claim EXCEPT ![k].status = AutoStatus(@, N)]

\* A patch of k is about to write what it computed from the notes before.
PatchPending(k) == desk.op = "update" /\ desk.id = {k}
Tightened(k)    == IF PatchPending(k) THEN loose \cup {k} ELSE loose \ {k}

Renote(k, N) == notes' = [notes EXCEPT ![k] = N] /\ loose' = Tightened(k)

----------------------------------------------------------------------------
(* REST.                                                                    *)

Rows == {j \in ClaimIds : ThereClaim(j)}

\* createClaim: a live clash is a 409; a tombstone goes, with its notes, and
\* the claim is inserted.
CreateClaimRow(k) ==
  /\ \A j \in Rows : ~LiveClaim(j)
  /\ claim' = [j \in ClaimIds |-> IF j = k THEN [NoClaim EXCEPT !.st = "live"] ELSE NoClaim]
  /\ notes' = [j \in ClaimIds |-> {}]
  /\ loose' = Tightened(k)
  /\ UNCHANGED desk

\* addCreditNote, deleteCreditNote: the claim is read live ...
NoteRead(k, n, op) ==
  /\ desk = NoDesk /\ LiveClaim(k)
  /\ desk' = [NoDesk EXCEPT !.op = op, !.id = {k}, !.note = {n}]
  /\ UNCHANGED <<claim, notes, loose>>

\* Mutant: the status is not computed anew.
NoteWrite_StatusKept(k) ==
  LET N == IF desk.op = "add" THEN notes[k] \cup desk.note ELSE notes[k] \ desk.note IN
  /\ desk.op \in {"add", "remove"} /\ desk.id = {k}
  /\ desk' = NoDesk
  /\ IF ThereClaim(k) THEN Renote(k, N) ELSE UNCHANGED <<notes, loose>>
  /\ UNCHANGED claim

\* ... and a transaction writes the note and the status; a claim that was
\* deleted since is written as well, one that is gone refuses the note.
NoteWrite(k) ==
  LET N == IF desk.op = "add" THEN notes[k] \cup desk.note ELSE notes[k] \ desk.note IN
  /\ desk.op \in {"add", "remove"} /\ desk.id = {k}
  /\ desk' = NoDesk
  /\ IF ThereClaim(k) THEN claim' = Settled(k, N) /\ Renote(k, N) ELSE UNCHANGED <<claim, notes, loose>>

\* patchClaim: the row, then the notes, then the update, one statement each.
\* The status is the patch's, or the one that was read.
PatchClaimRead(k, status) ==
  /\ desk = NoDesk /\ LiveClaim(k)
  /\ desk' = [op |-> "patch", id |-> {k}, note |-> {}, status |-> status]
  /\ UNCHANGED <<claim, notes, loose>>

PatchClaimNotes(k) ==
  /\ desk.op = "patch" /\ desk.id = {k}
  /\ desk' = [desk EXCEPT !.op = "update", !.status = AutoStatus(@, notes[k])]
  /\ UNCHANGED <<claim, notes, loose>>

PatchClaimWrite(k) ==
  /\ PatchPending(k)
  /\ desk' = NoDesk
  /\ claim' = IF ThereClaim(k) THEN [claim EXCEPT ![k].status = desk.status] ELSE claim
  /\ UNCHANGED <<notes, loose>>

\* deleteClaim, claimDelete of a push whose revision is the row's, and what a
\* restore that replaces clears.
DeleteClaim(k) ==
  /\ LiveClaim(k)
  /\ claim' = [claim EXCEPT ![k].st = "dead"]
  /\ UNCHANGED <<notes, desk, loose>>

PurgeClaim(k) ==
  /\ claim[k].st = "dead"
  /\ claim' = [claim EXCEPT ![k] = NoClaim]
  /\ Renote(k, {})
  /\ UNCHANGED desk

----------------------------------------------------------------------------
(* POST /sync/push: a mutation is one step.                                 *)

\* claimUpsert of a new claim, whose status and notes are not read: those of
\* the mutation are only taken when the claim is there.
PushNewClaim(k) ==
  /\ Rows = {}
  /\ claim' = [claim EXCEPT ![k].st = "live"]
  /\ loose' = Tightened(k)
  /\ UNCHANGED <<notes, desk>>

\* claimUpsert with the row's revision, live or dead: the status the device
\* sends, then its notes, then applyAutoStatus.  A note without a valid date
\* throws in the middle of it.
PushClaim(k, status, N, bad) ==
  /\ ThereClaim(k)
  /\ IF bad
     THEN \E W \in SUBSET N \ {N} :
            /\ claim' = [claim EXCEPT ![k].status = status]
            /\ notes' = [notes EXCEPT ![k] = @ \cup W]
            /\ loose' = loose \cup {k}
     ELSE /\ claim' = [claim EXCEPT ![k].status = AutoStatus(status, notes[k] \cup N)]
          /\ Renote(k, notes[k] \cup N)
  /\ UNCHANGED desk

\* creditNoteUpsert: the claim must be live.
PushNote(k, n) ==
  /\ LiveClaim(k)
  /\ claim' = Settled(k, notes[k] \cup {n})
  /\ Renote(k, notes[k] \cup {n})
  /\ UNCHANGED desk

\* creditNoteDelete: whatever has become of the claim.
PushNoteDelete(k, n) ==
  /\ ThereClaim(k)
  /\ claim' = Settled(k, notes[k] \ {n})
  /\ Renote(k, notes[k] \ {n})
  /\ UNCHANGED desk

----------------------------------------------------------------------------
(* POST /backup/import: a claim of the file is one step.                    *)

\* The claim is inserted, or comes back, with the file's status; another id of
\* the period goes, with its notes; the file's notes join the ones there are,
\* and nothing is computed.
RestoreClaim(k, status, N) ==
  /\ claim' = [j \in ClaimIds |-> IF j = k THEN [st |-> "live", status |-> status] ELSE NoClaim]
  /\ notes' = [j \in ClaimIds |-> IF j = k THEN notes[k] \cup N ELSE {}]
  /\ loose' = IF (status = "received" <=> Covered(N)) /\ notes[k] \subseteq N
              THEN Tightened(k) ELSE loose \cup {k}
  /\ UNCHANGED desk

----------------------------------------------------------------------------
ClaimsNext ==
  \E k \in ClaimIds :
    \/ CreateClaimRow(k) \/ DeleteClaim(k) \/ PurgeClaim(k) \/ PushNewClaim(k)
    \/ NoteWrite(k) \/ PatchClaimNotes(k) \/ PatchClaimWrite(k)
    \/ \E status \in Statuses : PatchClaimRead(k, status)
    \/ \E status \in Statuses, N \in SUBSET Notes, bad \in BOOLEAN : PushClaim(k, status, N, bad)
    \/ \E status \in Statuses, N \in SUBSET Notes : RestoreClaim(k, status, N)
    \/ \E n \in Notes : \/ \E op \in {"add", "remove"} : NoteRead(k, n, op)
                        \/ PushNote(k, n) \/ PushNoteDelete(k, n)

ClaimsSpec == ClaimsInit /\ [][ClaimsNext]_claimVars

----------------------------------------------------------------------------
\* A claim reads `received' exactly when its credit notes make up what was
\* accrued, whoever wrote the claim or the notes last, and whatever status a
\* client sends.  Three things break it until the notes change again: a note
\* that comes between the read and the write of a PATCH, a push that throws
\* between the status and the notes it sent, and a restore, which computes
\* nothing, of a file that is not true to itself or lacks a note there is.
StatusTrue ==
  \A k \in ClaimIds :
    LiveClaim(k) /\ k \notin loose => (claim[k].status = "received" <=> Covered(notes[k]))
=============================================================================
