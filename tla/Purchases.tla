------------------------------ MODULE Purchases ------------------------------
(***************************************************************************)
(* One purchase and its payments, written over REST (a web client) and by  *)
(* POST /sync/push (a device that works offline on a copy).  The revision  *)
(* gates of both compare one number; what they are for is that nobody      *)
(* overwrites what it has not seen.  The payments are rows of their own,   *)
(* added and deleted without a gate, and count as the purchase's content.  *)
(*                                                                         *)
(* `ver' stands for the fields of the purchase; a payment is its id.  What *)
(* the purchase refers to is in Masters.                                   *)
(***************************************************************************)
EXTENDS Naturals

CONSTANTS
  Payments,
  Vers,       \* what the fields may say
  MaxRev      \* bound: revisions of one purchase

ASSUME PurchaseConstants == MaxRev \in Nat \ {0} /\ Vers # {}

VARIABLES
  bill,     \* the row: st, rev, ver, and its payment rows
  copy,     \* the device's copy; rev 0 is none
  earlier,  \* history: the copy is of a purchase that was purged since, or
            \* deleted and then restored
  clerk     \* the REST request that has read the row and not yet written

purchaseVars == <<bill, copy, earlier, clerk>>

NoBill == [st |-> "none", rev |-> 0, ver |-> CHOOSE v \in Vers : TRUE, pays |-> {}]
NoCopy == [rev |-> 0, ver |-> NoBill.ver, pays |-> {}]
AtEase == [op |-> "none", pays |-> {}]

PurchasesTypeOK ==
  /\ bill \in [st : {"none", "live", "dead"}, rev : 0..MaxRev, ver : Vers, pays : SUBSET Payments]
  /\ copy \in [rev : Nat, ver : Vers, pays : SUBSET Payments]
  /\ earlier \in BOOLEAN
  /\ clerk \in [op : {"none", "patch", "pay", "unpay"}, pays : SUBSET Payments]

PurchasesInit == bill = NoBill /\ copy = NoCopy /\ earlier = FALSE /\ clerk = AtEase

BillThere  == bill.st # "none"
BillLive   == bill.st = "live"
RoomForRev == bill.rev < MaxRev

\* An update of the row: the next revision.
Touched(b) == [b EXCEPT !.rev = @ + 1]

----------------------------------------------------------------------------
(* REST.                                                                    *)

\* createPurchase: a tombstone is deleted, which takes its payments, and the
\* purchase starts again at revision 1; a live row is returned as it is, with
\* the payments of the request left out.
CreatePurchase(v, P) ==
  /\ ~BillLive
  /\ bill' = [st |-> "live", rev |-> 1, ver |-> v, pays |-> P]
  /\ earlier' = (copy.rev # 0)
  /\ UNCHANGED <<copy, clerk>>

\* patchPurchase, addPayment, deletePayment: the row is read, and with it the
\* revision of If-Match ...
ClerkReads(op, P) ==
  /\ clerk = AtEase /\ BillLive
  /\ clerk' = [op |-> op, pays |-> P]
  /\ UNCHANGED <<bill, copy, earlier>>

\* ... and a transaction writes, whatever has become of the row since.
PatchPurchase(v) ==
  /\ clerk.op = "patch" /\ RoomForRev
  /\ clerk' = AtEase
  /\ bill' = IF BillThere THEN Touched([bill EXCEPT !.ver = v]) ELSE bill
  /\ UNCHANGED <<copy, earlier>>

\* The foreign key refuses a payment of a purged purchase.
AddPayment ==
  /\ clerk.op = "pay" /\ RoomForRev
  /\ clerk' = AtEase
  /\ bill' = IF BillThere THEN Touched([bill EXCEPT !.pays = @ \cup clerk.pays]) ELSE bill
  /\ UNCHANGED <<copy, earlier>>

\* Mutant: a deleted payment does not bump its purchase.
DeletePayment_NoBump ==
  /\ clerk.op = "unpay" /\ RoomForRev
  /\ clerk' = AtEase
  /\ bill' = IF BillThere THEN [bill EXCEPT !.pays = @ \ clerk.pays] ELSE bill
  /\ UNCHANGED <<copy, earlier>>

DeletePayment ==
  /\ clerk.op = "unpay" /\ RoomForRev
  /\ clerk' = AtEase
  /\ bill' = IF BillThere THEN Touched([bill EXCEPT !.pays = @ \ clerk.pays]) ELSE bill
  /\ UNCHANGED <<copy, earlier>>

\* deletePurchase, and what a restore that replaces clears.
DeletePurchase ==
  /\ BillLive /\ RoomForRev
  /\ bill' = Touched([bill EXCEPT !.st = "dead"])
  /\ UNCHANGED <<copy, earlier, clerk>>

PurgePurchase ==
  /\ bill.st = "dead"
  /\ bill' = NoBill
  /\ UNCHANGED <<copy, earlier, clerk>>

----------------------------------------------------------------------------
(* The device.                                                              *)

\* A pull sends the live row with its payments, or its tombstone.
PullPurchase ==
  /\ BillThere
  /\ copy' = IF BillLive THEN [rev |-> bill.rev, ver |-> bill.ver, pays |-> bill.pays] ELSE NoCopy
  /\ earlier' = FALSE
  /\ UNCHANGED <<bill, clerk>>

\* The device writes back what was applied, unless the answer was lost.
Told(c) == copy' \in {copy, c}

SameRev == copy.rev = bill.rev

\* The payments of a purchaseUpsert are written one by one.  One without a
\* valid date throws when the row and the payments before it are written:
\* rejected, and committed all the same with its group.
Written(row, P, bad) ==
  IF bad THEN /\ \E W \in SUBSET P \ {P} : bill' = [row EXCEPT !.pays = @ \cup W]
              /\ UNCHANGED copy
         ELSE /\ bill' = [row EXCEPT !.pays = @ \cup P]
              /\ Told([rev |-> row.rev, ver |-> row.ver, pays |-> copy.pays \cup P])

\* purchaseUpsert of an id the server does not have.
PushNewPurchase(v, P, bad) ==
  /\ ~BillThere /\ copy.pays \subseteq P
  /\ Written([NoBill EXCEPT !.st = "live", !.rev = 1, !.ver = v], P, bad)
  /\ earlier' = (copy' = copy /\ copy.rev # 0)
  /\ UNCHANGED clerk

\* purchaseUpsert of a row it has: a conflict carries the server's record,
\* which the device may take over.
PushPurchase(v, P, bad) ==
  /\ BillThere /\ UNCHANGED clerk
  /\ IF BillLive /\ SameRev
     THEN RoomForRev /\ Written(Touched([bill EXCEPT !.ver = v]), P, bad) /\ UNCHANGED earlier
     ELSE /\ BillLive /\ copy' = [rev |-> bill.rev, ver |-> bill.ver, pays |-> bill.pays]
          /\ earlier' = FALSE
          /\ UNCHANGED bill

\* paymentUpsert: the purchase must be live.  What it reports is not the
\* server's revision but the one after the device's own.
PushPayment(p) ==
  /\ BillLive /\ RoomForRev /\ copy.rev < MaxRev
  /\ bill' = Touched([bill EXCEPT !.pays = @ \cup {p}])
  /\ \E known \in {0, copy.rev} : Told([copy EXCEPT !.rev = known + 1, !.pays = @ \cup {p}])
  /\ UNCHANGED <<earlier, clerk>>

\* paymentDelete: whatever has become of the purchase, which is bumped if it
\* is live.
PushPaymentDelete(p) ==
  /\ RoomForRev /\ copy.rev < MaxRev
  /\ bill' = [bill EXCEPT !.pays = @ \ {p}, !.rev = IF BillLive THEN @ + 1 ELSE @]
  /\ \E known \in {0, copy.rev} : Told([copy EXCEPT !.rev = known + 1, !.pays = @ \ {p}])
  /\ UNCHANGED <<earlier, clerk>>

\* purchaseDelete: gated like the update; a tombstone is there already.
PushPurchaseDelete ==
  /\ BillLive /\ SameRev /\ RoomForRev
  /\ bill' = Touched([bill EXCEPT !.st = "dead"])
  /\ Told(NoCopy)
  /\ UNCHANGED <<earlier, clerk>>

----------------------------------------------------------------------------
(* POST /backup/import: a purchase of the file is one step.                 *)

\* The fields are the file's, its payments join the ones there are.
RestorePurchase(v, P) ==
  /\ BillThere => RoomForRev
  /\ bill' = IF BillThere
             THEN Touched([bill EXCEPT !.st = "live", !.ver = v, !.pays = @ \cup P])
             ELSE [st |-> "live", rev |-> 1, ver |-> v, pays |-> P]
  /\ earlier' = IF BillLive THEN earlier ELSE copy.rev # 0
  /\ UNCHANGED <<copy, clerk>>

----------------------------------------------------------------------------
PurchasesNext ==
  \/ \E v \in Vers, P \in SUBSET Payments : CreatePurchase(v, P) \/ RestorePurchase(v, P)
  \/ \E op \in {"pay", "unpay"}, p \in Payments : ClerkReads(op, {p})
  \/ ClerkReads("patch", {})
  \/ \E v \in Vers : PatchPurchase(v)
  \/ AddPayment \/ DeletePayment \/ DeletePurchase \/ PurgePurchase \/ PullPurchase
  \/ \E v \in Vers, P \in SUBSET Payments, bad \in BOOLEAN :
       PushNewPurchase(v, P, bad) \/ (copy.pays \subseteq P /\ PushPurchase(v, P, bad))
  \/ \E p \in Payments : PushPayment(p) \/ PushPaymentDelete(p)
  \/ PushPurchaseDelete

PurchasesSpec == PurchasesInit /\ [][PurchasesNext]_purchaseVars

----------------------------------------------------------------------------
\* The gate compares contents: whenever the revision a device would send with
\* a purchase is the server's, so that it is let through, the device's copy is
\* what the server has, payments included, although these are written without
\* a gate, by either way in, and answered with revisions that were never read.
\* Not so across a purge, after which revisions start again at 1, nor when a
\* deleted purchase is restored: a device that kept deleting its payments has
\* counted its revision past the row's.
GateSeesContent ==
  BillLive /\ SameRev /\ ~earlier => copy.ver = bill.ver /\ copy.pays = bill.pays
=============================================================================
