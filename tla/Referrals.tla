------------------------------ MODULE Referrals ------------------------------
(***************************************************************************)
(* Refer and earn (modules/referral): codes, a referral per account, its   *)
(* way from pending to paid, and the job that asks Play again.  It extends *)
(* Billing: noteReferralPurchase is the tail of POST /billing/verify, and  *)
(* the job and the console's recheck run in slots of the same process.     *)
(***************************************************************************)
EXTENDS Billing, Sequences

CONSTANTS
  JobLimit      \* how many pending rows one recheck reads: 500 in the code

ASSUME ReferralsAssumption == JobLimit \in Nat \ {0}

VARIABLES
  coded,    \* accounts with a row in referral_codes
  ref,      \* referrals, by referee: NoReferral until a code is applied
  applied,  \* referees in the order of created_at
  payouts,  \* how often each referral was marked paid
  earned    \* referees Play has said, of a token noted for them, that it is paid

referralVars == <<coded, ref, applied, payouts, earned>>
accountVars  == <<billingVars, referralVars>>

NoReferral == [by |-> None, status |-> "none", token |-> None, period |-> ""]
Statuses   == {"none", "pending", "qualified", "claimed", "paid", "rejected"}

ReferralsInit ==
  /\ BillingInit
  /\ coded = {} /\ ref = [u \in Users |-> NoReferral] /\ applied = <<>>
  /\ payouts = [u \in Users |-> 0] /\ earned = {}

-----------------------------------------------------------------------------
(* Codes.                                                                  *)

\* ensureCode: the row is there afterwards, whoever inserted it.
EnsureCode(u) ==
  /\ u \notin coded /\ coded' = coded \cup {u}
  /\ UNCHANGED <<billingVars, ref, applied, payouts, earned>>

\* hasEverPurchased.
EverPurchased(u) == ent[u].source = "play" \/ ent[u].token # None

\* applyCode up to its insert: the code's owner, not oneself, no purchase yet.
ApplyLook(s, u, owner) ==
  /\ owner \in coded \ {u} /\ ~EverPurchased(u)
  /\ Arrive(s, [Idle EXCEPT !.op = "apply", !.at = "apply", !.user = u, !.told = owner])
  /\ UNCHANGED <<plan, ent, play, cache, raced, referralVars>>

\* The insert; uk_referrals_referee refuses a second referral of an account.
ApplyInsert(s) ==
  /\ slot[s].at = "apply" /\ Finished(s)
  /\ LET u == slot[s].user IN
     IF ref[u] = NoReferral
     THEN /\ ref' = [ref EXCEPT ![u] = [NoReferral EXCEPT !.by = slot[s].told, !.status = "pending"]]
          /\ applied' = Append(applied, u)
     ELSE UNCHANGED <<ref, applied>>
  /\ UNCHANGED <<plan, ent, play, cache, raced, coded, payouts, earned>>

-----------------------------------------------------------------------------
(* Qualification.                                                          *)

\* Mutant: a trial earns the bonus.
Qualifies_Trial(p, period) == period = "year" /\ Granted(p) = "active"

\* qualifiesForBonus.
Qualifies(p, period) == period = "year" /\ HasPaid(p)

\* The request once its referral is seen to: entitlementOf.
Noted(s) == [Idle EXCEPT !.op = "verify", !.at = "load", !.user = slot[s].user]

\* noteReferralPurchase looks for a pending row; without one the request goes on.
NoteLook(s) ==
  /\ slot[s].at = "note"
  /\ Step(s, IF ref[slot[s].user].status = "pending" THEN [slot[s] EXCEPT !.at = "remember"] ELSE Noted(s))
  /\ UNCHANGED <<plan, ent, play, cache, raced, referralVars>>

\* It writes the purchase on that row, by id, whatever its status is by now.
NoteRemember(s) ==
  /\ slot[s].at = "remember"
  /\ LET r == slot[s]  pays == Qualifies(r.seen, r.period) IN
     /\ ref' = [ref EXCEPT ![r.user].token = r.token, ![r.user].period = r.period]
     /\ earned' = earned \cup {u \in {r.user} : HasPaid(r.seen)}
     /\ Step(s, IF pays THEN [r EXCEPT !.at = "qualify"] ELSE Noted(s))
  /\ UNCHANGED <<plan, ent, play, cache, raced, coded, applied, payouts>>

\* Mutant: whatever the row has become meanwhile.
Qualified_Any(u) == ref' = [ref EXCEPT ![u].status = "qualified"]

\* qualify: a pending row, and only that, is qualified.
Qualified(u) == ref' = [ref EXCEPT ![u].status = IF @ = "pending" THEN "qualified" ELSE @]

NoteQualify(s) ==
  /\ slot[s].at = "qualify" /\ Qualified(slot[s].user)
  /\ Step(s, Noted(s))
  /\ UNCHANGED <<plan, ent, play, cache, raced, coded, applied, payouts, earned>>

\* recheckPendingReferrals lists the oldest pending rows whose purchase is known
\* and not monthly.
Waiting == SelectSeq(applied, LAMBDA u :
  ref[u].status = "pending" /\ ref[u].token # None /\ ref[u].period # "month")

RecheckList(s) ==
  /\ Waiting # <<>>
  /\ Arrive(s, [Idle EXCEPT !.op = "recheck", !.at = "ask",
       !.list = [i \in 1..(IF Len(Waiting) < JobLimit THEN Len(Waiting) ELSE JobLimit) |->
                   <<Waiting[i], ref[Waiting[i]].token>>]])
  /\ UNCHANGED <<plan, ent, play, cache, raced, referralVars>>

\* What is left of a recheck after its head.
Rest(s) == LET l == Tail(slot[s].list) IN
  IF l = <<>> THEN Idle ELSE [slot[s] EXCEPT !.at = "ask", !.list = l]

\* Mutant: one token Play does not answer for ends the pass.
RecheckAsk_GivesUp(s) ==
  /\ slot[s].at = "ask"
  /\ LET u == Head(slot[s].list)[1]  t == Head(slot[s].list)[2] IN
     \/ Step(s, Idle) /\ UNCHANGED earned
     \/ /\ Qualifies(play[t], BasePlan[t])
        /\ Step(s, [slot[s] EXCEPT !.at = "promote"])
        /\ earned' = earned \cup {x \in {u} : HasPaid(play[t])}
  /\ UNCHANGED <<plan, ent, play, cache, raced, coded, ref, applied, payouts>>

\* getSubscriptionV2 of the next row's token, as listed: an error skips the row.
\* The period is Play's base plan.
RecheckAsk(s) ==
  /\ slot[s].at = "ask"
  /\ LET u == Head(slot[s].list)[1]  t == Head(slot[s].list)[2] IN
     \/ Step(s, Rest(s)) /\ UNCHANGED earned
     \/ /\ Qualifies(play[t], BasePlan[t])
        /\ Step(s, [slot[s] EXCEPT !.at = "promote"])
        /\ earned' = earned \cup {x \in {u} : HasPaid(play[t])}
  /\ UNCHANGED <<plan, ent, play, cache, raced, coded, ref, applied, payouts>>

RecheckPromote(s) ==
  /\ slot[s].at = "promote" /\ Qualified(Head(slot[s].list)[1])
  /\ Step(s, Rest(s))
  /\ UNCHANGED <<plan, ent, play, cache, raced, coded, applied, payouts, earned>>

-----------------------------------------------------------------------------
(* Claims and the payout desk: one guarded UPDATE each.                    *)

\* claimBonus: everything of this referrer that has qualified.
ClaimBonus(u) ==
  /\ \E x \in Users : ref[x].by = u /\ ref[x].status = "qualified"
  /\ ref' = [x \in Users |-> IF ref[x].by = u /\ ref[x].status = "qualified"
                             THEN [ref[x] EXCEPT !.status = "claimed"] ELSE ref[x]]
  /\ UNCHANGED <<billingVars, coded, applied, payouts, earned>>

\* markPaid.
MarkPaid(u) ==
  /\ ref[u].status = "claimed"
  /\ ref' = [ref EXCEPT ![u].status = "paid"] /\ payouts' = [payouts EXCEPT ![u] = @ + 1]
  /\ UNCHANGED <<billingVars, coded, applied, earned>>

\* rejectReferral.
RejectReferral(u) ==
  /\ ref[u].status \in {"pending", "qualified", "claimed"}
  /\ ref' = [ref EXCEPT ![u].status = "rejected"]
  /\ UNCHANGED <<billingVars, coded, applied, payouts, earned>>

ReferralsNext ==
  \/ BillingNext /\ UNCHANGED referralVars
  \/ \E u \in Users : EnsureCode(u) \/ ClaimBonus(u) \/ MarkPaid(u) \/ RejectReferral(u)
  \/ \E s \in Slots, u, owner \in Users : ApplyLook(s, u, owner)
  \/ \E s \in Slots : ApplyInsert(s) \/ NoteLook(s) \/ NoteRemember(s) \/ NoteQualify(s)
  \/ \E s \in Slots : RecheckList(s) \/ RecheckAsk(s) \/ RecheckPromote(s)

ReferralsSpec == ReferralsInit /\ [][ReferralsNext]_accountVars

-----------------------------------------------------------------------------
(* Properties.                                                             *)

ReferralsTypeOK ==
  /\ BillingTypeOK
  /\ ref \in [Users -> [by : Users \cup {None}, status : Statuses,
                        token : Tokens \cup {None}, period : Periods \cup {""}]]
  /\ payouts \in [Users -> Nat]

\* One purchase pays its bonus once: however the verification, the recheck and the
\* desk overlap, a referral is paid at most once, and never after or before a refusal.
OnePayout == \A u \in Users :
  /\ payouts[u] <= 1
  /\ payouts[u] = 1 <=> ref[u].status = "paid"

\* Real money first: a referral moves on only after Play was heard to say that a
\* purchase of its referee is paid, not that a trial runs.
Earned == \A u \in Users : ref[u].status \in {"qualified", "claimed", "paid"} => u \in earned

\* A trial that converts is noticed: a pending yearly purchase Play keeps calling
\* paid does not stay pending.
Converted(u) == ref[u].status = "pending" /\ ref[u].token # None /\ ref[u].period = "year"
                /\ BasePlan[ref[u].token] = "year" /\ HasPaid(play[ref[u].token])
ConversionNoticed == \A u \in Users : []<>(~Converted(u))

\* Fairness: the timer fires again and again, and however often the process
\* restarts or Play fails, a pass now and then gets Play's answer and goes on.
FairTimers ==
  \A s \in Timers :
    /\ SF_accountVars(RecheckList(s))
    /\ SF_accountVars(RecheckAsk(s))
    /\ \A u \in Users : SF_accountVars(RecheckAsk(s) /\ Head(slot[s].list)[1] = u /\ slot'[s].at = "promote")
    /\ SF_accountVars(RecheckPromote(s))

FairReferrals == ReferralsSpec /\ FairTimers
=============================================================================
