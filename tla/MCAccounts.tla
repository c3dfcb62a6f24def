------------------------------ MODULE MCAccounts ------------------------------
(***************************************************************************)
(* The accounts for TLC: Billing with Referrals, AuthOtp and               *)
(* IdempotentPost in one run.  They share no variable, so nothing is lost  *)
(* by letting one of them move per behaviour, the one `part' names.  The   *)
(* purchases come in parts of their own, which bound what requests ask     *)
(* for: accounts that share a token, an entitlement under the console's    *)
(* hands, a referral and its payment.                                      *)
(***************************************************************************)
EXTENDS Referrals, AuthOtp, IdempotentPost, TLC

CONSTANTS u1, u2, t1, t2, p1, p2, s1, s2, timer

PeriodOf == [t \in Tokens |-> IF t \in {t1, t2} THEN "year" ELSE "month"]
BothPlans == [p \in Plans |-> [there |-> TRUE, period |-> IF p = p1 THEN "year" ELSE "month"]]

VARIABLE part

allVars == <<part, accountVars, otpVars, postVars>>

Part(name, ops, who, most) == [name |-> name, ops |-> ops, who |-> who, most |-> most]
Parts ==
  {Part("codes", {}, {}, 0), Part("posts", {}, {}, 0),
   Part("purchases", {"verify"}, Users, 2),
   Part("purchases", {"verify", "entitlement"}, {u1}, 2),
   Part("purchases", {"verify", "console"}, {u1}, 2),
   Part("purchases", {"entitlement", "console"}, {u1}, 2),
   Part("purchases", {"verify", "apply", "recheck"}, {u1}, 1)}

AccountsInit ==
  /\ ReferralsInit /\ OtpInit /\ IdempotencyInit /\ part \in Parts
  /\ plan = BothPlans

PurchasesPart ==
  /\ part.name = "purchases" /\ ReferralsNext
  /\ \A s \in Slots : slot'[s] # slot[s] =>
       slot'[s].op \in part.ops \cup {"idle"} /\ slot'[s].user \in part.who \cup {None}
  /\ Cardinality({s \in Slots \ Timers : slot'[s] # Idle}) <= part.most
  /\ "recheck" \in part.ops \/ (coded' = {} /\ \A t \in Tokens : play'[t].phase # "trial")
  /\ part.ops \in {{"verify"}, {"verify", "console"}} =>
       \A t \in Tokens : play'[t].state \in {"none", "active", "expired"}
  /\ plan'[p2] = plan[p2]
  /\ "console" \in part.ops \/ (plan' = plan /\ (ent' # ent => \E s \in Slots : slot[s].at = "upsert"))
  /\ UNCHANGED <<otpVars, postVars>>

CodesPart == part.name = "codes" /\ OtpNext /\ UNCHANGED <<accountVars, postVars>>
PostsPart == part.name = "posts" /\ IdempotencyNext /\ UNCHANGED <<accountVars, otpVars>>

AccountsNext == (PurchasesPart \/ CodesPart \/ PostsPart) /\ UNCHANGED part
AccountsSpec == AccountsInit /\ [][AccountsNext]_allVars

\* Two accounts that were referred, have bought on a trial and wait for the job:
\* what AccountsSpec reaches by applyCode and two verifications.
TrialsRunning ==
  /\ part = Part("purchases", {"recheck"}, Users, 0)
  /\ plan = BothPlans /\ slot = [s \in Slots |-> Idle] /\ cache = [u \in Users |-> None] /\ raced = {}
  /\ play = [t \in Tokens |-> [state |-> "active", phase |-> "trial", acked |-> TRUE]]
  /\ \E tok \in {[u \in Users |-> IF u = u1 THEN t1 ELSE t2]} :
       /\ ent = [u \in Users |-> [plan |-> p1, source |-> "play", status |-> "active", token |-> tok[u],
                                  over |-> FALSE, stamp |-> 1]]
       /\ ref = [u \in Users |-> [by |-> CHOOSE v \in Users : v # u, status |-> "pending",
                                  token |-> tok[u], period |-> "year"]]
  /\ coded = Users /\ applied = <<u1, u2>> /\ payouts = [u \in Users |-> 0] /\ earned = {}
  /\ OtpInit /\ IdempotencyInit

RecheckSpec == TrialsRunning /\ [][AccountsNext]_allVars /\ FairTimers

\* The types of all four.
AccountsTypeOK == ReferralsTypeOK /\ OtpTypeOK /\ IdempotencyTypeOK

Interchangeable == Permutations({s1, s2})
=============================================================================
