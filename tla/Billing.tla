------------------------------- MODULE Billing -------------------------------
(***************************************************************************)
(* Plans, entitlements and the purchases Google Play vouches for           *)
(* (modules/plans, modules/billing, the plan and grant forms of            *)
(* modules/console/routes.ts).                                             *)
(*                                                                         *)
(* A request holds a slot; each of its statements, and each call to Play,  *)
(* is one step.  What is done with a row once the awaits between it and    *)
(* its reader have run is a step of its own where it touches the cache of  *)
(* entitlements: another request's continuation comes in between.          *)
(* An expiry date is the flag `over', set when the date passes.  `stamp'   *)
(* counts the writes of a row: it stands for updated_at.                   *)
(***************************************************************************)
EXTENDS Naturals, FiniteSets

CONSTANTS
  Users, Tokens, Plans,
  Slots,        \* requests in flight, and passes of a job
  Timers,       \* the slots only the recheck job of Referrals takes
  BasePlan,     \* the period each token was bought for
  None,
  Serves,       \* a bound: what requests ask for
  MaxStamp      \* a bound: writes of one entitlement row

ASSUME BillingAssumption ==
  /\ BasePlan \in [Tokens -> {"month", "year"}]
  /\ MaxStamp \in Nat /\ Timers \subseteq Slots
  /\ None \notin Users \cup Tokens \cup Plans /\ Users \cap Tokens = {}

VARIABLES
  plan,     \* plans, by id
  ent,      \* entitlements, by user; plan None and stamp 0 when there is no row
  play,     \* Google Play's record of each token (external)
  cache,    \* plans/service.ts: what entitlementOf remembers, by user
  slot,     \* the request each slot carries
  raced     \* tokens two accounts had in verification at the same time, and
            \* accounts whose entry was last dropped while a load of their row was
            \* under way that had read it before it was written

billingVars == <<plan, ent, play, cache, slot, raced>>

Periods  == {"month", "year"}
NoRow    == [plan |-> None, source |-> "grant", status |-> "free", token |-> None,
             over |-> FALSE, stamp |-> 0]
NotSold  == [state |-> "none", phase |-> "none", acked |-> FALSE]
Idle     == [op |-> "idle", at |-> "start", user |-> None, token |-> None, plan |-> None,
             period |-> "", seen |-> NotSold, got |-> NoRow, told |-> None, list |-> <<>>]

\* What entitlementOf keeps: the plan in force, and the row it was worked out from.
Resolved(row, live) == [plan |-> IF live THEN row.plan ELSE None, stamp |-> row.stamp]
Answers == [plan : Plans \cup {None}, stamp : 0..MaxStamp]

BillingInit ==
  /\ plan \in [Plans -> [there : BOOLEAN, period : Periods]]
  /\ ent = [u \in Users |-> NoRow]
  /\ play = [t \in Tokens |-> NotSold]
  /\ cache = [u \in Users |-> None]
  /\ slot = [s \in Slots |-> Idle]
  /\ raced = {}

-----------------------------------------------------------------------------
(* Google Play.                                                            *)

\* A token is bought, with a free trial or paid at once.
Buy(t) ==
  /\ play[t] = NotSold
  /\ \E ph \in {"trial", "base"} :
       play' = [play EXCEPT ![t] = [state |-> "active", phase |-> ph, acked |-> FALSE]]
  /\ UNCHANGED <<plan, ent, cache, slot, raced>>

\* Renewal, conversion of a trial, a charge that fails, cancellation, the end;
\* a purchase nobody acknowledged is refunded.
Moves(t) ==
  /\ play[t].state \in {"active", "grace", "cancelled"}
  /\ \E st \in {"active", "grace", "cancelled", "expired"}, ph \in {play[t].phase, "base"} :
       /\ ph # play[t].phase => st = "active"
       /\ play' = [play EXCEPT ![t].state = st, ![t].phase = ph]
  /\ UNCHANGED <<plan, ent, cache, slot, raced>>

\* entitlementStatus: what a purchase grants; a cancelled one is paid for to the
\* end of its period, "expired" is the state that follows.
Granted(p) == CASE p.state \in {"active", "cancelled"} -> "active"
                [] p.state = "grace" -> "grace"
                [] OTHER -> "none"

\* hasPaid: has money changed hands?
HasPaid(p) == p.state \in {"active", "cancelled"} /\ p.phase = "base"

-----------------------------------------------------------------------------
(* Reading an entitlement: entitlementOf and load.                         *)

Step(s, r)   == slot' = [slot EXCEPT ![s] = r]
Finished(s)  == Step(s, Idle)

\* isLive.
Live(row) == row.status \in {"active", "grace"} /\ ~row.over

\* entitlementOf asks the cache.
LoadLook(s) ==
  /\ slot[s].at = "load"
  /\ LET kept == cache[slot[s].user] IN
     Step(s, IF kept # None THEN [slot[s] EXCEPT !.at = "answer", !.told = kept]
                            ELSE [slot[s] EXCEPT !.at = "row"])
  /\ UNCHANGED <<plan, ent, play, cache, raced>>

\* readEntitlement: a row without a plan needs no second statement.
LoadRow(s) ==
  /\ slot[s].at = "row"
  /\ LET row == ent[slot[s].user] IN
     Step(s, IF row.plan = None
             THEN [slot[s] EXCEPT !.at = "keep", !.got = row, !.told = Resolved(row, FALSE)]
             ELSE [slot[s] EXCEPT !.at = "plan", !.got = row])
  /\ UNCHANGED <<plan, ent, play, cache, raced>>

\* getPlan of the plan the row named.
LoadPlan(s) ==
  /\ slot[s].at = "plan"
  /\ LET row == slot[s].got IN
     Step(s, [slot[s] EXCEPT !.at = "keep", !.told = Resolved(row, Live(row) /\ plan[row.plan].there)])
  /\ UNCHANGED <<plan, ent, play, cache, raced>>

\* Back in entitlementOf: what load has worked out is kept.
Keep(s) ==
  /\ slot[s].at = "keep"
  /\ cache' = [cache EXCEPT ![slot[s].user] = slot[s].told]
  /\ Step(s, [slot[s] EXCEPT !.at = "answer", !.got = NoRow])
  /\ UNCHANGED <<plan, ent, play, raced>>

\* The answer leaves.
Answer(s) ==
  /\ slot[s].at = "answer"
  /\ Finished(s)
  /\ UNCHANGED <<plan, ent, play, cache, raced>>

Arrive(s, what) ==
  /\ what.op \in Serves /\ slot[s] = Idle /\ (s \in Timers => what.op = "recheck")
  /\ Step(s, what)

\* GET /me/entitlement.
Entitlement(s, u) ==
  /\ Arrive(s, [Idle EXCEPT !.op = "entitlement", !.at = "load", !.user = u])
  /\ UNCHANGED <<plan, ent, play, cache, raced>>

-----------------------------------------------------------------------------
(* POST /billing/verify.                                                   *)

Holders(t) == {u \in Users : ent[u].token = t}

\* Mutant: whoever holds the token, it is accepted.
VerifyLook_AnyHolder(s, u, t) ==
  /\ Arrive(s, [Idle EXCEPT !.op = "verify", !.at = "fetch", !.user = u, !.token = t])
  /\ raced' = raced \cup
       {t : r \in {x \in Slots : slot[x].token = t /\ slot[x].user # u}}
  /\ UNCHANGED <<plan, ent, play, cache>>

\* Anti-sharing: a token recorded against somebody else is refused.
VerifyLook(s, u, t) ==
  /\ Holders(t) \subseteq {u}
  /\ Arrive(s, [Idle EXCEPT !.op = "verify", !.at = "fetch", !.user = u, !.token = t])
  /\ raced' = raced \cup
       {t : r \in {x \in Slots : slot[x].token = t /\ slot[x].user # u}}
  /\ UNCHANGED <<plan, ent, play, cache>>

\* getSubscriptionV2: an error ends the request, and so does a purchase that
\* is acknowledged and grants nothing.
VerifyFetch(s) ==
  /\ slot[s].at = "fetch"
  /\ LET p == play[slot[s].token]  seen == [slot[s] EXCEPT !.seen = p] IN
     \/ Finished(s)
     \/ p.state # "none" /\ ~p.acked /\ Step(s, [seen EXCEPT !.at = "ack"])
     \/ p.acked /\ Granted(p) # "none" /\ Step(s, [seen EXCEPT !.at = "plans"])
  /\ UNCHANGED <<plan, ent, play, cache, raced>>

\* Mutant: a purchase Play would not acknowledge is granted all the same.
VerifyAck_Hopeful(s) ==
  /\ slot[s].at = "ack"
  /\ \/ play' = [play EXCEPT ![slot[s].token].acked = TRUE]
     \/ UNCHANGED play
  /\ \/ Finished(s)
     \/ Granted(slot[s].seen) # "none" /\ Step(s, [slot[s] EXCEPT !.at = "plans"])
  /\ UNCHANGED <<plan, ent, cache, raced>>

\* acknowledgeSubscription, and then the status of what Play said before it.
\* The call can fail after Play has taken it.
VerifyAck(s) ==
  /\ slot[s].at = "ack"
  /\ \/ play' = [play EXCEPT ![slot[s].token].acked = TRUE]
     \/ UNCHANGED play
  /\ \/ Finished(s)
     \/ play'[slot[s].token].acked /\ Granted(slot[s].seen) # "none" /\ Step(s, [slot[s] EXCEPT !.at = "plans"])
  /\ UNCHANGED <<plan, ent, cache, raced>>

\* pickPlan over listPlans(true): the plan of that period, else any of the product.
Picks(period) ==
  LET there == {p \in Plans : plan[p].there}
      same  == {p \in there : plan[p].period = period}
  IN IF same # {} THEN same ELSE there

VerifyPlans(s) ==
  /\ slot[s].at = "plans"
  /\ LET picks == Picks(BasePlan[slot[s].token]) IN
     \/ picks = {} /\ Finished(s)
     \/ \E p \in picks :
          Step(s, [slot[s] EXCEPT !.at = "upsert", !.plan = p, !.period = plan[p].period])
  /\ UNCHANGED <<plan, ent, play, cache, raced>>

\* A write of a user's row; the cache is seen to when the caller goes on.
Written(u, row) ==
  /\ ent[u].stamp < MaxStamp
  /\ ent' = [ent EXCEPT ![u] = [row EXCEPT !.stamp = ent[u].stamp + 1]]

\* upsertEntitlement.
Upsert(u, p, source, status, t) ==
  Written(u, [plan |-> p, source |-> source, status |-> status, token |-> t, over |-> FALSE, stamp |-> 0])

\* The grant.
VerifyUpsert(s) ==
  /\ slot[s].at = "upsert"
  /\ Upsert(slot[s].user, slot[s].plan, "play", Granted(slot[s].seen), slot[s].token)
  /\ Step(s, [slot[s] EXCEPT !.at = "forget", !.plan = None])
  /\ UNCHANGED <<plan, play, cache, raced>>

-----------------------------------------------------------------------------
(* What a write leaves to be done: the cache.                              *)

\* A load has the account's row in hand; it has one that is written by now.
Reads(x, u)   == slot[x].at \in {"plan", "keep"} /\ slot[x].user = u
Outdated(u)   == \E x \in Slots : Reads(x, u) /\ slot[x].got.stamp # ent[u].stamp

\* The account's row is written and its entry still to be dropped.
Forgetting(u) == \E x \in Slots : slot[x].at = "forget" /\ slot[x].user = u

\* Mutant: the cache is left to its TTL.
Forget_Never(u) == UNCHANGED cache

\* invalidateEntitlement.
Forget(u) == cache' = [cache EXCEPT ![u] = None]

\* The writer goes on: it drops the entry, and a load that holds the older row
\* will put it back.  noteReferralPurchase comes next in a verification.
Forgets(s) ==
  /\ slot[s].at = "forget"
  /\ LET u == slot[s].user IN
     /\ Forget(u)
     /\ raced' = IF Outdated(u) THEN raced \cup {u} ELSE raced \ {u}
  /\ Step(s, IF slot[s].op = "verify" THEN [slot[s] EXCEPT !.at = "note"] ELSE Idle)
  /\ UNCHANGED <<plan, ent, play>>

-----------------------------------------------------------------------------
(* The console: plans, and entitlements granted by hand.                   *)

\* POST /console/plans.
CreatePlan(p) ==
  /\ "console" \in Serves /\ ~plan[p].there
  /\ \E per \in Periods : plan' = [plan EXCEPT ![p] = [there |-> TRUE, period |-> per]]
  /\ UNCHANGED <<ent, play, cache, slot, raced>>

\* PATCH /console/plans/:id: the update ...
UpdatePlan(s, p) ==
  /\ plan[p].there
  /\ \E per \in Periods : plan' = [plan EXCEPT ![p].period = per]
  /\ Arrive(s, [Idle EXCEPT !.op = "console", !.at = "clear"])
  /\ UNCHANGED <<ent, play, cache, raced>>

\* ... and, the plan read again, invalidateAllEntitlements.
ForgetsAll(s) ==
  /\ slot[s].at = "clear"
  /\ cache' = [u \in Users |-> None]
  /\ Finished(s)
  /\ UNCHANGED <<plan, ent, play, raced>>

\* deletePlan: the count of holders, and the DELETE that follows.
DeletePlanCount(s, p) ==
  /\ \A u \in Users : ent[u].plan # p
  /\ Arrive(s, [Idle EXCEPT !.op = "console", !.at = "drop", !.plan = p])
  /\ UNCHANGED <<plan, ent, play, cache, raced>>

DeletePlan(s) ==
  /\ slot[s].at = "drop"
  /\ plan' = [plan EXCEPT ![slot[s].plan].there = FALSE]
  /\ Finished(s)
  /\ UNCHANGED <<ent, play, cache, raced>>

\* POST /console/users/:id/entitlement: getPlan, and the upsert that follows.
GrantLook(s, u, p) ==
  /\ plan[p].there
  /\ Arrive(s, [Idle EXCEPT !.op = "console", !.at = "grant", !.user = u, !.plan = p])
  /\ UNCHANGED <<plan, ent, play, cache, raced>>

Grant(s) ==
  /\ slot[s].at = "grant"
  /\ Upsert(slot[s].user, slot[s].plan, "grant", "active", None)
  /\ Step(s, [slot[s] EXCEPT !.at = "forget", !.plan = None])
  /\ UNCHANGED <<plan, play, cache, raced>>

\* revokeEntitlement: the row stays, with its source.
Revoke(s, u) ==
  /\ ent[u].stamp > 0
  /\ Written(u, [ent[u] EXCEPT !.plan = None, !.status = "cancelled", !.token = None, !.over = FALSE])
  /\ Arrive(s, [Idle EXCEPT !.op = "console", !.at = "forget", !.user = u])
  /\ UNCHANGED <<plan, play, cache, raced>>

-----------------------------------------------------------------------------
(* Time and restarts.                                                      *)

\* A row's expiry date passes (a grant without days has none).
RunsOut(u) ==
  /\ ent[u].plan # None /\ ~ent[u].over
  /\ ent' = [ent EXCEPT ![u].over = TRUE]
  /\ UNCHANGED <<plan, play, cache, slot, raced>>

\* ENTITLEMENT_TTL is over for an entry.
CacheExpires(u) == cache[u] # None /\ Forget(u) /\ UNCHANGED <<plan, ent, play, slot, raced>>

\* The process ends and starts again: requests and the cache are lost.
Restart ==
  /\ slot' = [s \in Slots |-> Idle] /\ cache' = [u \in Users |-> None]
  /\ UNCHANGED <<plan, ent, play, raced>>

BillingNext ==
  \/ \E t \in Tokens : Buy(t) \/ Moves(t)
  \/ \E s \in Slots : LoadLook(s) \/ LoadRow(s) \/ LoadPlan(s) \/ Keep(s) \/ Answer(s)
  \/ \E s \in Slots, u \in Users : Entitlement(s, u)
  \/ \E s \in Slots, u \in Users, t \in Tokens : VerifyLook(s, u, t)
  \/ \E s \in Slots : VerifyFetch(s) \/ VerifyAck(s) \/ VerifyPlans(s) \/ VerifyUpsert(s)
  \/ \E p \in Plans : CreatePlan(p)
  \/ \E s \in Slots, p \in Plans : UpdatePlan(s, p) \/ DeletePlanCount(s, p)
  \/ \E s \in Slots, u \in Users, p \in Plans : GrantLook(s, u, p)
  \/ \E s \in Slots : DeletePlan(s) \/ Grant(s) \/ Forgets(s) \/ ForgetsAll(s)
  \/ \E s \in Slots, u \in Users : Revoke(s, u)
  \/ \E u \in Users : RunsOut(u) \/ CacheExpires(u)
  \/ Restart

-----------------------------------------------------------------------------
(* What must not overlap for a token to have one holder, and for the cache *)
(* to be the row, whatever `raced' says.                                   *)

\* No two accounts have a request about this token in flight at once.
Unshared(t) == \A x, y \in Slots :
  slot[x].token = t /\ slot[y].token = t => slot[x].user = slot[y].user

\* The account's row is not written while a load has it in hand: from the
\* statement that reads it until the entry is kept.
LoadsUndisturbed(u) == ent'[u].stamp # ent[u].stamp => \A x \in Slots : ~Reads(x, u)

-----------------------------------------------------------------------------
(* Properties.                                                             *)

BillingTypeOK ==
  /\ plan \in [Plans -> [there : BOOLEAN, period : Periods]]
  /\ ent \in [Users -> [plan : Plans \cup {None}, source : {"grant", "play"},
                        status : {"free", "active", "grace", "cancelled"},
                        token : Tokens \cup {None}, over : BOOLEAN, stamp : 0..MaxStamp]]
  /\ play \in [Tokens -> [state : {"none", "active", "grace", "cancelled", "expired"},
                          phase : {"none", "trial", "base"}, acked : BOOLEAN]]
  /\ cache \in [Users -> Answers \cup {None}]
  /\ raced \subseteq Tokens \cup Users

\* Acknowledge before granting: no account is given a Play purchase that Play has
\* not been told to keep, whatever fails or restarts on the way.
AckedFirst == \A u \in Users : ent[u].token # None => play[ent[u].token].acked

\* One purchase serves one account, unless two accounts had it in verification at
\* once: the holder is looked up before Play is asked and not again at the write.
OneHolder == \A t \in Tokens \ raced, u, v \in Users :
  ent[u].token = t /\ ent[v].token = t => u = v

\* What entitlementOf remembers was worked out from the row as it is, once the
\* writer has dropped the entry: only a load that was under way at that moment
\* with the older row leaves an older entry behind, until the next write.
CachedIsCurrent == \A u \in Users \ raced :
  ~Forgetting(u) /\ cache[u] # None => cache[u].stamp = ent[u].stamp
=============================================================================
