--------------------------- MODULE FirmMembership ---------------------------
(***************************************************************************)
(* Firms, their members, and the two caches in front of them.  A request   *)
(* is let in by firmAccess, which asks a cache first and the database      *)
(* second, and acts on the role it was told; between its two questions and *)
(* before it acts other requests run.  A transaction is one step (DbLock). *)
(* Time is not kept: a cache entry or an invite may expire at any moment.  *)
(***************************************************************************)
EXTENDS Naturals, FiniteSets

CONSTANTS
  Firms, Users,
  Slots,     \* requests behind firmAccess that can be in flight
  Ops        \* the operations requests ask for

AllOps == {"read", "rename", "invite", "patch", "remove", "delete"}

ASSUME FirmConstants == IsFiniteSet(Users) /\ "row" \notin Users /\ Ops \subseteq AllOps

VARIABLES
  state,     \* firm -> "absent", "live" or "deleted"
  role,      \* firm -> user -> role in firm_members, "none" without a row
  invite,    \* firm -> user -> the invite addressed to the user
  cache,     \* firm -> Row or user -> what the cache answers, or "unset"
  req        \* slot -> the request it serves

vars == <<state, role, invite, cache, req>>

Row      == "row"                          \* the key of firmRows
Keys     == {Row} \cup Users               \* firmRows and members of a firm
Roles    == {"member", "admin", "owner"}   \* viewer ranks as member here
Rank     == [none |-> 0, member |-> 1, admin |-> 2, owner |-> 3]
NoInvite == "none"

\* What a SELECT under the key k can answer.
Answers(k) == IF k = Row THEN {"absent", "live", "deleted"} ELSE {"none"} \cup Roles

Idle == [pc |-> "idle"]
Request ==
  [pc : {"lookup", "act", "invite", "count", "commit", "evict"},
   user : Users, firm : Firms, op : AllOps, target : Users, to : Roles,
   key : Keys, doomed : BOOLEAN, role : {"none"} \cup Roles]

TypeOK ==
  /\ state \in [Firms -> {"absent", "live", "deleted"}]
  /\ role \in [Firms -> [Users -> {"none"} \cup Roles]]
  /\ invite \in [Firms -> [Users -> {NoInvite, "used"} \cup Roles]]
  /\ cache \in [Firms -> [Keys -> {"unset", "absent", "live", "deleted", "none"} \cup Roles]]
  /\ \A f \in Firms, k \in Keys : cache[f][k] \in {"unset"} \cup Answers(k)
  /\ req \in [Slots -> {Idle} \cup Request]

Init ==
  /\ state = [f \in Firms |-> "absent"]
  /\ role = [f \in Firms |-> [u \in Users |-> "none"]]
  /\ invite = [f \in Firms |-> [u \in Users |-> NoInvite]]
  /\ cache = [f \in Firms |-> [k \in Keys |-> "unset"]]
  /\ req = [s \in Slots |-> Idle]

Stored(f, k) == IF k = Row THEN state[f] ELSE role[f][k]
Owns(f, u)   == role[f][u] = "owner"
LiveFirms(u) == {f \in Firms : state[f] = "live" /\ role[f][u] # "none"}
At(s, pc)    == req[s] # Idle /\ req[s].pc = pc
Finish(s)    == req' = [req EXCEPT ![s] = Idle]
Goto(s, pc)  == req' = [req EXCEPT ![s].pc = pc]

\* Mutant: only the firm's own row is dropped.
Forgotten_RowOnly(f) == [cache EXCEPT ![f][Row] = "unset"]

\* invalidateFirm
Forgotten(f) == [cache EXCEPT ![f] = [k \in Keys |-> "unset"]]

----------------------------------------------------------------------------
\* The least role each operation's route demands.
Needed == [read |-> "member", rename |-> "admin", invite |-> "admin", patch |-> "admin",
           remove |-> "admin", delete |-> "owner"]

\* A request arrives; its user is authenticated (AuthSessions).  A firm's id
\* is drawn when the firm is made: nobody asks for it before.
Arrive(s) ==
  /\ req[s] = Idle
  /\ \E u \in Users, f \in Firms, op \in Ops, t \in Users, r \in Roles :
       /\ state[f] # "absent"
       /\ op \in {"read", "rename", "delete"} => t = u
       /\ op \notin {"invite", "patch"} => r = "member"
       /\ op = "invite" => r # "owner"
       /\ req' = [req EXCEPT ![s] =
            [pc |-> "lookup", user |-> u, firm |-> f, op |-> op, target |-> t, to |-> r,
             key |-> Row, doomed |-> FALSE, role |-> "none"]]
  /\ UNCHANGED <<state, role, invite, cache>>

\* What firmAccess and requireRole make of the answer v: ask for the member
\* row next, refuse, or let the request act in the role it was told.
Told(q, v) ==
  IF q.key = Row
  THEN [q EXCEPT !.key = q.user, !.doomed = (v = "deleted")]
  ELSE IF q.doomed \/ Rank[v] < Rank[Needed[q.op]] THEN Idle
       ELSE [q EXCEPT !.pc = "act", !.role = v]

\* firmRow and member: the cache, else the row, which is then cached.  One
\* step: the store follows the SELECT by two microtasks, and a transaction
\* that is given the database meanwhile is at its first statement then.
Lookup(s) ==
  LET f == req[s].firm
      k == req[s].key
      v == IF cache[f][k] = "unset" THEN Stored(f, k) ELSE cache[f][k] IN
  /\ At(s, "lookup")
  /\ cache' = [cache EXCEPT ![f][k] = v]
  /\ req' = [req EXCEPT ![s] = Told(@, v)]
  /\ UNCHANGED <<state, role, invite>>

Expire(f, k) ==
  /\ cache[f][k] # "unset"
  /\ cache' = [cache EXCEPT ![f][k] = "unset"]
  /\ UNCHANGED <<state, role, invite, req>>

----------------------------------------------------------------------------
\* createFirm, and the firm a signup makes; its id is new.
CreateFirm(u, f) ==
  /\ state[f] = "absent"
  /\ state' = [state EXCEPT ![f] = "live"]
  /\ role' = [role EXCEPT ![f][u] = "owner"]
  /\ UNCHANGED <<invite, cache, req>>

\* The handler of a plain route under the firm.
ReadFirm(s) ==
  /\ At(s, "act") /\ req[s].op = "read"
  /\ Finish(s)
  /\ UNCHANGED <<state, role, invite, cache>>

\* patchFirm: the name is not kept here, the caches are dropped all the same.
RenameFirm(s) ==
  /\ At(s, "act") /\ req[s].op = "rename"
  /\ Goto(s, "evict")
  /\ UNCHANGED <<state, role, invite, cache>>

\* inviteMember: a user who is a member already gets a 409; the token is
\* written in a later turn.  (A bound: one open invite for a user and a firm.)
InviteLook(s) ==
  /\ At(s, "act") /\ req[s].op = "invite"
  /\ IF role[req[s].firm][req[s].target] = "none" THEN Goto(s, "invite") ELSE Finish(s)
  /\ UNCHANGED <<state, role, invite, cache>>

InviteWrite(s) ==
  /\ At(s, "invite")
  /\ invite' = [invite EXCEPT ![req[s].firm][req[s].target] = req[s].to]
  /\ Finish(s)
  /\ UNCHANGED <<state, role, cache>>

\* Ownership is never granted by an invite.
Granted(f, u) == IF invite[f][u] = "owner" THEN "member" ELSE invite[f][u]

\* Mutant: the firm's own row is not looked at.
AcceptInvite_AnyFirm(u, f) ==
  /\ invite[f][u] \in Roles
  /\ invite' = [invite EXCEPT ![f][u] = "used"]
  /\ role' = [role EXCEPT ![f][u] = IF @ = "none" THEN Granted(f, u) ELSE @]
  /\ cache' = Forgotten(f)
  /\ UNCHANGED <<state, req>>

\* The whole of acceptInvite is one transaction, the invalidation included;
\* INSERT OR IGNORE leaves a member's role alone.
AcceptInvite(u, f) ==
  /\ invite[f][u] \in Roles /\ state[f] = "live"
  /\ invite' = [invite EXCEPT ![f][u] = "used"]
  /\ role' = [role EXCEPT ![f][u] = IF @ = "none" THEN Granted(f, u) ELSE @]
  /\ cache' = Forgotten(f)
  /\ UNCHANGED <<state, req>>

\* Mutant: the last owner is not counted.
LastOwner_Never(f, t) == FALSE

\* ownerCount(c, firmId) <= 1 and t is an owner.
LastOwner(f, t) == Owns(f, t) /\ \A u \in Users \ {t} : ~Owns(f, u)

\* Mutant: an admin may grant ownership.
MayPatch_Admin(s, f, t) == Owns(f, t) => req[s].role = "owner"

\* Only an owner changes an owner's role or grants ownership.
MayPatch(s, f, t) == Owns(f, t) \/ req[s].to = "owner" => req[s].role = "owner"

\* patchMemberRole, up to the commit; a refusal throws and changes nothing.
PatchMemberRole(s) ==
  /\ At(s, "act") /\ req[s].op = "patch"
  /\ LET f == req[s].firm
         t == req[s].target
         refused == \/ role[f][t] = "none"
                    \/ ~MayPatch(s, f, t)
                    \/ req[s].to # "owner" /\ LastOwner(f, t)
     IN \/ refused /\ Finish(s) /\ UNCHANGED role
        \/ ~refused /\ Goto(s, "evict") /\ role' = [role EXCEPT ![f][t] = req[s].to]
  /\ UNCHANGED <<state, invite, cache>>

\* removeMember, up to the commit.
RemoveMember(s) ==
  /\ At(s, "act") /\ req[s].op = "remove"
  /\ LET f == req[s].firm
         t == req[s].target
         refused == \/ role[f][t] = "none"
                    \/ Owns(f, t) /\ req[s].role # "owner" /\ req[s].user # t
                    \/ LastOwner(f, t)
     IN \/ refused /\ Finish(s) /\ UNCHANGED role
        \/ ~refused /\ Goto(s, "evict") /\ role' = [role EXCEPT ![f][t] = "none"]
  /\ UNCHANGED <<state, invite, cache>>

\* deleteFirm looks at the firm, then counts the user's live firms, each in a
\* statement of its own, before the transaction that deletes.
DeleteLook(s) ==
  /\ At(s, "act") /\ req[s].op = "delete"
  /\ IF state[req[s].firm] = "live" THEN Goto(s, "count") ELSE Finish(s)
  /\ UNCHANGED <<state, role, invite, cache>>

\* Mutant: the firm to be deleted is not discounted.
DeleteCount_AnyFirm(s) ==
  /\ At(s, "count")
  /\ IF LiveFirms(req[s].user) # {} THEN Goto(s, "commit") ELSE Finish(s)
  /\ UNCHANGED <<state, role, invite, cache>>

DeleteCount(s) ==
  /\ At(s, "count")
  /\ IF Cardinality(LiveFirms(req[s].user)) > 1 THEN Goto(s, "commit") ELSE Finish(s)
  /\ UNCHANGED <<state, role, invite, cache>>

DeleteCommit(s) ==
  /\ At(s, "commit")
  /\ state' = [state EXCEPT ![req[s].firm] = "deleted"]
  /\ role' = [role EXCEPT ![req[s].firm] = [u \in Users |-> "none"]]
  /\ Goto(s, "evict")
  /\ UNCHANGED <<invite, cache>>

\* After the commit, in the turn that resumes the handler: invalidateFirm.
Evict(s) ==
  /\ At(s, "evict")
  /\ cache' = Forgotten(req[s].firm)
  /\ Finish(s)
  /\ UNCHANGED <<state, role, invite>>

\* An invite runs out, or the purge removes its token.
DropInvite(f, u) ==
  /\ invite[f][u] # NoInvite
  /\ invite' = [invite EXCEPT ![f][u] = NoInvite]
  /\ UNCHANGED <<state, role, cache, req>>

Restart ==
  /\ cache' = [f \in Firms |-> [k \in Keys |-> "unset"]]
  /\ req' = [s \in Slots |-> Idle]
  /\ UNCHANGED <<state, role, invite>>

Handle(s) ==
  \/ Arrive(s) \/ Lookup(s)
  \/ ReadFirm(s) \/ RenameFirm(s) \/ InviteLook(s) \/ InviteWrite(s) \/ PatchMemberRole(s) \/ RemoveMember(s)
  \/ DeleteLook(s) \/ DeleteCount(s) \/ DeleteCommit(s) \/ Evict(s)

Next ==
  \/ \E s \in Slots : Handle(s)
  \/ \E u \in Users, f \in Firms : CreateFirm(u, f) \/ AcceptInvite(u, f) \/ DropInvite(f, u)
  \/ \E f \in Firms, k \in Keys : Expire(f, k)
  \/ Restart

Spec == Init /\ [][Next]_vars

----------------------------------------------------------------------------
\* What overlapping requests must not do for KeepsAFirm: between the count of a
\* deleteFirm and its transaction, nobody else removes the caller from a firm
\* or deletes another firm of the caller's.
DeletesApart ==
  \A s, b \in Slots : s # b /\ At(s, "commit") =>
    /\ RemoveMember(b) => req[b].target # req[s].user
    /\ DeleteCommit(b) => \/ req[b].firm = req[s].firm
                          \/ role[req[b].firm][req[s].user] = "none"

\* A live firm has an owner (BACKEND_SPEC 8.3), whatever roles the requests
\* that patched, removed and deleted were working from.
AlwaysOwned == \A f \in Firms : state[f] = "live" => \E u \in Users : Owns(f, u)

\* A firm that is deleted has no member, and an invite that was out when it
\* was deleted does not make one.
DeadFirmsEmpty ==
  \A f \in Firms : state[f] # "live" => \A u \in Users : role[f][u] = "none"

\* Ownership comes with creating the firm, or from a request that was let in
\* as an owner's; no invite and no admin gives it.
OwnershipGranted ==
  [][\A f \in Firms, u \in Users :
       Owns(f, u)' /\ ~Owns(f, u) =>
         \/ state[f] = "absent"
         \/ \E s \in Slots : /\ PatchMemberRole(s) /\ req[s].role = "owner"
                             /\ req[s].firm = f /\ req[s].target = u]_vars

\* Outside the turn between a commit and its invalidation, what the caches
\* answer is what the database holds ("a removed member must stop being able
\* to read the firm now, not in a minute").
CacheTrue ==
  \A f \in Firms, k \in Keys :
    \/ cache[f][k] \in {"unset", Stored(f, k)}
    \/ \E s \in Slots : At(s, "evict") /\ req[s].firm = f

\* deleteFirm does not take its caller's only firm (LAST_FIRM).
KeepsAFirm ==
  [][\A s \in Slots : DeleteCommit(s) /\ state[req[s].firm] = "live"
       => LiveFirms(req[s].user)' # {}]_vars
=============================================================================
