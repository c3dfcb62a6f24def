------------------------ MODULE FirmMembershipProofs ------------------------
(***************************************************************************)
(* What holds of the members of firms for any number of firms, users and   *)
(* requests in flight.                                                     *)
(***************************************************************************)
EXTENDS FirmMembership, FiniteSetTheorems, TLAPS

\* A firm nobody has made yet is unknown to the caches and to every request.
Unborn ==
  \A f \in Firms : state[f] = "absent" =>
    /\ \A k \in Keys : cache[f][k] = "unset"
    /\ \A s \in Slots : req[s] # Idle => req[s].firm # f

----------------------------------------------------------------------------
(* The two record updates of a request in flight.                           *)

\* Moving a request on keeps everything else it carries.
LEMMA GotoTyped ==
  ASSUME NEW q \in Request,
         NEW p \in {"lookup", "act", "invite", "count", "commit", "evict"}
  PROVE  /\ [q EXCEPT !.pc = p] \in Request
         /\ [q EXCEPT !.pc = p].pc = p
         /\ [q EXCEPT !.pc = p].firm = q.firm
         /\ [q EXCEPT !.pc = p].role = q.role
  BY DEF Request

\* An answer leaves the slot idle or keeps the request's firm.
LEMMA ToldTyped ==
  ASSUME NEW q \in Request, q.pc = "lookup", NEW v \in Answers(q.key)
  PROVE  /\ Told(q, v) \in {Idle} \cup Request
         /\ Told(q, v) # Idle => Told(q, v).firm = q.firm
<1>1. CASE q.key = Row
  <2>1. Told(q, v) = [q EXCEPT !.key = q.user, !.doomed = (v = "deleted")]
    BY <1>1 DEF Told
  <2>2. [q EXCEPT !.key = q.user, !.doomed = (v = "deleted")] \in Request
    BY DEF Request, Keys
  <2> QED BY <2>1, <2>2 DEF Request
<1>2. CASE q.key # Row
  <2>1. Told(q, v) = Idle \/ Told(q, v) = [q EXCEPT !.pc = "act", !.role = v]
    BY <1>2 DEF Told
  <2>2. v \in {"none"} \cup Roles
    BY <1>2 DEF Answers
  <2>3. /\ [q EXCEPT !.pc = "act", !.role = v] \in Request
        /\ [q EXCEPT !.pc = "act", !.role = v].firm = q.firm
    BY <2>2 DEF Request
  <2> QED BY <2>1, <2>3
<1> QED BY <1>1, <1>2

----------------------------------------------------------------------------
(* The invariant.                                                           *)

IInv == TypeOK /\ AlwaysOwned /\ DeadFirmsEmpty /\ CacheTrue /\ Unborn

LEMMA Start == Init => IInv
<1> SUFFICES ASSUME Init PROVE IInv OBVIOUS
<1>1. TypeOK
  BY DEF Init, TypeOK, NoInvite, Answers, Keys, Row
<1>2. AlwaysOwned /\ DeadFirmsEmpty
  BY DEF Init, AlwaysOwned, DeadFirmsEmpty
<1>3. CacheTrue /\ Unborn
  BY DEF Init, CacheTrue, Unborn, Keys, Row
<1> QED BY <1>1, <1>2, <1>3 DEF IInv

\* A request in flight, its firm and its people.
LEMMA AtTyped ==
  ASSUME TypeOK, Unborn, NEW s \in Slots, NEW p, At(s, p)
  PROVE  /\ req[s] \in Request /\ req[s].pc = p /\ req[s].firm \in Firms
         /\ req[s].key \in Keys /\ req[s].target \in Users /\ req[s].user \in Users
         /\ req[s].to \in Roles /\ state[req[s].firm] # "absent"
<1>1. req[s] \in Request /\ req[s].pc = p /\ req[s] # Idle
  BY DEF At, TypeOK
<1>2. /\ req[s].firm \in Firms /\ req[s].key \in Keys /\ req[s].target \in Users
      /\ req[s].user \in Users /\ req[s].to \in Roles
  BY <1>1 DEF Request
<1> QED BY <1>1, <1>2 DEF Unborn

\* One turn of a request replaces what its slot holds, by nothing or by a
\* request for a firm that exists, and an eviction ends it.
Turn(s, n) ==
  /\ n \in {Idle} \cup Request
  /\ req' = [req EXCEPT ![s] = n]
  /\ n # Idle => state[n.firm] # "absent"

LEMMA GotoTurn ==
  ASSUME TypeOK, Unborn, NEW s \in Slots, NEW old, At(s, old),
         NEW p \in {"lookup", "act", "invite", "count", "commit", "evict"}, Goto(s, p)
  PROVE  \E n : Turn(s, n) /\ n # Idle /\ n.pc = p /\ n.firm = req[s].firm
<1> DEFINE n == [req[s] EXCEPT !.pc = p]
<1>1. req[s] \in Request /\ state[req[s].firm] # "absent"
  BY AtTyped
<1>2. n \in Request /\ n.pc = p /\ n.firm = req[s].firm
  BY <1>1, GotoTyped
<1>3. n # Idle
  BY <1>2 DEF Idle
<1>4. req' = [req EXCEPT ![s] = n]
  BY DEF Goto
<1> HIDE DEF n
<1> QED BY <1>1, <1>2, <1>3, <1>4 DEF Turn

LEMMA FinishTurn ==
  ASSUME NEW s \in Slots, Finish(s)
  PROVE  Turn(s, Idle)
BY DEF Finish, Turn

\* What a turn does besides: it changes state or role only for the firm of a
\* request that it leaves about to evict, and a request about to evict does.
LEMMA HandleTurn ==
  ASSUME IInv, NEW s \in Slots, Handle(s)
  PROVE  \E n : /\ Turn(s, n)
                /\ At(s, "evict") => cache' = Forgotten(req[s].firm)
                /\ \/ UNCHANGED <<state, role>>
                   \/ /\ n # Idle /\ n.pc = "evict" /\ n.firm = req[s].firm
                      /\ \A f \in Firms \ {req[s].firm} :
                           state'[f] = state[f] /\ role'[f] = role[f]
<1>0. TypeOK /\ Unborn
  BY DEF IInv
<1>1. CASE Arrive(s)
  <2>1. PICK u \in Users, f \in Firms, op \in Ops, t \in Users, r \in Roles :
          /\ state[f] # "absent"
          /\ req' = [req EXCEPT ![s] =
               [pc |-> "lookup", user |-> u, firm |-> f, op |-> op, target |-> t, to |-> r,
                key |-> Row, doomed |-> FALSE, role |-> "none"]]
    BY <1>1 DEF Arrive
  <2> DEFINE n == [pc |-> "lookup", user |-> u, firm |-> f, op |-> op, target |-> t,
                   to |-> r, key |-> Row, doomed |-> FALSE, role |-> "none"]
  <2>2. n \in Request /\ n.firm = f
    BY FirmConstants DEF Request, Keys
  <2>3. Turn(s, n)
    BY <2>1, <2>2 DEF Turn
  <2>4. UNCHANGED <<state, role>> /\ ~At(s, "evict")
    BY <1>1 DEF Arrive, At
  <2> QED BY <2>3, <2>4
<1>2. CASE Lookup(s)
  <2> DEFINE f == req[s].firm
             k == req[s].key
             v == IF cache[f][k] = "unset" THEN Stored(f, k) ELSE cache[f][k]
  <2>1. /\ req[s] \in Request /\ req[s].pc = "lookup" /\ f \in Firms /\ k \in Keys
        /\ state[f] # "absent"
    BY <1>0, <1>2, AtTyped DEF Lookup
  <2>2. Stored(f, k) \in Answers(k)
    BY <1>0, <2>1 DEF Stored, Answers, TypeOK, Keys
  <2>3. v \in Answers(req[s].key)
    BY <1>0, <2>1, <2>2 DEF TypeOK
  <2>4. req' = [req EXCEPT ![s] = Told(req[s], v)]
    BY <1>2 DEF Lookup
  <2> HIDE DEF v
  <2>5. Turn(s, Told(req[s], v))
    BY <2>1, <2>3, <2>4, ToldTyped DEF Turn
  <2>6. UNCHANGED <<state, role>> /\ ~At(s, "evict")
    BY <1>2 DEF Lookup, At
  <2> QED BY <2>5, <2>6
<1>3. CASE ReadFirm(s) \/ InviteWrite(s)
  <2>1. Turn(s, Idle)
    BY <1>3, FinishTurn DEF ReadFirm, InviteWrite
  <2>2. UNCHANGED <<state, role>> /\ ~At(s, "evict")
    BY <1>3 DEF ReadFirm, InviteWrite, At
  <2> QED BY <2>1, <2>2
<1>4. CASE RenameFirm(s) \/ InviteLook(s) \/ DeleteLook(s) \/ DeleteCount(s)
  <2>1. /\ UNCHANGED <<state, role>> /\ ~At(s, "evict")
        /\ At(s, "act") \/ At(s, "count")
        /\ \/ Finish(s)
           \/ \E p \in {"evict", "invite", "count", "commit"} : Goto(s, p)
    BY <1>4 DEF RenameFirm, InviteLook, DeleteLook, DeleteCount, At
  <2>2. \E n : Turn(s, n)
    BY <1>0, <2>1, GotoTurn, FinishTurn
  <2> QED BY <2>1, <2>2
<1>5. CASE PatchMemberRole(s) \/ RemoveMember(s) \/ DeleteCommit(s)
  <2>1. /\ At(s, "act") \/ At(s, "commit")
        /\ ~At(s, "evict")
        /\ \/ Finish(s) /\ UNCHANGED <<state, role>>
           \/ /\ Goto(s, "evict")
              /\ \A f \in Firms \ {req[s].firm} : state'[f] = state[f] /\ role'[f] = role[f]
    BY <1>5, <1>0 DEF PatchMemberRole, RemoveMember, DeleteCommit, At, TypeOK
  <2>2. CASE Finish(s) /\ UNCHANGED <<state, role>>
    BY <2>1, <2>2, FinishTurn
  <2>3. CASE Goto(s, "evict")
    <3>1. PICK n : Turn(s, n) /\ n # Idle /\ n.pc = "evict" /\ n.firm = req[s].firm
      BY <1>0, <2>1, <2>3, GotoTurn
    <3>2. CASE UNCHANGED <<state, role>>
      BY <2>1, <3>1, <3>2
    <3>3. CASE \A f \in Firms \ {req[s].firm} : state'[f] = state[f] /\ role'[f] = role[f]
      BY <2>1, <3>1, <3>3
    <3> QED BY <2>1, <3>2, <3>3
  <2> QED BY <2>1, <2>2, <2>3
<1>6. CASE Evict(s)
  <2>1. Turn(s, Idle)
    BY <1>6, FinishTurn DEF Evict
  <2>2. UNCHANGED <<state, role>> /\ cache' = Forgotten(req[s].firm)
    BY <1>6 DEF Evict
  <2> QED BY <2>1, <2>2
<1> QED BY <1>1, <1>2, <1>3, <1>4, <1>5, <1>6 DEF Handle

----------------------------------------------------------------------------
(* Who is a member, and of what.                                            *)

MembersSound ==
  /\ state \in [Firms -> {"absent", "live", "deleted"}]
  /\ role \in [Firms -> [Users -> {"none"} \cup Roles]]
  /\ AlwaysOwned /\ DeadFirmsEmpty

\* Setting one user's role in a live firm keeps it owned, if the user becomes
\* its owner or was not its last one.
LEMMA OneRole ==
  ASSUME MembersSound, NEW f \in Firms, NEW u \in Users, NEW r \in {"none"} \cup Roles,
         state[f] = "live", r = "owner" \/ ~LastOwner(f, u),
         role' = [role EXCEPT ![f][u] = r], state' = state
  PROVE  MembersSound'
<1>1. role' \in [Firms -> [Users -> {"none"} \cup Roles]]
  BY DEF MembersSound
<1>2. /\ role'[f][u] = r
      /\ \A w \in Users \ {u} : role'[f][w] = role[f][w]
      /\ \A g \in Firms \ {f} : role'[g] = role[g]
  BY DEF MembersSound
<1>3. \E w \in Users : role'[f][w] = "owner"
  <2>1. CASE r = "owner" BY <2>1, <1>2
  <2>2. CASE r # "owner" /\ Owns(f, u)
    BY <2>2, <1>2 DEF LastOwner, Owns
  <2>3. CASE ~Owns(f, u)
    <3>1. PICK w \in Users : Owns(f, w)
      BY DEF MembersSound, AlwaysOwned
    <3> QED BY <2>3, <3>1, <1>2 DEF Owns
  <2> QED BY <2>1, <2>2, <2>3
<1>4. AlwaysOwned'
  BY <1>2, <1>3 DEF MembersSound, AlwaysOwned, Owns
<1>5. DeadFirmsEmpty'
  BY <1>2 DEF MembersSound, DeadFirmsEmpty
<1> QED BY <1>1, <1>4, <1>5 DEF MembersSound

LEMMA MembersMove ==
  ASSUME IInv, Next
  PROVE  MembersSound' /\ \A f \in Firms : state'[f] = "absent" => state[f] = "absent"
<1>0. TypeOK /\ Unborn /\ MembersSound
  BY DEF IInv, TypeOK, MembersSound
<1>1. CASE UNCHANGED <<state, role>>
  BY <1>0, <1>1 DEF MembersSound, AlwaysOwned, DeadFirmsEmpty, Owns
<1>2. ASSUME NEW u \in Users, NEW f \in Firms, CreateFirm(u, f)
      PROVE  MembersSound' /\ \A g \in Firms : state'[g] = "absent" => state[g] = "absent"
  <2>1. /\ state[f] = "absent" /\ state' = [state EXCEPT ![f] = "live"]
        /\ role' = [role EXCEPT ![f][u] = "owner"]
    BY <1>2 DEF CreateFirm
  <2>2. /\ state' \in [Firms -> {"absent", "live", "deleted"}]
        /\ role' \in [Firms -> [Users -> {"none"} \cup Roles]]
        /\ state'[f] = "live" /\ role'[f][u] = "owner"
        /\ \A g \in Firms \ {f} : state'[g] = state[g] /\ role'[g] = role[g]
    BY <1>0, <2>1 DEF TypeOK, Roles
  <2> QED BY <1>0, <2>2 DEF MembersSound, AlwaysOwned, DeadFirmsEmpty, Owns
<1>3. ASSUME NEW u \in Users, NEW f \in Firms, AcceptInvite(u, f)
      PROVE  MembersSound' /\ \A g \in Firms : state'[g] = "absent" => state[g] = "absent"
  <2> DEFINE r == IF role[f][u] = "none" THEN Granted(f, u) ELSE role[f][u]
  <2>1. /\ state[f] = "live" /\ state' = state /\ invite[f][u] \in Roles
        /\ role' = [role EXCEPT ![f][u] = r]
    BY <1>3 DEF AcceptInvite
  <2>2. r \in {"none"} \cup Roles
    BY <1>0, <2>1 DEF Granted, Roles, TypeOK
  <2>3. r = "owner" \/ ~LastOwner(f, u)
    BY DEF LastOwner, Owns
  <2> HIDE DEF r
  <2> QED BY <1>0, <2>1, <2>2, <2>3, OneRole
<1>4. ASSUME NEW s \in Slots, PatchMemberRole(s), ~UNCHANGED role
      PROVE  MembersSound' /\ \A g \in Firms : state'[g] = "absent" => state[g] = "absent"
  <2> DEFINE f == req[s].firm
             t == req[s].target
  <2>1. /\ At(s, "act") /\ role[f][t] # "none" /\ (req[s].to = "owner" \/ ~LastOwner(f, t))
        /\ role' = [role EXCEPT ![f][t] = req[s].to] /\ state' = state
    BY <1>4 DEF PatchMemberRole
  <2>2. f \in Firms /\ t \in Users /\ req[s].to \in Roles
    BY <1>0, <2>1, AtTyped
  <2>3. state[f] = "live"
    BY <1>0, <2>1, <2>2 DEF MembersSound, DeadFirmsEmpty
  <2> QED BY <1>0, <2>1, <2>2, <2>3, OneRole
<1>5. ASSUME NEW s \in Slots, RemoveMember(s), ~UNCHANGED role
      PROVE  MembersSound' /\ \A g \in Firms : state'[g] = "absent" => state[g] = "absent"
  <2> DEFINE f == req[s].firm
             t == req[s].target
  <2>1. /\ At(s, "act") /\ role[f][t] # "none" /\ ~LastOwner(f, t)
        /\ role' = [role EXCEPT ![f][t] = "none"] /\ state' = state
    BY <1>5 DEF RemoveMember
  <2>2. f \in Firms /\ t \in Users
    BY <1>0, <2>1, AtTyped
  <2>3. state[f] = "live"
    BY <1>0, <2>1, <2>2 DEF MembersSound, DeadFirmsEmpty
  <2> QED BY <1>0, <2>1, <2>2, <2>3, OneRole
<1>6. ASSUME NEW s \in Slots, DeleteCommit(s)
      PROVE  MembersSound' /\ \A g \in Firms : state'[g] = "absent" => state[g] = "absent"
  <2> DEFINE f == req[s].firm
  <2>1. /\ At(s, "commit") /\ state' = [state EXCEPT ![f] = "deleted"]
        /\ role' = [role EXCEPT ![f] = [u \in Users |-> "none"]]
    BY <1>6 DEF DeleteCommit
  <2>2. f \in Firms
    BY <1>0, <2>1, AtTyped
  <2>3. /\ state' \in [Firms -> {"absent", "live", "deleted"}]
        /\ role' \in [Firms -> [Users -> {"none"} \cup Roles]]
        /\ state'[f] = "deleted" /\ \A u \in Users : role'[f][u] = "none"
        /\ \A g \in Firms \ {f} : state'[g] = state[g] /\ role'[g] = role[g]
    BY <1>0, <2>1, <2>2 DEF TypeOK
  <2> HIDE DEF f
  <2>4. AlwaysOwned'
    BY <1>0, <2>2, <2>3 DEF MembersSound, AlwaysOwned, Owns
  <2>5. DeadFirmsEmpty'
    BY <1>0, <2>2, <2>3 DEF MembersSound, DeadFirmsEmpty
  <2> QED BY <2>2, <2>3, <2>4, <2>5 DEF MembersSound
<1>7. \/ UNCHANGED <<state, role>>
      \/ \E u \in Users, f \in Firms : CreateFirm(u, f) \/ AcceptInvite(u, f)
      \/ \E s \in Slots : \/ PatchMemberRole(s) /\ ~UNCHANGED role
                          \/ RemoveMember(s) /\ ~UNCHANGED role
                          \/ DeleteCommit(s)
  BY DEF Next, Handle, Arrive, Lookup, ReadFirm, RenameFirm, InviteLook, InviteWrite,
         PatchMemberRole, RemoveMember, DeleteLook, DeleteCount, Evict, DropInvite, Expire, Restart
<1> QED BY <1>1, <1>2, <1>3, <1>4, <1>5, <1>6, <1>7

----------------------------------------------------------------------------
(* What the caches say.                                                     *)

\* Slots and what they owe the caches after one turn.
LEMMA SlotsAfterTurn ==
  ASSUME TypeOK, Unborn, NEW s \in Slots, NEW n, Turn(s, n),
         \A f \in Firms : state'[f] = "absent" => state[f] = "absent"
  PROVE  /\ req' \in [Slots -> {Idle} \cup Request]
         /\ \A f \in Firms : state'[f] = "absent" =>
              \A t \in Slots : req'[t] # Idle => req'[t].firm # f
         /\ \A t \in Slots \ {s} : req'[t] = req[t]
         /\ req'[s] = n
<1>1. /\ req' = [req EXCEPT ![s] = n] /\ n \in {Idle} \cup Request
      /\ n # Idle => state[n.firm] # "absent"
  BY DEF Turn
<1>2. req \in [Slots -> {Idle} \cup Request]
  BY DEF TypeOK
<1>3. /\ \A t \in Slots \ {s} : req'[t] = req[t]
      /\ req'[s] = n /\ req' \in [Slots -> {Idle} \cup Request]
  BY <1>1, <1>2
<1>4. ASSUME NEW f \in Firms, state'[f] = "absent", NEW t \in Slots, req'[t] # Idle
      PROVE  req'[t].firm # f
  BY <1>1, <1>3, <1>4 DEF Unborn
<1> QED BY <1>3, <1>4

\* The caches after each kind of step: an entry is kept, dropped, or set to
\* what the database or the cache answers.
Kept(f, k) == cache'[f][k] \in {"unset", cache[f][k]}

LEMMA CachesMove ==
  ASSUME IInv, Next
  PROVE  /\ cache' \in [Firms -> [Keys -> {"unset", "absent", "live", "deleted", "none"} \cup Roles]]
         /\ \A f \in Firms, k \in Keys :
              \/ Kept(f, k)
              \/ /\ cache'[f][k] = Stored(f, k) /\ Stored(f, k) \in Answers(k)
                 /\ state[f] # "absent" /\ UNCHANGED <<state, role>>
<1>0. TypeOK /\ Unborn
  BY DEF IInv
<1>00. cache \in [Firms -> [Keys -> {"unset", "absent", "live", "deleted", "none"} \cup Roles]]
  BY <1>0 DEF TypeOK
<1>1. CASE UNCHANGED cache
  BY <1>00, <1>1 DEF Kept
<1>2. ASSUME NEW f \in Firms, cache' = Forgotten(f)
      PROVE  /\ cache' \in [Firms -> [Keys -> {"unset", "absent", "live", "deleted", "none"} \cup Roles]]
             /\ \A g \in Firms, k \in Keys : Kept(g, k)
  BY <1>00, <1>2 DEF Kept, Forgotten
<1>3. ASSUME NEW f \in Firms, NEW k \in Keys, Expire(f, k)
      PROVE  /\ cache' \in [Firms -> [Keys -> {"unset", "absent", "live", "deleted", "none"} \cup Roles]]
             /\ \A g \in Firms, j \in Keys : Kept(g, j)
  <2>1. cache' = [cache EXCEPT ![f][k] = "unset"]
    BY <1>3 DEF Expire
  <2> QED BY <1>00, <2>1 DEF Kept
<1>4. CASE Restart
  BY <1>4 DEF Restart, Kept
<1>5. ASSUME NEW s \in Slots, Lookup(s)
      PROVE  /\ cache' \in [Firms -> [Keys -> {"unset", "absent", "live", "deleted", "none"} \cup Roles]]
             /\ \A g \in Firms, j \in Keys :
                  \/ Kept(g, j)
                  \/ /\ cache'[g][j] = Stored(g, j) /\ Stored(g, j) \in Answers(j)
                     /\ state[g] # "absent" /\ UNCHANGED <<state, role>>
  <2> DEFINE f == req[s].firm
             k == req[s].key
             v == IF cache[f][k] = "unset" THEN Stored(f, k) ELSE cache[f][k]
  <2>1. f \in Firms /\ k \in Keys /\ state[f] # "absent"
    BY <1>0, <1>5, AtTyped DEF Lookup
  <2>2. cache' = [cache EXCEPT ![f][k] = v] /\ UNCHANGED <<state, role>>
    BY <1>5 DEF Lookup
  <2>3. Stored(f, k) \in Answers(k)
    BY <1>0, <2>1 DEF Stored, Answers, TypeOK, Keys
  <2>4. /\ v \in {"unset", "absent", "live", "deleted", "none"} \cup Roles
        /\ v = cache[f][k] \/ v = Stored(f, k)
    BY <1>00, <2>1, <2>3 DEF Answers
  <2> HIDE DEF f, k, v
  <2>5. /\ cache' \in [Firms -> [Keys -> {"unset", "absent", "live", "deleted", "none"} \cup Roles]]
        /\ cache'[f][k] = v
        /\ \A g \in Firms, j \in Keys : g # f \/ j # k => cache'[g][j] = cache[g][j]
    BY <1>00, <2>1, <2>2, <2>4
  <2> QED BY <2>1, <2>2, <2>3, <2>4, <2>5 DEF Kept
<1>6. \/ UNCHANGED cache
      \/ \E f \in Firms : cache' = Forgotten(f)
      \/ \E f \in Firms, k \in Keys : Expire(f, k)
      \/ Restart
      \/ \E s \in Slots : Lookup(s)
  <2>1. ASSUME NEW s \in Slots, Evict(s) PROVE \E f \in Firms : cache' = Forgotten(f)
    BY <1>0, <2>1, AtTyped DEF Evict
  <2> QED BY <2>1 DEF Next, Handle, Arrive, ReadFirm, RenameFirm, InviteLook, InviteWrite,
         PatchMemberRole, RemoveMember, DeleteLook, DeleteCount, DeleteCommit, DropInvite,
         CreateFirm, AcceptInvite
<1> QED BY <1>1, <1>2, <1>3, <1>4, <1>5, <1>6

----------------------------------------------------------------------------
(* The invariant is inductive.                                              *)

\* A slot takes a turn, or nothing in flight changes, or all of it is lost.
LEMMA Slots3 ==
  ASSUME Next
  PROVE  \/ \E s \in Slots : Handle(s)
         \/ UNCHANGED req
         \/ Restart
BY DEF Next, CreateFirm, AcceptInvite, DropInvite, Expire

LEMMA RequestsMove ==
  ASSUME IInv, Next
  PROVE  /\ req' \in [Slots -> {Idle} \cup Request]
         /\ \A f \in Firms : state'[f] = "absent" =>
              \A t \in Slots : req'[t] # Idle => req'[t].firm # f
<1>0. /\ TypeOK /\ Unborn
      /\ \A f \in Firms : state'[f] = "absent" => state[f] = "absent"
  BY MembersMove DEF IInv
<1>1. ASSUME NEW s \in Slots, Handle(s)
      PROVE  /\ req' \in [Slots -> {Idle} \cup Request]
             /\ \A f \in Firms : state'[f] = "absent" =>
                  \A t \in Slots : req'[t] # Idle => req'[t].firm # f
  <2>1. PICK n : Turn(s, n)
    BY <1>1, HandleTurn
  <2> QED BY <1>0, <2>1, SlotsAfterTurn
<1>2. CASE UNCHANGED req
  BY <1>0, <1>2 DEF TypeOK, Unborn
<1>3. CASE Restart
  BY <1>3 DEF Restart
<1> QED BY <1>1, <1>2, <1>3, Slots3

LEMMA InvitesMove ==
  ASSUME IInv, Next
  PROVE  invite' \in [Firms -> [Users -> {NoInvite, "used"} \cup Roles]]
<1>0. TypeOK /\ Unborn /\ invite \in [Firms -> [Users -> {NoInvite, "used"} \cup Roles]]
  BY DEF IInv, TypeOK
<1>1. ASSUME NEW s \in Slots, InviteWrite(s)
      PROVE  invite' \in [Firms -> [Users -> {NoInvite, "used"} \cup Roles]]
  <2>1. req[s].firm \in Firms /\ req[s].target \in Users /\ req[s].to \in Roles
    BY <1>0, <1>1, AtTyped DEF InviteWrite
  <2> QED BY <1>0, <1>1, <2>1 DEF InviteWrite
<1>2. ASSUME NEW u \in Users, NEW f \in Firms, AcceptInvite(u, f) \/ DropInvite(f, u)
      PROVE  invite' \in [Firms -> [Users -> {NoInvite, "used"} \cup Roles]]
  BY <1>0, <1>2 DEF AcceptInvite, DropInvite
<1>3. \/ UNCHANGED invite
      \/ \E s \in Slots : InviteWrite(s)
      \/ \E u \in Users, f \in Firms : AcceptInvite(u, f) \/ DropInvite(f, u)
  BY DEF Next, Handle, Arrive, Lookup, ReadFirm, RenameFirm, InviteLook, PatchMemberRole,
         RemoveMember, DeleteLook, DeleteCount, DeleteCommit, Evict, CreateFirm, Expire, Restart
<1> QED BY <1>0, <1>1, <1>2, <1>3

\* A cache entry of a firm whose rows are as they were, when the requests
\* about to evict that firm still are.
LEMMA EntryKept ==
  ASSUME IInv, Next, NEW f \in Firms, NEW k \in Keys, state'[f] = state[f], role'[f] = role[f],
         \A s \in Slots : At(s, "evict") /\ req[s].firm = f =>
                           At(s, "evict")' /\ req'[s].firm = f
  PROVE  \/ cache'[f][k] \in {"unset", Stored(f, k)'}
         \/ \E s \in Slots : At(s, "evict")' /\ req'[s].firm = f
<1>1. Stored(f, k)' = Stored(f, k)
  BY DEF Stored
<1>2. Kept(f, k) \/ cache'[f][k] = Stored(f, k)
  BY CachesMove
<1>3. \/ cache[f][k] \in {"unset", Stored(f, k)}
      \/ \E s \in Slots : At(s, "evict") /\ req[s].firm = f
  BY DEF IInv, CacheTrue
<1> QED BY <1>1, <1>2, <1>3 DEF Kept

LEMMA CacheTrueKept ==
  ASSUME IInv, Next
  PROVE  CacheTrue'
<1> SUFFICES ASSUME NEW f \in Firms, NEW k \in Keys
             PROVE  \/ cache'[f][k] \in {"unset", Stored(f, k)'}
                    \/ \E s \in Slots : At(s, "evict")' /\ req'[s].firm = f
  BY DEF CacheTrue
<1>0. /\ TypeOK /\ Unborn
      /\ \A g \in Firms : state'[g] = "absent" => state[g] = "absent"
  BY MembersMove DEF IInv
<1>1. ASSUME NEW s \in Slots, Handle(s)
      PROVE  \/ cache'[f][k] \in {"unset", Stored(f, k)'}
             \/ \E t \in Slots : At(t, "evict")' /\ req'[t].firm = f
  <2>1. PICK n : /\ Turn(s, n)
                 /\ At(s, "evict") => cache' = Forgotten(req[s].firm)
                 /\ \/ UNCHANGED <<state, role>>
                    \/ /\ n # Idle /\ n.pc = "evict" /\ n.firm = req[s].firm
                       /\ \A g \in Firms \ {req[s].firm} :
                            state'[g] = state[g] /\ role'[g] = role[g]
    BY <1>1, HandleTurn
  <2>2. req'[s] = n /\ \A t \in Slots \ {s} : req'[t] = req[t]
    BY <1>0, <2>1, SlotsAfterTurn
  <2>3. CASE At(s, "evict") /\ req[s].firm = f
    <3>1. cache' = Forgotten(f)
      BY <2>1, <2>3
    <3>2. cache \in [Firms -> [Keys -> {"unset", "absent", "live", "deleted", "none"} \cup Roles]]
      BY <1>0 DEF TypeOK
    <3>3. cache'[f][k] = "unset"
      BY <3>1, <3>2 DEF Forgotten
    <3> QED BY <3>3
  <2>4. CASE n # Idle /\ n.pc = "evict" /\ n.firm = f
    BY <2>2, <2>4 DEF At
  <2>5. CASE ~(At(s, "evict") /\ req[s].firm = f) /\ ~(n # Idle /\ n.pc = "evict" /\ n.firm = f)
    <3>1. state'[f] = state[f] /\ role'[f] = role[f]
      BY <2>1, <2>5
    <3>2. \A t \in Slots : At(t, "evict") /\ req[t].firm = f =>
                             At(t, "evict")' /\ req'[t].firm = f
      BY <2>2, <2>5 DEF At
    <3> QED BY <3>1, <3>2, EntryKept
  <2> QED BY <2>3, <2>4, <2>5
<1>2. ASSUME NEW u \in Users, NEW g \in Firms, CreateFirm(u, g)
      PROVE  \/ cache'[f][k] \in {"unset", Stored(f, k)'}
             \/ \E t \in Slots : At(t, "evict")' /\ req'[t].firm = f
  <2>1. /\ state[g] = "absent" /\ req' = req /\ cache' = cache
        /\ f # g => state'[f] = state[f] /\ role'[f] = role[f]
    BY <1>0, <1>2 DEF CreateFirm, TypeOK
  <2>2. CASE f = g
    BY <1>0, <2>1, <2>2 DEF Unborn
  <2>3. CASE f # g
    BY <2>1, <2>3, EntryKept DEF At
  <2> QED BY <2>2, <2>3
<1>3. ASSUME NEW u \in Users, NEW g \in Firms, AcceptInvite(u, g)
      PROVE  \/ cache'[f][k] \in {"unset", Stored(f, k)'}
             \/ \E t \in Slots : At(t, "evict")' /\ req'[t].firm = f
  <2>1. /\ state' = state /\ req' = req /\ cache' = Forgotten(g)
        /\ f # g => role'[f] = role[f]
    BY <1>0, <1>3 DEF AcceptInvite, TypeOK
  <2>2. CASE f = g
    BY <1>0, <2>1, <2>2 DEF Forgotten, TypeOK
  <2>3. CASE f # g
    BY <2>1, <2>3, EntryKept DEF At
  <2> QED BY <2>2, <2>3
<1>4. CASE Restart
  BY <1>4 DEF Restart
<1>5. \/ \E s \in Slots : Handle(s)
      \/ \E u \in Users, g \in Firms : CreateFirm(u, g) \/ AcceptInvite(u, g)
      \/ \E u \in Users, g \in Firms : DropInvite(g, u)
      \/ \E g \in Firms, j \in Keys : Expire(g, j)
      \/ Restart
  BY DEF Next
<1>6. CASE \E g \in Firms, j \in Keys : Expire(g, j)
  <2>1. state' = state /\ role' = role /\ req' = req
    BY <1>6 DEF Expire
  <2> QED BY <2>1, EntryKept DEF At
<1>7. CASE \E u \in Users, g \in Firms : DropInvite(g, u)
  <2>1. state' = state /\ role' = role /\ req' = req
    BY <1>7 DEF DropInvite
  <2> QED BY <2>1, EntryKept DEF At
<1> QED BY <1>1, <1>2, <1>3, <1>4, <1>5, <1>6, <1>7

LEMMA Inductive == IInv /\ [Next]_vars => IInv'
<1> SUFFICES ASSUME IInv, [Next]_vars PROVE IInv' OBVIOUS
<1>1. CASE UNCHANGED vars
  BY <1>1 DEF vars, IInv, TypeOK, AlwaysOwned, DeadFirmsEmpty, CacheTrue, Unborn, Owns, Stored, At
<1>2. CASE Next
  <2>1. MembersSound' /\ \A f \in Firms : state'[f] = "absent" => state[f] = "absent"
    BY <1>2, MembersMove
  <2>2. /\ cache' \in [Firms -> [Keys -> {"unset", "absent", "live", "deleted", "none"} \cup Roles]]
        /\ \A f \in Firms, k \in Keys :
             \/ Kept(f, k)
             \/ /\ cache'[f][k] = Stored(f, k) /\ Stored(f, k) \in Answers(k)
                /\ state[f] # "absent"
    BY <1>2, CachesMove
  <2>3. /\ req' \in [Slots -> {Idle} \cup Request]
        /\ \A f \in Firms : state'[f] = "absent" =>
             \A t \in Slots : req'[t] # Idle => req'[t].firm # f
    BY <1>2, RequestsMove
  <2>4. \A f \in Firms, k \in Keys : cache'[f][k] \in {"unset"} \cup Answers(k)
    BY <2>2 DEF Kept, IInv, TypeOK
  <2>5. TypeOK'
    BY <1>2, <2>1, <2>2, <2>3, <2>4, InvitesMove DEF TypeOK, MembersSound
  <2>6. \A f \in Firms : state'[f] = "absent" => \A k \in Keys : cache'[f][k] = "unset"
    BY <2>1, <2>2 DEF Kept, IInv, Unborn
  <2>7. Unborn'
    BY <2>3, <2>6 DEF Unborn
  <2>8. CacheTrue'
    BY <1>2, CacheTrueKept
  <2> QED BY <2>1, <2>5, <2>7, <2>8 DEF IInv, MembersSound
<1> QED BY <1>1, <1>2

LEMMA Invariance == Spec => []IInv
BY Start, Inductive, PTL DEF Spec

\* The variables keep their types: a member row holds a role, a request in
\* flight an existing kind of operation, a cache what its key can answer.
THEOREM MembershipTyped == Spec => []TypeOK
<1>1. IInv => TypeOK BY DEF IInv
<1> QED BY <1>1, Invariance, PTL

\* However the requests of patchMemberRole, removeMember and deleteFirm
\* interleave, and whatever stale role they were let in with, a live firm has
\* an owner.
THEOREM FirmsOwned == Spec => []AlwaysOwned
<1>1. IInv => AlwaysOwned BY DEF IInv
<1> QED BY <1>1, Invariance, PTL

\* No invite makes a member of a firm that was deleted.
THEOREM DeletedFirmsEmpty == Spec => []DeadFirmsEmpty
<1>1. IInv => DeadFirmsEmpty BY DEF IInv
<1> QED BY <1>1, Invariance, PTL

\* firmRow and member answer what the database holds, but for a change that
\* is committed and about to be invalidated.
THEOREM CachesTrue == Spec => []CacheTrue
<1>1. IInv => CacheTrue BY DEF IInv
<1> QED BY <1>1, Invariance, PTL

\* Ownership comes from createFirm, or from patchMemberRole called by a
\* request that was let in as an owner's.
THEOREM OwnersGrant == Spec => OwnershipGranted
<1> DEFINE Granting(f, u) ==
             Owns(f, u)' /\ ~Owns(f, u) =>
               \/ state[f] = "absent"
               \/ \E s \in Slots : /\ PatchMemberRole(s) /\ req[s].role = "owner"
                                   /\ req[s].firm = f /\ req[s].target = u
<1>1. ASSUME IInv, [Next]_vars, NEW f \in Firms, NEW u \in Users, Owns(f, u)', ~Owns(f, u)
      PROVE  \/ state[f] = "absent"
             \/ \E s \in Slots : /\ PatchMemberRole(s) /\ req[s].role = "owner"
                                 /\ req[s].firm = f /\ req[s].target = u
  <2>0. TypeOK /\ Unborn /\ role \in [Firms -> [Users -> {"none"} \cup Roles]]
    BY <1>1 DEF IInv, TypeOK
  <2>1. ASSUME NEW s \in Slots, PatchMemberRole(s), ~UNCHANGED role
        PROVE  /\ PatchMemberRole(s) /\ req[s].role = "owner"
               /\ req[s].firm = f /\ req[s].target = u
    <3>1. /\ role' = [role EXCEPT ![req[s].firm][req[s].target] = req[s].to]
          /\ MayPatch(s, req[s].firm, req[s].target) /\ At(s, "act")
      BY <2>1 DEF PatchMemberRole
    <3>2. req[s].firm \in Firms /\ req[s].target \in Users
      BY <2>0, <3>1, AtTyped
    <3>3. req[s].firm = f /\ req[s].target = u /\ req[s].to = "owner"
      BY <1>1, <2>0, <3>1, <3>2 DEF Owns
    <3> QED BY <2>1, <3>1, <3>3 DEF MayPatch
  <2>2. ASSUME NEW s \in Slots, RemoveMember(s) \/ DeleteCommit(s) PROVE FALSE
    <3>1. At(s, "act") \/ At(s, "commit")
      BY <2>2 DEF RemoveMember, DeleteCommit
    <3>2. req[s].firm \in Firms /\ req[s].target \in Users
      BY <2>0, <3>1, AtTyped
    <3> QED BY <1>1, <2>0, <2>2, <3>2 DEF RemoveMember, DeleteCommit, Owns
  <2>3. ASSUME NEW w \in Users, NEW g \in Firms, CreateFirm(w, g) PROVE state[f] = "absent"
    BY <1>1, <2>0, <2>3 DEF CreateFirm, Owns
  <2>4. ASSUME NEW w \in Users, NEW g \in Firms, AcceptInvite(w, g) PROVE FALSE
    <3>1. role' = [role EXCEPT ![g][w] = IF role[g][w] = "none" THEN Granted(g, w) ELSE role[g][w]]
      BY <2>4 DEF AcceptInvite
    <3>2. Granted(g, w) # "owner"
      BY DEF Granted
    <3> QED BY <1>1, <2>0, <3>1, <3>2 DEF Owns
  <2>5. \/ UNCHANGED role
        \/ \E w \in Users, g \in Firms : CreateFirm(w, g) \/ AcceptInvite(w, g)
        \/ \E s \in Slots : \/ PatchMemberRole(s) /\ ~UNCHANGED role
                           \/ RemoveMember(s) \/ DeleteCommit(s)
    BY <1>1 DEF vars, Next, Handle, Arrive, Lookup, ReadFirm, RenameFirm, InviteLook, InviteWrite,
           DeleteLook, DeleteCount, Evict, DropInvite, Expire, Restart
  <2>6. ~UNCHANGED role
    BY <1>1 DEF Owns
  <2> QED BY <2>1, <2>2, <2>3, <2>4, <2>5, <2>6
<1>2. IInv /\ [Next]_vars => [\A f \in Firms, u \in Users : Granting(f, u)]_vars
  BY <1>1
<1> QED BY <1>2, Invariance, PTL DEF Spec, OwnershipGranted

----------------------------------------------------------------------------
(* The only firm.                                                           *)

\* A live firm of user u's that is not f.
Another(f, u) == \E g \in Firms \ {f} : state[g] = "live" /\ role[g][u] # "none"

\* What deleteFirm counted is still there when it deletes.
Counted == \A s \in Slots : At(s, "commit") => Another(req[s].firm, req[s].user)

\* More than one firm is another firm than any one of them.
LEMMA MoreThanOne ==
  ASSUME NEW u, NEW f, Cardinality(LiveFirms(u)) > 1
  PROVE  Another(f, u)
<1> SUFFICES ASSUME ~Another(f, u) PROVE FALSE OBVIOUS
<1>1. LiveFirms(u) \subseteq {f}
  BY DEF LiveFirms, Another
<1>2. IsFiniteSet({f}) /\ Cardinality({f}) = 1
  BY FS_Singleton
<1>3. Cardinality(LiveFirms(u)) <= 1 /\ Cardinality(LiveFirms(u)) \in Nat
  BY <1>1, <1>2, FS_Subset, FS_CardinalityType
<1> QED BY <1>3

\* What a step of anyone else leaves of the firms of a user about to delete one.
LEMMA FirmsLeft ==
  ASSUME IInv, Next, DeletesApart, NEW s \in Slots, At(s, "commit"), ~DeleteCommit(s),
         NEW f \in Firms \ {req[s].firm}, state[f] = "live", role[f][req[s].user] # "none"
  PROVE  state'[f] = "live" /\ role'[f][req[s].user] # "none"
<1> DEFINE u == req[s].user
<1>0. /\ state \in [Firms -> {"absent", "live", "deleted"}]
      /\ role \in [Firms -> [Users -> {"none"} \cup Roles]] /\ "none" \notin Roles
      /\ TypeOK /\ Unborn /\ u \in Users
  BY AtTyped DEF IInv, TypeOK, Roles
<1> HIDE DEF u
<1>1. ASSUME NEW w \in Users, NEW g \in Firms, NEW r, r # "none",
             role' = [role EXCEPT ![g][w] = r]
      PROVE  role'[f][u] # "none"
  BY <1>0, <1>1 DEF u
<1>2. CASE UNCHANGED <<state, role>>
  BY <1>2 DEF u
<1>3. ASSUME NEW w \in Users, NEW g \in Firms, CreateFirm(w, g) \/ AcceptInvite(w, g)
      PROVE  state'[f] = "live" /\ role'[f][u] # "none"
  BY <1>0, <1>3 DEF CreateFirm, AcceptInvite, u
<1>4. ASSUME NEW b \in Slots, PatchMemberRole(b)
      PROVE  state'[f] = "live" /\ role'[f][u] # "none"
  <2>1. At(b, "act") /\ state' = state
    BY <1>4 DEF PatchMemberRole
  <2>2. req[b].firm \in Firms /\ req[b].target \in Users /\ req[b].to \in Roles
    BY <1>0, <2>1, AtTyped
  <2>3. role' = role \/ role' = [role EXCEPT ![req[b].firm][req[b].target] = req[b].to]
    BY <1>4 DEF PatchMemberRole
  <2> QED BY <1>0, <1>1, <2>1, <2>2, <2>3 DEF u
<1>5. ASSUME NEW b \in Slots, RemoveMember(b)
      PROVE  state'[f] = "live" /\ role'[f][u] # "none"
  <2>1. At(b, "act") /\ state' = state
    BY <1>5 DEF RemoveMember
  <2>2. req[b].firm \in Firms /\ req[b].target \in Users
    BY <1>0, <2>1, AtTyped
  <2>3. req[b].target # u
    BY <1>5, <2>1 DEF DeletesApart, At, u
  <2>4. role' = role \/ role' = [role EXCEPT ![req[b].firm][req[b].target] = "none"]
    BY <1>5 DEF RemoveMember
  <2> QED BY <1>0, <2>1, <2>2, <2>3, <2>4 DEF u
<1>6. ASSUME NEW b \in Slots, DeleteCommit(b)
      PROVE  state'[f] = "live" /\ role'[f][u] # "none"
  <2>1. b # s /\ (req[b].firm = req[s].firm \/ role[req[b].firm][u] = "none")
    BY <1>6 DEF DeletesApart, u
  <2>2. req[b].firm # f
    BY <2>1 DEF u
  <2> QED BY <1>0, <1>6, <2>2 DEF DeleteCommit, u
<1>7. \/ UNCHANGED <<state, role>>
      \/ \E w \in Users, g \in Firms : CreateFirm(w, g) \/ AcceptInvite(w, g)
      \/ \E b \in Slots : PatchMemberRole(b) \/ RemoveMember(b) \/ DeleteCommit(b)
  BY DEF Next, Handle, Arrive, Lookup, ReadFirm, RenameFirm, InviteLook, InviteWrite,
         DeleteLook, DeleteCount, Evict, DropInvite, Expire, Restart
<1> QED BY <1>2, <1>3, <1>4, <1>5, <1>6, <1>7 DEF u

LEMMA CountedStep ==
  ASSUME IInv, Counted, Next, DeletesApart
  PROVE  Counted'
<1>0. /\ TypeOK /\ Unborn /\ state \in [Firms -> {"absent", "live", "deleted"}]
      /\ role \in [Firms -> [Users -> {"none"} \cup Roles]]
      /\ req \in [Slots -> {Idle} \cup Request]
  BY DEF IInv, TypeOK
<1> SUFFICES ASSUME NEW s \in Slots, req'[s] # Idle, req'[s].pc = "commit"
             PROVE  Another(req[s].firm, req[s].user)'
  BY DEF Counted, At
<1>1. ASSUME Handle(s) PROVE Another(req[s].firm, req[s].user)'
  <2>1. DeleteCount(s)
    <3>1. ASSUME NEW p, Goto(s, p), NEW q, At(s, q) PROVE p = "commit"
      <4>1. req[s] \in Request
        BY <1>0, <3>1, AtTyped
      <4> QED BY <1>0, <3>1, <4>1 DEF Goto, Request
    <3>2. ~Finish(s)
      BY <1>0 DEF Finish
    <3>3. ~Lookup(s)
      <4>1. ASSUME NEW v, At(s, "lookup"), req' = [req EXCEPT ![s] = Told(req[s], v)] PROVE FALSE
        <5>1. req[s] \in Request /\ req[s].pc = "lookup"
          BY <1>0, <4>1, AtTyped
        <5> QED BY <1>0, <4>1, <5>1 DEF Told, Request
      <4> QED BY <4>1 DEF Lookup
    <3>4. ~Arrive(s)
      BY <1>0 DEF Arrive
    <3>5. ~ReadFirm(s) /\ ~InviteWrite(s) /\ ~Evict(s)
      BY <3>2 DEF ReadFirm, InviteWrite, Evict
    <3>6. ~RenameFirm(s) /\ ~InviteLook(s) /\ ~PatchMemberRole(s) /\ ~RemoveMember(s)
      BY <3>1, <3>2 DEF RenameFirm, InviteLook, PatchMemberRole, RemoveMember
    <3>7. ~DeleteLook(s) /\ ~DeleteCommit(s)
      BY <3>1, <3>2 DEF DeleteLook, DeleteCommit
    <3> QED BY <1>1, <3>3, <3>4, <3>5, <3>6, <3>7 DEF Handle
  <2>2. /\ Goto(s, "commit") /\ Cardinality(LiveFirms(req[s].user)) > 1
        /\ UNCHANGED <<state, role>> /\ req[s] \in Request
    <3>1. ~Finish(s)
      BY <1>0 DEF Finish
    <3> QED BY <1>0, <2>1, <3>1, AtTyped DEF DeleteCount
  <2>3. req'[s].firm = req[s].firm /\ req'[s].user = req[s].user
    BY <1>0, <2>2 DEF Goto, Request
  <2> QED BY <2>2, <2>3, MoreThanOne DEF Another
<1>2. CASE req'[s] = req[s] /\ ~DeleteCommit(s)
  <2>1. At(s, "commit") /\ req[s].user \in Users
    BY <1>0, <1>2, AtTyped DEF At
  <2>2. PICK g \in Firms \ {req[s].firm} : state[g] = "live" /\ role[g][req[s].user] # "none"
    BY <2>1 DEF Counted, Another
  <2>3. state'[g] = "live" /\ role'[g][req[s].user] # "none"
    BY <1>2, <2>1, <2>2, FirmsLeft
  <2> QED BY <1>2, <2>2, <2>3 DEF Another
<1>3. ASSUME ~Handle(s) PROVE req'[s] = req[s] /\ ~DeleteCommit(s)
  <2>1. ~DeleteCommit(s) /\ ~Restart
    BY <1>0, <1>3 DEF Handle, Restart
  <2>2. ASSUME NEW b \in Slots, Handle(b) PROVE req'[s] = req[s]
    <3>1. PICK n : Turn(b, n)
      BY <2>2, HandleTurn
    <3> QED BY <1>0, <1>3, <2>2, <3>1 DEF Turn
  <2>3. req'[s] = req[s]
    BY <2>1, <2>2 DEF Next, CreateFirm, AcceptInvite, DropInvite, Expire
  <2> QED BY <2>1, <2>3
<1> QED BY <1>1, <1>2, <1>3

\* deleteFirm leaves its caller a firm, whatever other requests, invites and new
\* firms come in between its count and its transaction, if only none of them
\* takes the caller's other firms.
THEOREM LastFirmKept == Spec /\ [][DeletesApart]_vars => KeepsAFirm
<1>1. Init => Counted
  BY DEF Init, Counted, At
<1>2. IInv /\ Counted /\ [Next]_vars /\ [DeletesApart]_vars => Counted'
  <2>1. ASSUME Counted, UNCHANGED vars PROVE Counted'
    BY <2>1 DEF vars, Counted, At, Another
  <2> QED BY <2>1, CountedStep
<1>3. ASSUME IInv, Counted, NEW t \in Slots, DeleteCommit(t) PROVE LiveFirms(req[t].user)' # {}
  <2>0. /\ TypeOK /\ Unborn /\ state \in [Firms -> {"absent", "live", "deleted"}]
        /\ role \in [Firms -> [Users -> {"none"} \cup Roles]]
        /\ req \in [Slots -> {Idle} \cup Request]
    BY <1>3 DEF IInv, TypeOK
  <2>1. At(t, "commit") /\ req[t] \in Request /\ req[t].firm \in Firms /\ Goto(t, "evict")
    BY <1>3, <2>0, AtTyped DEF DeleteCommit
  <2>2. PICK g \in Firms \ {req[t].firm} : state[g] = "live" /\ role[g][req[t].user] # "none"
    BY <1>3, <2>1 DEF Counted, Another
  <2>3. state'[g] = state[g] /\ role'[g] = role[g] /\ req'[t].user = req[t].user
    BY <1>3, <2>0, <2>1, <2>2 DEF DeleteCommit, Goto, Request
  <2> QED BY <2>2, <2>3 DEF LiveFirms
<1>4. IInv /\ Counted /\ [Next]_vars =>
        [\A s \in Slots : DeleteCommit(s) /\ state[req[s].firm] = "live"
           => LiveFirms(req[s].user)' # {}]_vars
  BY <1>3
<1> QED BY <1>1, <1>2, <1>4, Invariance, PTL DEF Spec, KeepsAFirm
=============================================================================
