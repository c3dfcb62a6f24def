-------------------------- MODULE MCFirmMembership --------------------------
(***************************************************************************)
(* FirmMembership for TLC, in three scopes: one firm with two requests in  *)
(* flight that invite, or that patch and remove; two firms with one request*)
(* at a time that may delete one; and two firms with two requests that     *)
(* delete and remove, as far apart as DeletesApart asks.  `part' says      *)
(* which; a behaviour stays in it.  Invites offer the least role, a bound: *)
(* admins are made by patch.                                               *)
(***************************************************************************)
EXTENDS FirmMembership, TLC

VARIABLE part

Changing == {"patch", "remove", "invite"}
Dying    == {"read", "rename", "invite", "delete"}
Leaving  == {"invite", "remove", "delete"}
Every    == Changing \cup Dying

MembersInit == Init /\ part \in {"changing", "dying", "apart"}

Made(st)  == Cardinality({f \in Firms : st[f] # "absent"})
Busy(rq)  == {s \in Slots : rq[s] # Idle}

\* A turn of a request, of those in `ops'; at most n are then in flight.
Turn(ops, n) ==
  \E s \in Slots :
    /\ Cardinality(Busy(req) \cup {s}) <= n /\ Handle(s)
    /\ \A b \in Busy(req') : req'[b].op \in ops /\ (req'[b].op = "invite" => req'[b].to = "member")

\* What needs no slot of its own.
Join == \E u \in Users, f \in Firms : CreateFirm(u, f) \/ AcceptInvite(u, f)

\* An invite or an entry of the cache runs out.
Lapse ==
  \/ \E f \in Firms, u \in Users : DropInvite(f, u)
  \/ \E f \in Firms, k \in Keys : Expire(f, k)

MembersNext ==
  /\ \/ /\ part = "changing"
        /\ \/ Turn({"invite"}, 2) \/ Turn({"patch", "remove"}, 2) \/ Join
           \/ \E f \in Firms, u \in Users : Expire(f, u)
        /\ Made(state') <= 1
     \/ part = "dying" /\ (Turn(Dying, 1) \/ Join \/ Lapse \/ Restart)
     \/ /\ part = "apart"
        /\ Turn(Leaving, 1) \/ Turn({"delete", "remove"}, 2) \/ Join \/ Restart
        /\ Cardinality(Busy(req')) = 2 => \E s \in Busy(req') : req'[s].op = "delete"
        /\ DeletesApart
  /\ UNCHANGED part

MembersSpec == MembersInit /\ [][MembersNext]_<<vars, part>>

Interchangeable == Permutations(Slots) \cup Permutations(Users) \cup Permutations(Firms)
=============================================================================
