---------------------------- MODULE AuthSessions ----------------------------
(***************************************************************************)
(* Sessions, refresh-token rotation and the session cache.                 *)
(*                                                                         *)
(* A session is one row of the `sessions' table: it carries exactly one    *)
(* refresh token (refresh_token_hash is unique), so the session id stands  *)
(* for the token.  Requests run in one Node process and interleave at      *)
(* their awaits; what one acquisition of the database lock does (a q, a    *)
(* qOne, a whole tx) is one step, see DbLock.  A step that follows a       *)
(* statement and touches process memory (filling or clearing the session   *)
(* cache) is a step of its own, because another request's continuation may *)
(* run before it.                                                          *)
(***************************************************************************)
EXTENDS Naturals, Sequences, FiniteSets

CONSTANTS
  Users,        \* accounts
  NoUser,       \* "no account", in an idle slot
  Slots,        \* requests in flight at once (bound)
  Ops,          \* the operations this instance lets happen
  MaxSessions,  \* bound on sessions ever created
  MaxTime,      \* bound on the clock
  MaxPassword,  \* bound on password changes
  Grace,        \* REFRESH_REUSE_GRACE_MS
  SessionTtl,   \* SESSION_TTL of the cache
  Life,         \* REFRESH_TOKEN_TTL_SECONDS
  PurgeAge,     \* the purge job's 30 days
  MaxHops       \* the `hops++ < 5' of refresh

ASSUME SessionConstants ==
  /\ NoUser \notin Users
  /\ MaxSessions \in Nat /\ MaxTime \in Nat /\ MaxPassword \in Nat
  /\ IsFiniteSet(Slots)
  /\ Grace \in Nat /\ SessionTtl \in Nat \ {0} /\ Life \in Nat \ {0}
  /\ PurgeAge \in Nat /\ MaxHops \in Nat

VARIABLES
  now,    \* the clock, from 1
  sess,   \* every session row ever inserted, in order of insertion
  rows,   \* the ids of the rows still in the table
  cache,  \* session id -> entry of the in-process TtlCache
  pw,     \* account -> version of its password hash
  req     \* slot -> the request running in it

vars == <<now, sess, rows, cache, pw, req>>

NULL == 0                  \* SQL NULL, for a timestamp or an id
SessionId == 1..MaxSessions
Issued == 1..Len(sess)

\* `pwv' and `login' are history: the password version and the login a
\* session's tokens go back to.  The table stores neither.
Row == [user: Users, login: Nat, pwv: Nat, born: Nat, expires: Nat,
        revoked: Nat, next: Nat]

NoEntry == [until |-> NULL, revoked |-> FALSE]
Entry == [until: Nat, revoked: BOOLEAN]

Idle == [pc |-> "idle", op |-> "none", user |-> NoUser, sid |-> NULL,
         cur |-> NULL, rev |-> NULL, next |-> NULL, hops |-> 0, pwv |-> 0]

AuthOps == {"access", "logoutAll", "changePassword", "revoke"}

Pc == {"idle", "create", "read", "fill", "run", "chase", "rotate", "nuke",
       "evict", "clear"}

Request == [pc: Pc, op: AuthOps \cup {"none", "login", "refresh", "logout", "reset"},
            user: Users \cup {NoUser}, sid: Nat, cur: Nat, rev: Nat,
            next: Nat, hops: Nat, pwv: Nat]

TypeOK ==
  /\ now \in Nat
  /\ sess \in Seq(Row)
  /\ rows \subseteq Issued
  /\ cache \in [SessionId -> Entry]
  /\ pw \in [Users -> Nat]
  /\ req \in [Slots -> Request]

Init ==
  /\ now = 1
  /\ sess = <<>>
  /\ rows = {}
  /\ cache = [s \in SessionId |-> NoEntry]
  /\ pw = [u \in Users |-> 0]
  /\ req = [r \in Slots |-> Idle]

----------------------------------------------------------------------------
(* Helpers: each stands for one SQL statement or one cache call.            *)

Expired(s) == sess[s].expires <= now
Live(s) == s \in rows /\ sess[s].revoked = NULL

Hit(s) == now < cache[s].until
EmptyCache == [s \in SessionId |-> NoEntry]

\* The row createSession inserts.
NewRow(u, l, v) ==
  [user |-> u, login |-> l, pwv |-> v, born |-> now, expires |-> now + Life,
   revoked |-> NULL, next |-> NULL]

\* SET revoked_at = now, and rotateSession's SET revoked_at = now,
\* replaced_by = new.
Revoked(row) == [row EXCEPT !.revoked = now]
Replaced(row, new) == [row EXCEPT !.revoked = now, !.next = new]

\* UPDATE sessions SET revoked_at = now WHERE user_id = u AND id not in keep
\* AND revoked_at IS NULL
RevokeAll(u, keep) ==
  [s \in Issued |->
     IF Live(s) /\ sess[s].user = u /\ s \notin keep
     THEN Revoked(sess[s]) ELSE sess[s]]

Begin(r, op) == req[r].pc = "idle" /\ op \in Ops

Goto(r, pc) == req' = [req EXCEPT ![r].pc = pc]
Finish(r) == req' = [req EXCEPT ![r] = Idle]

\* Sessions the requests in flight may still create: keeps MaxSessions from
\* stopping a request half way.
Creating == {r \in Slots : req[r].pc \in {"create", "chase", "rotate"}}
Room == Len(sess) + Cardinality(Creating) < MaxSessions

----------------------------------------------------------------------------
(* Sign-in (signup and login): the password is verified against the row     *)
(* read here, on the thread pool; the session is inserted later.            *)

LoginRead(r, u) ==
  /\ Begin(r, "login") /\ Room
  /\ req' = [req EXCEPT ![r] =
               [Idle EXCEPT !.pc = "create", !.op = "login", !.user = u, !.pwv = pw[u]]]
  /\ UNCHANGED <<now, sess, rows, cache, pw>>

LoginCreate(r) ==
  LET new == Len(sess) + 1 IN
  /\ req[r].pc = "create"
  /\ sess' = Append(sess, NewRow(req[r].user, new, req[r].pwv))
  /\ rows' = rows \cup {new}
  /\ Finish(r)
  /\ UNCHANGED <<now, cache, pw>>

----------------------------------------------------------------------------
(* authenticate: cache lookup, on a miss the row, then the entry.           *)

Judge(r, q, revoked) ==
  req' = [req EXCEPT ![r] =
            IF revoked \/ Expired(q.sid) THEN Idle
            ELSE [Idle EXCEPT !.pc = "run", !.op = q.op, !.sid = q.sid,
                              !.user = sess[q.sid].user]]

AuthLookup(r, s, op) ==
  LET q == [Idle EXCEPT !.pc = "read", !.op = op, !.sid = s] IN
  /\ Begin(r, op)
  /\ IF Hit(s)
     THEN Judge(r, q, cache[s].revoked) /\ cache' = cache
     ELSE req' = [req EXCEPT ![r] = q] /\ cache' = [cache EXCEPT ![s] = NoEntry]
  /\ UNCHANGED <<now, sess, rows, pw>>

AuthRead(r) ==
  LET s == req[r].sid IN
  /\ req[r].pc = "read"
  /\ req' = [req EXCEPT ![r] =
               IF s \in rows THEN [@ EXCEPT !.pc = "fill", !.rev = sess[s].revoked]
                             ELSE Idle]
  /\ UNCHANGED <<now, sess, rows, cache, pw>>

AuthFill(r) ==
  /\ req[r].pc = "fill"
  /\ cache' = [cache EXCEPT ![req[r].sid] =
                 [until |-> now + SessionTtl, revoked |-> req[r].rev # NULL]]
  /\ Judge(r, req[r], req[r].rev # NULL)
  /\ UNCHANGED <<now, sess, rows, pw>>

----------------------------------------------------------------------------
(* Authenticated handlers.                                                  *)

\* A handler that writes no session: any other route, or changePassword given
\* a wrong current password.
Access(r) ==
  /\ req[r].pc = "run" /\ req[r].op \in {"access", "changePassword"}
  /\ Finish(r)
  /\ UNCHANGED <<now, sess, rows, cache, pw>>

LogoutAll(r) ==
  /\ req[r].pc = "run" /\ req[r].op = "logoutAll"
  /\ sess' = RevokeAll(req[r].user, {})
  /\ Goto(r, "clear")
  /\ UNCHANGED <<now, rows, cache, pw>>

\* The caller's own session survives, and from now on stands for the new
\* password.
ChangePassword(r) ==
  LET u == req[r].user
      s == req[r].sid
      kept == RevokeAll(u, {s}) IN
  /\ req[r].pc = "run" /\ req[r].op = "changePassword"
  /\ pw[u] < MaxPassword
  /\ pw' = [pw EXCEPT ![u] = @ + 1]
  /\ sess' = [kept EXCEPT ![s] = [@ EXCEPT !.pwv = pw[u] + 1]]
  /\ Goto(r, "clear")
  /\ UNCHANGED <<now, rows, cache>>

\* revokeSession has no "AND revoked_at IS NULL": a revoked row is stamped
\* again.  Another account's id matches no row, and is evicted all the same.
RevokeSession(r, s) ==
  /\ req[r].pc = "run" /\ req[r].op = "revoke"
  /\ sess' = IF s \in rows /\ sess[s].user = req[r].user
             THEN [sess EXCEPT ![s] = Revoked(@)] ELSE sess
  /\ req' = [req EXCEPT ![r].pc = "evict", ![r].cur = s]
  /\ UNCHANGED <<now, rows, cache, pw>>

----------------------------------------------------------------------------
(* Handlers that take a refresh token or a mailed code instead of a         *)
(* session.                                                                 *)

Logout(r, s) ==
  /\ Begin(r, "logout")
  /\ sess' = IF Live(s) THEN [sess EXCEPT ![s] = Revoked(@)] ELSE sess
  /\ req' = [req EXCEPT ![r] = [Idle EXCEPT !.pc = "clear", !.op = "logout"]]
  /\ UNCHANGED <<now, rows, cache, pw>>

\* Mutant: the new password is stored, the sessions are left alone.
ResetPassword_KeepSessions(r, u) ==
  /\ Begin(r, "reset") /\ pw[u] < MaxPassword
  /\ pw' = [pw EXCEPT ![u] = @ + 1]
  /\ req' = [req EXCEPT ![r] = [Idle EXCEPT !.pc = "clear", !.op = "reset"]]
  /\ UNCHANGED <<now, sess, rows, cache>>

\* The transaction of resetPassword; the code it consumed is AuthOtp's.
ResetPassword(r, u) ==
  /\ Begin(r, "reset") /\ pw[u] < MaxPassword
  /\ pw' = [pw EXCEPT ![u] = @ + 1]
  /\ sess' = RevokeAll(u, {})
  /\ req' = [req EXCEPT ![r] = [Idle EXCEPT !.pc = "clear", !.op = "reset"]]
  /\ UNCHANGED <<now, rows, cache>>

\* invalidateAllSessions, and invalidateSession of one id.
ClearCache(r) ==
  /\ req[r].pc = "clear"
  /\ cache' = EmptyCache
  /\ Finish(r)
  /\ UNCHANGED <<now, sess, rows, pw>>

\* Mutant: the entry of the session is left.
EvictOne_Leaves(r) ==
  /\ req[r].pc = "evict"
  /\ Finish(r)
  /\ UNCHANGED <<now, sess, rows, cache, pw>>

EvictOne(r) ==
  /\ req[r].pc = "evict"
  /\ cache' = [cache EXCEPT ![req[r].cur] = NoEntry]
  /\ Finish(r)
  /\ UNCHANGED <<now, sess, rows, pw>>

----------------------------------------------------------------------------
(* refresh: the row is copied into the request, and everything after works  *)
(* on the copy.  A token with no row, or a live but expired one, is refused *)
(* without a change.                                                        *)

Copy(q, s) == [q EXCEPT !.cur = s, !.rev = sess[s].revoked, !.next = sess[s].next]

RefreshRead(r, s) ==
  LET q == Copy([Idle EXCEPT !.op = "refresh", !.sid = s, !.user = sess[s].user], s) IN
  /\ Begin(r, "refresh") /\ Room
  /\ s \in rows
  /\ q.rev # NULL \/ ~Expired(s)
  /\ req' = [req EXCEPT ![r] =
               [q EXCEPT !.pc = IF q.rev = NULL THEN "rotate" ELSE "chase"]]
  /\ UNCHANGED <<now, sess, rows, cache, pw>>

\* Mutant: revoked_at read as local time, two ticks east of UTC.
Chasing_LocalTime(q) ==
  /\ q.rev # NULL /\ q.next # NULL
  /\ now + 2 <= q.rev + Grace
  /\ q.hops < MaxHops

\* The condition of the while loop.
Chasing(q) ==
  /\ q.rev # NULL /\ q.next # NULL
  /\ now <= q.rev + Grace
  /\ q.hops < MaxHops

\* Mutant: the loop re-reads the row it is on.
ChaseHop_Stays(r) ==
  LET q == req[r] IN
  /\ q.pc = "chase" /\ Chasing(q) /\ q.next \in rows
  /\ req' = [req EXCEPT ![r] = Copy(q, q.cur)]
  /\ UNCHANGED <<now, sess, rows, cache, pw>>

ChaseHop(r) ==
  LET q == req[r] IN
  /\ q.pc = "chase" /\ Chasing(q) /\ q.next \in rows
  /\ req' = [req EXCEPT ![r] = Copy([q EXCEPT !.hops = @ + 1], q.next)]
  /\ UNCHANGED <<now, sess, rows, cache, pw>>

ChaseEnd(r) ==
  LET q == req[r] IN
  /\ q.pc = "chase" /\ ~(Chasing(q) /\ q.next \in rows)
  /\ Goto(r, IF q.rev = NULL /\ ~Expired(q.cur) THEN "rotate" ELSE "nuke")
  /\ UNCHANGED <<now, sess, rows, cache, pw>>

\* Mutant: replaced_by is written, revoked_at is not.
Rotate_OldStays(r) ==
  LET c == req[r].cur
      new == Len(sess) + 1
      old == IF c \in rows THEN [sess EXCEPT ![c].next = new] ELSE sess IN
  /\ req[r].pc = "rotate"
  /\ sess' = Append(old, NewRow(sess[c].user, sess[c].login, sess[c].pwv))
  /\ rows' = rows \cup {new}
  /\ Goto(r, "evict")
  /\ UNCHANGED <<now, cache, pw>>

\* rotateSession: the new row and the old row's stamp are one transaction,
\* which does not look at revoked_at again.
Rotate(r) ==
  LET c == req[r].cur
      new == Len(sess) + 1
      old == IF c \in rows
             THEN [sess EXCEPT ![c] = Replaced(@, new)] ELSE sess IN
  /\ req[r].pc = "rotate"
  /\ sess' = Append(old, NewRow(sess[c].user, sess[c].login, sess[c].pwv))
  /\ rows' = rows \cup {new}
  /\ Goto(r, "evict")
  /\ UNCHANGED <<now, cache, pw>>

\* A dead token came back: every session of the account goes.
Nuke(r) ==
  /\ req[r].pc = "nuke"
  /\ sess' = RevokeAll(req[r].user, {})
  /\ Goto(r, "clear")
  /\ UNCHANGED <<now, rows, cache, pw>>

----------------------------------------------------------------------------
(* The purge job, a restart of the process, and time.                       *)

Purgeable ==
  {s \in rows : /\ sess[s].expires < now \/ sess[s].revoked # NULL
                /\ sess[s].born + PurgeAge < now}

Purge ==
  /\ "purge" \in Ops /\ Purgeable # {}
  /\ rows' = rows \ Purgeable
  /\ UNCHANGED <<now, sess, cache, pw, req>>

Restart ==
  /\ "restart" \in Ops
  /\ cache' = EmptyCache
  /\ req' = [r \in Slots |-> Idle]
  /\ UNCHANGED <<now, sess, rows, pw>>

\* A continuation that only touches memory runs in the same turn of the
\* event loop as the statement before it: no time passes in between.
InMemory == {"fill", "evict", "clear"}

Tick ==
  /\ now < MaxTime
  /\ \A r \in Slots : req[r].pc \notin InMemory
  /\ now' = now + 1
  /\ UNCHANGED <<sess, rows, cache, pw, req>>

----------------------------------------------------------------------------
\* What the event loop does for a request in flight.
Continue(r) ==
  \/ LoginCreate(r)
  \/ AuthRead(r) \/ AuthFill(r)
  \/ Access(r) \/ LogoutAll(r) \/ ChangePassword(r)
  \/ \E s \in Issued : RevokeSession(r, s)
  \/ ClearCache(r) \/ EvictOne(r)
  \/ ChaseHop(r) \/ ChaseEnd(r) \/ Rotate(r) \/ Nuke(r)

Arrive(r) ==
  \/ \E u \in Users : LoginRead(r, u) \/ ResetPassword(r, u)
  \/ \E s \in Issued : \/ \E op \in AuthOps : AuthLookup(r, s, op)
                       \/ Logout(r, s)
                       \/ RefreshRead(r, s)

Next ==
  \/ \E r \in Slots : Arrive(r) \/ Continue(r)
  \/ Purge
  \/ Restart
  \/ Tick

Spec == Init /\ [][Next]_vars

\* The event loop runs every continuation that is ready; it owes nothing to
\* clients, to the clock's bound or to the purge job.
FairSpec == Spec /\ \A r \in Slots : WF_vars(Continue(r))

----------------------------------------------------------------------------
(* What overlapping requests must not do for the last three properties.     *)

\* A refresh from its first read to the end of the walk and what follows it.
Refreshing(q) == q.pc \in {"chase", "rotate", "nuke"}

\* No two refreshes of one login are under way at once.
RefreshesApart ==
  \A a, b \in Slots :
    /\ Refreshing(req[a]) /\ Refreshing(req[b])
    /\ sess[req[a].sid].login = sess[req[b].sid].login
    => a = b

\* No password changes while a sign-in or a refresh of its account is on its
\* way to inserting a session.
PasswordsApart ==
  \A u \in Users : pw'[u] # pw[u] =>
    \A r \in Slots : ~(req[r].pc \in {"create", "chase", "rotate"} /\ req[r].user = u)

----------------------------------------------------------------------------
(* Properties.                                                              *)

Accepts(r) ==
  /\ req[r].pc \in {"idle", "fill"}
  /\ req'[r].pc = "run"

\* What a request has yet to do in the turn in which it revoked a session.
Dropping(s) == \E r \in Slots : req[r].pc = "clear" \/ (req[r].pc = "evict" /\ req[r].cur = s)

\* "every revocation path clears the entry the moment it revokes, so this never
\* keeps a dead session alive": authenticate lets a revoked session through only
\* while the request that revoked it has yet to drop the entry, or when it had
\* read the row itself before it was revoked, or on an entry that a look-up
\* filled in the very instant of the revocation, after the drop.  The last is
\* not what the comment says; such an entry ends with its TTL.
RevokedSoonRefused ==
  [][\A r \in Slots : Accepts(r) =>
        LET s == req'[r].sid
            at == sess[s].revoked IN
        \/ at = NULL
        \/ at = now /\ (Dropping(s) \/ req[r].pc = "fill")
        \/ cache[s].until = at + SessionTtl /\ Hit(s)]_vars

\* The inductive core of RevokedSoonRefused: an entry that says of a revoked
\* session that it is not is about to be dropped, or was filled in the instant of
\* the revocation; and a copy about to be cached was taken at this instant.
StaleBounded ==
  /\ \A s \in Issued :
       sess[s].revoked # NULL /\ cache[s].until # NULL /\ ~cache[s].revoked =>
         \/ cache[s].until = sess[s].revoked + SessionTtl
         \/ Dropping(s) /\ sess[s].revoked = now
  /\ \A r \in Slots :
       (req[r].pc = "fill" /\ req[r].rev = NULL /\ sess[req[r].sid].revoked # NULL)
          => sess[req[r].sid].revoked = now

\* The rotation chain refresh walks never leads it astray: a replaced session
\* is revoked, and its replacement is a later row of the same account and the
\* same login that existed when the old row was stamped.  Without it the walk
\* could loop, or hand one account another's session.
ChainWellFormed ==
  \A s \in Issued : sess[s].next # NULL =>
    LET n == sess[s].next IN
    /\ sess[s].revoked # NULL
    /\ s < n /\ n \in Issued
    /\ sess[n].user = sess[s].user /\ sess[n].login = sess[s].login
    /\ sess[n].born <= sess[s].revoked

\* A killed session: revoked by something other than a rotation.
Killed(s) == sess[s].revoked # NULL /\ sess[s].next = NULL

\* With refreshes one at a time, one that is retried because its answer was
\* lost never logs the account out: the theft response is reached only by a
\* token superseded more than the grace window ago, by one that was rotated
\* on more than MaxHops times since, or on a chain somebody had ended.
RetryForgiven ==
  \A r \in Slots : req[r].pc = "nuke" =>
    \/ sess[req[r].sid].next # NULL /\ now > sess[sess[req[r].sid].next].born + Grace
    \/ req[r].hops = MaxHops
    \/ \E s \in Issued : sess[s].login = sess[req[r].sid].login /\ Killed(s)

\* "every refresh issues a new refresh token and revokes the old one": however
\* often its client refreshes, a login has at most one session in force.
OneLivePerLogin ==
  \A s, t \in Issued : Live(s) /\ Live(t) /\ sess[s].login = sess[t].login => s = t

\* A session in force goes back to somebody who knew the current password:
\* changePassword and resetPassword leave no session of the old one.
PasswordFence ==
  \A s \in Issued : Live(s) => sess[s].pwv = pw[sess[s].user]

\* Every request is answered: the walk along the chain ends.
Answered == \A r \in Slots : req[r].pc # "idle" ~> req[r].pc = "idle"

=============================================================================
