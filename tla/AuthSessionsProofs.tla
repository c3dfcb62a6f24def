-------------------------- MODULE AuthSessionsProofs --------------------------
(* What holds of AuthSessions for every number of accounts, requests in       *)
(* flight and sessions, and for every TTL.  A step touches the table in one   *)
(* of four ways (TableStep) and moves one request (RequestStep); every        *)
(* invariant follows from what those two lemmas say.  The last section is     *)
(* about one live session per login, the fence of a password and retries:     *)
(* which requests may overlap for them, login by login, account by account.   *)
EXTENDS AuthSessions, FiniteSetTheorems, SequenceTheorems, TLAPS

\* A request, and what it refers to exists.
Sound(q) ==
  /\ q \in Request
  /\ q.pc \in {"read", "fill", "run", "chase", "rotate"} => q.sid \in Issued
  /\ q.pc \in {"chase", "rotate"} => q.cur \in Issued
  /\ q.pc \in {"create", "run", "chase", "nuke"} => q.user \in Users
  /\ q.pc \in {"read", "fill"} => q.op \in AuthOps

Refs == \A r \in Slots : Sound(req[r])

\* No row is stamped in the future and no entry outlives its TTL.
Clocked ==
  /\ now > 0
  /\ \A s \in Issued : sess[s].born <= now /\ sess[s].revoked <= now
  /\ \A s \in SessionId : cache[s].until <= now + SessionTtl

Capacity == Len(sess) + Cardinality(Creating) <= MaxSessions

IInv == TypeOK /\ Refs /\ Capacity /\ Clocked /\ StaleBounded /\ ChainWellFormed

----------------------------------------------------------------------------
(* The table.                                                               *)

\* What becoming T does to row s: who it belongs to never changes, revoked_at
\* is only ever set to now, replaced_by only to the row just inserted, for the
\* same account and login, together with revoked_at.
RowMoves(T, s) ==
  /\ T[s].user = sess[s].user
  /\ T[s].login = sess[s].login
  /\ T[s].born = sess[s].born
  /\ T[s].revoked # sess[s].revoked => T[s].revoked = now
  /\ T[s].next # sess[s].next =>
       /\ Len(T) = Len(sess) + 1
       /\ T[s].next = Len(T)
       /\ T[s].revoked = now
       /\ T[Len(T)].user = sess[s].user
       /\ T[Len(T)].login = sess[s].login

\* How a step may change the table: it inserts at most one row, in force.
TableMoves(T) ==
  /\ T \in Seq(Row)
  /\ Len(T) = Len(sess) \/ Len(T) = Len(sess) + 1
  /\ \A s \in Issued : RowMoves(T, s)
  /\ Len(T) = Len(sess) + 1 =>
       /\ T[Len(T)].revoked = NULL
       /\ T[Len(T)].next = NULL
       /\ T[Len(T)].born = now

LEMMA RowAt ==
  ASSUME sess \in Seq(Row), NEW s \in Issued PROVE sess[s] \in Row /\ s \in Nat
BY DEF Issued

\* Stamping a row, and writing its replacement or password version, keeps it
\* a row.
LEMMA RowWrites ==
  ASSUME now \in Nat, NEW row \in Row, NEW n \in Nat
  PROVE  /\ Revoked(row) \in Row
         /\ Replaced(row, n) \in Row
         /\ [row EXCEPT !.pwv = n] \in Row
BY DEF Revoked, Replaced, Row

LEMMA NoInsert ==
  ASSUME sess \in Seq(Row), NEW T \in Seq(Row), Len(T) = Len(sess),
         \A s \in Issued : RowMoves(T, s)
  PROVE  TableMoves(T)
BY DEF TableMoves

LEMMA NoWrite == ASSUME sess \in Seq(Row) PROVE TableMoves(sess)
BY NoInsert DEF RowMoves

LEMMA StampMoves ==
  ASSUME sess \in Seq(Row), now \in Nat, NEW T, NEW s \in Issued,
         T[s] = sess[s] \/ T[s] = Revoked(sess[s])
  PROVE  RowMoves(T, s)
BY RowAt DEF RowMoves, Revoked, Row

LEMMA WriteAll ==
  ASSUME sess \in Seq(Row), now \in Nat, NEW u, NEW keep
  PROVE  /\ TableMoves(RevokeAll(u, keep))
         /\ Len(RevokeAll(u, keep)) = Len(sess)
<1> DEFINE T == RevokeAll(u, keep)
<1>1. \A s \in Issued : T[s] = sess[s] \/ T[s] = Revoked(sess[s])
  BY DEF RevokeAll
<1>2. \A s \in Issued : T[s] \in Row
  BY <1>1, RowAt, RowWrites
<1>3. T \in Seq(Row) /\ Len(T) = Len(sess)
  BY <1>2 DEF RevokeAll, Issued
<1> QED BY <1>1, <1>3, StampMoves, NoInsert

LEMMA WriteOne ==
  ASSUME sess \in Seq(Row), now \in Nat, NEW s \in Issued
  PROVE  /\ TableMoves([sess EXCEPT ![s] = Revoked(@)])
         /\ Len([sess EXCEPT ![s] = Revoked(@)]) = Len(sess)
<1> DEFINE T == [sess EXCEPT ![s] = Revoked(@)]
<1>1. Revoked(sess[s]) \in Row
  BY RowAt, RowWrites
<1>2. /\ T \in Seq(Row) /\ Len(T) = Len(sess)
      /\ \A t \in Issued : T[t] = IF t = s THEN Revoked(sess[s]) ELSE sess[t]
  BY <1>1, ExceptSeq DEF Issued
<1> HIDE DEF T
<1>3. TableMoves(T)
  BY <1>2, StampMoves, NoInsert
<1> QED BY <1>2, <1>3 DEF T

\* ChangePassword: WriteAll, and the password version of one row.
LEMMA WriteAllKeep ==
  ASSUME sess \in Seq(Row), now \in Nat, NEW u, NEW s \in Issued, NEW v \in Nat
  PROVE  /\ TableMoves([RevokeAll(u, {s}) EXCEPT ![s] = [@ EXCEPT !.pwv = v]])
         /\ Len([RevokeAll(u, {s}) EXCEPT ![s] = [@ EXCEPT !.pwv = v]]) = Len(sess)
<1> DEFINE K == RevokeAll(u, {s})
           T == [K EXCEPT ![s] = [@ EXCEPT !.pwv = v]]
<1>1. \A t \in Issued : RowMoves(K, t)
  BY WriteAll DEF TableMoves
<1>2. K \in Seq(Row) /\ Len(K) = Len(sess) /\ s \in 1..Len(K)
  BY WriteAll DEF TableMoves, Issued
<1> HIDE DEF K
<1>3. K[s] \in Row /\ [K[s] EXCEPT !.pwv = v] \in Row
  BY <1>2, RowWrites
<1>4. /\ T \in Seq(Row) /\ Len(T) = Len(sess)
      /\ \A t \in Issued : T[t] = IF t = s THEN [K[s] EXCEPT !.pwv = v] ELSE K[t]
  BY <1>2, <1>3, ExceptSeq DEF Issued
<1> HIDE DEF T
<1>5. ASSUME NEW t \in Issued PROVE RowMoves(T, t)
  <2>1. CASE t = s
    <3>1. /\ T[t].user = K[t].user /\ T[t].login = K[t].login /\ T[t].born = K[t].born
          /\ T[t].revoked = K[t].revoked /\ T[t].next = K[t].next
      BY <1>3, <1>4, <2>1 DEF Row
    <3> QED BY <1>1, <1>2, <1>4, <3>1 DEF RowMoves
  <2>2. CASE t # s
    BY <1>1, <1>2, <1>4, <2>2 DEF RowMoves
  <2> QED BY <2>1, <2>2
<1>6. TableMoves(T)
  BY <1>4, <1>5, NoInsert
<1> QED BY <1>4, <1>6 DEF K, T

\* A row createSession inserts is a row.
LEMMA NewRowType ==
  ASSUME SessionConstants, now \in Nat, NEW u \in Users, NEW l \in Nat, NEW v \in Nat
  PROVE  NewRow(u, l, v) \in Row
BY DEF SessionConstants, NewRow, Row, NULL

LEMMA Insert ==
  ASSUME SessionConstants, sess \in Seq(Row), now \in Nat,
         NEW u \in Users, NEW l \in Nat, NEW v \in Nat
  PROVE  /\ TableMoves(Append(sess, NewRow(u, l, v)))
         /\ Len(Append(sess, NewRow(u, l, v))) = Len(sess) + 1
<1> DEFINE row == NewRow(u, l, v)
           T == Append(sess, row)
<1>1. row \in Row
  BY NewRowType
<1>2. row.revoked = NULL /\ row.next = NULL /\ row.born = now
  BY DEF NewRow
<1> HIDE DEF row
<1>3. /\ T \in Seq(Row) /\ Len(T) = Len(sess) + 1
      /\ \A s \in Issued : T[s] = sess[s]
      /\ T[Len(sess) + 1] = row
  BY <1>1, AppendProperties DEF Issued
<1> HIDE DEF T
<1>4. \A s \in Issued : RowMoves(T, s)
  BY <1>3 DEF RowMoves
<1>5. TableMoves(T)
  BY <1>2, <1>3, <1>4 DEF TableMoves
<1> QED BY <1>3, <1>5 DEF T, row

LEMMA Replace ==
  ASSUME SessionConstants, sess \in Seq(Row), now \in Nat, NEW r \in Slots,
         req[r].cur \in Issued, Rotate(r)
  PROVE  TableMoves(sess') /\ Len(sess') = Len(sess) + 1
<1> DEFINE c == req[r].cur
           new == Len(sess) + 1
           old == IF c \in rows THEN [sess EXCEPT ![c] = Replaced(@, new)] ELSE sess
           row == NewRow(sess[c].user, sess[c].login, sess[c].pwv)
           T == Append(old, row)
<1>0. sess' = T
  BY DEF Rotate
<1>1. sess[c] \in Row /\ new \in Nat
  BY RowAt
<1>2. Replaced(sess[c], new) \in Row
  BY <1>1, RowWrites
<1>3. row \in Row
  BY <1>1, NewRowType DEF Row
<1>4. /\ old \in Seq(Row) /\ Len(old) = Len(sess)
      /\ \A s \in Issued : \/ old[s] = sess[s]
                           \/ s = c /\ old[s] = Replaced(sess[c], new)
  <2>1. CASE c \in rows
    BY <1>2, <2>1, ExceptSeq DEF Issued
  <2>2. CASE c \notin rows
    BY <2>2
  <2> QED BY <2>1, <2>2
<1>5. /\ row.revoked = NULL /\ row.next = NULL /\ row.born = now
      /\ row.user = sess[c].user /\ row.login = sess[c].login
  BY DEF NewRow
<1> HIDE DEF old, row
<1>6. /\ T \in Seq(Row) /\ Len(T) = new
      /\ \A s \in Issued : T[s] = old[s]
      /\ T[new] = row
  BY <1>3, <1>4, AppendProperties DEF Issued
<1> HIDE DEF T
<1>7. ASSUME NEW s \in Issued PROVE RowMoves(T, s)
  <2>1. CASE old[s] = sess[s]
    BY <1>6, <2>1 DEF RowMoves
  <2>2. CASE s = c /\ old[s] = Replaced(sess[c], new)
    <3>1. /\ T[s].user = sess[s].user /\ T[s].login = sess[s].login
          /\ T[s].born = sess[s].born
          /\ T[s].revoked = now /\ T[s].next = new
      BY <1>1, <1>6, <2>2 DEF Replaced, Row
    <3> QED BY <1>5, <1>6, <2>2, <3>1 DEF RowMoves
  <2> QED BY <1>4, <2>1, <2>2
<1>8. TableMoves(T)
  BY <1>5, <1>6, <1>7 DEF TableMoves
<1> QED BY <1>0, <1>6, <1>8

\* The lemmas above, over the actions.
LEMMA TableStep ==
  ASSUME SessionConstants, TypeOK, Refs, Next
  PROVE  /\ TableMoves(sess')
         /\ Len(sess') # Len(sess) => \E r \in Slots : LoginCreate(r) \/ Rotate(r)
<1> DEFINE Goal == TableMoves(sess') /\ (Len(sess') # Len(sess) =>
                                           \E r \in Slots : LoginCreate(r) \/ Rotate(r))
<1>0. sess \in Seq(Row) /\ now \in Nat /\ pw \in [Users -> Nat]
  BY DEF TypeOK
<1>1. ASSUME NEW r \in Slots, LoginCreate(r) PROVE Goal
  <2>1. req[r].user \in Users /\ req[r].pwv \in Nat /\ Len(sess) + 1 \in Nat
    BY <1>0, <1>1 DEF LoginCreate, Refs, Sound, Request
  <2> QED BY <1>0, <1>1, <2>1, Insert DEF LoginCreate
<1>2. ASSUME NEW r \in Slots, NEW u \in Users, ResetPassword(r, u) PROVE Goal
  BY <1>0, <1>2, WriteAll DEF ResetPassword
<1>3. ASSUME NEW r \in Slots, LogoutAll(r) \/ Nuke(r) PROVE Goal
  BY <1>0, <1>3, WriteAll DEF LogoutAll, Nuke
<1>4. ASSUME NEW r \in Slots, ChangePassword(r) PROVE Goal
  <2>1. req[r].user \in Users /\ req[r].sid \in Issued
    BY <1>4 DEF ChangePassword, Refs, Sound
  <2>2. pw[req[r].user] + 1 \in Nat
    BY <1>0, <2>1
  <2> QED BY <1>0, <1>4, <2>1, <2>2, WriteAllKeep DEF ChangePassword
<1>5. ASSUME NEW r \in Slots, NEW s \in Issued, RevokeSession(r, s) \/ Logout(r, s) PROVE Goal
  BY <1>0, <1>5, WriteOne, NoWrite DEF RevokeSession, Logout
<1>6. ASSUME NEW r \in Slots, Rotate(r) PROVE Goal
  <2>1. req[r].cur \in Issued
    BY <1>6 DEF Rotate, Refs, Sound
  <2> QED BY <1>0, <1>6, <2>1, Replace
<1>7. UNCHANGED sess => Goal
  BY <1>0, NoWrite
<1> HIDE DEF Goal
<1>8. Goal
  BY <1>1, <1>2, <1>3, <1>4, <1>5, <1>6, <1>7
  DEF Next, Arrive, Continue, LoginRead, AuthLookup, RefreshRead, AuthRead, AuthFill,
      Access, ClearCache, EvictOne, ChaseHop, ChaseEnd, Purge, Restart, Tick
<1> QED BY <1>8 DEF Goal

----------------------------------------------------------------------------
(* The requests.                                                            *)

LEMMA IdleSound == Sound(Idle) /\ Idle.pc = "idle"
BY DEF Sound, Idle, Request, Pc, NULL

\* Writing one or two fields of a request keeps it a request.
LEMMA RequestWrites ==
  ASSUME NEW q \in Request, NEW pc \in Pc, NEW n \in Nat
  PROVE  /\ [q EXCEPT !.pc = pc] \in Request
         /\ [q EXCEPT !.pc = pc, !.cur = n] \in Request
         /\ [q EXCEPT !.pc = pc, !.rev = n] \in Request
         /\ [q EXCEPT !.hops = n] \in Request
<1>1. [q EXCEPT !.pc = pc] \in Request
  BY DEF Request
<1>2. [q EXCEPT !.pc = pc, !.cur = n] \in Request
  BY DEF Request
<1>3. [q EXCEPT !.pc = pc, !.rev = n] \in Request
  BY DEF Request
<1>4. [q EXCEPT !.hops = n] \in Request
  BY DEF Request
<1> QED BY <1>1, <1>2, <1>3, <1>4

LEMMA CopySound ==
  ASSUME sess \in Seq(Row), NEW q \in Request, NEW s \in Issued
  PROVE  /\ Copy(q, s) \in Request
         /\ Copy(q, s).pc = q.pc /\ Copy(q, s).sid = q.sid
         /\ Copy(q, s).user = q.user /\ Copy(q, s).cur = s
<1>1. sess[s].revoked \in Nat /\ sess[s].next \in Nat /\ s \in Nat
  BY RowAt DEF Row
<1> QED BY <1>1 DEF Copy, Request

\* Handing the request to the step that finishes it.
LEMMA Finishing ==
  ASSUME NEW q \in Request, NEW pc \in {"evict", "clear"}, NEW n \in Nat
  PROVE  /\ Sound([q EXCEPT !.pc = pc]) /\ [q EXCEPT !.pc = pc].pc = pc
         /\ Sound([q EXCEPT !.pc = pc, !.cur = n]) /\ [q EXCEPT !.pc = pc, !.cur = n].pc = pc
<1>1. pc \in Pc
  BY DEF Pc
<1>2. [q EXCEPT !.pc = pc] \in Request /\ [q EXCEPT !.pc = pc, !.cur = n] \in Request
  BY <1>1, RequestWrites
<1>3. [q EXCEPT !.pc = pc].pc = pc /\ [q EXCEPT !.pc = pc, !.cur = n].pc = pc
  BY DEF Request
<1>4. Sound([q EXCEPT !.pc = pc]) /\ Sound([q EXCEPT !.pc = pc, !.cur = n])
  BY <1>2, <1>3 DEF Sound
<1> QED BY <1>3, <1>4

\* The verdict of authenticate: the request ends, or its handler runs.
LEMMA Judged ==
  ASSUME sess \in Seq(Row), NEW r \in Slots, NEW q, NEW revoked, Judge(r, q, revoked),
         q.sid \in Issued, q.op \in AuthOps
  PROVE  \E p : /\ Sound(p) /\ req' = [req EXCEPT ![r] = p]
                /\ \/ p.pc = "idle"
                   \/ p.pc = "run" /\ p.sid = q.sid /\ ~revoked
<1> DEFINE p == [Idle EXCEPT !.pc = "run", !.op = q.op, !.sid = q.sid,
                             !.user = sess[q.sid].user]
<1>1. sess[q.sid].user \in Users /\ q.sid \in Nat
  BY RowAt DEF Row
<1>2. Sound(p) /\ p.pc = "run" /\ p.sid = q.sid
  BY <1>1 DEF Sound, Idle, Request, Pc, NULL
<1> HIDE DEF p
<1>3. req' = [req EXCEPT ![r] = Idle] \/ (req' = [req EXCEPT ![r] = p] /\ ~revoked)
  BY DEF Judge, p
<1> QED BY <1>2, <1>3, IdleSound

\* Where a request may have come from, by where it now stands.
Entered(r, q) ==
  /\ q.pc = "fill" => AuthRead(r)
  /\ q.pc \in {"create", "chase", "rotate"} => Room \/ req[r].pc = "chase"
  /\ q.pc = "run" =>
       \/ AuthFill(r) /\ q.sid = req[r].sid /\ req[r].rev = NULL
       \/ /\ Hit(q.sid) /\ ~cache[q.sid].revoked /\ q.sid \in Issued
          /\ UNCHANGED <<now, sess>>

\* Every step but a restart moves at most one request, and leaves it sound.
LEMMA RequestStep ==
  ASSUME SessionConstants, TypeOK, Refs, Next, ~Restart
  PROVE  \/ req' = req
         \/ \E r \in Slots : \E q :
              Sound(q) /\ Entered(r, q) /\ req' = [req EXCEPT ![r] = q]
<1> DEFINE To(r) == \E q : Sound(q) /\ Entered(r, q) /\ req' = [req EXCEPT ![r] = q]
<1>0. /\ sess \in Seq(Row) /\ rows \subseteq Issued /\ pw \in [Users -> Nat]
      /\ \A r \in Slots : Sound(req[r]) /\ req[r] \in Request
  BY DEF TypeOK, Refs
<1>1. ASSUME NEW r \in Slots, NEW u \in Users, LoginRead(r, u) PROVE To(r)
  <2> DEFINE q == [Idle EXCEPT !.pc = "create", !.op = "login", !.user = u, !.pwv = pw[u]]
  <2>1. Sound(q) /\ q.pc = "create"
    BY <1>0 DEF Sound, Idle, Request, Pc, NULL
  <2>2. req' = [req EXCEPT ![r] = q] /\ Room
    BY <1>1 DEF LoginRead
  <2> HIDE DEF q
  <2> QED BY <2>1, <2>2 DEF Entered
<1>2. ASSUME NEW r \in Slots, NEW op \in {"reset", "logout"},
             req' = [req EXCEPT ![r] = [Idle EXCEPT !.pc = "clear", !.op = op]]
      PROVE  To(r)
  <2> DEFINE q == [Idle EXCEPT !.pc = "clear", !.op = op]
  <2>1. Sound(q) /\ q.pc = "clear"
    BY DEF Sound, Idle, Request, Pc, NULL
  <2> HIDE DEF q
  <2> QED BY <1>2, <2>1 DEF Entered, q
<1>3. ASSUME NEW r \in Slots, NEW s \in Issued, NEW op \in AuthOps, AuthLookup(r, s, op)
      PROVE  To(r)
  <2> DEFINE q == [Idle EXCEPT !.pc = "read", !.op = op, !.sid = s]
  <2>1. Sound(q) /\ q.sid = s /\ q.op = op /\ q.pc = "read"
    BY <1>0, RowAt DEF Sound, Idle, Request, Pc, NULL
  <2>2. /\ \/ Judge(r, q, cache[s].revoked) /\ Hit(s)
           \/ req' = [req EXCEPT ![r] = q]
        /\ UNCHANGED <<now, sess>>
    BY <1>3 DEF AuthLookup
  <2> HIDE DEF q
  <2>3. CASE Judge(r, q, cache[s].revoked) /\ Hit(s)
    <3>1. PICK p : /\ Sound(p) /\ req' = [req EXCEPT ![r] = p]
                   /\ \/ p.pc = "idle"
                      \/ p.pc = "run" /\ p.sid = q.sid /\ ~cache[s].revoked
      BY <1>0, <2>1, <2>3, Judged
    <3>2. Entered(r, p)
      BY <2>1, <2>2, <2>3, <3>1 DEF Entered
    <3> QED BY <3>1, <3>2
  <2>4. CASE req' = [req EXCEPT ![r] = q]
    <3>1. Entered(r, q)
      BY <2>1 DEF Entered
    <3> QED BY <2>1, <2>4, <3>1
  <2> QED BY <2>2, <2>3, <2>4
<1>4. ASSUME NEW r \in Slots, NEW s \in Issued, RefreshRead(r, s) PROVE To(r)
  <2> DEFINE q0 == [Idle EXCEPT !.op = "refresh", !.sid = s, !.user = sess[s].user]
             q == Copy(q0, s)
             pc == IF q.rev = NULL THEN "rotate" ELSE "chase"
             p == [q EXCEPT !.pc = pc]
  <2>1. sess[s].user \in Users /\ s \in Nat
    BY <1>0, RowAt DEF Row
  <2>2. q0 \in Request /\ q0.sid = s /\ q0.user \in Users
    BY <2>1 DEF Idle, Request, Pc, NULL
  <2>3. req' = [req EXCEPT ![r] = p] /\ Room
    BY <1>4 DEF RefreshRead
  <2> HIDE DEF q0
  <2>4. q \in Request /\ q.sid = s /\ q.user \in Users /\ q.cur = s
    BY <1>0, <2>2, CopySound
  <2>5. pc \in Pc /\ pc \in {"rotate", "chase"}
    BY DEF Pc
  <2> HIDE DEF q, pc
  <2>6. p \in Request /\ p.pc = pc /\ p.sid = s /\ p.cur = s /\ p.user = q.user
    BY <2>4, <2>5, RequestWrites DEF Request
  <2>7. Sound(p)
    BY <2>4, <2>5, <2>6 DEF Sound
  <2>8. Entered(r, p)
    BY <2>3, <2>5, <2>6 DEF Entered
  <2> QED BY <2>3, <2>7, <2>8
<1>5. ASSUME NEW r \in Slots, Finish(r) PROVE To(r)
  BY <1>5, IdleSound DEF Finish, Entered
<1>6. ASSUME NEW r \in Slots, AuthRead(r) PROVE To(r)
  <2>1. req[r].sid \in Issued /\ sess[req[r].sid].revoked \in Nat /\ "fill" \in Pc
    BY <1>0, <1>6, RowAt DEF AuthRead, Sound, Row, Pc
  <2> DEFINE q == [req[r] EXCEPT !.pc = "fill", !.rev = sess[req[r].sid].revoked]
  <2>2. q \in Request
    BY <1>0, <2>1, RequestWrites
  <2>3. q.pc = "fill" /\ q.sid = req[r].sid /\ q.op = req[r].op
    BY <1>0 DEF Request
  <2>4. req' = [req EXCEPT ![r] = q] \/ req' = [req EXCEPT ![r] = Idle]
    BY <1>6 DEF AuthRead
  <2>5. req[r].op \in AuthOps
    BY <1>0, <1>6 DEF AuthRead, Sound
  <2> HIDE DEF q
  <2>6. Sound(q)
    BY <2>1, <2>2, <2>3, <2>5 DEF Sound
  <2>7. Entered(r, q) /\ Entered(r, Idle)
    BY <1>6, <2>3, IdleSound DEF Entered
  <2> QED BY <2>4, <2>6, <2>7, IdleSound
<1>7. ASSUME NEW r \in Slots, AuthFill(r) PROVE To(r)
  <2>1. req[r].sid \in Issued
    BY <1>0, <1>7 DEF AuthFill, Sound
  <2>2. Judge(r, req[r], req[r].rev # NULL)
    BY <1>7 DEF AuthFill
  <2>3. req[r].op \in AuthOps
    BY <1>0, <1>7 DEF AuthFill, Sound
  <2>4. PICK p : /\ Sound(p) /\ req' = [req EXCEPT ![r] = p]
                 /\ \/ p.pc = "idle"
                    \/ p.pc = "run" /\ p.sid = req[r].sid /\ ~(req[r].rev # NULL)
    BY <1>0, <2>1, <2>2, <2>3, Judged
  <2>5. Entered(r, p)
    BY <1>7, <2>4 DEF Entered
  <2> QED BY <2>4, <2>5
<1>8. ASSUME NEW r \in Slots, Goto(r, "clear") \/ Goto(r, "evict") PROVE To(r)
  <2>1. PICK pc \in {"clear", "evict"} : req' = [req EXCEPT ![r] = [req[r] EXCEPT !.pc = pc]]
    BY <1>8 DEF Goto
  <2> DEFINE q == [req[r] EXCEPT !.pc = pc]
  <2>2. req[r] \in Request /\ 0 \in Nat
    BY <1>0
  <2>3. Sound(q) /\ q.pc = pc
    BY <2>2, Finishing
  <2> HIDE DEF q
  <2>4. Entered(r, q)
    BY <2>3 DEF Entered
  <2> QED BY <2>1, <2>3, <2>4 DEF q
<1>9. ASSUME NEW r \in Slots, NEW s \in Issued, RevokeSession(r, s) PROVE To(r)
  <2>1. s \in Nat
    BY <1>0, RowAt
  <2> DEFINE q == [req[r] EXCEPT !.pc = "evict", !.cur = s]
  <2>2. req' = [req EXCEPT ![r] = q]
    BY <1>9 DEF RevokeSession
  <2>3. Sound(q) /\ q.pc = "evict"
    BY <1>0, <2>1, Finishing
  <2> HIDE DEF q
  <2>4. Entered(r, q)
    BY <2>3 DEF Entered
  <2> QED BY <2>2, <2>3, <2>4
<1>10. ASSUME NEW r \in Slots, ChaseHop(r) PROVE To(r)
  <2> DEFINE q == [req[r] EXCEPT !.hops = @ + 1]
  <2>1. /\ req[r].pc = "chase" /\ req[r].next \in Issued
        /\ req' = [req EXCEPT ![r] = Copy(q, req[r].next)]
    BY <1>0, <1>10 DEF ChaseHop
  <2>2. req[r].hops + 1 \in Nat /\ "chase" \in Pc
    BY <1>0 DEF Request, Pc
  <2>3. /\ q \in Request /\ q.pc = "chase" /\ q.sid \in Issued /\ q.user \in Users
    BY <1>0, <2>1, <2>2, RequestWrites DEF Request, Sound
  <2> HIDE DEF q
  <2>4. Sound(Copy(q, req[r].next)) /\ Copy(q, req[r].next).pc = "chase"
    BY <1>0, <2>1, <2>3, CopySound DEF Sound
  <2>5. Entered(r, Copy(q, req[r].next))
    BY <2>1, <2>4 DEF Entered
  <2> QED BY <2>1, <2>4, <2>5
<1>11. ASSUME NEW r \in Slots, ChaseEnd(r) PROVE To(r)
  <2>1. PICK pc \in {"rotate", "nuke"} : req' = [req EXCEPT ![r] = [req[r] EXCEPT !.pc = pc]]
    BY <1>11 DEF ChaseEnd, Goto
  <2>2. [req[r] EXCEPT !.pc = pc] \in Request
    BY <1>0, RequestWrites DEF Pc
  <2>3. Sound([req[r] EXCEPT !.pc = pc])
    BY <1>0, <1>11, <2>2 DEF ChaseEnd, Sound, Request
  <2>4. Entered(r, [req[r] EXCEPT !.pc = pc])
    <3>1. [req[r] EXCEPT !.pc = pc].pc = pc /\ req[r].pc = "chase"
      BY <1>0, <1>11 DEF ChaseEnd, Request
    <3> QED BY <3>1 DEF Entered
  <2> QED BY <2>1, <2>3, <2>4
<1> HIDE DEF To
<1>12. req' = req \/ \E r \in Slots : To(r)
  BY <1>1, <1>2, <1>3, <1>4, <1>5, <1>6, <1>7, <1>8, <1>9, <1>10, <1>11
  DEF Next, Arrive, Continue, ResetPassword, Logout, LoginCreate, Access, ClearCache,
      EvictOne, LogoutAll, ChangePassword, Nuke, Rotate, Purge, Tick
<1> QED BY <1>12 DEF To

----------------------------------------------------------------------------
(* The invariants.                                                          *)

LEMMA IssuedGrows ==
  ASSUME SessionConstants, TypeOK, Refs, Next
  PROVE  /\ sess' \in Seq(Row)
         /\ Issued \subseteq Issued'
         /\ \A s \in Issued' : s \in Issued \/ (s = Len(sess') /\ Len(sess') = Len(sess) + 1)
<1>1. /\ sess' \in Seq(Row)
      /\ Len(sess') = Len(sess) \/ Len(sess') = Len(sess) + 1
  BY TableStep DEF TableMoves
<1>2. Len(sess) \in Nat /\ Len(sess') \in Nat
  BY <1>1 DEF TypeOK
<1>3. Issued = 1..Len(sess) /\ Issued' = 1..Len(sess')
  BY DEF Issued
<1>4. Issued \subseteq Issued'
  BY <1>1, <1>2, <1>3
<1>5. ASSUME NEW s \in 1..Len(sess'), s \notin 1..Len(sess)
      PROVE  s = Len(sess') /\ Len(sess') = Len(sess) + 1
  BY <1>1, <1>2, <1>5
<1>6. \A s \in 1..Len(sess') :
         s \in 1..Len(sess) \/ (s = Len(sess') /\ Len(sess') = Len(sess) + 1)
  BY <1>5
<1> QED BY <1>1, <1>3, <1>4, <1>6

LEMMA CacheStep ==
  ASSUME SessionConstants, TypeOK, Next, NEW s \in SessionId
  PROVE  \/ cache'[s] = cache[s] \/ cache'[s] = NoEntry
         \/ \E r \in Slots : /\ AuthFill(r) /\ req[r].sid = s
                             /\ cache'[s] = [until |-> now + SessionTtl,
                                             revoked |-> req[r].rev # NULL]
<1>0. cache \in [SessionId -> Entry]
  BY DEF TypeOK
<1>1. ASSUME NEW r \in Slots, AuthFill(r)
      PROVE  \/ cache'[s] = cache[s]
             \/ /\ req[r].sid = s
                /\ cache'[s] = [until |-> now + SessionTtl, revoked |-> req[r].rev # NULL]
  BY <1>0, <1>1 DEF AuthFill
<1>2. ASSUME NEW r \in Slots, NEW t \in Issued, NEW op \in AuthOps, AuthLookup(r, t, op)
      PROVE  cache'[s] = cache[s] \/ cache'[s] = NoEntry
  BY <1>0, <1>2 DEF AuthLookup
<1>3. ASSUME NEW r \in Slots, EvictOne(r) PROVE cache'[s] = cache[s] \/ cache'[s] = NoEntry
  BY <1>0, <1>3 DEF EvictOne
<1>4. cache' = EmptyCache => cache'[s] = NoEntry
  BY DEF EmptyCache
<1>5. cache' = cache => cache'[s] = cache[s]
  OBVIOUS
<1> QED
  BY <1>1, <1>2, <1>3, <1>4, <1>5
  DEF Next, Arrive, Continue, LoginRead, ResetPassword, Logout, RefreshRead, LoginCreate,
      AuthRead, Access, LogoutAll, ChangePassword, RevokeSession, ClearCache, ChaseHop,
      ChaseEnd, Rotate, Nuke, Purge, Restart, Tick

LEMMA NowStep ==
  ASSUME SessionConstants, TypeOK, Next
  PROVE  now' = now \/ Tick
BY DEF Next, Arrive, Continue, LoginRead, ResetPassword, Logout, RefreshRead, LoginCreate,
      AuthLookup, AuthRead, AuthFill, Access, LogoutAll, ChangePassword, RevokeSession,
      ClearCache, EvictOne, ChaseHop, ChaseEnd, Rotate, Nuke, Purge, Restart, Tick

LEMMA Types ==
  ASSUME SessionConstants, TypeOK, Refs, Next PROVE TypeOK'
<1>0. sess \in Seq(Row) /\ rows \subseteq Issued /\ now \in Nat
      /\ pw \in [Users -> Nat] /\ req \in [Slots -> Request] /\ cache \in [SessionId -> Entry]
  BY DEF TypeOK
<1>1. now' \in Nat
  BY <1>0, NowStep DEF Tick
<1>2. sess' \in Seq(Row) /\ Issued \subseteq Issued'
  BY IssuedGrows
<1>3. rows' \subseteq Issued'
  <2>1. ASSUME NEW r \in Slots, LoginCreate(r) \/ Rotate(r) PROVE rows' \subseteq Issued'
    <3>1. Len(sess') = Len(sess) + 1
      <4>1. CASE LoginCreate(r)
        BY <1>0, <4>1, AppendProperties, Insert, NewRowType DEF LoginCreate, Refs, Sound, Request
      <4>2. CASE Rotate(r)
        BY <1>0, <4>2, Replace DEF Rotate, Refs, Sound
      <4> QED BY <2>1, <4>1, <4>2
    <3>2. rows' = rows \cup {Len(sess) + 1}
      BY <2>1 DEF LoginCreate, Rotate
    <3>3. Len(sess) + 1 \in Issued'
      BY <1>0, <3>1 DEF Issued
    <3> QED BY <1>0, <1>2, <3>2, <3>3
  <2>2. rows' \subseteq rows => rows' \subseteq Issued'
    BY <1>0, <1>2
  <2> QED
    BY <2>1, <2>2
    DEF Next, Arrive, Continue, LoginRead, ResetPassword, Logout, RefreshRead,
        AuthLookup, AuthRead, AuthFill, Access, LogoutAll, ChangePassword, RevokeSession,
        ClearCache, EvictOne, ChaseHop, ChaseEnd, Nuke, Purge, Restart, Tick
<1>4. cache' \in [SessionId -> Entry]
  <2>1. NoEntry \in Entry
    BY DEF NoEntry, Entry, NULL
  <2>2. \A b \in BOOLEAN : [until |-> now + SessionTtl, revoked |-> b] \in Entry
    BY <1>0 DEF Entry, SessionConstants
  <2>3. ASSUME NEW r \in Slots, AuthFill(r) PROVE cache' \in [SessionId -> Entry]
    <3>1. [until |-> now + SessionTtl, revoked |-> req[r].rev # NULL] \in Entry
      BY <2>2
    <3> QED BY <1>0, <2>3, <3>1 DEF AuthFill
  <2>4. ASSUME NEW r \in Slots, NEW t \in Issued, NEW op \in AuthOps, AuthLookup(r, t, op)
        PROVE  cache' \in [SessionId -> Entry]
    BY <1>0, <2>1, <2>4 DEF AuthLookup
  <2>5. ASSUME NEW r \in Slots, EvictOne(r) PROVE cache' \in [SessionId -> Entry]
    BY <1>0, <2>1, <2>5 DEF EvictOne
  <2>6. EmptyCache \in [SessionId -> Entry]
    BY <2>1 DEF EmptyCache
  <2> QED
    BY <1>0, <2>3, <2>4, <2>5, <2>6
    DEF Next, Arrive, Continue, LoginRead, ResetPassword, Logout, RefreshRead, LoginCreate,
        AuthRead, Access, LogoutAll, ChangePassword, RevokeSession, ClearCache, ChaseHop,
        ChaseEnd, Rotate, Nuke, Purge, Restart, Tick
<1>5. pw' \in [Users -> Nat]
  <2>1. ASSUME NEW r \in Slots, ChangePassword(r) PROVE pw' \in [Users -> Nat]
    <3>1. req[r].user \in Users
      BY <2>1 DEF ChangePassword, Refs, Sound
    <3> QED BY <1>0, <2>1, <3>1 DEF ChangePassword
  <2>2. ASSUME NEW r \in Slots, NEW u \in Users, ResetPassword(r, u)
        PROVE  pw' \in [Users -> Nat]
    BY <1>0, <2>2 DEF ResetPassword
  <2> QED
    BY <1>0, <2>1, <2>2
    DEF Next, Arrive, Continue, LoginRead, AuthLookup, Logout, RefreshRead, LoginCreate,
        AuthRead, AuthFill, Access, LogoutAll, RevokeSession, ClearCache, EvictOne,
        ChaseHop, ChaseEnd, Rotate, Nuke, Purge, Restart, Tick
<1>6. req' \in [Slots -> Request]
  <2>1. Idle \in Request
    BY IdleSound DEF Sound
  <2>2. CASE Restart
    BY <2>1, <2>2 DEF Restart
  <2>3. CASE ~Restart
    BY <1>0, <2>3, RequestStep DEF Sound
  <2> QED BY <2>2, <2>3
<1> QED BY <1>1, <1>2, <1>3, <1>4, <1>5, <1>6 DEF TypeOK

LEMMA RefsStep ==
  ASSUME SessionConstants, TypeOK, Refs, Next PROVE Refs'
<1>0. req \in [Slots -> Request] /\ Issued \subseteq Issued'
  BY IssuedGrows DEF TypeOK
<1>1. \A r \in Slots : Sound(req'[r])
  <2>1. CASE Restart
    BY <2>1, IdleSound DEF Restart
  <2>2. CASE ~Restart
    BY <1>0, <2>2, RequestStep DEF Refs
  <2> QED BY <2>1, <2>2
<1> QED BY <1>0, <1>1 DEF Refs, Sound

\* A deadline counted from a later instant is no earlier.
LEMMA LaterPlus ==
  ASSUME NEW t \in Nat, NEW u \in Nat, NEW d \in Nat, u >= t PROVE t + d <= u + d
  OBVIOUS

LEMMA ClockedStep ==
  ASSUME SessionConstants, TypeOK, Refs, Clocked, Next PROVE Clocked'
<1>0. /\ now \in Nat /\ now > 0 /\ sess \in Seq(Row) /\ sess' \in Seq(Row)
      /\ cache \in [SessionId -> Entry] /\ SessionTtl \in Nat
  BY IssuedGrows DEF TypeOK, Clocked, SessionConstants
<1>1. now' \in Nat /\ now' >= now
  BY <1>0, NowStep DEF Tick
<1>2. ASSUME NEW s \in Issued' PROVE sess'[s].born <= now' /\ sess'[s].revoked <= now'
  <2>1. TableMoves(sess')
    BY TableStep
  <2>2. CASE s \in Issued
    <3>1. /\ sess'[s].born = sess[s].born
          /\ sess'[s].revoked = sess[s].revoked \/ sess'[s].revoked = now
      BY <2>1, <2>2 DEF TableMoves, RowMoves
    <3>2. /\ sess[s].born \in Nat /\ sess[s].revoked \in Nat
          /\ sess[s].born <= now /\ sess[s].revoked <= now
      BY <1>0, <2>2, RowAt DEF Row, Clocked
    <3> QED BY <1>0, <1>1, <3>1, <3>2
  <2>3. CASE s \notin Issued
    <3>1. s = Len(sess') /\ Len(sess') = Len(sess) + 1
      BY <2>3, IssuedGrows
    <3> QED BY <1>0, <1>1, <2>1, <3>1 DEF TableMoves, NULL
  <2> QED BY <2>2, <2>3
<1>3. ASSUME NEW s \in SessionId PROVE cache'[s].until <= now' + SessionTtl
  <2>1. cache[s].until \in Nat /\ cache[s].until <= now + SessionTtl
    BY <1>0 DEF Entry, Clocked
  <2>2. CASE cache'[s] = cache[s] \/ cache'[s] = NoEntry
    BY <1>0, <1>1, <2>1, <2>2 DEF NoEntry, NULL
  <2>3. CASE \E r \in Slots :
               cache'[s] = [until |-> now + SessionTtl, revoked |-> req[r].rev # NULL]
    <3>1. cache'[s].until = now + SessionTtl
      BY <2>3
    <3>2. now \in Nat /\ SessionTtl \in Nat
      BY <1>0
    <3>3. now + SessionTtl <= now' + SessionTtl
      BY <3>2, <1>1, LaterPlus
    <3> QED BY <3>1, <3>3
  <2> QED BY <2>2, <2>3, CacheStep
<1> QED BY <1>0, <1>1, <1>2, <1>3 DEF Clocked

LEMMA ChainStep ==
  ASSUME SessionConstants, TypeOK, Refs, Clocked, ChainWellFormed, Next
  PROVE  ChainWellFormed'
<1>0. /\ now \in Nat /\ now > 0 /\ sess \in Seq(Row) /\ sess' \in Seq(Row)
      /\ Len(sess) \in Nat /\ TableMoves(sess') /\ Issued \subseteq Issued'
  BY IssuedGrows, TableStep DEF TypeOK, Clocked
<1> SUFFICES ASSUME NEW s \in Issued', sess'[s].next # NULL
             PROVE  /\ sess'[s].revoked # NULL
                    /\ s < sess'[s].next /\ sess'[s].next \in Issued'
                    /\ sess'[sess'[s].next].user = sess'[s].user
                    /\ sess'[sess'[s].next].login = sess'[s].login
                    /\ sess'[sess'[s].next].born <= sess'[s].revoked
  BY DEF ChainWellFormed
<1>1. s \in Issued
  BY <1>0, IssuedGrows DEF TableMoves
<1>2. RowMoves(sess', s) /\ s \in Nat /\ s <= Len(sess)
  BY <1>0, <1>1 DEF TableMoves, Issued
<1>3. CASE sess'[s].next # sess[s].next
  <2>1. /\ Len(sess') = Len(sess) + 1 /\ sess'[s].next = Len(sess')
        /\ sess'[s].revoked = now /\ sess'[Len(sess')].born = now
        /\ sess'[Len(sess')].user = sess'[s].user
        /\ sess'[Len(sess')].login = sess'[s].login
    BY <1>0, <1>2, <1>3 DEF RowMoves, TableMoves
  <2>2. Len(sess') \in Issued'
    BY <1>0, <2>1 DEF Issued
  <2> QED BY <1>0, <1>2, <2>1, <2>2 DEF NULL
<1>4. CASE sess'[s].next = sess[s].next
  <2> DEFINE n == sess[s].next
  <2>1. /\ sess[s].revoked # NULL /\ s < n /\ n \in Issued
        /\ sess[n].user = sess[s].user /\ sess[n].login = sess[s].login
        /\ sess[n].born <= sess[s].revoked
    BY <1>1, <1>4 DEF ChainWellFormed
  <2>2. /\ sess[n].born \in Nat /\ sess[n].born <= now
    BY <1>0, <2>1, RowAt DEF Row, Clocked
  <2>3. /\ sess'[n].user = sess[n].user /\ sess'[n].login = sess[n].login
        /\ sess'[n].born = sess[n].born
    BY <1>0, <2>1 DEF TableMoves, RowMoves
  <2>4. /\ sess'[s].user = sess[s].user /\ sess'[s].login = sess[s].login
        /\ sess'[s].revoked = sess[s].revoked \/ sess'[s].revoked = now
    BY <1>2 DEF RowMoves
  <2> QED BY <1>0, <1>4, <2>1, <2>2, <2>3, <2>4 DEF NULL
<1> QED BY <1>3, <1>4

\* Adding to or taking from a finite set, as the count of creating requests does.
LEMMA Counting ==
  ASSUME NEW S, IsFiniteSet(S), NEW T, NEW r
  PROVE  /\ Cardinality(S) \in Nat
         /\ T \subseteq S \cup {r} => Cardinality(T) \in Nat /\ Cardinality(T) <= Cardinality(S) + 1
         /\ T \subseteq S => Cardinality(T) <= Cardinality(S)
         /\ r \in S /\ T \subseteq S \ {r} => Cardinality(T) + 1 <= Cardinality(S)
<1>1. Cardinality(S) \in Nat
  BY FS_CardinalityType
<1>2. IsFiniteSet(S \cup {r}) /\ Cardinality(S \cup {r}) \in Nat
      /\ Cardinality(S \cup {r}) <= Cardinality(S) + 1
  <2>1. /\ IsFiniteSet(S \cup {r})
        /\ \/ Cardinality(S \cup {r}) = Cardinality(S)
           \/ Cardinality(S \cup {r}) = Cardinality(S) + 1
    BY FS_AddElement
  <2> QED BY <1>1, <2>1
<1>3. T \subseteq S \cup {r} => Cardinality(T) \in Nat /\ Cardinality(T) <= Cardinality(S \cup {r})
  BY <1>2, FS_Subset, FS_CardinalityType
<1>4. T \subseteq S => Cardinality(T) <= Cardinality(S)
  BY FS_Subset
<1>5. ASSUME r \in S, T \subseteq S \ {r} PROVE Cardinality(T) + 1 <= Cardinality(S)
  <2>1. IsFiniteSet(S \ {r}) /\ Cardinality(S \ {r}) = Cardinality(S) - 1
    BY <1>5, FS_RemoveElement
  <2>2. Cardinality(T) <= Cardinality(S \ {r}) /\ Cardinality(T) \in Nat
    BY <1>5, <2>1, FS_Subset, FS_CardinalityType
  <2> QED BY <1>1, <2>1, <2>2
<1> QED BY <1>1, <1>2, <1>3, <1>4, <1>5

LEMMA CapacityStep ==
  ASSUME SessionConstants, TypeOK, Refs, Capacity, Next PROVE Capacity'
<1>0. /\ req \in [Slots -> Request] /\ IsFiniteSet(Slots) /\ MaxSessions \in Nat
      /\ Len(sess) \in Nat /\ Len(sess') \in Nat
  BY IssuedGrows DEF TypeOK, SessionConstants
<1>1. IsFiniteSet(Creating) /\ Cardinality(Creating) \in Nat
  BY <1>0, FS_Subset, FS_CardinalityType DEF Creating
<1>2. Len(sess) + Cardinality(Creating) <= MaxSessions
  BY DEF Capacity
<1>3. CASE Len(sess') # Len(sess)
  <2>1. PICK r \in Slots : LoginCreate(r) \/ Rotate(r)
    BY <1>3, TableStep
  <2>2. r \in Creating
    BY <2>1 DEF LoginCreate, Rotate, Creating
  <2>3. Creating' \subseteq Creating \ {r}
    <3>1. req'[r].pc \in {"idle", "evict"} /\ \A t \in Slots \ {r} : req'[t] = req[t]
      BY <1>0, <2>1 DEF LoginCreate, Rotate, Finish, Goto, Idle, Request
    <3> QED BY <3>1 DEF Creating
  <2>4. Cardinality(Creating') + 1 <= Cardinality(Creating) /\ Cardinality(Creating') \in Nat
    BY <1>1, <2>2, <2>3, Counting
  <2>5. Len(sess') = Len(sess) + 1
    BY <1>3, TableStep DEF TableMoves
  <2> QED BY <1>0, <1>1, <1>2, <2>4, <2>5 DEF Capacity
<1>4. CASE Len(sess') = Len(sess)
  <2>1. Cardinality(Creating') \in Nat /\ Len(sess) + Cardinality(Creating') <= MaxSessions
    <3>1. CASE Creating' \subseteq Creating
      <4>1. Cardinality(Creating') \in Nat /\ Cardinality(Creating') <= Cardinality(Creating)
        BY <1>1, <3>1, Counting
      <4> QED BY <1>0, <1>1, <1>2, <4>1
    <3>2. CASE ~(Creating' \subseteq Creating)
      <4>1. ~Restart /\ req' # req
        BY <3>2 DEF Restart, Creating, Idle
      <4>2w. PICK r \in Slots : \E q : Entered(r, q) /\ req' = [req EXCEPT ![r] = q]
        BY <4>1, RequestStep
      <4>2. PICK q : Entered(r, q) /\ req' = [req EXCEPT ![r] = q]
        BY <4>2w
      <4>3. Creating' \subseteq Creating \cup {r}
        BY <1>0, <4>2 DEF Creating
      <4>4. q.pc \in {"create", "chase", "rotate"} /\ r \notin Creating
        BY <1>0, <3>2, <4>2 DEF Creating
      <4>5. Room
        BY <4>2, <4>4 DEF Entered, Creating
      <4>6. Cardinality(Creating') \in Nat /\ Cardinality(Creating') <= Cardinality(Creating) + 1
        BY <1>1, <4>3, Counting
      <4> QED BY <1>0, <1>1, <4>5, <4>6 DEF Room
    <3> QED BY <3>1, <3>2
  <2> QED BY <1>4, <2>1 DEF Capacity
<1> QED BY <1>3, <1>4

LEMMA WithinBound ==
  ASSUME SessionConstants, TypeOK, Capacity PROVE Issued \subseteq SessionId
<1>1. IsFiniteSet(Creating)
  BY FS_Subset DEF Creating, SessionConstants
<1>2. Cardinality(Creating) \in Nat /\ Len(sess) \in Nat /\ MaxSessions \in Nat
  BY <1>1, FS_CardinalityType DEF TypeOK, SessionConstants
<1>3. Len(sess) <= MaxSessions
  BY <1>2 DEF Capacity
<1> QED BY <1>2, <1>3 DEF Issued, SessionId

\* A request that is about to clear the cache, or to drop the entry of s.
Drops(r, s) == req[r].pc = "clear" \/ (req[r].pc = "evict" /\ req[r].cur = s)

\* Whoever stamps a row has the drop of its entry before it.
LEMMA StampDrops ==
  ASSUME SessionConstants, TypeOK, Refs, Next, NEW s \in Issued, sess'[s].revoked # sess[s].revoked
  PROVE  Dropping(s)'
<1>0. /\ sess \in Seq(Row) /\ req \in [Slots -> Request] /\ now \in Nat
      /\ \A r \in Slots : Sound(req[r])
  BY DEF TypeOK, Refs
<1>1. ASSUME NEW r \in Slots, Drops(r, s)' PROVE Dropping(s)'
  BY <1>1 DEF Drops, Dropping
<1>2. ASSUME NEW r \in Slots, req'[r].pc = "clear" PROVE Dropping(s)'
  BY <1>1, <1>2 DEF Drops
<1>3. ASSUME NEW r \in Slots, LogoutAll(r) \/ ChangePassword(r) \/ Nuke(r) PROVE Dropping(s)'
  <2>1. req'[r].pc = "clear"
    BY <1>0, <1>3 DEF LogoutAll, ChangePassword, Nuke, Goto, Request
  <2> QED BY <1>2, <2>1
<1>4. ASSUME NEW r \in Slots, NEW t \in Issued, Logout(r, t) PROVE Dropping(s)'
  <2>1. req'[r].pc = "clear"
    BY <1>0, <1>4 DEF Logout, Idle
  <2> QED BY <1>2, <2>1
<1>5. ASSUME NEW r \in Slots, NEW u \in Users, ResetPassword(r, u) PROVE Dropping(s)'
  <2>1. req'[r].pc = "clear"
    BY <1>0, <1>5 DEF ResetPassword, Idle
  <2> QED BY <1>2, <2>1
<1>6. ASSUME NEW r \in Slots, NEW t \in Issued, RevokeSession(r, t) PROVE Dropping(s)'
  <2>1. t = s
    BY <1>0, <1>6 DEF RevokeSession, Issued
  <2>2. req'[r].pc = "evict" /\ req'[r].cur = t
    BY <1>0, <1>6 DEF RevokeSession, Request
  <2> QED BY <1>1, <2>1, <2>2 DEF Drops
<1>7. ASSUME NEW r \in Slots, Rotate(r) PROVE Dropping(s)'
  <2> DEFINE c == req[r].cur
  <2>1. req'[r].pc = "evict" /\ req'[r].cur = c
    BY <1>0, <1>7 DEF Rotate, Goto, Request
  <2>2. CASE s = c
    BY <1>1, <2>1, <2>2 DEF Drops
  <2>3. CASE s # c
    <3> DEFINE new == Len(sess) + 1
               old == IF c \in rows THEN [sess EXCEPT ![c] = Replaced(@, new)] ELSE sess
               row == NewRow(sess[c].user, sess[c].login, sess[c].pwv)
    <3>1. c \in Issued /\ sess' = Append(old, row)
      BY <1>0, <1>7 DEF Rotate, Sound
    <3>n. sess[c] \in Row /\ new \in Nat
      BY <1>0, <3>1, RowAt
    <3>2. Replaced(sess[c], new) \in Row /\ row \in Row
      BY <1>0, <3>n, RowWrites, NewRowType DEF Row
    <3>3. old \in Seq(Row) /\ Len(old) = Len(sess) /\ old[s] = sess[s]
      <4>1. CASE c \in rows
        BY <1>0, <2>3, <3>1, <3>2, <4>1, ExceptSeq DEF Issued
      <4>2. CASE c \notin rows
        BY <1>0, <4>2
      <4> QED BY <4>1, <4>2
    <3> HIDE DEF old, row
    <3>4. sess'[s] = sess[s]
      BY <3>1, <3>2, <3>3, AppendProperties DEF Issued
    <3> QED BY <3>4
  <2> QED BY <2>2, <2>3
<1>8. ASSUME NEW r \in Slots, LoginCreate(r) PROVE Dropping(s)'
  <2>1. req[r].user \in Users /\ Len(sess) + 1 \in Nat /\ req[r].pwv \in Nat
    BY <1>0, <1>8 DEF LoginCreate, Sound, Request
  <2>2. NewRow(req[r].user, Len(sess) + 1, req[r].pwv) \in Row
    BY <1>0, <2>1, NewRowType
  <2>3. sess'[s] = sess[s]
    BY <1>0, <1>8, <2>2, AppendProperties DEF LoginCreate, Issued
  <2> QED BY <2>3
<1> QED
  BY <1>3, <1>4, <1>5, <1>6, <1>7, <1>8
  DEF Next, Arrive, Continue, LoginRead, RefreshRead, AuthLookup, AuthRead, AuthFill, Access,
      ClearCache, EvictOne, ChaseHop, ChaseEnd, Purge, Restart, Tick

\* A drop that is due stays due until the entry is gone, and time waits for it.
LEMMA DropsLast ==
  ASSUME SessionConstants, TypeOK, Refs, Next, NEW s \in SessionId, Dropping(s)
  PROVE  now' = now /\ (Dropping(s)' \/ cache'[s] = NoEntry)
<1>0. req \in [Slots -> Request] /\ cache \in [SessionId -> Entry]
  BY DEF TypeOK
<1>1. PICK r \in Slots : Drops(r, s)
  BY DEF Dropping, Drops
<1>2. now' = now
  BY <1>1, NowStep DEF Tick, InMemory, Drops
<1>3. CASE Restart
  BY <1>3 DEF Restart, EmptyCache
<1>4. CASE ~Restart /\ req'[r] = req[r]
  <2>1. Drops(r, s)'
    BY <1>1, <1>4 DEF Drops
  <2> QED BY <1>2, <2>1 DEF Dropping, Drops
<1>5. CASE ~Restart /\ req'[r] # req[r]
  <2>n. req[r].pc \in {"clear", "evict"}
    BY <1>1 DEF Drops
  <2>t. req' # req
    BY <1>5
  <2>o. ASSUME NEW t \in Slots, Arrive(t) \/ Continue(t) PROVE t = r
    <3>1. t # r => req'[r] = req[r]
      BY <1>0, <2>o
      DEF Arrive, Continue, LoginRead, ResetPassword, Logout, RefreshRead, LoginCreate, Judge,
          AuthLookup, AuthRead, AuthFill, Access, LogoutAll, ChangePassword, RevokeSession, Finish, Goto,
          ClearCache, EvictOne, ChaseHop, ChaseEnd, Rotate, Nuke
    <3> QED BY <1>5, <3>1
  <2>p. Arrive(r) \/ Continue(r)
    <3>1. \/ \E t \in Slots : Arrive(t) \/ Continue(t)
          \/ req' = req
      BY <1>5 DEF Next, Purge, Tick
    <3> QED BY <2>t, <2>o, <3>1
  <2>a. ~Arrive(r)
    BY <2>n DEF Arrive, Begin, LoginRead, ResetPassword, Logout, RefreshRead, AuthLookup
  <2>1. ClearCache(r) \/ EvictOne(r)
    BY <2>n, <2>p, <2>a
    DEF Continue, LoginCreate, AuthRead, AuthFill, Access, LogoutAll, ChangePassword, RevokeSession,
        ChaseHop, ChaseEnd, Rotate, Nuke
  <2>2. CASE ClearCache(r)
    BY <2>2, <1>2 DEF ClearCache, EmptyCache
  <2>3. CASE EvictOne(r)
    <3>1. req[r].cur = s
      BY <1>1, <2>3 DEF EvictOne, Drops
    <3> QED BY <1>0, <1>2, <2>3, <3>1 DEF EvictOne
  <2> QED BY <2>1, <2>2, <2>3
<1> QED BY <1>2, <1>3, <1>4, <1>5

LEMMA StaleStep ==
  ASSUME SessionConstants, TypeOK, Refs, Capacity, Clocked, StaleBounded, Next
  PROVE  StaleBounded'
<1>0. /\ now \in Nat /\ now > 0 /\ sess \in Seq(Row) /\ sess' \in Seq(Row)
      /\ SessionTtl \in Nat /\ TableMoves(sess') /\ Issued \subseteq Issued'
      /\ cache \in [SessionId -> Entry] /\ req \in [Slots -> Request]
  BY IssuedGrows, TableStep DEF TypeOK, Clocked, SessionConstants
<1>1. ASSUME NEW s \in Issued, s \in SessionId,
             sess'[s].revoked # NULL, cache'[s].until # NULL, ~cache'[s].revoked
      PROVE  \/ cache'[s].until = sess'[s].revoked + SessionTtl
             \/ Dropping(s)' /\ sess'[s].revoked = now'
  <2>1. CASE sess'[s].revoked # sess[s].revoked
    <3>1. Dropping(s)' /\ sess'[s].revoked = now
      BY <1>0, <1>1, <2>1, StampDrops DEF TableMoves, RowMoves
    <3>2. now' = now
      BY <2>1, NowStep DEF Tick
    <3> QED BY <3>1, <3>2
  <2>2. CASE sess'[s].revoked = sess[s].revoked /\ cache'[s] = cache[s]
    <3>1. \/ cache[s].until = sess[s].revoked + SessionTtl
          \/ Dropping(s) /\ sess[s].revoked = now
      BY <1>1, <2>2 DEF StaleBounded
    <3>2. CASE cache[s].until = sess[s].revoked + SessionTtl
      BY <2>2, <3>2
    <3>3. CASE Dropping(s) /\ sess[s].revoked = now
      <4>1. now' = now /\ (Dropping(s)' \/ cache'[s] = NoEntry)
        BY <1>1, <3>3, DropsLast
      <4>2. cache'[s] # NoEntry
        BY <1>1 DEF NoEntry
      <4> QED BY <2>2, <3>3, <4>1, <4>2
    <3> QED BY <3>1, <3>2, <3>3
  <2>3. CASE cache'[s] = NoEntry
    BY <1>1, <2>3 DEF NoEntry
  <2>4. ASSUME NEW r \in Slots, AuthFill(r), req[r].sid = s,
               cache'[s] = [until |-> now + SessionTtl, revoked |-> req[r].rev # NULL]
        PROVE  cache'[s].until = sess'[s].revoked + SessionTtl
    <3>1. sess' = sess /\ req[r].rev = NULL /\ req[r].pc = "fill"
      <4>1. cache'[s].revoked = (req[r].rev # NULL)
        BY <2>4
      <4>2. req[r].rev = NULL
        BY <1>1, <4>1
      <4> QED BY <2>4, <4>2 DEF AuthFill
    <3>2. sess[s].revoked = now
      BY <1>1, <2>4, <3>1 DEF StaleBounded
    <3> QED BY <1>0, <2>4, <3>1, <3>2
  <2> QED BY <1>1, <2>1, <2>2, <2>3, <2>4, CacheStep
<1>2. ASSUME NEW r \in Slots, req'[r].pc = "fill", req'[r].rev = NULL,
             sess'[req'[r].sid].revoked # NULL
      PROVE  sess'[req'[r].sid].revoked = now'
  <2>1. CASE req'[r] = req[r]
    <3>1. now' = now
      BY <1>2, <2>1, NowStep DEF Tick, InMemory
    <3>2. req[r].sid \in Issued
      BY <1>2, <2>1 DEF Refs, Sound
    <3>3. sess[req[r].sid].revoked # NULL => sess[req[r].sid].revoked = now
      BY <1>2, <2>1 DEF StaleBounded
    <3>4. \/ sess'[req[r].sid].revoked = sess[req[r].sid].revoked
          \/ sess'[req[r].sid].revoked = now
      BY <1>0, <3>2 DEF TableMoves, RowMoves
    <3> QED BY <1>2, <2>1, <3>1, <3>3, <3>4
  <2>2. CASE req'[r] # req[r]
    <3>1. ~Restart /\ req' # req
      BY <1>2, <2>2 DEF Restart, Idle
    <3>2w. PICK t \in Slots : \E q : Entered(t, q) /\ req' = [req EXCEPT ![t] = q]
      BY <3>1, RequestStep
    <3>2. PICK q : Entered(t, q) /\ req' = [req EXCEPT ![t] = q]
      BY <3>2w
    <3>3. t = r /\ req'[r] = q
      BY <1>0, <2>2, <3>2
    <3>4. AuthRead(r)
      BY <1>2, <3>2, <3>3 DEF Entered
    <3>5. /\ sess' = sess
          /\ \/ req'[r] = Idle
             \/ req'[r] = [req[r] EXCEPT !.pc = "fill", !.rev = sess[req[r].sid].revoked]
      BY <1>0, <3>4 DEF AuthRead
    <3> DEFINE p == [req[r] EXCEPT !.pc = "fill", !.rev = sess[req[r].sid].revoked]
    <3>6. req[r] \in Request /\ Idle.pc # "fill"
      BY <1>0 DEF Idle
    <3>7. p.sid = req[r].sid /\ p.rev = sess[req[r].sid].revoked
      BY <3>6 DEF Request
    <3>8. req'[r] = p
      BY <1>2, <3>5, <3>6
    <3> HIDE DEF p
    <3> QED BY <1>2, <3>5, <3>7, <3>8
  <2> QED BY <2>1, <2>2
<1>3. Issued \subseteq SessionId
  BY WithinBound
<1>4. ASSUME NEW s \in Issued', s \notin Issued PROVE sess'[s].revoked = NULL
  BY <1>0, <1>4, IssuedGrows DEF TableMoves
<1>5. \A s \in Issued' : sess'[s].revoked # NULL /\ cache'[s].until # NULL /\ ~cache'[s].revoked
        => \/ cache'[s].until = sess'[s].revoked + SessionTtl
           \/ Dropping(s)' /\ sess'[s].revoked = now'
  BY <1>1, <1>3, <1>4
<1> QED BY <1>2, <1>5 DEF StaleBounded

----------------------------------------------------------------------------
(* The theorems.                                                            *)

LEMMA Initially == ASSUME SessionConstants, Init PROVE IInv
<1>1. TypeOK
  BY DEF Init, TypeOK, Issued, Row, NoEntry, Entry, NULL, Idle, Request, Pc
<1>2. Issued = {}
  BY DEF Init, Issued
<1>3. Refs
  BY IdleSound DEF Init, Refs
<1>4. Creating = {}
  BY DEF Init, Creating, Idle
<1>5. Capacity
  BY <1>4, FS_EmptySet DEF Init, Capacity, SessionConstants
<1>6. Clocked /\ StaleBounded /\ ChainWellFormed
  BY <1>2 DEF Init, Clocked, StaleBounded, ChainWellFormed, NoEntry, NULL, Idle,
              SessionConstants
<1> QED BY <1>1, <1>3, <1>5, <1>6 DEF IInv

LEMMA Stutter == ASSUME IInv, UNCHANGED vars PROVE IInv'
BY DEF IInv, vars, TypeOK, Refs, Sound, Issued, Capacity, Creating, Clocked, StaleBounded, Dropping,
       ChainWellFormed

LEMMA Invariance == Spec => []IInv
<1>1. Init => IInv
  BY SessionConstants, Initially
<1>2. IInv /\ [Next]_vars => IInv'
  BY SessionConstants, Types, RefsStep, CapacityStep, ClockedStep, StaleStep, ChainStep,
     Stutter DEF IInv
<1> QED BY <1>1, <1>2, PTL DEF Spec

\* Every variable keeps its type: in particular the table stays a sequence of
\* well-typed rows through every interleaving of revocations and rotations.
THEOREM TypeCorrect == Spec => []TypeOK
<1>1. IInv => TypeOK
  BY DEF IInv
<1> QED BY <1>1, Invariance, PTL

\* The chain refresh walks stays within one account and one login and moves
\* forward, for any number of rotations, revocations and restarts.
THEOREM ChainsSound == Spec => []ChainWellFormed
<1>1. IInv => ChainWellFormed
  BY DEF IInv
<1> QED BY <1>1, Invariance, PTL

\* Whatever the interleaving of fills and revocations, what the cache says of a
\* revoked session is about to be dropped, or was filled in the instant of the
\* revocation (lib/caches.ts:52-67, plugins/guards.ts:38-61).
THEOREM StalenessBounded == Spec => []StaleBounded
<1>1. IInv => StaleBounded
  BY DEF IInv
<1> QED BY <1>1, Invariance, PTL

\* authenticate accepts a revoked session only before its entry is dropped, on its
\* own read, or within SESSION_TTL on an entry that met the revocation in one instant.
THEOREM RevokedRefused == Spec => RevokedSoonRefused
<1> DEFINE Excused(r, s) ==
             \/ sess[s].revoked = NULL
             \/ sess[s].revoked = now /\ (Dropping(s) \/ req[r].pc = "fill")
             \/ cache[s].until = sess[s].revoked + SessionTtl /\ Hit(s)
           Refused == \A r \in Slots : Accepts(r) => Excused(r, req'[r].sid)
<1>1. ASSUME IInv, Next, NEW r \in Slots, Accepts(r)
      PROVE  Excused(r, req'[r].sid)
  <2> DEFINE s == req'[r].sid
  <2>0. /\ now \in Nat /\ sess \in Seq(Row)
        /\ req \in [Slots -> Request] /\ cache \in [SessionId -> Entry]
    BY <1>1 DEF IInv, TypeOK
  <2>1. ~Restart /\ req' # req /\ req'[r] # req[r]
    BY <1>1 DEF Accepts, Restart, Idle
  <2>2w. PICK t \in Slots : \E q : Entered(t, q) /\ req' = [req EXCEPT ![t] = q]
    BY <1>1, <2>1, SessionConstants, RequestStep DEF IInv
  <2>2. PICK q : Entered(t, q) /\ req' = [req EXCEPT ![t] = q]
    BY <2>2w
  <2>3. t = r /\ q.sid = s /\ q.pc = "run"
    BY <1>1, <2>0, <2>1, <2>2 DEF Accepts
  <2>4. CASE AuthFill(r) /\ q.sid = req[r].sid /\ req[r].rev = NULL
    <3>1. req[r].pc = "fill" /\ (sess[s].revoked # NULL => sess[s].revoked = now)
      BY <1>1, <2>3, <2>4 DEF IInv, StaleBounded, AuthFill
    <3> QED BY <3>1
  <2>5. CASE Hit(q.sid) /\ ~cache[q.sid].revoked /\ q.sid \in Issued
    <3>1. s \in Issued /\ s \in SessionId /\ Hit(s) /\ ~cache[s].revoked
      BY <1>1, <2>3, <2>5, SessionConstants, WithinBound DEF IInv
    <3>2. cache[s].until \in Nat /\ cache[s].until # NULL
      BY <2>0, <3>1 DEF Entry, Hit, NULL
    <3>3. sess[s].revoked # NULL => \/ cache[s].until = sess[s].revoked + SessionTtl
                                    \/ Dropping(s) /\ sess[s].revoked = now
      BY <1>1, <3>1, <3>2 DEF IInv, StaleBounded
    <3> QED BY <3>1, <3>3
  <2> QED BY <2>2, <2>3, <2>4, <2>5 DEF Entered
<1>2. ASSUME UNCHANGED vars PROVE Refused
  BY <1>2 DEF vars, Accepts
<1>3. IInv /\ [Next]_vars => [Refused]_vars
  BY <1>1, <1>2
<1>4. [][Refused]_vars => RevokedSoonRefused
  BY DEF RevokedSoonRefused
<1> QED BY <1>3, <1>4, Invariance, PTL DEF Spec

----------------------------------------------------------------------------
(* Requests that overlap.  Each of the last three properties can only go      *)
(* wrong in one way: two refreshes of one login at once, or a password that   *)
(* changes while a session is on its way in.  What no other request of that   *)
(* login, or account, does is all that is asked; the other requests overlap   *)
(* as they like, and with them the purge and restarts.                        *)

LoginOf(q) == sess[q.sid].login

\* RefreshesApart for the logins of L, PasswordsApart for the accounts of U.
ApartIn(L) ==
  \A a, b \in Slots :
    Refreshing(req[a]) /\ Refreshing(req[b]) /\ LoginOf(req[a]) = LoginOf(req[b])
      /\ LoginOf(req[a]) \in L => a = b

UnchangedIn(U) ==
  \A u \in U : pw'[u] # pw[u] =>
    \A r \in Slots : ~(req[r].pc \in {"create", "chase", "rotate"} /\ req[r].user = u)

\* The properties, for those logins and accounts.
OneLiveIn(L) ==
  \A s, t \in Issued :
    Live(s) /\ Live(t) /\ sess[s].login = sess[t].login /\ sess[s].login \in L => s = t

FenceIn(U) == \A s \in Issued : Live(s) /\ sess[s].user \in U => sess[s].pwv = pw[sess[s].user]

Forgiven(q) ==
  \/ sess[q.sid].next # NULL /\ now > sess[sess[q.sid].next].born + Grace
  \/ q.hops = MaxHops
  \/ \E s \in Issued : sess[s].login = sess[q.sid].login /\ Killed(s)

ForgivenIn(L) == \A r \in Slots : req[r].pc = "nuke" /\ LoginOf(req[r]) \in L => Forgiven(req[r])

\* Rows are inserted in the order of their birth and of their logins, and live
\* as long as each other.
Grown ==
  /\ \A s \in Issued : sess[s].login <= s /\ sess[s].expires = sess[s].born + Life
  /\ \A s, t \in Issued : s <= t => sess[s].born <= sess[t].born

\* What the purge took was old.
Gone == \A s \in Issued : s \notin rows => sess[s].born + PurgeAge < now

\* A request works for the account of its token, on rows of the token's login.
Belongs(q) ==
  /\ q.pc = "run" => q.user = sess[q.sid].user
  /\ Refreshing(q) => q.sid \in Issued /\ q.user = sess[q.sid].user
  /\ q.pc \in {"chase", "rotate"} =>
       sess[q.cur].user = q.user /\ sess[q.cur].login = LoginOf(q)
  /\ q.pc = "chase" /\ q.next # NULL =>
       /\ q.rev # NULL /\ q.next \in Issued /\ q.cur < q.next
       /\ sess[q.next].user = q.user /\ sess[q.next].login = LoginOf(q)
       /\ sess[q.next].born <= q.rev

AllBelong == \A r \in Slots : Belongs(req[r])

\* What needs no assumption about clients.
BaseInv == IInv /\ Grown /\ Gone /\ AllBelong

\* A refresh that has read a row in force, and goes on to rotate it.
Chosen(q) == q.pc = "rotate" \/ (q.pc = "chase" /\ q.rev = NULL)

\* Nothing is in force of c's login but c.
Sole(c) == \A s \in Issued : Live(s) /\ sess[s].login = sess[c].login => s = c
SoleIn(L) == \A r \in Slots : Chosen(req[r]) /\ LoginOf(req[r]) \in L => Sole(req[r].cur)

\* How far a refresh has walked: to the row that replaced its own or a later
\* one, along links that nobody has written since.
Walked(q) ==
  /\ q.rev # NULL /\ q.next = NULL => Killed(q.cur)
  /\ q.hops <= MaxHops
  /\ q.cur = q.sid => q.rev # NULL /\ (q.next # NULL => sess[q.sid].next = q.next)
  /\ q.cur # q.sid => sess[q.sid].next # NULL /\ sess[q.sid].next <= q.cur

WalkedIn(L) == \A r \in Slots : req[r].pc = "chase" /\ LoginOf(req[r]) \in L => Walked(req[r])

\* What is about to be inserted for an account is of its password as it is.
Knows(q) ==
  /\ q.pc = "create" => q.pwv = pw[q.user]
  /\ Chosen(q) => sess[q.cur].pwv = pw[q.user]

KnownIn(U) == \A r \in Slots : req[r].user \in U => Knows(req[r])

\* What a step leaves of a row besides RowMoves: when it expires, and but for
\* changePassword's own session the password it stands for.
LEMMA Lasting ==
  ASSUME SessionConstants, TypeOK, Refs, Next
  PROVE  \A s \in Issued :
           /\ sess'[s].expires = sess[s].expires
           /\ \/ sess'[s].pwv = sess[s].pwv
              \/ \E r \in Slots : ChangePassword(r) /\ req[r].sid = s
<1> DEFINE Same(s) == /\ sess'[s].expires = sess[s].expires
                      /\ \/ sess'[s].pwv = sess[s].pwv
                         \/ \E r \in Slots : ChangePassword(r) /\ req[r].sid = s
           Goal == \A s \in Issued : Same(s)
<1>0. /\ sess \in Seq(Row) /\ now \in Nat /\ pw \in [Users -> Nat]
      /\ \A s \in Issued : sess[s] \in Row
      /\ \A r \in Slots : Sound(req[r])
  BY RowAt DEF TypeOK, Refs
<1>1. ASSUME NEW r \in Slots, LoginCreate(r) PROVE Goal
  <2>1. NewRow(req[r].user, Len(sess) + 1, req[r].pwv) \in Row
    BY <1>0, <1>1, NewRowType DEF LoginCreate, Sound, Request
  <2>2. \A s \in Issued : sess'[s] = sess[s]
    BY <1>0, <1>1, <2>1, AppendProperties DEF LoginCreate, Issued
  <2> QED BY <2>2
<1>2. ASSUME NEW u, NEW keep, sess' = RevokeAll(u, keep) PROVE Goal
  BY <1>0, <1>2 DEF RevokeAll, Revoked, Row
<1>3. ASSUME NEW r \in Slots, ChangePassword(r) PROVE Goal
  <2> DEFINE s == req[r].sid
             K == RevokeAll(req[r].user, {s})
             v == pw[req[r].user] + 1
  <2>1. s \in Issued
    BY <1>0, <1>3 DEF ChangePassword, Sound
  <2>2. K \in Seq(Row) /\ Len(K) = Len(sess) /\ v \in Nat
    BY <1>0, <1>3, WriteAll DEF TableMoves, ChangePassword, Sound
  <2>3. \A t \in Issued : /\ K[t] \in Row
                          /\ K[t].expires = sess[t].expires /\ K[t].pwv = sess[t].pwv
    <3>1. \A t \in Issued : K[t].expires = sess[t].expires /\ K[t].pwv = sess[t].pwv
      BY <1>0 DEF RevokeAll, Revoked, Row
    <3>2. \A t \in Issued : K[t] \in Row
      BY <2>2 DEF Issued
    <3> QED BY <3>1, <3>2
  <2>4. sess' = [K EXCEPT ![s] = [@ EXCEPT !.pwv = v]]
    BY <1>3 DEF ChangePassword
  <2>8. s = req[r].sid
    OBVIOUS
  <2> HIDE DEF K, v, s
  <2>5. [K[s] EXCEPT !.pwv = v] \in Row /\ [K[s] EXCEPT !.pwv = v].expires = K[s].expires
    BY <2>1, <2>2, <2>3, RowWrites DEF Row
  <2>6. \A t \in Issued : sess'[t] = IF t = s THEN [K[s] EXCEPT !.pwv = v] ELSE K[t]
    BY <2>1, <2>2, <2>4, <2>5, ExceptSeq DEF Issued
  <2>7. \A t \in Issued : sess'[t].expires = sess[t].expires
    BY <2>1, <2>3, <2>5, <2>6
  <2>9. \A t \in Issued : t # s => sess'[t].pwv = sess[t].pwv
    BY <2>3, <2>6
  <2> QED BY <1>3, <2>7, <2>8, <2>9
<1>4. ASSUME NEW s \in Issued, sess' = [sess EXCEPT ![s] = Revoked(@)] PROVE Goal
  <2>1. Revoked(sess[s]) \in Row /\ Revoked(sess[s]).expires = sess[s].expires
        /\ Revoked(sess[s]).pwv = sess[s].pwv
    BY <1>0, RowWrites DEF Revoked, Row
  <2>2. \A t \in Issued : sess'[t] = IF t = s THEN Revoked(sess[s]) ELSE sess[t]
    BY <1>0, <1>4, <2>1, ExceptSeq DEF Issued
  <2> QED BY <2>1, <2>2
<1>5. ASSUME NEW r \in Slots, Rotate(r) PROVE Goal
  <2> DEFINE c == req[r].cur
             new == Len(sess) + 1
             old == IF c \in rows THEN [sess EXCEPT ![c] = Replaced(@, new)] ELSE sess
             row == NewRow(sess[c].user, sess[c].login, sess[c].pwv)
  <2>1. c \in Issued /\ new \in Nat /\ sess' = Append(old, row)
    BY <1>0, <1>5 DEF Rotate, Sound
  <2>2. /\ Replaced(sess[c], new) \in Row
        /\ Replaced(sess[c], new).expires = sess[c].expires
        /\ Replaced(sess[c], new).pwv = sess[c].pwv
    BY <1>0, <2>1, RowWrites DEF Replaced, Row
  <2>3. row \in Row
    BY <1>0, <2>1, NewRowType DEF Row
  <2>4. /\ old \in Seq(Row) /\ Len(old) = Len(sess)
        /\ \A s \in Issued : old[s] = sess[s] \/ (s = c /\ old[s] = Replaced(sess[c], new))
    <3>1. CASE c \in rows
      BY <1>0, <2>1, <2>2, <3>1, ExceptSeq DEF Issued
    <3>2. CASE c \notin rows
      BY <1>0, <3>2
    <3> QED BY <3>1, <3>2
  <2> HIDE DEF old, row
  <2>5. \A s \in Issued : sess'[s] = old[s]
    BY <1>0, <2>1, <2>3, <2>4, AppendProperties DEF Issued
  <2> QED BY <2>2, <2>4, <2>5
<1>6. sess' = sess => Goal
  OBVIOUS
<1> HIDE DEF Goal
<1>7. Goal
  BY <1>1, <1>2, <1>3, <1>4, <1>5, <1>6
  DEF Next, Arrive, Continue, LoginRead, AuthLookup, RefreshRead, AuthRead, AuthFill,
      Access, LogoutAll, ResetPassword, RevokeSession, Logout, Nuke, ClearCache, EvictOne,
      ChaseHop, ChaseEnd, Purge, Restart, Tick
<1> QED BY <1>7 DEF Goal

\* What the row of an insert reads.
Reads(row, u, l, v) ==
  /\ row.user = u /\ row.login = l /\ row.pwv = v
  /\ row.born = now /\ row.expires = now + Life

LEMMA NewRowReads == ASSUME NEW u, NEW l, NEW v PROVE Reads(NewRow(u, l, v), u, l, v)
<1> DEFINE e == now + Life
<1>1. NewRow(u, l, v) = [user |-> u, login |-> l, pwv |-> v, born |-> now, expires |-> e,
                         revoked |-> NULL, next |-> NULL]
  BY DEF NewRow
<1> HIDE DEF e
<1>2. /\ NewRow(u, l, v).user = u /\ NewRow(u, l, v).login = l /\ NewRow(u, l, v).pwv = v
      /\ NewRow(u, l, v).born = now /\ NewRow(u, l, v).expires = e
  BY <1>1
<1> QED BY <1>2 DEF Reads, e

\* The row a step inserts, and the row it stamps.
LEMMA NewestRow ==
  ASSUME SessionConstants, TypeOK, Refs, NEW r \in Slots
  PROVE  LET c == req[r].cur
             new == Len(sess) + 1 IN
         /\ LoginCreate(r) =>
              /\ Reads(sess'[new], req[r].user, new, req[r].pwv)
              /\ \A s \in Issued : sess'[s] = sess[s]
         /\ Rotate(r) =>
              /\ c \in Issued
              /\ Reads(sess'[new], sess[c].user, sess[c].login, sess[c].pwv)
              /\ c \in rows => sess'[c].revoked = now
              /\ \A s \in Issued : s # c => sess'[s] = sess[s]
<1> DEFINE c == req[r].cur
           new == Len(sess) + 1
<1>0. sess \in Seq(Row) /\ now \in Nat /\ Sound(req[r])
  BY DEF TypeOK, Refs
<1>1. ASSUME LoginCreate(r)
      PROVE  /\ Reads(sess'[new], req[r].user, new, req[r].pwv)
             /\ \A s \in Issued : sess'[s] = sess[s]
  <2> DEFINE row == NewRow(req[r].user, new, req[r].pwv)
  <2>1. row \in Row
    BY <1>0, <1>1, NewRowType DEF LoginCreate, Sound, Request
  <2>2. sess' = Append(sess, row)
    BY <1>1 DEF LoginCreate
  <2>3. Reads(row, req[r].user, new, req[r].pwv)
    BY NewRowReads
  <2> HIDE DEF row
  <2>4. sess'[new] = row /\ \A s \in Issued : sess'[s] = sess[s]
    BY <1>0, <2>1, <2>2, AppendProperties DEF Issued
  <2> QED BY <2>3, <2>4
<1>2. ASSUME Rotate(r)
      PROVE  /\ c \in Issued
             /\ Reads(sess'[new], sess[c].user, sess[c].login, sess[c].pwv)
             /\ c \in rows => sess'[c].revoked = now
             /\ \A s \in Issued : s # c => sess'[s] = sess[s]
  <2> DEFINE old == IF c \in rows THEN [sess EXCEPT ![c] = Replaced(@, new)] ELSE sess
             row == NewRow(sess[c].user, sess[c].login, sess[c].pwv)
  <2>1. c \in Issued /\ new \in Nat /\ sess' = Append(old, row) /\ sess[c] \in Row
    BY <1>0, <1>2, RowAt DEF Rotate, Sound
  <2>2. Replaced(sess[c], new) \in Row /\ Replaced(sess[c], new).revoked = now
    BY <1>0, <2>1, RowWrites DEF Replaced, Row
  <2>3. row \in Row
    BY <1>0, <2>1, NewRowType DEF Row
  <2>4. /\ old \in Seq(Row) /\ Len(old) = Len(sess)
        /\ c \in rows => old[c] = Replaced(sess[c], new)
        /\ \A s \in Issued : s # c => old[s] = sess[s]
    <3>1. CASE c \in rows
      BY <1>0, <2>1, <2>2, <3>1, ExceptSeq DEF Issued
    <3>2. CASE c \notin rows
      BY <1>0, <3>2
    <3> QED BY <3>1, <3>2
  <2>5. Reads(row, sess[c].user, sess[c].login, sess[c].pwv)
    BY NewRowReads
  <2> HIDE DEF old, row
  <2>6. sess'[new] = row /\ \A s \in Issued : sess'[s] = old[s]
    BY <1>0, <2>1, <2>3, <2>4, AppendProperties DEF Issued
  <2>7. c \in rows => sess'[c].revoked = now
    BY <2>1, <2>2, <2>4, <2>6
  <2> QED BY <2>1, <2>4, <2>5, <2>6, <2>7
<1> QED BY <1>1, <1>2

\* What is in force after a step and is not new was in force before.
LEMMA InForce ==
  ASSUME SessionConstants, TypeOK, Refs, Clocked, Next
  PROVE  \A s \in Issued : Live(s)' => Live(s)
<1>1. /\ TableMoves(sess') /\ rows \subseteq Issued /\ now > 0 /\ now \in Nat
      /\ Len(sess) \in Nat
  BY TableStep DEF Clocked, TypeOK
<1>2. rows' \cap Issued \subseteq rows
  <2>1. Len(sess) + 1 \notin Issued
    BY <1>1 DEF Issued
  <2> QED
    BY <2>1
    DEF Next, Arrive, Continue, LoginRead, AuthLookup, RefreshRead, AuthRead, AuthFill,
        Access, LogoutAll, ResetPassword, RevokeSession, Logout, Nuke, ClearCache, EvictOne,
        ChaseHop, ChaseEnd, Purge, Restart, Tick, LoginCreate, Rotate, ChangePassword
<1>3. \A s \in Issued : sess'[s].revoked = NULL => sess[s].revoked = NULL
  BY <1>1 DEF TableMoves, RowMoves, NULL
<1> QED BY <1>2, <1>3 DEF Live

LEMMA GrownStep ==
  ASSUME SessionConstants, TypeOK, Refs, Clocked, Grown, Next
  PROVE  Grown'
<1>0. /\ TableMoves(sess') /\ Len(sess) \in Nat /\ now \in Nat /\ sess \in Seq(Row)
      /\ sess' \in Seq(Row) /\ Issued = 1..Len(sess) /\ Issued' = 1..Len(sess')
      /\ Life \in Nat
  BY TableStep DEF TypeOK, TableMoves, Issued, SessionConstants
<1>1. \A s \in Issued : /\ sess'[s].login = sess[s].login /\ sess'[s].born = sess[s].born
                        /\ sess'[s].expires = sess[s].expires
                        /\ sess[s].born \in Nat /\ sess[s].born <= now
                        /\ sess[s].login \in Nat
  BY <1>0, Lasting, RowAt DEF TableMoves, RowMoves, Row, Clocked
<1>2. CASE Len(sess') = Len(sess)
  <2>1. Issued' = Issued
    BY <1>0, <1>2
  <2>2. \A s \in Issued' : sess'[s].login <= s /\ sess'[s].expires = sess'[s].born + Life
    BY <1>1, <2>1 DEF Grown
  <2>3. \A s, t \in Issued' : s <= t => sess'[s].born <= sess'[t].born
    BY <1>1, <2>1 DEF Grown
  <2> QED BY <2>2, <2>3 DEF Grown
<1>3. CASE Len(sess') # Len(sess)
  <2> DEFINE new == Len(sess) + 1
  <2>1. /\ Len(sess') = new /\ \A s \in Issued' : s \in Issued \/ s = new
    BY <1>0, <1>3 DEF TableMoves
  <2>2. PICK r \in Slots : LoginCreate(r) \/ Rotate(r)
    BY <1>3, TableStep
  <2>3. /\ sess'[new].born = now /\ sess'[new].expires = now + Life
        /\ sess'[new].login <= new
    <3>1. CASE LoginCreate(r)
      BY <1>0, <3>1, NewestRow DEF Reads
    <3>2. CASE Rotate(r)
      <4> DEFINE c == req[r].cur
      <4>1. c \in Issued /\ Reads(sess'[new], sess[c].user, sess[c].login, sess[c].pwv)
        BY <3>2, NewestRow
      <4>2. sess[c].login <= c /\ c <= Len(sess) /\ sess[c].login \in Nat
        BY <1>0, <1>1, <4>1 DEF Grown
      <4> QED BY <1>0, <4>1, <4>2 DEF Reads
    <3> QED BY <2>2, <3>1, <3>2
  <2>4. new \notin Issued /\ \A s \in Issued : s < new /\ s \in Nat
    BY <1>0
  <2>5. \A s \in Issued' : sess'[s].login <= s /\ sess'[s].expires = sess'[s].born + Life
    BY <1>1, <2>1, <2>3 DEF Grown
  <2>6. ASSUME NEW s \in Issued', NEW t \in Issued', s <= t
        PROVE  sess'[s].born <= sess'[t].born
    <3>1. CASE t \in Issued
      <4>1. s \in Issued
        BY <1>0, <2>1, <2>4, <2>6, <3>1
      <4> QED BY <1>1, <2>6, <3>1, <4>1 DEF Grown
    <3>2. CASE t = new
      BY <1>0, <1>1, <2>1, <2>3, <3>2
    <3> QED BY <2>1, <2>6, <3>1, <3>2
  <2> QED BY <2>5, <2>6 DEF Grown
<1> QED BY <1>2, <1>3

LEMMA GoneStep ==
  ASSUME SessionConstants, TypeOK, Refs, Gone, Next
  PROVE  Gone'
<1>0. /\ TableMoves(sess') /\ Len(sess) \in Nat /\ sess \in Seq(Row) /\ now \in Nat
      /\ Issued = 1..Len(sess) /\ Issued' = 1..Len(sess') /\ PurgeAge \in Nat
      /\ now' \in Nat /\ now' >= now
  BY TableStep, NowStep DEF TypeOK, Issued, SessionConstants, Tick
<1> SUFFICES ASSUME NEW s \in Issued', s \notin rows' PROVE sess'[s].born + PurgeAge < now'
  BY DEF Gone
<1>1. CASE s \notin Issued
  <2>1. Len(sess') # Len(sess) /\ s = Len(sess) + 1
    BY <1>0, <1>1 DEF TableMoves
  <2>2. \E r \in Slots : LoginCreate(r) \/ Rotate(r)
    BY <2>1, TableStep
  <2> QED BY <2>1, <2>2 DEF LoginCreate, Rotate
<1>2. CASE s \in Issued
  <2>1. sess'[s].born = sess[s].born /\ sess[s].born \in Nat
    BY <1>0, <1>2, RowAt DEF TableMoves, RowMoves, Row
  <2>2. CASE s \notin rows
    BY <1>0, <1>2, <2>1, <2>2 DEF Gone
  <2>3. CASE s \in rows
    <3>1. Purge
      BY <2>3
      DEF Next, Arrive, Continue, LoginRead, AuthLookup, RefreshRead, AuthRead, AuthFill,
          Access, LogoutAll, ResetPassword, RevokeSession, Logout, Nuke, ClearCache, EvictOne,
          ChaseHop, ChaseEnd, Restart, Tick, LoginCreate, Rotate, ChangePassword
    <3>2. sess[s].born + PurgeAge < now /\ now' = now
      BY <2>3, <3>1 DEF Purge, Purgeable
    <3> QED BY <2>1, <3>2
  <2> QED BY <2>2, <2>3
<1> QED BY <1>1, <1>2

LEMMA CopyReads ==
  ASSUME NEW q \in Request, NEW s
  PROVE  /\ Copy(q, s).rev = sess[s].revoked /\ Copy(q, s).next = sess[s].next
         /\ Copy(q, s).hops = q.hops
BY DEF Copy, Request

\* How a step moves a request: to where nothing rests on the table, or, with
\* the table as it was, to one of five places.
Resting == {"idle", "read", "fill", "evict", "clear"}

Signs(q) == q.pc = "create" /\ q.pwv = pw[q.user]

Runs(q) == q.pc = "run" /\ q.user = sess[q.sid].user

Holds(q, s) ==
  q.cur = s /\ q.rev = sess[s].revoked /\ q.next = sess[s].next

Opens(q) ==
  /\ q.sid \in rows /\ q.user = sess[q.sid].user /\ q.hops = 0
  /\ Holds(q, q.sid)
  /\ q.pc = IF q.rev = NULL THEN "rotate" ELSE "chase"

Hops(q, p) ==
  /\ q.pc = "chase" /\ Chasing(q) /\ q.next \in rows
  /\ p.pc = "chase" /\ p.sid = q.sid /\ p.user = q.user /\ p.hops = q.hops + 1
  /\ Holds(p, q.next)

Ends(q, p) ==
  /\ q.pc = "chase" /\ ~(Chasing(q) /\ q.next \in rows)
  /\ p.pc = IF q.rev = NULL /\ ~Expired(q.cur) THEN "rotate" ELSE "nuke"
  /\ p.sid = q.sid /\ p.user = q.user /\ p.hops = q.hops
  /\ p.cur = q.cur /\ p.rev = q.rev /\ p.next = q.next

Moves(r) ==
  \/ req'[r].pc \in Resting
  \/ /\ UNCHANGED <<now, sess, rows, pw>>
     /\ \/ Signs(req'[r]) \/ Runs(req'[r]) \/ Opens(req'[r])
        \/ Hops(req[r], req'[r]) \/ Ends(req[r], req'[r])

\* What a slot's own step does to it.
LEMMA OwnStep ==
  ASSUME SessionConstants, TypeOK, Refs, NEW r \in Slots, Arrive(r) \/ Continue(r)
  PROVE  Moves(r)
<1> DEFINE q == req[r]
<1>0. /\ sess \in Seq(Row) /\ rows \subseteq Issued /\ req \in [Slots -> Request]
      /\ \A s \in Issued : sess[s] \in Row /\ s \in Nat
      /\ Sound(q) /\ q \in Request
  BY RowAt DEF TypeOK, Refs
<1>1. ASSUME NEW p, req'[r] = p, p.pc \in Resting PROVE Moves(r)
  BY <1>1 DEF Moves
<1>2. Idle.pc \in Resting
  BY IdleSound DEF Resting
<1>3. CASE LoginCreate(r) \/ Access(r) \/ ClearCache(r) \/ EvictOne(r)
  <2>1. req'[r] = Idle
    BY <1>0, <1>3 DEF LoginCreate, Access, ClearCache, EvictOne, Finish
  <2> QED BY <1>1, <1>2, <2>1
<1>4. ASSUME NEW pc \in {"evict", "clear"}, Goto(r, pc) PROVE Moves(r)
  <2>1. req'[r] = [q EXCEPT !.pc = pc] /\ [q EXCEPT !.pc = pc].pc = pc
    BY <1>0, <1>4 DEF Goto, Request
  <2>2. pc \in Resting
    BY DEF Resting
  <2> QED BY <1>1, <2>1, <2>2
<1>5. CASE LogoutAll(r) \/ ChangePassword(r) \/ Rotate(r) \/ Nuke(r)
  BY <1>4, <1>5 DEF LogoutAll, ChangePassword, Rotate, Nuke
<1>6. ASSUME NEW s \in Issued, RevokeSession(r, s) PROVE Moves(r)
  <2> DEFINE p == [q EXCEPT !.pc = "evict", !.cur = s]
  <2>1. req'[r] = p
    BY <1>0, <1>6 DEF RevokeSession
  <2>2. p.pc \in Resting
    BY <1>0 DEF Request, Resting
  <2> HIDE DEF p
  <2> QED BY <1>1, <2>1, <2>2
<1>7. ASSUME \/ \E s \in Issued : Logout(r, s)
             \/ \E u \in Users : ResetPassword(r, u)
      PROVE  Moves(r)
  <2>1. PICK op : req'[r] = [Idle EXCEPT !.pc = "clear", !.op = op]
    BY <1>0, <1>7 DEF Logout, ResetPassword
  <2>2. [Idle EXCEPT !.pc = "clear", !.op = op].pc \in Resting
    BY DEF Idle, Resting
  <2> QED BY <1>1, <2>1, <2>2
<1>8. CASE AuthRead(r)
  <2> DEFINE p == [q EXCEPT !.pc = "fill", !.rev = sess[q.sid].revoked]
  <2>1. req'[r] = p \/ req'[r] = Idle
    BY <1>0, <1>8 DEF AuthRead
  <2>2. p.pc \in Resting
    BY <1>0 DEF Request, Resting
  <2> HIDE DEF p
  <2> QED BY <1>1, <1>2, <2>1, <2>2
<1>9. ASSUME NEW u \in Users, LoginRead(r, u) PROVE Moves(r)
  <2> DEFINE p == [Idle EXCEPT !.pc = "create", !.op = "login", !.user = u, !.pwv = pw[u]]
  <2>1. p.pc = "create" /\ p.user = u /\ p.pwv = pw[u]
    BY DEF Idle
  <2>2. req'[r] = p /\ UNCHANGED <<now, sess, rows, pw>>
    BY <1>0, <1>9 DEF LoginRead
  <2> HIDE DEF p
  <2> QED BY <2>1, <2>2 DEF Moves, Signs
<1>10. ASSUME NEW p0, NEW gone, Judge(r, p0, gone), UNCHANGED <<now, sess, rows, pw>>
       PROVE  Moves(r)
  <2> DEFINE p == [Idle EXCEPT !.pc = "run", !.op = p0.op, !.sid = p0.sid,
                               !.user = sess[p0.sid].user]
  <2>1. p.pc = "run" /\ p.sid = p0.sid /\ p.user = sess[p0.sid].user
    BY DEF Idle
  <2>2. req'[r] = Idle \/ req'[r] = p
    BY <1>0, <1>10 DEF Judge
  <2> HIDE DEF p
  <2> QED BY <1>1, <1>2, <1>10, <2>1, <2>2 DEF Moves, Runs
<1>11. ASSUME NEW s \in Issued, NEW op \in AuthOps, AuthLookup(r, s, op) PROVE Moves(r)
  <2> DEFINE p == [Idle EXCEPT !.pc = "read", !.op = op, !.sid = s]
  <2>1. p.pc \in Resting
    BY DEF Idle, Resting
  <2>2. /\ Judge(r, p, cache[s].revoked) \/ req' = [req EXCEPT ![r] = p]
        /\ UNCHANGED <<now, sess, rows, pw>>
    BY <1>11 DEF AuthLookup
  <2> HIDE DEF p
  <2>3. CASE Judge(r, p, cache[s].revoked)
    BY <1>10, <2>2, <2>3
  <2>4. CASE req' = [req EXCEPT ![r] = p]
    BY <1>0, <1>1, <2>1, <2>4
  <2> QED BY <2>2, <2>3, <2>4
<1>12. CASE AuthFill(r)
  BY <1>10, <1>12 DEF AuthFill
<1>13. ASSUME NEW s \in Issued, RefreshRead(r, s) PROVE Moves(r)
  <2> DEFINE q0 == [Idle EXCEPT !.op = "refresh", !.sid = s, !.user = sess[s].user]
             c == Copy(q0, s)
             pc == IF c.rev = NULL THEN "rotate" ELSE "chase"
             p == [c EXCEPT !.pc = pc]
  <2>1. sess[s].user \in Users
    BY <1>0 DEF Row
  <2>2. q0 \in Request /\ q0.sid = s /\ q0.hops = 0 /\ q0.user = sess[s].user
    BY <1>0, <2>1 DEF Idle, Request, Pc, NULL
  <2>3. req'[r] = p /\ UNCHANGED <<now, sess, pw, rows>> /\ s \in rows
    BY <1>0, <1>13 DEF RefreshRead
  <2> HIDE DEF q0
  <2>4. /\ c \in Request /\ c.sid = s /\ c.cur = s /\ c.hops = 0
        /\ c.rev = sess[s].revoked /\ c.next = sess[s].next /\ c.user = sess[s].user
    BY <1>0, <2>2, CopySound, CopyReads
  <2> HIDE DEF c
  <2>5. /\ p.pc = pc /\ p.sid = s /\ p.cur = s /\ p.hops = 0
        /\ p.rev = sess[s].revoked /\ p.next = sess[s].next /\ p.user = sess[s].user
    BY <2>4 DEF Request
  <2>6. p.pc = (IF p.rev = NULL THEN "rotate" ELSE "chase")
    BY <2>4, <2>5
  <2> HIDE DEF p
  <2>7. Opens(p)
    BY <2>3, <2>5, <2>6 DEF Opens, Holds
  <2> QED BY <2>3, <2>7 DEF Moves
<1>14. CASE ChaseHop(r)
  <2> DEFINE h == q.hops + 1
             q0 == [q EXCEPT !.hops = h]
             p == Copy(q0, q.next)
  <2>1. /\ q.pc = "chase" /\ Chasing(q) /\ q.next \in rows
        /\ req'[r] = p /\ UNCHANGED <<now, sess, pw, rows>>
    BY <1>0, <1>14 DEF ChaseHop
  <2>2. h \in Nat /\ q.next \in Issued
    BY <1>0, <2>1 DEF Request
  <2>3. h = q.hops + 1
    OBVIOUS
  <2> HIDE DEF h
  <2>4. /\ q0 \in Request /\ q0.hops = h /\ q0.sid = q.sid /\ q0.pc = "chase"
        /\ q0.user = q.user
    BY <1>0, <2>1, <2>2 DEF Request
  <2> HIDE DEF q0
  <2>5. /\ p.pc = "chase" /\ p.sid = q.sid /\ p.cur = q.next /\ p.hops = h
        /\ p.rev = sess[q.next].revoked /\ p.next = sess[q.next].next /\ p.user = q.user
    BY <1>0, <2>2, <2>4, CopySound, CopyReads
  <2> HIDE DEF p
  <2>6. Hops(q, p)
    BY <2>1, <2>3, <2>5 DEF Hops, Holds
  <2> QED BY <2>1, <2>6 DEF Moves
<1>15. CASE ChaseEnd(r)
  <2> DEFINE pc == IF q.rev = NULL /\ ~Expired(q.cur) THEN "rotate" ELSE "nuke"
             p == [q EXCEPT !.pc = pc]
  <2>1. /\ q.pc = "chase" /\ ~(Chasing(q) /\ q.next \in rows)
        /\ req'[r] = p /\ UNCHANGED <<now, sess, pw, rows>>
    BY <1>0, <1>15 DEF ChaseEnd, Goto
  <2>2. /\ p.pc = pc /\ p.sid = q.sid /\ p.cur = q.cur /\ p.rev = q.rev /\ p.next = q.next
        /\ p.hops = q.hops /\ p.user = q.user
    BY <1>0 DEF Request
  <2>3. pc = (IF q.rev = NULL /\ ~Expired(q.cur) THEN "rotate" ELSE "nuke")
    OBVIOUS
  <2> HIDE DEF p, pc
  <2>4. Ends(q, p)
    BY <2>1, <2>2, <2>3 DEF Ends
  <2> QED BY <2>1, <2>4 DEF Moves
<1> QED
  BY <1>3, <1>5, <1>6, <1>7, <1>8, <1>9, <1>11, <1>12, <1>13, <1>14, <1>15
  DEF Arrive, Continue

\* A step of another slot, of the purge job or of the clock leaves it alone.
LEMMA Turn ==
  ASSUME SessionConstants, TypeOK, Refs, Next, NEW r \in Slots
  PROVE  Moves(r) \/ (req'[r] = req[r] /\ ~Rotate(r))
<1>0. req \in [Slots -> Request] /\ req[r] \in Request
  BY DEF TypeOK
<1>1. Rotate(r) => req'[r] # req[r]
  BY <1>0 DEF Rotate, Goto, Request
<1>2. CASE Restart
  BY <1>2, IdleSound DEF Restart, Moves, Resting
<1>3. CASE Purge \/ Tick
  BY <1>1, <1>3 DEF Purge, Tick
<1>4. ASSUME NEW t \in Slots, Arrive(t) \/ Continue(t), t # r PROVE req'[r] = req[r]
  BY <1>0, <1>4
  DEF Arrive, Continue, LoginRead, AuthLookup, Judge, RefreshRead, AuthRead, AuthFill, Access,
      LogoutAll, ChangePassword, RevokeSession, Logout, ResetPassword, Nuke, ClearCache,
      EvictOne, ChaseHop, ChaseEnd, LoginCreate, Rotate, Goto, Finish
<1> QED BY <1>1, <1>2, <1>3, <1>4, OwnStep DEF Next

\* A link is written by the rotation of the row it starts from.
LEMMA NextWritten ==
  ASSUME SessionConstants, TypeOK, Refs, Next, NEW s \in Issued, sess'[s].next # sess[s].next
  PROVE  \E b \in Slots : Rotate(b) /\ req[b].cur = s
<1>1. RowMoves(sess', s) /\ Len(sess) \in Nat
  BY TableStep DEF TableMoves, TypeOK
<1>2. Len(sess') # Len(sess)
  BY <1>1 DEF RowMoves
<1>3. PICK b \in Slots : LoginCreate(b) \/ Rotate(b)
  BY <1>2, TableStep
<1> QED BY <1>3, NewestRow

\* A row keeps whose it is and when it was born.
LEMMA RowsKept ==
  ASSUME SessionConstants, TypeOK, Refs, Next
  PROVE  /\ Issued \subseteq Issued'
         /\ \A s \in Issued : /\ sess'[s].user = sess[s].user /\ sess'[s].login = sess[s].login
                              /\ sess'[s].born = sess[s].born
                              /\ sess'[s].revoked = sess[s].revoked \/ sess'[s].revoked = now
BY IssuedGrows, TableStep DEF TableMoves, RowMoves

LEMMA BelongsStep ==
  ASSUME SessionConstants, TypeOK, Refs, ChainWellFormed, AllBelong, Next
  PROVE  AllBelong'
<1>0. /\ rows \subseteq Issued /\ Issued \subseteq Issued'
      /\ \A s \in Issued : /\ sess'[s].user = sess[s].user /\ sess'[s].login = sess[s].login
                           /\ sess'[s].born = sess[s].born
  BY RowsKept DEF TypeOK
<1> SUFFICES ASSUME NEW r \in Slots PROVE Belongs(req[r])'
  BY DEF AllBelong
<1> DEFINE q == req[r]
           p == req'[r]
<1>1. Belongs(q) /\ Sound(q)
  BY DEF AllBelong, Refs
<1>2. CASE p = q
  BY <1>0, <1>1, <1>2 DEF Belongs, LoginOf, Refreshing, Sound
<1>3. CASE p.pc \in Resting
  BY <1>3 DEF Resting, Belongs, Refreshing
<1> DEFINE Linked(s) == sess[s].next # NULL =>
              /\ sess[s].revoked # NULL /\ s < sess[s].next /\ sess[s].next \in Issued
              /\ sess[sess[s].next].user = sess[s].user
              /\ sess[sess[s].next].login = sess[s].login
              /\ sess[sess[s].next].born <= sess[s].revoked
<1>4. \A s \in Issued : Linked(s)
  BY DEF ChainWellFormed
<1> HIDE DEF Linked
<1>5. ASSUME sess' = sess, Belongs(p) PROVE Belongs(req[r])'
  <2>1. Issued' = Issued
    BY <1>5 DEF Issued
  <2> QED BY <1>5, <2>1 DEF Belongs, LoginOf
<1>6. CASE sess' = sess /\ (Signs(p) \/ Runs(p))
  <2>1. Belongs(p)
    BY <1>6 DEF Signs, Runs, Belongs, Refreshing
  <2> QED BY <1>5, <1>6, <2>1
<1>7. CASE sess' = sess /\ Opens(p)
  <2>1. p.sid \in Issued /\ Linked(p.sid)
    BY <1>0, <1>4, <1>7 DEF Opens
  <2>2. Belongs(p)
    BY <1>7, <2>1 DEF Opens, Holds, Linked, Belongs, LoginOf
  <2> QED BY <1>5, <1>7, <2>2
<1>8. CASE sess' = sess /\ Hops(q, p)
  <2>1. /\ q.next \in Issued /\ Linked(q.next) /\ q.rev # NULL /\ q.next # NULL
        /\ q.sid \in Issued /\ q.user = sess[q.sid].user
        /\ sess[q.next].user = q.user /\ sess[q.next].login = LoginOf(q)
    BY <1>0, <1>1, <1>4, <1>8 DEF Hops, Chasing, Belongs, Refreshing
  <2>2. Belongs(p)
    BY <1>8, <2>1 DEF Hops, Holds, Linked, Belongs, LoginOf
  <2> QED BY <1>5, <1>8, <2>2
<1>9. CASE sess' = sess /\ Ends(q, p)
  <2>1. Belongs(p)
    BY <1>1, <1>9 DEF Ends, Belongs, LoginOf, Refreshing
  <2> QED BY <1>5, <1>9, <2>1
<1> QED BY <1>2, <1>3, <1>6, <1>7, <1>8, <1>9, Turn DEF Moves

LEMMA BaseInvariance == Spec => []BaseInv
<1>1. Init => Grown /\ Gone /\ AllBelong
  BY IdleSound DEF Init, Issued, Grown, Gone, AllBelong, Belongs, Refreshing
<1>2. ASSUME BaseInv, UNCHANGED vars PROVE (Grown /\ Gone /\ AllBelong)'
  BY <1>2
  DEF vars, BaseInv, Grown, Gone, AllBelong, Belongs, Refreshing, LoginOf, Issued
<1>3. BaseInv /\ [Next]_vars => (Grown /\ Gone /\ AllBelong)'
  BY <1>2, SessionConstants, GrownStep, GoneStep, BelongsStep DEF BaseInv, IInv
<1> QED BY <1>1, <1>3, Invariance, PTL DEF Spec, BaseInv

----------------------------------------------------------------------------
(* One login.                                                               *)

\* No row is of a login later than itself.
LEMMA OldLogins ==
  ASSUME sess \in Seq(Row), Grown, NEW s \in Issued
  PROVE  sess[s].login # Len(sess) + 1
<1>1. sess[s].login <= s
  BY DEF Grown
<1>2. sess[s].login \in Nat
  BY RowAt DEF Row
<1>3. s \in Nat /\ s <= Len(sess) /\ Len(sess) \in Nat
  BY DEF Issued
<1> QED BY <1>1, <1>2, <1>3

\* While a refresh is under way and takes no step, and no other of its login
\* is, nobody writes its login's links or inserts a row of its login.
LEMMA Untouched ==
  ASSUME SessionConstants, BaseInv, Next, NEW L, ApartIn(L), NEW r \in Slots,
         Refreshing(req[r]), LoginOf(req[r]) \in L, ~Rotate(r)
  PROVE  /\ \A s \in Issued : sess[s].login = LoginOf(req[r]) => sess'[s].next = sess[s].next
         /\ \A s \in Issued' : s \notin Issued => sess'[s].login # LoginOf(req[r])
<1>0. /\ TypeOK /\ Refs /\ Len(sess) \in Nat /\ Issued = 1..Len(sess) /\ sess \in Seq(Row)
      /\ \A b \in Slots : Belongs(req[b])
  BY DEF BaseInv, IInv, TypeOK, AllBelong, Issued
<1>1. ASSUME NEW b \in Slots, Rotate(b)
      PROVE  /\ req[b].cur \in Issued
             /\ sess[req[b].cur].login = LoginOf(req[b])
             /\ sess[req[b].cur].login # LoginOf(req[r])
  <2>1. Refreshing(req[b]) /\ sess[req[b].cur].login = LoginOf(req[b])
    BY <1>0, <1>1 DEF Rotate, Belongs, Refreshing
  <2>2. req[b].cur \in Issued
    BY <1>0, <1>1, NewestRow
  <2>3. LoginOf(req[b]) # LoginOf(req[r])
    BY <1>1, <2>1 DEF ApartIn
  <2> QED BY <2>1, <2>2, <2>3
<1>2. ASSUME NEW s \in Issued, sess[s].login = LoginOf(req[r])
      PROVE  sess'[s].next = sess[s].next
  BY <1>0, <1>1, <1>2, NextWritten
<1>3. ASSUME NEW s \in Issued', s \notin Issued PROVE sess'[s].login # LoginOf(req[r])
  <2>1. Len(sess') # Len(sess) /\ s = Len(sess) + 1
    BY <1>0, <1>3, IssuedGrows
  <2>2. PICK b \in Slots : LoginCreate(b) \/ Rotate(b)
    BY <1>0, <2>1, TableStep
  <2>3. CASE LoginCreate(b)
    <3>1. sess'[s].login = Len(sess) + 1
      BY <1>0, <2>1, <2>3, NewestRow DEF Reads
    <3>2. req[r].sid \in Issued
      BY <1>0 DEF Belongs
    <3>3. LoginOf(req[r]) # Len(sess) + 1
      BY <1>0, <3>2, OldLogins DEF LoginOf, BaseInv
    <3> QED BY <3>1, <3>3
  <2>4. CASE Rotate(b)
    <3>1. sess'[s].login = sess[req[b].cur].login
      BY <1>0, <2>1, <2>4, NewestRow DEF Reads
    <3> QED BY <1>1, <2>4, <3>1
  <2> QED BY <2>2, <2>3, <2>4
<1> QED BY <1>2, <1>3

\* The row a rotation inserts takes the place of the only one of its login.
LEMMA OneLiveStep ==
  ASSUME SessionConstants, BaseInv, Next, NEW L, OneLiveIn(L), SoleIn(L)
  PROVE  OneLiveIn(L)'
<1>0. /\ TypeOK /\ Refs /\ Clocked /\ TableMoves(sess') /\ Len(sess) \in Nat
      /\ sess \in Seq(Row) /\ now \in Nat /\ now > 0
      /\ Issued = 1..Len(sess) /\ Issued' = 1..Len(sess') /\ rows \subseteq Issued
  BY TableStep DEF BaseInv, IInv, TypeOK, Issued, Clocked
<1>1. \A s \in Issued : sess'[s].login = sess[s].login /\ (Live(s)' => Live(s))
  BY <1>0, InForce DEF TableMoves, RowMoves
<1>2. ASSUME NEW s \in Issued, NEW t \in Issued, Live(s)', Live(t)',
             sess'[s].login = sess'[t].login, sess'[s].login \in L
      PROVE  s = t
  BY <1>1, <1>2 DEF OneLiveIn
<1>3. ASSUME NEW s \in Issued, NEW t \in Issued', t \notin Issued, Live(s)', Live(t)',
             sess'[s].login = sess'[t].login, sess'[s].login \in L
      PROVE  FALSE
  <2>1. Len(sess') # Len(sess) /\ t = Len(sess) + 1
    BY <1>0, <1>3 DEF TableMoves
  <2>2. PICK r \in Slots : LoginCreate(r) \/ Rotate(r)
    BY <1>0, <2>1, TableStep
  <2>3. CASE LoginCreate(r)
    <3>1. sess'[t].login = Len(sess) + 1
      BY <1>0, <2>1, <2>3, NewestRow DEF Reads
    <3>2. sess[s].login # Len(sess) + 1
      BY <1>0, OldLogins DEF BaseInv
    <3> QED BY <1>1, <1>3, <3>1, <3>2
  <2>4. CASE Rotate(r)
    <3> DEFINE c == req[r].cur
    <3>1. c \in Issued /\ sess'[t].login = sess[c].login /\ (c \in rows => sess'[c].revoked = now)
      BY <1>0, <2>1, <2>4, NewestRow DEF Reads
    <3>2. sess[c].login = LoginOf(req[r])
      BY <2>4 DEF BaseInv, AllBelong, Belongs, Rotate
    <3>3. Sole(c)
      BY <1>3, <2>4, <3>1, <3>2 DEF SoleIn, Chosen, Rotate
    <3>4. Live(s) /\ sess[s].login = sess'[s].login /\ sess'[s].revoked = NULL
      BY <1>1, <1>3 DEF Live
    <3>5. s = c
      BY <1>3, <3>1, <3>3, <3>4 DEF Sole
    <3> QED BY <1>0, <3>1, <3>4, <3>5 DEF Live, NULL
  <2> QED BY <2>2, <2>3, <2>4
<1>4. \A s, t \in Issued' : s \notin Issued /\ t \notin Issued => s = t
  BY <1>0 DEF TableMoves
<1>5. ASSUME NEW s \in Issued', NEW t \in Issued', Live(s)', Live(t)',
             sess'[s].login = sess'[t].login, sess'[s].login \in L
      PROVE  s = t
  BY <1>2, <1>3, <1>4, <1>5
<1> QED BY <1>5 DEF OneLiveIn

\* The token of a refresh keeps its login.
LEMMA LoginKept ==
  ASSUME SessionConstants, BaseInv, Next, NEW r \in Slots, Refreshing(req[r])
  PROVE  \A p : p.sid = req[r].sid => LoginOf(p)' = LoginOf(req[r])
<1>1. req[r].sid \in Issued /\ TypeOK /\ Refs
  BY DEF BaseInv, IInv, AllBelong, Belongs
<1> QED BY <1>1, RowsKept DEF LoginOf

LEMMA SoleStep ==
  ASSUME SessionConstants, BaseInv, Next, NEW L, ApartIn(L), OneLiveIn(L), SoleIn(L)
  PROVE  SoleIn(L)'
<1>0. TypeOK /\ Refs /\ Clocked /\ rows \subseteq Issued
  BY DEF BaseInv, IInv, TypeOK
<1> SUFFICES ASSUME NEW r \in Slots, Chosen(req'[r]), LoginOf(req[r])' \in L
             PROVE  Sole(req[r].cur)'
  BY DEF SoleIn, Chosen
<1> DEFINE q == req[r]
           p == req'[r]
<1>1. Belongs(q) /\ Sound(q)
  BY <1>0 DEF BaseInv, AllBelong, Refs
<1>2. ASSUME NEW s \in rows, sess[s].revoked = NULL, sess[s].login \in L PROVE Sole(s)
  BY <1>0, <1>2 DEF OneLiveIn, Sole, Live
<1>3. ASSUME UNCHANGED <<sess, rows>>, Sole(p.cur) PROVE Sole(req[r].cur)'
  <2>1. Issued' = Issued
    BY <1>3 DEF Issued
  <2> QED BY <1>3, <2>1 DEF Sole, Live
<1>4. ~(p.pc \in Resting) /\ ~Signs(p) /\ ~Runs(p)
  BY DEF Chosen, Resting, Signs, Runs
<1>5. CASE UNCHANGED <<sess, rows>> /\ Opens(p)
  <2>1. p.rev = NULL /\ p.cur = p.sid /\ p.sid \in rows /\ sess[p.sid].revoked = NULL
    BY <1>5 DEF Opens, Holds, Chosen
  <2>2. sess[p.sid].login \in L
    BY <1>5 DEF LoginOf
  <2> QED BY <1>2, <1>3, <1>5, <2>1, <2>2
<1>6. CASE UNCHANGED <<sess, rows>> /\ Hops(q, p)
  <2>1. p.rev = NULL /\ p.cur = q.next /\ q.next \in rows /\ sess[q.next].revoked = NULL
    BY <1>6 DEF Hops, Holds, Chosen
  <2>2. q.pc = "chase" /\ q.next # NULL /\ p.sid = q.sid
    BY <1>6 DEF Hops, Chasing
  <2>3. sess[q.next].login = LoginOf(q)
    BY <1>1, <2>2 DEF Belongs
  <2>4. sess[q.next].login \in L
    BY <1>6, <2>2, <2>3 DEF LoginOf
  <2> QED BY <1>2, <1>3, <1>6, <2>1, <2>4
<1>7. CASE UNCHANGED <<sess, rows>> /\ Ends(q, p)
  <2>1. Chosen(q) /\ p.cur = q.cur /\ LoginOf(q) \in L
    BY <1>7 DEF Ends, Chosen, LoginOf
  <2> QED BY <1>3, <1>7, <2>1 DEF SoleIn
<1>8. CASE p = q /\ ~Rotate(r)
  <2>1. Refreshing(q) /\ Chosen(q) /\ q.cur \in Issued /\ sess[q.cur].login = LoginOf(q)
    BY <1>1, <1>8 DEF Chosen, Refreshing, Belongs, Sound
  <2>2. LoginOf(q) \in L
    BY <1>8, <2>1, LoginKept
  <2>3. Sole(q.cur)
    BY <2>1, <2>2 DEF SoleIn
  <2>4. \A s \in Issued' : s \notin Issued => sess'[s].login # LoginOf(q)
    BY <1>8, <2>1, <2>2, Untouched
  <2>5. \A s \in Issued : sess'[s].login = sess[s].login /\ (Live(s)' => Live(s))
    BY <1>0, RowsKept, InForce
  <2>6. ASSUME NEW s \in Issued', Live(s)', sess'[s].login = sess'[q.cur].login PROVE s = q.cur
    BY <2>1, <2>3, <2>4, <2>5, <2>6 DEF Sole
  <2> QED BY <1>8, <2>6 DEF Sole
<1> QED BY <1>0, <1>4, <1>5, <1>6, <1>7, <1>8, Turn DEF Moves

LEMMA WalkedStep ==
  ASSUME SessionConstants, BaseInv, Next, NEW L, ApartIn(L), WalkedIn(L)
  PROVE  WalkedIn(L)'
<1>0. /\ TypeOK /\ Refs /\ rows \subseteq Issued /\ MaxHops \in Nat /\ now \in Nat /\ now > 0
      /\ \A s \in Issued : s \in Nat /\ sess[s] \in Row
      /\ \A s \in Issued : sess[s].next # NULL => s < sess[s].next /\ sess[s].next \in Issued
  BY RowAt DEF BaseInv, IInv, TypeOK, SessionConstants, Clocked, ChainWellFormed
<1> SUFFICES ASSUME NEW r \in Slots, req'[r].pc = "chase", LoginOf(req[r])' \in L
             PROVE  Walked(req[r])'
  BY DEF WalkedIn
<1> DEFINE q == req[r]
           p == req'[r]
<1>1. Belongs(q) /\ Sound(q) /\ q \in Request
  BY <1>0 DEF BaseInv, AllBelong, Refs, Sound
<1>2. ASSUME sess' = sess, Walked(p) PROVE Walked(req[r])'
  BY <1>2 DEF Walked, Killed
<1>3. ~(p.pc \in Resting) /\ ~Signs(p) /\ ~Runs(p) /\ ~Ends(q, p)
  BY DEF Resting, Signs, Runs, Ends
<1>4. CASE sess' = sess /\ Opens(p)
  <2>1. Walked(p)
    BY <1>0, <1>4 DEF Opens, Holds, Walked, Killed
  <2> QED BY <1>2, <1>4, <2>1
<1>5. CASE sess' = sess /\ Hops(q, p)
  <2> DEFINE n == q.next
  <2>1. /\ q.pc = "chase" /\ n # NULL /\ q.hops < MaxHops /\ n \in rows
        /\ p.sid = q.sid /\ p.cur = n /\ p.hops = q.hops + 1
        /\ p.rev = sess[n].revoked /\ p.next = sess[n].next
    BY <1>5 DEF Hops, Holds, Chasing
  <2>2. /\ q.cur \in Issued /\ q.sid \in Issued /\ n \in Issued /\ q.cur < n /\ q.hops \in Nat
    BY <1>0, <1>1, <2>1 DEF Sound, Belongs, Request
  <2>3. Walked(q)
    <3>1. LoginOf(q) \in L
      BY <1>5, <2>1 DEF LoginOf
    <3> QED BY <2>1, <3>1 DEF WalkedIn
  <2>4. sess[q.sid].next # NULL /\ sess[q.sid].next <= n /\ q.sid < n
    <3>1. CASE q.cur = q.sid
      BY <1>0, <2>1, <2>2, <2>3, <3>1 DEF Walked
    <3>2. CASE q.cur # q.sid
      <4>1. sess[q.sid].next # NULL /\ sess[q.sid].next <= q.cur
        BY <2>3, <3>2 DEF Walked
      <4>2. q.sid < sess[q.sid].next /\ sess[q.sid].next \in Issued
        BY <1>0, <2>2, <4>1
      <4> QED BY <1>0, <2>2, <4>1, <4>2
    <3> QED BY <3>1, <3>2
  <2>5. p.hops <= MaxHops /\ p.cur # p.sid
    BY <1>0, <2>1, <2>2, <2>4
  <2>6. Walked(p)
    BY <2>1, <2>4, <2>5 DEF Walked, Killed
  <2> QED BY <1>2, <1>5, <2>6
<1>6. CASE p = q /\ ~Rotate(r)
  <2>1. Refreshing(q) /\ q.cur \in Issued /\ sess[q.cur].login = LoginOf(q) /\ q.sid \in Issued
    BY <1>1, <1>6 DEF Refreshing, Belongs, Sound
  <2>2. LoginOf(q) \in L
    BY <1>6, <2>1, LoginKept
  <2>3. Walked(q)
    BY <1>6, <2>2 DEF WalkedIn
  <2>4. sess'[q.cur].next = sess[q.cur].next /\ sess'[q.sid].next = sess[q.sid].next
    BY <1>6, <2>1, <2>2, Untouched DEF LoginOf
  <2>5. Killed(q.cur) => Killed(q.cur)'
    <3>1. sess'[q.cur].revoked = sess[q.cur].revoked \/ sess'[q.cur].revoked = now
      BY <1>0, <2>1, RowsKept
    <3> QED BY <1>0, <1>6, <2>4, <3>1 DEF Killed, NULL
  <2> QED BY <1>6, <2>3, <2>4, <2>5 DEF Walked
<1> QED BY <1>0, <1>3, <1>4, <1>5, <1>6, Turn DEF Moves

\* An instant counted from an older row is long past.
LEMMA LongSince ==
  ASSUME NEW first \in Nat, NEW later \in Nat, NEW t \in Nat, NEW grace \in Nat,
         NEW life \in Nat, first <= later
  PROVE  /\ later + life <= t /\ grace < life => t > first + grace
         /\ later + life < t /\ grace <= life => t > first + grace
  OBVIOUS

\* A walk that ends nowhere has reached the end of a chain somebody cut, was
\* too long, or is over rows so old that the first token's time is up.
LEMMA DeadEnd ==
  ASSUME SessionConstants, BaseInv, Grace < Life, Grace <= PurgeAge, NEW r \in Slots,
         req[r].pc = "chase", Walked(req[r]), ~(Chasing(req[r]) /\ req[r].next \in rows),
         ~(req[r].rev = NULL /\ ~Expired(req[r].cur))
  PROVE  Forgiven(req[r])
<1> DEFINE q == req[r]
           c == q.cur
           n == q.next
           first == sess[q.sid].next
<1>0. /\ \A s \in Issued : /\ s \in Nat /\ sess[s].born \in Nat /\ sess[s].revoked \in Nat
                            /\ sess[s].expires = sess[s].born + Life
      /\ \A s, t \in Issued : s <= t => sess[s].born <= sess[t].born
      /\ Sound(q) /\ q \in Request /\ Belongs(q)
  BY RowAt DEF BaseInv, IInv, TypeOK, Row, Grown, Refs, AllBelong, Sound
<1>1. now \in Nat /\ Grace \in Nat /\ Life \in Nat /\ PurgeAge \in Nat /\ MaxHops \in Nat
  BY DEF BaseInv, IInv, TypeOK, SessionConstants
<1>2. /\ c \in Issued /\ q.sid \in Issued /\ q.hops \in Nat /\ q.rev \in Nat
      /\ sess[c].login = LoginOf(q)
  BY <1>0 DEF Sound, Request, Belongs
<1>3. c # q.sid => first # NULL /\ first <= c /\ first \in Issued
  BY <1>2 DEF Walked, BaseInv, IInv, ChainWellFormed
<1>4. ASSUME NEW late \in Nat, first # NULL, first \in Issued, sess[first].born <= late,
             (late + Life <= now) \/ (late + PurgeAge < now) \/ (late + Grace < now)
      PROVE  Forgiven(q)
  <2>1. sess[first].born \in Nat
    BY <1>0, <1>4
  <2>2. now > sess[first].born + Grace
    BY <1>1, <1>4, <2>1, LongSince
  <2> QED BY <1>4, <2>2 DEF Forgiven
<1>5. CASE q.rev = NULL
  <2>1. c # q.sid /\ sess[c].expires <= now
    BY <1>5 DEF Walked, Expired
  <2>2. sess[first].born <= sess[c].born /\ sess[c].born + Life <= now /\ sess[c].born \in Nat
    BY <1>0, <1>2, <1>3, <2>1
  <2> QED BY <1>3, <1>4, <2>1, <2>2
<1>6. CASE q.rev # NULL /\ n = NULL
  <2>1. Killed(c)
    BY <1>6 DEF Walked
  <2> QED BY <1>2, <2>1 DEF Forgiven, LoginOf
<1>7. CASE q.rev # NULL /\ n # NULL
  <2>1. n \in Issued /\ c < n /\ sess[n].born <= q.rev /\ sess[n].born \in Nat
    BY <1>0, <1>7 DEF Belongs
  <2>2. first # NULL /\ first \in Issued /\ first <= n
    <3>1. CASE c = q.sid
      <4>1. first = n
        BY <1>7, <3>1 DEF Walked
      <4> QED BY <1>0, <1>7, <2>1, <4>1
    <3>2. CASE c # q.sid
      BY <1>0, <1>2, <1>3, <2>1, <3>2
    <3> QED BY <3>1, <3>2
  <2>3. sess[first].born <= sess[n].born /\ sess[first].born \in Nat
    BY <1>0, <2>1, <2>2
  <2>4. CASE n \notin rows
    <3>1. sess[n].born + PurgeAge < now
      BY <2>1, <2>4 DEF BaseInv, Gone
    <3> QED BY <1>4, <2>1, <2>2, <2>3, <3>1
  <2>5. CASE ~(now <= q.rev + Grace)
    <3>1. q.rev + Grace < now /\ sess[first].born <= q.rev
      BY <1>1, <1>2, <2>1, <2>3, <2>5
    <3> QED BY <1>2, <1>4, <2>2, <3>1
  <2>6. CASE ~(q.hops < MaxHops)
    <3>1. q.hops = MaxHops
      BY <1>1, <1>2, <2>6 DEF Walked
    <3> QED BY <3>1 DEF Forgiven
  <2> QED BY <1>7, <2>4, <2>5, <2>6 DEF Chasing
<1> QED BY <1>5, <1>6, <1>7

LEMMA ForgivenStep ==
  ASSUME SessionConstants, BaseInv, Next, NEW L, ApartIn(L), WalkedIn(L), ForgivenIn(L),
         Grace < Life, Grace <= PurgeAge
  PROVE  ForgivenIn(L)'
<1>0. /\ TypeOK /\ Refs /\ now \in Nat /\ now > 0 /\ Grace \in Nat
      /\ \A s \in Issued : sess[s].born \in Nat
      /\ \A s \in Issued : sess[s].next # NULL => sess[s].next \in Issued
  BY RowAt DEF BaseInv, IInv, TypeOK, SessionConstants, Clocked, ChainWellFormed, Row
<1> SUFFICES ASSUME NEW r \in Slots, req'[r].pc = "nuke", LoginOf(req[r])' \in L
             PROVE  Forgiven(req[r])'
  BY DEF ForgivenIn
<1> DEFINE q == req[r]
           p == req'[r]
<1>1. Belongs(q)
  BY DEF BaseInv, AllBelong
<1>2. ~(p.pc \in Resting) /\ ~Signs(p) /\ ~Runs(p) /\ ~Opens(p) /\ ~Hops(q, p)
  BY DEF Resting, Signs, Runs, Opens, Hops
<1>3. CASE UNCHANGED <<now, sess>> /\ Ends(q, p)
  <2>1. q.pc = "chase" /\ p.sid = q.sid /\ p.hops = q.hops /\ Issued' = Issued
    BY <1>3 DEF Ends, Issued
  <2>2. Walked(q)
    <3>1. LoginOf(q) \in L
      BY <1>3, <2>1 DEF LoginOf
    <3> QED BY <2>1, <3>1 DEF WalkedIn
  <2>3. Forgiven(q)
    BY <1>3, <2>2, DeadEnd DEF Ends
  <2> QED BY <1>3, <2>1, <2>3 DEF Forgiven, Killed
<1>4. CASE p = q /\ ~Rotate(r)
  <2> DEFINE first == sess[q.sid].next
  <2>1. Refreshing(q) /\ q.sid \in Issued
    BY <1>1, <1>4 DEF Refreshing, Belongs
  <2>2. LoginOf(q) \in L
    BY <1>4, <2>1, LoginKept
  <2>3. \A s \in Issued : sess[s].login = LoginOf(q) => sess'[s].next = sess[s].next
    BY <1>4, <2>1, <2>2, Untouched
  <2>4. /\ Issued \subseteq Issued'
        /\ \A s \in Issued : /\ sess'[s].login = sess[s].login /\ sess'[s].born = sess[s].born
                             /\ sess'[s].revoked = sess[s].revoked \/ sess'[s].revoked = now
    BY <1>0, RowsKept
  <2>5. Forgiven(q)
    BY <1>4, <2>2 DEF ForgivenIn
  <2>6. sess'[q.sid].next = first
    BY <2>1, <2>3 DEF LoginOf
  <2>7. CASE first # NULL /\ now > sess[first].born + Grace
    <3>1. sess'[first].born = sess[first].born /\ sess[first].born \in Nat
      BY <1>0, <2>1, <2>4, <2>7
    <3>2. now' \in Nat /\ now' >= now
      BY <1>0, NowStep DEF Tick
    <3>3. now' > sess'[first].born + Grace
      BY <1>0, <2>7, <3>1, <3>2
    <3> QED BY <1>4, <2>6, <2>7, <3>3 DEF Forgiven
  <2>8. CASE q.hops = MaxHops
    BY <1>4, <2>8 DEF Forgiven
  <2>9. ASSUME NEW s \in Issued, sess[s].login = sess[q.sid].login, Killed(s)
        PROVE  Forgiven(req[r])'
    <3>1. sess'[s].next = NULL /\ sess'[s].revoked # NULL
      BY <1>0, <2>3, <2>4, <2>9 DEF Killed, LoginOf, NULL
    <3> QED BY <1>4, <2>1, <2>4, <2>9, <3>1 DEF Forgiven, Killed
  <2> QED BY <2>5, <2>7, <2>8, <2>9 DEF Forgiven
<1> QED BY <1>0, <1>2, <1>3, <1>4, Turn DEF Moves

\* The three together, for any set of logins.
LoginInv(L) == OneLiveIn(L) /\ SoleIn(L) /\ WalkedIn(L)

LEMMA LoginInvariance ==
  ASSUME NEW L
  PROVE  Spec /\ []ApartIn(L) => [](BaseInv /\ LoginInv(L))
<1>1. Init => LoginInv(L)
  BY IdleSound DEF Init, Issued, LoginInv, OneLiveIn, SoleIn, WalkedIn, Chosen
<1>2. ASSUME LoginInv(L), UNCHANGED vars PROVE LoginInv(L)'
  BY <1>2
  DEF vars, LoginInv, OneLiveIn, SoleIn, WalkedIn, Chosen, Sole, Walked, Killed, Live,
      LoginOf, Issued
<1>3. BaseInv /\ ApartIn(L) /\ LoginInv(L) /\ [Next]_vars => LoginInv(L)'
  BY <1>2, SessionConstants, OneLiveStep, SoleStep, WalkedStep DEF LoginInv
<1> QED BY <1>1, <1>3, BaseInvariance, PTL DEF Spec

LEMMA ForgivenInvariance ==
  ASSUME NEW L, Grace < Life, Grace <= PurgeAge
  PROVE  Spec /\ []ApartIn(L) => []ForgivenIn(L)
<1>1. Init => ForgivenIn(L)
  BY IdleSound DEF Init, ForgivenIn
<1>2. ASSUME ForgivenIn(L), UNCHANGED vars PROVE ForgivenIn(L)'
  BY <1>2 DEF vars, ForgivenIn, Forgiven, Killed, LoginOf, Issued
<1>3. BaseInv /\ LoginInv(L) /\ ApartIn(L) /\ ForgivenIn(L) /\ [Next]_vars => ForgivenIn(L)'
  BY <1>2, SessionConstants, ForgivenStep DEF LoginInv
<1> QED BY <1>1, <1>3, LoginInvariance, PTL DEF Spec

----------------------------------------------------------------------------
(* One account.                                                             *)

LEMMA PasswordStep ==
  ASSUME SessionConstants, TypeOK, Refs, Next
  PROVE  /\ pw' = pw \/ \E r \in Slots : ChangePassword(r) \/ \E u \in Users : ResetPassword(r, u)
         /\ \A r \in Slots : ChangePassword(r) => pw'[req[r].user] # pw[req[r].user]
<1>1. pw \in [Users -> Nat]
  BY DEF TypeOK
<1>2. ASSUME NEW r \in Slots, ChangePassword(r) PROVE pw'[req[r].user] # pw[req[r].user]
  <2>1. req[r].user \in Users /\ pw' = [pw EXCEPT ![req[r].user] = @ + 1]
    BY <1>2 DEF ChangePassword, Refs, Sound
  <2>2. pw[req[r].user] \in Nat /\ pw'[req[r].user] = pw[req[r].user] + 1
    BY <1>1, <2>1
  <2> QED BY <2>2
<1>3. pw' = pw \/ \E r \in Slots : ChangePassword(r) \/ \E u \in Users : ResetPassword(r, u)
  BY DEF Next, Arrive, Continue, LoginRead, AuthLookup, RefreshRead, AuthRead, AuthFill,
      Access, LogoutAll, RevokeSession, Logout, Nuke, ClearCache, EvictOne,
      ChaseHop, ChaseEnd, Purge, Restart, Tick, LoginCreate, Rotate
<1> QED BY <1>2, <1>3

\* Nothing that is in force of the account survives its new password, but the
\* session that changed it.
LEMMA FenceStep ==
  ASSUME SessionConstants, BaseInv, Next, NEW U, FenceIn(U), KnownIn(U)
  PROVE  FenceIn(U)'
<1>0. /\ TypeOK /\ Refs /\ Clocked /\ TableMoves(sess') /\ Len(sess) \in Nat
      /\ sess \in Seq(Row) /\ now \in Nat /\ now > 0
      /\ Issued = 1..Len(sess) /\ Issued' = 1..Len(sess') /\ pw \in [Users -> Nat]
  BY TableStep DEF BaseInv, IInv, TypeOK, Issued, Clocked
<1>1. \A s \in Issued : /\ sess'[s].user = sess[s].user /\ (Live(s)' => Live(s))
                        /\ sess[s].user \in Users
                        /\ Live(s) /\ sess[s].user \in U => sess[s].pwv = pw[sess[s].user]
  BY <1>0, InForce, RowAt DEF TableMoves, RowMoves, Row, FenceIn
<1> DEFINE Fenced(s) == Live(s)' /\ sess'[s].user \in U => sess'[s].pwv = pw'[sess'[s].user]
<1>2. ASSUME NEW r \in Slots, NEW u \in Users, ResetPassword(r, u), NEW s \in Issued
      PROVE  Fenced(s)
  <2>1. sess' = RevokeAll(u, {}) /\ pw' = [pw EXCEPT ![u] = @ + 1] /\ rows' = rows
    BY <1>2 DEF ResetPassword
  <2>2. Live(s) /\ sess[s].user = u => sess'[s].revoked = now
    BY <1>0, <2>1, RowAt DEF RevokeAll, Revoked, Row
  <2>3. Live(s)' => sess[s].user # u
    BY <1>0, <1>1, <2>2 DEF Live, NULL
  <2>4. sess'[s].pwv = sess[s].pwv
    BY <1>0, <2>1, RowAt DEF RevokeAll, Revoked, Row
  <2> QED BY <1>0, <1>1, <2>1, <2>3, <2>4
<1>3. ASSUME NEW r \in Slots, ChangePassword(r), NEW s \in Issued PROVE Fenced(s)
  <2> DEFINE u == req[r].user
             own == req[r].sid
             K == RevokeAll(u, {own})
             v == pw[u] + 1
  <2>1. u \in Users /\ own \in Issued /\ sess[own].user = u
    BY <1>0, <1>3 DEF ChangePassword, BaseInv, AllBelong, Belongs, Refs, Sound
  <2>2. /\ K \in Seq(Row) /\ Len(K) = Len(sess) /\ v \in Nat
        /\ K[s] = IF Live(s) /\ sess[s].user = u /\ s # own THEN Revoked(sess[s]) ELSE sess[s]
    <3>1. K \in Seq(Row) /\ Len(K) = Len(sess)
      BY <1>0, WriteAll DEF TableMoves
    <3>2. v \in Nat
      BY <1>0, <2>1
    <3> QED BY <3>1, <3>2 DEF RevokeAll
  <2>3. sess' = [K EXCEPT ![own] = [@ EXCEPT !.pwv = v]] /\ pw' = [pw EXCEPT ![u] = v]
        /\ rows' = rows
    BY <1>3 DEF ChangePassword
  <2> HIDE DEF K, v, u, own
  <2>4. K[own] \in Row /\ sess[s] \in Row
    <3>1. own \in 1..Len(K)
      BY <1>0, <2>1, <2>2
    <3>2. sess[s] \in Row
      BY <1>0, RowAt
    <3> QED BY <2>2, <3>1, <3>2
  <2>5. [K[own] EXCEPT !.pwv = v] \in Row /\ [K[own] EXCEPT !.pwv = v].pwv = v
    BY <2>2, <2>4, RowWrites DEF Row
  <2>6. sess'[s] = IF s = own THEN [K[own] EXCEPT !.pwv = v] ELSE K[s]
    BY <1>0, <2>1, <2>2, <2>3, <2>5, ExceptSeq
  <2>7. CASE s = own
    BY <1>0, <1>1, <2>1, <2>3, <2>5, <2>6, <2>7
  <2>8. CASE s # own /\ Live(s) /\ sess[s].user = u
    <3>1. sess'[s].revoked = now
      BY <2>2, <2>4, <2>6, <2>8 DEF Revoked, Row
    <3> QED BY <1>0, <3>1 DEF Live, NULL
  <2>9. CASE s # own /\ ~(Live(s) /\ sess[s].user = u)
    <3>1. sess'[s].pwv = sess[s].pwv
      BY <2>2, <2>6, <2>9
    <3> QED BY <1>0, <1>1, <2>1, <2>3, <2>9, <3>1
  <2> QED BY <2>7, <2>8, <2>9
<1>4. ASSUME pw' = pw, NEW s \in Issued PROVE Fenced(s)
  <2>1. \A r \in Slots : ~ChangePassword(r)
    BY <1>0, <1>4, PasswordStep
  <2>2. sess'[s].pwv = sess[s].pwv
    BY <1>0, <2>1, Lasting
  <2> QED BY <1>1, <1>4, <2>2
<1>5. ASSUME NEW s \in Issued', s \notin Issued PROVE Fenced(s)
  <2>1. Len(sess') # Len(sess) /\ s = Len(sess) + 1
    BY <1>0, <1>5 DEF TableMoves
  <2>2. PICK r \in Slots : LoginCreate(r) \/ Rotate(r)
    BY <1>0, <2>1, TableStep
  <2>3. req[r].user \in U => Knows(req[r])
    BY DEF KnownIn
  <2>4. CASE LoginCreate(r)
    <3>1. sess'[s].user = req[r].user /\ sess'[s].pwv = req[r].pwv /\ pw' = pw
      BY <1>0, <2>1, <2>4, NewestRow DEF Reads, LoginCreate
    <3> QED BY <2>3, <2>4, <3>1 DEF LoginCreate, Knows
  <2>5. CASE Rotate(r)
    <3> DEFINE c == req[r].cur
    <3>1. sess'[s].user = sess[c].user /\ sess'[s].pwv = sess[c].pwv /\ pw' = pw
      BY <1>0, <2>1, <2>5, NewestRow DEF Reads, Rotate
    <3>2. sess[c].user = req[r].user
      BY <2>5 DEF Rotate, BaseInv, AllBelong, Belongs
    <3> QED BY <2>3, <2>5, <3>1, <3>2 DEF Rotate, Knows, Chosen
  <2> QED BY <2>2, <2>4, <2>5
<1>6. \A s \in Issued' : Fenced(s)
  BY <1>0, <1>2, <1>3, <1>4, <1>5, PasswordStep
<1> QED BY <1>6 DEF FenceIn

LEMMA KnownStep ==
  ASSUME SessionConstants, BaseInv, Next, NEW U, UnchangedIn(U), FenceIn(U), KnownIn(U)
  PROVE  KnownIn(U)'
<1>0. TypeOK /\ Refs /\ rows \subseteq Issued
  BY DEF BaseInv, IInv, TypeOK
<1> SUFFICES ASSUME NEW r \in Slots, req'[r].user \in U
             PROVE  Knows(req[r])'
  BY DEF KnownIn
<1> DEFINE q == req[r]
           p == req'[r]
<1>1. Belongs(q) /\ Sound(q)
  BY <1>0 DEF BaseInv, AllBelong, Refs
<1>2. ASSUME NEW s \in rows, sess[s].revoked = NULL, sess[s].user \in U
      PROVE  sess[s].pwv = pw[sess[s].user]
  BY <1>0, <1>2 DEF FenceIn, Live
<1>3. ASSUME UNCHANGED <<sess, pw>>, Knows(p) PROVE Knows(req[r])'
  BY <1>3 DEF Knows, Chosen
<1>4. CASE p.pc \in Resting
  BY <1>4 DEF Resting, Knows, Chosen
<1>5. CASE UNCHANGED <<sess, pw>> /\ (Signs(p) \/ Runs(p))
  <2>1. Knows(p)
    BY <1>5 DEF Signs, Runs, Knows, Chosen
  <2> QED BY <1>3, <1>5, <2>1
<1>6. CASE UNCHANGED <<sess, pw>> /\ Opens(p)
  <2>1. Knows(p)
    BY <1>2, <1>6 DEF Opens, Holds, Knows, Chosen
  <2> QED BY <1>3, <1>6, <2>1
<1>7. CASE UNCHANGED <<sess, pw>> /\ Hops(q, p)
  <2>1. sess[q.next].user = q.user /\ p.user = q.user /\ p.pc = "chase" /\ q.next \in rows
    BY <1>1, <1>7 DEF Hops, Chasing, Belongs
  <2>2. Knows(p)
    BY <1>2, <1>7, <2>1 DEF Hops, Holds, Knows, Chosen
  <2> QED BY <1>3, <1>7, <2>2
<1>8. CASE UNCHANGED <<sess, pw>> /\ Ends(q, p)
  <2>1. Knows(q)
    BY <1>8 DEF Ends, KnownIn
  <2>2. Knows(p)
    BY <1>8, <2>1 DEF Ends, Knows, Chosen
  <2> QED BY <1>3, <1>8, <2>2
<1>9. CASE p = q
  <2>1. Knows(q)
    BY <1>9 DEF KnownIn
  <2>2. q.pc \in {"create", "chase", "rotate"} => pw'[q.user] = pw[q.user]
    BY <1>9 DEF UnchangedIn
  <2>3. ASSUME Chosen(q) PROVE sess'[q.cur].pwv = sess[q.cur].pwv
    <3>1. q.pc \in {"chase", "rotate"} /\ q.cur \in Issued /\ sess[q.cur].user = q.user
      BY <1>1, <2>3 DEF Chosen, Sound, Belongs
    <3>2. ASSUME NEW b \in Slots, ChangePassword(b), req[b].sid = q.cur PROVE FALSE
      <4>1. req[b].user = q.user
        BY <3>1, <3>2 DEF ChangePassword, BaseInv, AllBelong, Belongs
      <4> QED BY <1>0, <2>2, <3>1, <3>2, <4>1, PasswordStep
    <3> QED BY <1>0, <3>1, <3>2, Lasting
  <2> QED BY <1>9, <2>1, <2>2, <2>3 DEF Knows, Chosen
<1> QED BY <1>0, <1>4, <1>5, <1>6, <1>7, <1>8, <1>9, Turn DEF Moves

LEMMA AccountInvariance ==
  ASSUME NEW U
  PROVE  Spec /\ [][UnchangedIn(U)]_vars => []FenceIn(U)
<1>1. Init => FenceIn(U) /\ KnownIn(U)
  BY IdleSound DEF Init, Issued, FenceIn, KnownIn, Knows, Chosen
<1>2. ASSUME FenceIn(U) /\ KnownIn(U), UNCHANGED vars PROVE (FenceIn(U) /\ KnownIn(U))'
  BY <1>2 DEF vars, FenceIn, KnownIn, Knows, Chosen, Live, Issued
<1>3. BaseInv /\ FenceIn(U) /\ KnownIn(U) /\ [Next]_vars /\ [UnchangedIn(U)]_vars
        => (FenceIn(U) /\ KnownIn(U))'
  BY <1>2, SessionConstants, FenceStep, KnownStep
<1> QED BY <1>1, <1>3, BaseInvariance, PTL DEF Spec

----------------------------------------------------------------------------
(* The theorems of the two sections.                                        *)

\* A login whose refreshes come one at a time never has two sessions in force,
\* whatever the requests of other logins and accounts do meanwhile, and
\* whatever else the account's own requests do.
THEOREM LoginsIndependent ==
  ASSUME NEW L PROVE Spec /\ []ApartIn(L) => []OneLiveIn(L)
<1>1. LoginInv(L) => OneLiveIn(L)
  BY DEF LoginInv
<1> QED BY <1>1, LoginInvariance, PTL

\* An account whose password does not change while a sign-in or a refresh of
\* its own is under way has no session of an older password in force, however
\* the requests of other accounts overlap with its own.
THEOREM AccountsIndependent ==
  ASSUME NEW U PROVE Spec /\ [][UnchangedIn(U)]_vars => []FenceIn(U)
BY AccountInvariance

LEMMA Apart == ASSUME NEW L PROVE RefreshesApart => ApartIn(L)
BY DEF RefreshesApart, ApartIn, LoginOf

\* "every refresh issues a new refresh token and revokes the old one": when no
\* two refreshes of one login overlap, a login never has two sessions in force,
\* through any number of refreshes, walks along the chain, revocations, purges
\* and restarts.
THEOREM OneInForce == Spec /\ []RefreshesApart => []OneLivePerLogin
<1>0. PICK L : L = Nat
  OBVIOUS
<1>1. BaseInv /\ LoginInv(L) => OneLivePerLogin
  <2>1. BaseInv => \A s \in Issued : sess[s].login \in Nat
    BY RowAt DEF BaseInv, IInv, TypeOK, Row
  <2> QED BY <1>0, <2>1 DEF LoginInv, OneLiveIn, OneLivePerLogin
<1>2. Spec /\ []ApartIn(L) => [](BaseInv /\ LoginInv(L))
  BY LoginInvariance
<1> QED BY <1>1, <1>2, Apart, PTL

\* changePassword and resetPassword leave no session of the old password in
\* force, and a refresh does not bring one back, when no password changes while
\* a session of its account is on its way in.
THEOREM OldPasswordOut == Spec /\ [][PasswordsApart]_vars => []PasswordFence
<1>1. PasswordsApart => UnchangedIn(Users)
  BY DEF PasswordsApart, UnchangedIn
<1>2. BaseInv /\ FenceIn(Users) => PasswordFence
  <2>1. BaseInv => \A s \in Issued : sess[s].user \in Users
    BY RowAt DEF BaseInv, IInv, TypeOK, Row
  <2> QED BY <2>1 DEF FenceIn, PasswordFence
<1>3. Spec /\ [][UnchangedIn(Users)]_vars => []FenceIn(Users)
  BY AccountInvariance
<1>4. [PasswordsApart]_vars => [UnchangedIn(Users)]_vars
  BY <1>1
<1> QED BY <1>2, <1>3, <1>4, BaseInvariance, PTL

\* refresh answers a superseded token with the theft response only after the
\* grace window, after MaxHops rotations, or on a chain that was ended: for
\* every window shorter than the life of a session and the age of the purge,
\* when no two refreshes of one login overlap.
THEOREM LostAnswersForgiven ==
  ASSUME Grace < Life, Grace <= PurgeAge
  PROVE  Spec /\ []RefreshesApart => []RetryForgiven
<1>0. PICK L : L = Nat
  OBVIOUS
<1>1. BaseInv /\ ForgivenIn(L) => RetryForgiven
  <2>1. ASSUME BaseInv, NEW r \in Slots, req[r].pc = "nuke" PROVE LoginOf(req[r]) \in L
    <3>1. req[r].sid \in Issued
      BY <2>1 DEF BaseInv, AllBelong, Belongs, Refreshing
    <3> QED BY <1>0, <2>1, <3>1, RowAt DEF BaseInv, IInv, TypeOK, Row, LoginOf
  <2> QED BY <2>1 DEF ForgivenIn, Forgiven, RetryForgiven
<1>2. Spec /\ []ApartIn(L) => []ForgivenIn(L)
  BY ForgivenInvariance
<1> QED BY <1>1, <1>2, BaseInvariance, Apart, PTL

=============================================================================
