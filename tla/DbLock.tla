------------------------------- MODULE DbLock -------------------------------
(***************************************************************************)
(* The one database connection and the FIFO lock in front of it.  A call   *)
(* is a statement (q, qOne, exec) or a transaction (tx).  node:sqlite is   *)
(* synchronous: what runs between two awaits is one step.  A caller that   *)
(* was handed the lock runs only when its promise continuation does, so    *)
(* being granted and running are two steps.                                *)
(***************************************************************************)
EXTENDS Naturals, Sequences

CONSTANTS
  Callers,     \* the requests and jobs that use the database
  NoCaller,
  MaxCalls,    \* bound on the calls of one caller
  MaxStmts,    \* bound on the statements of one transaction
  BeginFails   \* TRUE: an outside process may hold the file's write lock
               \* for longer than busy_timeout

ASSUME LockConstants ==
  /\ NoCaller \notin Callers
  /\ MaxCalls \in Nat /\ MaxStmts \in Nat \ {0} /\ BeginFails \in BOOLEAN

VARIABLES
  locked,   \* the flag
  waiters,  \* callers whose promise is still to be resolved
  pc,       \* caller -> where its call stands
  kind,     \* caller -> "stmt" or "tx"
  open,     \* whose BEGIN is open on the connection
  journal,  \* caller -> its statements inside that transaction
  saved,    \* caller -> its statements in the database for good
  calls     \* caller -> calls made

vars == <<locked, waiters, pc, kind, open, journal, saved, calls>>

NoStmts == [c \in Callers |-> 0]

TypeOK ==
  /\ locked \in BOOLEAN
  /\ waiters \in Seq(Callers)
  /\ pc \in [Callers -> {"idle", "waiting", "owner", "body"}]
  /\ kind \in [Callers -> {"stmt", "tx"}]
  /\ open \in Callers \cup {NoCaller}
  /\ journal \in [Callers -> Nat]
  /\ saved \in [Callers -> Nat]
  /\ calls \in [Callers -> Nat]

Init ==
  /\ locked = FALSE
  /\ waiters = <<>>
  /\ pc = [c \in Callers |-> "idle"]
  /\ kind = [c \in Callers |-> "stmt"]
  /\ open = NoCaller
  /\ journal = NoStmts
  /\ saved = NoStmts
  /\ calls = NoStmts

----------------------------------------------------------------------------
\* Mutant: lock() does not look at the flag.
Lock_Barges(c, k) ==
  /\ pc[c] = "idle" /\ calls[c] < MaxCalls
  /\ kind' = [kind EXCEPT ![c] = k]
  /\ calls' = [calls EXCEPT ![c] = @ + 1]
  /\ locked' = TRUE /\ pc' = [pc EXCEPT ![c] = "owner"] /\ UNCHANGED waiters
  /\ UNCHANGED <<open, journal, saved>>

\* A call arrives: it takes the free lock, or joins the queue.
Lock(c, k) ==
  /\ pc[c] = "idle" /\ calls[c] < MaxCalls
  /\ kind' = [kind EXCEPT ![c] = k]
  /\ calls' = [calls EXCEPT ![c] = @ + 1]
  /\ \/ /\ ~locked
        /\ locked' = TRUE /\ pc' = [pc EXCEPT ![c] = "owner"] /\ UNCHANGED waiters
     \/ /\ locked
        /\ waiters' = Append(waiters, c)
        /\ pc' = [pc EXCEPT ![c] = "waiting"] /\ UNCHANGED locked
  /\ UNCHANGED <<open, journal, saved>>

\* Mutant: a stack in place of the queue.
Release_Last(c) ==
  IF waiters = <<>>
  THEN /\ locked' = FALSE /\ pc' = [pc EXCEPT ![c] = "idle"] /\ UNCHANGED waiters
  ELSE /\ pc' = [pc EXCEPT ![c] = "idle", ![waiters[Len(waiters)]] = "owner"]
       /\ waiters' = SubSeq(waiters, 1, Len(waiters) - 1) /\ UNCHANGED locked

\* c is done and answers.  The lock is handed over, not freed, while anybody
\* waits: a newcomer cannot slip in between.
Release(c) ==
  IF waiters = <<>>
  THEN /\ locked' = FALSE /\ pc' = [pc EXCEPT ![c] = "idle"] /\ UNCHANGED waiters
  ELSE /\ pc' = [pc EXCEPT ![c] = "idle", ![Head(waiters)] = "owner"]
       /\ waiters' = Tail(waiters) /\ UNCHANGED locked

----------------------------------------------------------------------------
\* run() on the connection: it lands in whatever transaction is open there.
Execute(c) ==
  IF open = NoCaller
  THEN saved' = [saved EXCEPT ![c] = @ + 1] /\ UNCHANGED journal
  ELSE journal' = [journal EXCEPT ![c] = @ + 1] /\ UNCHANGED saved

\* q and exec: the statement takes effect or throws, and the lock is released
\* either way.
Statement(c) ==
  /\ pc[c] = "owner" /\ kind[c] = "stmt"
  /\ Execute(c) \/ UNCHANGED <<saved, journal>>
  /\ Release(c)
  /\ UNCHANGED <<kind, open, calls>>

Begin(c) ==
  /\ pc[c] = "owner" /\ kind[c] = "tx" /\ open = NoCaller
  /\ open' = c
  /\ pc' = [pc EXCEPT ![c] = "body"]
  /\ UNCHANGED <<locked, waiters, kind, journal, saved, calls>>

\* BEGIN IMMEDIATE (or getDb) throws.  It stands before the `try', so
\* release() is never called: the caller has its error, the lock stays taken.
BeginThrows(c) ==
  /\ pc[c] = "owner" /\ kind[c] = "tx"
  /\ BeginFails \/ open # NoCaller
  /\ pc' = [pc EXCEPT ![c] = "idle"]
  /\ UNCHANGED <<locked, waiters, kind, open, journal, saved, calls>>

\* Mutant: a nested q() waits for the lock like any other.
BodyStatement_Waits(c) ==
  /\ pc[c] = "body" /\ journal[c] < MaxStmts
  /\ waiters' = Append(waiters, c)
  /\ pc' = [pc EXCEPT ![c] = "waiting"]
  /\ UNCHANGED <<locked, kind, open, journal, saved, calls>>

\* A statement inside the transaction: c.query, or a q(), exec() or tx() that
\* finds txDepth set and joins.
BodyStatement(c) ==
  /\ pc[c] = "body" /\ journal[c] < MaxStmts
  /\ Execute(c)
  /\ UNCHANGED <<locked, waiters, pc, kind, open, calls>>

Commit(c) ==
  /\ pc[c] = "body"
  /\ saved' = [d \in Callers |-> saved[d] + journal[d]]
  /\ journal' = NoStmts
  /\ open' = NoCaller
  /\ Release(c)
  /\ UNCHANGED <<kind, calls>>

\* The callback, or COMMIT, threw.
Rollback(c) ==
  /\ pc[c] = "body"
  /\ journal' = NoStmts
  /\ open' = NoCaller
  /\ Release(c)
  /\ UNCHANGED <<kind, saved, calls>>

----------------------------------------------------------------------------
Continue(c) ==
  \/ Statement(c) \/ Begin(c) \/ BeginThrows(c)
  \/ BodyStatement(c) \/ Commit(c) \/ Rollback(c)

Next == \E c \in Callers : (\E k \in {"stmt", "tx"} : Lock(c, k)) \/ Continue(c)

Spec == Init /\ [][Next]_vars

\* The event loop runs whatever is ready, and a transaction's callback ends:
\* MaxStmts bounds its statements.  No caller has to call.
FairSpec == Spec /\ \A c \in Callers : WF_vars(Continue(c))

----------------------------------------------------------------------------
(* Properties.                                                              *)

Owns(c) == pc[c] \in {"owner", "body"}

\* Everything is serialized: no two callers are past lock() and before
\* release() at once, and a free flag means nobody is, nor waits.
OneOwner ==
  /\ \A c, d \in Callers : Owns(c) /\ Owns(d) => c = d
  /\ ~locked => waiters = <<>> /\ \A c \in Callers : ~Owns(c)

\* The connection's open transaction is its owner's, and holds nobody else's
\* statements: no statement is committed or rolled back with another's.
Isolated ==
  /\ \A c \in Callers : pc[c] = "body" <=> open = c
  /\ \A c \in Callers : journal[c] > 0 => open = c

\* A caller that waits is in the queue, once: its wakeup cannot get lost.
NoLostWaiter ==
  /\ \A c \in Callers : pc[c] = "waiting" <=> \E i \in 1..Len(waiters) : waiters[i] = c
  /\ \A i, j \in 1..Len(waiters) : waiters[i] = waiters[j] => i = j

\* First come, first served: a newcomer is not served while others wait, and
\* of two that wait the one behind is not served first.
NoOvertaking ==
  [][\A d \in Callers : (~Owns(d) /\ pc'[d] = "owner") =>
        IF waiters = <<>> THEN pc[d] = "idle" ELSE Head(waiters) = d]_vars

\* Each call is atomic: the lock and the transaction implement DbAtomic.
Atomic == INSTANCE DbAtomic WITH pending <- {c \in Callers : pc[c] # "idle"}
ImplementsAtomic == Atomic!Spec

\* The lock is taken and nobody holds it.
Leaked == locked /\ open = NoCaller /\ \A c \in Callers : ~Owns(c)

\* Every call is answered, nested ones included, as long as no BEGIN has
\* thrown and taken the lock with it.
AnsweredUnlessLeaked == \A c \in Callers : pc[c] # "idle" ~> (pc[c] = "idle" \/ Leaked)

=============================================================================
