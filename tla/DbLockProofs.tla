---------------------------- MODULE DbLockProofs ----------------------------
(* The lock serializes any number of callers, and what they see implements   *)
(* DbAtomic, whether or not BEGIN can fail.                                  *)
EXTENDS DbLock, SequenceTheorems, TLAPS

Bounded == \A c \in Callers : journal[c] <= MaxStmts

IInv == TypeOK /\ OneOwner /\ Isolated /\ NoLostWaiter /\ Bounded

----------------------------------------------------------------------------
\* Appending a caller that is not in the queue, and taking its head.
LEMMA QueueAppend ==
  ASSUME NEW w \in Seq(Callers), NEW c \in Callers
  PROVE  /\ Append(w, c) \in Seq(Callers) /\ Len(w) \in Nat
         /\ Len(Append(w, c)) = Len(w) + 1
         /\ \A i \in 1..Len(w) : Append(w, c)[i] = w[i]
         /\ Append(w, c)[Len(w) + 1] = c
BY AppendProperties

LEMMA QueueTail ==
  ASSUME NEW w \in Seq(Callers), w # <<>>
  PROVE  /\ Head(w) \in Callers /\ Tail(w) \in Seq(Callers)
         /\ Len(w) \in Nat \ {0} /\ Len(Tail(w)) = Len(w) - 1
         /\ \A i \in 1..Len(Tail(w)) : Tail(w)[i] = w[i + 1]
         /\ Head(w) = w[1]
BY HeadTailProperties

\* The parts of the invariant that Release touches, after c gave up the lock.
LEMMA AfterRelease ==
  ASSUME TypeOK, OneOwner, NoLostWaiter, NEW c \in Callers, Owns(c), Release(c)
  PROVE  /\ locked' \in BOOLEAN /\ waiters' \in Seq(Callers)
         /\ pc' \in [Callers -> {"idle", "waiting", "owner", "body"}]
         /\ OneOwner' /\ NoLostWaiter'
         /\ \A d \in Callers : pc'[d] # "body"
         /\ \A d \in Callers : pc'[d] # "idle" <=> (pc[d] # "idle" /\ d # c)
<1>0. /\ waiters \in Seq(Callers) /\ locked = TRUE
      /\ pc \in [Callers -> {"idle", "waiting", "owner", "body"}]
      /\ \A d \in Callers \ {c} : ~Owns(d)
  BY DEF TypeOK, OneOwner
<1>1. CASE waiters = <<>>
  <2>1. /\ locked' = FALSE /\ pc' = [pc EXCEPT ![c] = "idle"] /\ waiters' = waiters
    BY <1>1 DEF Release
  <2>2. \A d \in Callers : pc[d] # "waiting"
    BY <1>1 DEF NoLostWaiter
  <2>3. \A d \in Callers : pc'[d] = "idle"
    BY <1>0, <2>1, <2>2 DEF Owns
  <2>4. waiters' = <<>> /\ pc' \in [Callers -> {"idle", "waiting", "owner", "body"}]
    BY <1>0, <1>1, <2>1
  <2>5. OneOwner'
    BY <2>3, <2>4 DEF OneOwner, Owns
  <2>6. NoLostWaiter'
    BY <2>3, <2>4, <1>1, <2>2 DEF NoLostWaiter
  <2>7. \A d \in Callers : pc[d] # "idle" <=> d = c
    BY <1>0, <2>2 DEF Owns
  <2> QED BY <1>0, <2>1, <2>3, <2>4, <2>5, <2>6, <2>7
<1>2. CASE waiters # <<>>
  <2> DEFINE h == Head(waiters)
  <2>1. /\ locked' = locked /\ pc' = [pc EXCEPT ![c] = "idle", ![h] = "owner"]
        /\ waiters' = Tail(waiters)
    BY <1>2 DEF Release
  <2>2. /\ h \in Callers /\ Tail(waiters) \in Seq(Callers)
        /\ Len(waiters) \in Nat \ {0} /\ Len(Tail(waiters)) = Len(waiters) - 1
        /\ \A i \in 1..Len(Tail(waiters)) : Tail(waiters)[i] = waiters[i + 1]
        /\ h = waiters[1]
    BY <1>0, <1>2, QueueTail
  <2>3. pc[h] = "waiting" /\ h # c
    BY <2>2 DEF NoLostWaiter, Owns
  <2>4. \A d \in Callers : pc'[d] = IF d = h THEN "owner" ELSE IF d = c THEN "idle" ELSE pc[d]
    BY <1>0, <2>1, <2>2, <2>3
  <2>5. OneOwner'
    BY <1>0, <2>1, <2>4 DEF OneOwner, Owns
  <2>6. \A i, j \in 1..Len(waiters') : waiters'[i] = waiters'[j] => i = j
    <3> SUFFICES ASSUME NEW i \in 1..Len(waiters'), NEW j \in 1..Len(waiters'),
                        waiters'[i] = waiters'[j]
                 PROVE  i = j
      OBVIOUS
    <3>1. waiters[i + 1] = waiters[j + 1] /\ i + 1 \in 1..Len(waiters) /\ j + 1 \in 1..Len(waiters)
      BY <2>1, <2>2
    <3> QED BY <3>1 DEF NoLostWaiter
  <2>7. ASSUME NEW d \in Callers
        PROVE  pc'[d] = "waiting" <=> \E i \in 1..Len(waiters') : waiters'[i] = d
    <3>1. ASSUME NEW i \in 1..Len(waiters'), waiters'[i] = d PROVE pc'[d] = "waiting"
      <4>1. waiters[i + 1] = d /\ i + 1 \in 1..Len(waiters) /\ i + 1 # 1 /\ 1 \in 1..Len(waiters)
        BY <2>1, <2>2, <3>1
      <4>2. d # h /\ pc[d] = "waiting"
        BY <2>2, <4>1 DEF NoLostWaiter
      <4> QED BY <2>4, <4>2 DEF Owns
    <3>2. ASSUME pc'[d] = "waiting" PROVE \E i \in 1..Len(waiters') : waiters'[i] = d
      <4>1. d # h /\ pc[d] = "waiting"
        BY <2>4, <3>2
      <4>2. PICK i \in 1..Len(waiters) : waiters[i] = d
        BY <4>1 DEF NoLostWaiter
      <4>3. i # 1 /\ i - 1 \in 1..Len(waiters') /\ waiters'[i - 1] = d
        BY <2>1, <2>2, <4>1, <4>2
      <4> QED BY <4>3
    <3> QED BY <3>1, <3>2
  <2>8. NoLostWaiter'
    BY <2>6, <2>7 DEF NoLostWaiter
  <2>9. \A d \in Callers : /\ pc'[d] # "body"
                           /\ pc'[d] # "idle" <=> (pc[d] # "idle" /\ d # c)
    BY <1>0, <2>3, <2>4 DEF Owns
  <2>10. pc' \in [Callers -> {"idle", "waiting", "owner", "body"}]
    BY <1>0, <2>1, <2>2
  <2> QED BY <1>0, <2>1, <2>2, <2>5, <2>8, <2>9, <2>10
<1> QED BY <1>1, <1>2

LEMMA Initially == ASSUME LockConstants, Init PROVE IInv
<1>1. TypeOK
  <2>1. NoStmts \in [Callers -> Nat]
    BY DEF NoStmts
  <2>2. waiters \in Seq(Callers)
    BY DEF Init
  <2>3. /\ pc \in [Callers -> {"idle", "waiting", "owner", "body"}]
        /\ kind \in [Callers -> {"stmt", "tx"}]
    BY DEF Init
  <2> QED BY <2>1, <2>2, <2>3 DEF Init, TypeOK
<1>2. OneOwner /\ Isolated /\ NoLostWaiter /\ Bounded
  BY DEF Init, OneOwner, Owns, Isolated, NoLostWaiter, Bounded, NoStmts, LockConstants
<1> QED BY <1>1, <1>2 DEF IInv

\* One step preserves the invariant.
LEMMA Step == ASSUME LockConstants, IInv, Next PROVE IInv'
<1>0. /\ TypeOK /\ OneOwner /\ Isolated /\ NoLostWaiter /\ Bounded
      /\ waiters \in Seq(Callers) /\ locked \in BOOLEAN
      /\ pc \in [Callers -> {"idle", "waiting", "owner", "body"}]
      /\ kind \in [Callers -> {"stmt", "tx"}] /\ open \in Callers \cup {NoCaller}
      /\ journal \in [Callers -> Nat] /\ saved \in [Callers -> Nat]
      /\ calls \in [Callers -> Nat] /\ NoCaller \notin Callers /\ MaxStmts \in Nat \ {0}
  BY DEF IInv, TypeOK, LockConstants
<1>1. ASSUME NEW c \in Callers, NEW k \in {"stmt", "tx"}, Lock(c, k) PROVE IInv'
  <2>1. pc[c] = "idle" /\ UNCHANGED <<open, journal, saved>>
        /\ kind' = [kind EXCEPT ![c] = k] /\ calls' = [calls EXCEPT ![c] = @ + 1]
    BY <1>1 DEF Lock
  <2>2. CASE ~locked /\ locked' = TRUE /\ pc' = [pc EXCEPT ![c] = "owner"] /\ UNCHANGED waiters
    <3>1. \A d \in Callers : pc'[d] = IF d = c THEN "owner" ELSE pc[d]
      BY <1>0, <2>2
    <3>2. waiters = <<>> /\ \A d \in Callers : ~Owns(d)
      BY <1>0, <2>2 DEF OneOwner
    <3>3. TypeOK'
      BY <1>0, <2>1, <2>2 DEF TypeOK
    <3>4. OneOwner' /\ Isolated'
      BY <1>0, <2>1, <2>2, <3>1, <3>2 DEF OneOwner, Owns, Isolated
    <3>5. NoLostWaiter' /\ Bounded'
      BY <1>0, <2>1, <2>2, <3>1, <3>2 DEF NoLostWaiter, Bounded
    <3> QED BY <3>3, <3>4, <3>5 DEF IInv
  <2>3. CASE /\ locked /\ waiters' = Append(waiters, c)
             /\ pc' = [pc EXCEPT ![c] = "waiting"] /\ UNCHANGED locked
    <3>1. \A d \in Callers : pc'[d] = IF d = c THEN "waiting" ELSE pc[d]
      BY <1>0, <2>3
    <3>2. /\ waiters' \in Seq(Callers) /\ Len(waiters) \in Nat /\ Len(waiters') = Len(waiters) + 1
          /\ \A i \in 1..Len(waiters) : waiters'[i] = waiters[i] /\ waiters[i] # c
          /\ waiters'[Len(waiters) + 1] = c
      <4>1. \A i \in 1..Len(waiters) : waiters[i] # c
        BY <1>0, <2>1 DEF NoLostWaiter
      <4> QED BY <1>0, <2>3, <4>1, QueueAppend
    <3>3. TypeOK'
      BY <1>0, <2>1, <2>3, <3>2 DEF TypeOK
    <3>4. OneOwner' /\ Isolated' /\ Bounded'
      BY <1>0, <2>1, <2>3, <3>1 DEF OneOwner, Owns, Isolated, Bounded
    <3>5. \A i, j \in 1..Len(waiters') : waiters'[i] = waiters'[j] => i = j
      <4>1. \A i, j \in 1..Len(waiters) : waiters[i] = waiters[j] => i = j
        BY <1>0 DEF NoLostWaiter
      <4>2. \A i \in 1..Len(waiters') : i \in 1..Len(waiters) \/ i = Len(waiters) + 1
        BY <3>2
      <4> QED BY <3>2, <4>1, <4>2
    <3>6. ASSUME NEW d \in Callers
          PROVE  pc'[d] = "waiting" <=> \E i \in 1..Len(waiters') : waiters'[i] = d
      <4>1. CASE d = c
        BY <3>1, <3>2, <4>1
      <4>2. CASE d # c
        <5>1. pc[d] = "waiting" <=> \E i \in 1..Len(waiters) : waiters[i] = d
          BY <1>0 DEF NoLostWaiter
        <5>2. \A i \in 1..Len(waiters') : i \in 1..Len(waiters) \/ i = Len(waiters) + 1
          BY <3>2
        <5>3. \A i \in 1..Len(waiters) : i \in 1..Len(waiters')
          BY <3>2
        <5> QED BY <3>1, <3>2, <4>2, <5>1, <5>2, <5>3
      <4> QED BY <4>1, <4>2
    <3> QED BY <3>3, <3>4, <3>5, <3>6 DEF IInv, NoLostWaiter
  <2> QED BY <1>1, <2>2, <2>3 DEF Lock
<1>2. ASSUME NEW c \in Callers, Statement(c) PROVE IInv'
  <2>1. Owns(c) /\ Release(c) /\ UNCHANGED <<kind, open, calls>> /\ pc[c] = "owner"
    BY <1>2 DEF Statement, Owns
  <2>2. open = NoCaller
    BY <1>0, <2>1 DEF Isolated, OneOwner, Owns
  <2>3. journal' = journal /\ saved' \in [Callers -> Nat]
    <3>1. \/ saved' = [saved EXCEPT ![c] = @ + 1] /\ journal' = journal
          \/ saved' = saved /\ journal' = journal
      BY <1>2, <2>2 DEF Statement, Execute
    <3> QED BY <1>0, <3>1
  <2>4. TypeOK' /\ OneOwner' /\ NoLostWaiter'
    BY <1>0, <2>1, <2>3, AfterRelease DEF TypeOK
  <2>5. Isolated' /\ Bounded'
    BY <1>0, <2>1, <2>2, <2>3, AfterRelease DEF Isolated, Bounded
  <2> QED BY <2>4, <2>5 DEF IInv
<1>3. ASSUME NEW c \in Callers, Begin(c) PROVE IInv'
  <2>1. /\ pc[c] = "owner" /\ open = NoCaller /\ open' = c
        /\ pc' = [pc EXCEPT ![c] = "body"]
        /\ UNCHANGED <<locked, waiters, kind, journal, saved, calls>>
    BY <1>3 DEF Begin
  <2>2. \A d \in Callers : pc'[d] = IF d = c THEN "body" ELSE pc[d]
    BY <1>0, <2>1
  <2>3. TypeOK' /\ Bounded'
    BY <1>0, <2>1 DEF TypeOK, Bounded
  <2>4. OneOwner' /\ Isolated'
    BY <1>0, <2>1, <2>2 DEF OneOwner, Owns, Isolated
  <2>5. NoLostWaiter'
    BY <1>0, <2>1, <2>2 DEF NoLostWaiter
  <2> QED BY <2>3, <2>4, <2>5 DEF IInv
<1>4. ASSUME NEW c \in Callers, BeginThrows(c) PROVE IInv'
  <2>1. /\ pc[c] = "owner" /\ pc' = [pc EXCEPT ![c] = "idle"]
        /\ UNCHANGED <<locked, waiters, kind, open, journal, saved, calls>>
    BY <1>4 DEF BeginThrows
  <2>2. \A d \in Callers : pc'[d] = IF d = c THEN "idle" ELSE pc[d]
    BY <1>0, <2>1
  <2>3. TypeOK' /\ Bounded'
    BY <1>0, <2>1 DEF TypeOK, Bounded
  <2>4. OneOwner' /\ Isolated'
    BY <1>0, <2>1, <2>2 DEF OneOwner, Owns, Isolated
  <2>5. NoLostWaiter'
    BY <1>0, <2>1, <2>2 DEF NoLostWaiter
  <2> QED BY <2>3, <2>4, <2>5 DEF IInv
<1>5. ASSUME NEW c \in Callers, BodyStatement(c) PROVE IInv'
  <2>1. pc[c] = "body" /\ open = c /\ journal[c] < MaxStmts
    BY <1>0, <1>5 DEF BodyStatement, Isolated
  <2>2. /\ journal' = [journal EXCEPT ![c] = @ + 1]
        /\ UNCHANGED <<locked, waiters, pc, kind, open, calls, saved>>
    BY <1>0, <1>5, <2>1 DEF BodyStatement, Execute
  <2>3. TypeOK' /\ Bounded'
    BY <1>0, <2>1, <2>2 DEF TypeOK, Bounded
  <2>4. OneOwner' /\ Isolated' /\ NoLostWaiter'
    BY <1>0, <2>1, <2>2 DEF OneOwner, Owns, Isolated, NoLostWaiter
  <2> QED BY <2>3, <2>4 DEF IInv
<1>6. ASSUME NEW c \in Callers, Commit(c) \/ Rollback(c) PROVE IInv'
  <2>1. Owns(c) /\ Release(c) /\ UNCHANGED <<kind, calls>> /\ open' = NoCaller
        /\ journal' = NoStmts
    BY <1>6 DEF Commit, Rollback, Owns
  <2>2. saved' \in [Callers -> Nat]
    BY <1>0, <1>6 DEF Commit, Rollback
  <2>3. TypeOK' /\ OneOwner' /\ NoLostWaiter'
    BY <1>0, <2>1, <2>2, AfterRelease DEF TypeOK, NoStmts
  <2>4. Isolated' /\ Bounded'
    BY <1>0, <2>1, AfterRelease DEF Isolated, Bounded, NoStmts
  <2> QED BY <2>3, <2>4 DEF IInv
<1> QED BY <1>1, <1>2, <1>3, <1>4, <1>5, <1>6 DEF Next, Continue

LEMMA Stutter == ASSUME IInv, UNCHANGED vars PROVE IInv'
BY DEF IInv, vars, TypeOK, OneOwner, Owns, Isolated, NoLostWaiter, Bounded

LEMMA Invariance == Spec => []IInv
<1>1. Init => IInv
  BY LockConstants, Initially
<1>2. IInv /\ [Next]_vars => IInv'
  BY LockConstants, Step, Stutter
<1> QED BY <1>1, <1>2, PTL DEF Spec

----------------------------------------------------------------------------
\* The lock admits one caller at a time, however many there are.
THEOREM Serialized == Spec => []OneOwner
<1>1. IInv => OneOwner
  BY DEF IInv
<1> QED BY <1>1, Invariance, PTL

\* No statement is committed or rolled back with another caller's transaction.
THEOREM TransactionsIsolated == Spec => []Isolated
<1>1. IInv => Isolated
  BY DEF IInv
<1> QED BY <1>1, Invariance, PTL

\* A waiting caller is in the queue exactly once.
THEOREM WaitersKept == Spec => []NoLostWaiter
<1>1. IInv => NoLostWaiter
  BY DEF IInv
<1> QED BY <1>1, Invariance, PTL

\* First come, first served: the lock goes to the head of the queue, and to a
\* newcomer only when nobody waits, for any number of callers and whatever
\* BEGIN does.
THEOREM FirstComeFirstServed == Spec => NoOvertaking
<1> DEFINE Fair(d) == (~Owns(d) /\ pc'[d] = "owner") =>
                        IF waiters = <<>> THEN pc[d] = "idle" ELSE Head(waiters) = d
<1>1. ASSUME IInv, Next, NEW d \in Callers, ~Owns(d), pc'[d] = "owner"
      PROVE  IF waiters = <<>> THEN pc[d] = "idle" ELSE Head(waiters) = d
  <2>0. /\ OneOwner /\ NoLostWaiter /\ pc \in [Callers -> {"idle", "waiting", "owner", "body"}]
        /\ pc[d] # "owner" /\ pc[d] # "body"
    BY <1>1 DEF IInv, TypeOK, Owns
  <2>1. ASSUME NEW c \in Callers, NEW k \in {"stmt", "tx"}, Lock(c, k)
        PROVE  IF waiters = <<>> THEN pc[d] = "idle" ELSE Head(waiters) = d
    <3>1. d = c /\ ~locked /\ pc[c] = "idle"
      BY <1>1, <2>0, <2>1 DEF Lock
    <3> QED BY <2>0, <3>1 DEF OneOwner
  <2>2. ASSUME NEW c \in Callers, Release(c)
        PROVE  IF waiters = <<>> THEN pc[d] = "idle" ELSE Head(waiters) = d
    BY <1>1, <2>0, <2>2 DEF Release
  <2>3. ASSUME NEW c \in Callers, Begin(c) \/ BeginThrows(c) \/ BodyStatement(c) PROVE FALSE
    BY <1>1, <2>0, <2>3 DEF Begin, BeginThrows, BodyStatement
  <2> QED BY <1>1, <2>1, <2>2, <2>3 DEF Next, Continue, Statement, Commit, Rollback
<1>2. ASSUME UNCHANGED vars, NEW d \in Callers PROVE Fair(d)
  BY <1>2 DEF vars, Owns
<1>3. IInv /\ [Next]_vars => [\A d \in Callers : Fair(d)]_vars
  BY <1>1, <1>2
<1> QED BY <1>3, Invariance, PTL DEF Spec, NoOvertaking

\* The lock and the transactions implement DbAtomic: a call's statements reach
\* the database together, at the instant it is answered, or not at all.
THEOREM LockImplementsAtomic == Spec => ImplementsAtomic
<1> DEFINE P == {c \in Callers : pc[c] # "idle"}
<1>1. Init => Atomic!Init
  BY DEF Init, Atomic!Init, NoStmts
<1>2. ASSUME IInv, Next PROVE Atomic!Next \/ UNCHANGED <<P, saved>>
  <2>0. /\ TypeOK /\ OneOwner /\ Isolated /\ NoLostWaiter
        /\ pc \in [Callers -> {"idle", "waiting", "owner", "body"}]
        /\ waiters \in Seq(Callers)
        /\ journal \in [Callers -> Nat] /\ saved \in [Callers -> Nat]
        /\ NoCaller \notin Callers /\ MaxStmts \in Nat \ {0}
        /\ \A c \in Callers : journal[c] <= MaxStmts
    BY <1>2, LockConstants DEF IInv, TypeOK, Bounded, LockConstants
  <2>1. ASSUME NEW c \in Callers, NEW k \in {"stmt", "tx"}, Lock(c, k) PROVE Atomic!Call(c)
    <3>1. pc[c] = "idle" /\ pc' \in [Callers -> {"idle", "waiting", "owner", "body"}]
          /\ pc'[c] # "idle" /\ \A d \in Callers \ {c} : pc'[d] = pc[d]
      BY <2>0, <2>1 DEF Lock
    <3>2. saved' = saved
      BY <2>1 DEF Lock
    <3> QED BY <3>1, <3>2 DEF Atomic!Call
  <2>2. ASSUME NEW c \in Callers, Owns(c), Release(c)
        PROVE  c \in P /\ P' = P \ {c}
    BY <2>0, <2>2, AfterRelease DEF Owns
  <2>3. ASSUME NEW c \in Callers, Statement(c) PROVE Atomic!Next
    <3>1. Owns(c) /\ Release(c) /\ pc[c] = "owner"
      BY <2>3 DEF Statement, Owns
    <3>2. open = NoCaller
      BY <2>0, <3>1 DEF Isolated, OneOwner, Owns, TypeOK
    <3>3. saved' = [saved EXCEPT ![c] = @ + 1] \/ saved' = saved
      BY <2>3, <3>2 DEF Statement, Execute
    <3>4. Atomic!Succeed(c, 1) \/ Atomic!Fail(c)
      BY <2>2, <3>1, <3>3 DEF Atomic!Succeed, Atomic!Fail
    <3> QED BY <2>0, <3>4 DEF Atomic!Next
  <2>4. ASSUME NEW c \in Callers, Begin(c) \/ BodyStatement(c) PROVE UNCHANGED <<P, saved>>
    <3>1. saved' = saved
      BY <2>0, <2>4 DEF Begin, BodyStatement, Execute, Isolated
    <3>2. \A d \in Callers : pc'[d] # "idle" <=> pc[d] # "idle"
      BY <2>0, <2>4 DEF Begin, BodyStatement
    <3> QED BY <3>1, <3>2
  <2>5. ASSUME NEW c \in Callers, BeginThrows(c) PROVE Atomic!Fail(c)
    <3>1. /\ saved' = saved /\ pc[c] = "owner" /\ pc' = [pc EXCEPT ![c] = "idle"]
      BY <2>5 DEF BeginThrows
    <3>2. c \in P /\ P' = P \ {c}
      BY <2>0, <3>1
    <3> QED BY <3>1, <3>2 DEF Atomic!Fail
  <2>6. ASSUME NEW c \in Callers, Commit(c) PROVE Atomic!Next
    <3>1. Owns(c) /\ Release(c) /\ pc[c] = "body" /\ open = c
      BY <2>0, <2>6 DEF Commit, Owns, Isolated
    <3>2. \A d \in Callers \ {c} : journal[d] = 0
      BY <2>0, <3>1 DEF Isolated
    <3>3. saved' = [saved EXCEPT ![c] = @ + journal[c]]
      <4>1. saved' = [d \in Callers |-> saved[d] + journal[d]]
        BY <2>6 DEF Commit
      <4>2. \A d \in Callers : saved[d] \in Nat /\ journal[d] \in Nat
        BY <2>0
      <4>3. ASSUME NEW d \in Callers \ {c} PROVE saved[d] + journal[d] = saved[d]
        <5>1. journal[d] = 0 /\ saved[d] \in Nat
          BY <3>2, <4>2
        <5> QED BY <5>1
      <4> DEFINE f == [saved EXCEPT ![c] = @ + journal[c]]
      <4>4. f = [d \in Callers |-> f[d]] /\ \A d \in Callers : f[d] = saved[d] + journal[d]
        BY <2>0, <4>3
      <4> HIDE DEF f
      <4>5. f = [d \in Callers |-> saved[d] + journal[d]]
        BY <4>4
      <4> QED BY <4>1, <4>5 DEF f
    <3>4. Atomic!Succeed(c, journal[c]) /\ journal[c] \in 0..MaxStmts
      <4>1. Atomic!Succeed(c, journal[c])
        BY <2>2, <3>1, <3>3 DEF Atomic!Succeed
      <4> QED BY <2>0, <4>1
    <3> QED BY <3>4 DEF Atomic!Next, Atomic!Succeed
  <2>7. ASSUME NEW c \in Callers, Rollback(c) PROVE Atomic!Fail(c)
    <3>1. Owns(c) /\ Release(c) /\ saved' = saved
      BY <2>7 DEF Rollback, Owns
    <3> QED BY <2>2, <3>1 DEF Atomic!Fail
  <2> QED
    BY <1>2, <2>1, <2>3, <2>4, <2>5, <2>6, <2>7 DEF Next, Continue, Atomic!Next
<1>3. UNCHANGED vars => UNCHANGED <<P, saved>>
  BY DEF vars
<1>4. IInv /\ [Next]_vars => [Atomic!Next]_<<P, saved>>
  BY <1>2, <1>3
<1> QED BY <1>1, <1>4, Invariance, PTL DEF Spec, ImplementsAtomic, Atomic!Spec

=============================================================================
