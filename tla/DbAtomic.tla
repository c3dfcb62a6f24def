------------------------------ MODULE DbAtomic ------------------------------
(* What db/pool.ts promises its callers: a call - one statement, or a whole   *)
(* transaction - is answered once, and its statements reach the database      *)
(* together or not at all.                                                    *)
EXTENDS Naturals

CONSTANTS Callers, MaxStmts

VARIABLES
  pending,  \* the callers waiting for an answer
  saved     \* caller -> its statements that are in the database for good

Init ==
  /\ pending = {}
  /\ saved = [c \in Callers |-> 0]

Call(c) ==
  /\ c \notin pending
  /\ pending' = pending \cup {c}
  /\ UNCHANGED saved

Succeed(c, n) ==
  /\ c \in pending
  /\ pending' = pending \ {c}
  /\ saved' = [saved EXCEPT ![c] = @ + n]

Fail(c) ==
  /\ c \in pending
  /\ pending' = pending \ {c}
  /\ UNCHANGED saved

Next == \E c \in Callers : \/ Call(c) \/ Fail(c)
                           \/ \E n \in 0..MaxStmts : Succeed(c, n)

Spec == Init /\ [][Next]_<<pending, saved>>
=============================================================================
