--------------------------- MODULE IdempotentPost ---------------------------
(***************************************************************************)
(* withIdempotency (modules/freight/service.ts): a POST that carries a key *)
(* is answered from idempotency_keys when the key is known, and run and    *)
(* recorded when it is not.  The lookup, the handler and the insert are    *)
(* separate; the handler is one step that makes a record or throws.  The   *)
(* wrapper is shared by the POST routes of freight, masters, stock,        *)
(* landing, firms, sync and backup.                                        *)
(***************************************************************************)
EXTENDS Naturals, FiniteSets

CONSTANTS
  Keys, Posts,    \* keys clients make up, and requests in flight
  MaxRecords      \* a bound: records made under a key

ASSUME IdempotencyAssumption == MaxRecords \in Nat \ {0}

VARIABLES
  known,    \* idempotency_keys: the response of a key, 0 for no row
  made,     \* records made under each key; a response names its record
  post,     \* the request in flight: its key, how far it is, its record
  answers,  \* the responses given to a key
  torn      \* keys for which two runs overlapped, or a run's key was lost

postVars == <<known, made, post, answers, torn>>

Quiet == [at |-> "idle", key |-> 0, got |-> 0]

IdempotencyInit ==
  /\ known = [k \in Keys |-> 0] /\ made = [k \in Keys |-> 0]
  /\ post = [p \in Posts |-> Quiet] /\ answers = [k \in Keys |-> {}] /\ torn = {}

Underway(k) == {p \in Posts : post[p].at # "idle" /\ post[p].key = k}

\* The lookup: a known key is answered as before.
PostLook(p, k) ==
  /\ post[p] = Quiet
  /\ \/ /\ known[k] # 0 /\ answers' = [answers EXCEPT ![k] = @ \cup {known[k]}]
        /\ UNCHANGED <<post, torn>>
     \/ /\ known[k] = 0 /\ post' = [post EXCEPT ![p] = [at |-> "work", key |-> k, got |-> 0]]
        /\ torn' = torn \cup {x \in {k} : Underway(x) # {}}
        /\ UNCHANGED answers
  /\ UNCHANGED <<known, made>>

\* fn: the handler throws, and nothing is recorded, or makes its record.
PostWork(p) ==
  /\ post[p].at = "work"
  /\ LET k == post[p].key IN
     \/ post' = [post EXCEPT ![p] = Quiet] /\ UNCHANGED made
     \/ /\ made[k] < MaxRecords /\ made' = [made EXCEPT ![k] = @ + 1]
        /\ post' = [post EXCEPT ![p].at = "store", ![p].got = made[k] + 1]
  /\ UNCHANGED <<known, answers, torn>>

\* Mutant: the response is not recorded.
PostStore_Forgets(p) ==
  /\ post[p].at = "store"
  /\ answers' = [answers EXCEPT ![post[p].key] = @ \cup {post[p].got}]
  /\ post' = [post EXCEPT ![p] = Quiet]
  /\ UNCHANGED <<known, made, torn>>

\* The insert: a key somebody stored meanwhile stays as it is; the caller is given
\* its own response either way.
PostStore(p) ==
  /\ post[p].at = "store"
  /\ LET k == post[p].key IN
     /\ known' = [known EXCEPT ![k] = IF @ = 0 THEN post[p].got ELSE @]
     /\ answers' = [answers EXCEPT ![k] = @ \cup {post[p].got}]
  /\ post' = [post EXCEPT ![p] = Quiet]
  /\ UNCHANGED <<made, torn>>

\* runPurgeJobs drops a key after a day.
PurgeKey(k) ==
  /\ known[k] # 0 /\ known' = [known EXCEPT ![k] = 0] /\ torn' = torn \cup {k}
  /\ UNCHANGED <<made, post, answers>>

\* The process ends; a record made whose key was not stored stays.
PostCrash ==
  /\ torn' = torn \cup {post[p].key : p \in {r \in Posts : post[r].at = "store"}}
  /\ post' = [p \in Posts |-> Quiet]
  /\ UNCHANGED <<known, made, answers>>

IdempotencyNext ==
  \/ \E p \in Posts, k \in Keys : PostLook(p, k)
  \/ \E p \in Posts : PostWork(p) \/ PostStore(p)
  \/ \E k \in Keys : PurgeKey(k)
  \/ PostCrash

PostsSpec == IdempotencyInit /\ [][IdempotencyNext]_postVars

-----------------------------------------------------------------------------
(* Properties.                                                             *)

IdempotencyTypeOK ==
  /\ known \in [Keys -> 0..MaxRecords] /\ made \in [Keys -> 0..MaxRecords]
  /\ answers \in [Keys -> SUBSET (1..MaxRecords)] /\ torn \subseteq Keys

\* A POST that is retried makes one record, and every copy of it is told of that
\* one, unless two copies ran at the same time, the process ended between the
\* record and its key, or the key was a day old.
OneRecord == \A k \in Keys \ torn : made[k] <= 1 /\ answers[k] \subseteq 1..made[k]
=============================================================================
