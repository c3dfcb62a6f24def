---------------------------- MODULE AccountsProofs ----------------------------
(* Accounts, for every set of users, tokens, plans, requests and keys: what a *)
(* repeated POST makes, what a code opens, who holds a purchase, what the     *)
(* entitlement cache remembers and when a referral is paid.                   *)
EXTENDS Referrals, AuthOtp, IdempotentPost, SequenceTheorems, FiniteSetTheorems, TLAPS

----------------------------------------------------------------------------
(* Repeated POSTs.                                                          *)

PostRow == [at : {"idle", "work", "store"}, key : Keys \cup {0}, got : 0..MaxRecords]

PostsTyped ==
  /\ IdempotencyTypeOK
  /\ post \in [Posts -> PostRow]
  /\ \A p \in Posts : /\ post[p].at # "idle" => post[p].key \in Keys
                      /\ post[p].at = "store" => post[p].got # 0

\* A run of p under the key k is under way.
Runs(p, k) == post[p].at # "idle" /\ post[p].key = k

\* The history of a key: untouched, run by one request, or answered.
KeyClean(k) ==
  /\ made[k] <= 1 /\ answers[k] \subseteq 1..made[k]
  /\ known[k] = 0 \/ known[k] = made[k]
  /\ made[k] = 1 => known[k] = 1 \/ \E p \in Posts : Runs(p, k) /\ post[p].at = "store"
  /\ \A p \in Posts : Runs(p, k) =>
       /\ known[k] = 0
       /\ post[p].at = "work" => made[k] = 0
       /\ post[p].at = "store" => made[k] = 1 /\ post[p].got = 1
       /\ \A q \in Posts : Runs(q, k) => q = p

OneRun == \A k \in Keys \ torn : KeyClean(k)

PostsInv == PostsTyped /\ OneRun

LEMMA PostsInit == IdempotencyInit => PostsInv
<1> SUFFICES ASSUME IdempotencyInit PROVE PostsInv
  OBVIOUS
<1>1. MaxRecords \in Nat /\ 0 \in 0..MaxRecords
  BY IdempotencyAssumption
<1>2. Quiet \in PostRow /\ Quiet.at = "idle"
  BY <1>1 DEF Quiet, PostRow
<1>3. PostsTyped
  BY <1>1, <1>2 DEF IdempotencyInit, PostsTyped, IdempotencyTypeOK
<1>4. OneRun
  BY <1>2 DEF IdempotencyInit, OneRun, KeyClean, Runs
<1> QED BY <1>3, <1>4 DEF PostsInv

\* A step that leaves a key and its runs alone keeps what is said of it.
LEMMA KeyKept ==
  ASSUME NEW k \in Keys, KeyClean(k),
         known'[k] = known[k], made'[k] = made[k], answers'[k] = answers[k],
         \A p \in Posts : Runs(p, k)' <=> Runs(p, k),
         \A p \in Posts : Runs(p, k) => post'[p] = post[p]
  PROVE  KeyClean(k)'
BY DEF KeyClean

\* The requests a step writes.
LEMMA PostForms ==
  /\ Quiet \in PostRow /\ Quiet.at = "idle"
  /\ \A k \in Keys : [at |-> "work", key |-> k, got |-> 0] \in PostRow
<1>1. MaxRecords \in Nat /\ 0 \in 0..MaxRecords
  BY IdempotencyAssumption
<1> QED BY <1>1 DEF Quiet, PostRow

LEMMA PostMade ==
  ASSUME post \in [Posts -> PostRow], NEW p \in Posts, NEW n \in 1..MaxRecords,
         post' = [post EXCEPT ![p].at = "store", ![p].got = n]
  PROVE  /\ post' \in [Posts -> PostRow] /\ \A x \in Posts \ {p} : post'[x] = post[x]
         /\ post'[p].at = "store" /\ post'[p].key = post[p].key /\ post'[p].got = n
<1> DEFINE r == [at |-> "store", key |-> post[p].key, got |-> n]
<1>1. post[p] = [at |-> post[p].at, key |-> post[p].key, got |-> post[p].got] /\ post[p].key \in Keys \cup {0}
  BY DEF PostRow
<1>2. r \in PostRow
  <2>1. n \in 0..MaxRecords
    BY IdempotencyAssumption
  <2> QED BY <1>1, <2>1 DEF PostRow
<1>3. post'[p] = r /\ \A x \in Posts \ {p} : post'[x] = post[x]
  BY <1>1
<1>4. post' = [x \in Posts |-> post'[x]]
  OBVIOUS
<1>5. post' \in [Posts -> PostRow]
  <2> HIDE DEF r
  <2>1. \A x \in Posts : post'[x] \in PostRow
    BY <1>2, <1>3
  <2> QED BY <1>4, <2>1
<1> QED BY <1>3, <1>5

LEMMA PostsNext == PostsInv /\ [IdempotencyNext]_postVars => PostsInv'
<1> SUFFICES ASSUME PostsInv, [IdempotencyNext]_postVars PROVE PostsInv'
  OBVIOUS
<1>t. /\ known \in [Keys -> 0..MaxRecords] /\ made \in [Keys -> 0..MaxRecords]
      /\ answers \in [Keys -> SUBSET (1..MaxRecords)] /\ torn \subseteq Keys
      /\ post \in [Posts -> PostRow] /\ MaxRecords \in Nat \ {0}
      /\ \A p \in Posts : /\ post[p].at # "idle" => post[p].key \in Keys
                          /\ post[p].at = "store" => post[p].got # 0
      /\ PostsTyped
  BY IdempotencyAssumption DEF PostsInv, PostsTyped, IdempotencyTypeOK
<1>c. \A k \in Keys \ torn : KeyClean(k)
  BY DEF PostsInv, OneRun
<1>1. ASSUME NEW p \in Posts, NEW k \in Keys, PostLook(p, k) PROVE PostsInv'
  <2>1. CASE known[k] # 0 /\ answers' = [answers EXCEPT ![k] = @ \cup {known[k]}] /\ UNCHANGED <<post, torn, known, made>>
    <3>1. known[k] \in 1..MaxRecords
      BY <1>t, <2>1
    <3>2. PostsTyped'
      BY <1>t, <2>1, <3>1 DEF PostsTyped, IdempotencyTypeOK
    <3>3. ASSUME NEW j \in Keys \ torn' PROVE KeyClean(j)'
      <4>1. KeyClean(j)
        BY <1>c, <2>1
      <4>2. \A q \in Posts : Runs(q, j)' <=> Runs(q, j)
        BY <2>1 DEF Runs
      <4>3. CASE j # k
        BY <1>t, <2>1, <4>1, <4>2, <4>3, KeyKept
      <4>4. CASE j = k
        <5>1. made[k] = 1 /\ known[k] = 1
          BY <1>t, <2>1, <4>1, <4>4 DEF KeyClean
        <5>2. answers'[k] \subseteq 1..made[k]
          BY <1>t, <2>1, <4>1, <4>4, <5>1 DEF KeyClean
        <5> QED BY <2>1, <4>1, <4>2, <4>4, <5>2 DEF KeyClean
      <4> QED BY <4>3, <4>4
    <3> QED BY <3>2, <3>3 DEF PostsInv, OneRun
  <2>2. CASE known[k] = 0 /\ post' = [post EXCEPT ![p] = [at |-> "work", key |-> k, got |-> 0]]
             /\ torn' = torn \cup {x \in {k} : Underway(x) # {}} /\ UNCHANGED <<answers, known, made>>
    <3>1. /\ post' \in [Posts -> PostRow] /\ post'[p].at = "work" /\ post'[p].key = k
          /\ \A x \in Posts \ {p} : post'[x] = post[x]
      BY <2>2, PostForms, <1>t
    <3>2. PostsTyped'
      BY <1>t, <2>2, <3>1 DEF PostsTyped, IdempotencyTypeOK
    <3>p. post[p].at = "idle"
      BY <1>1, <1>t, PostForms DEF PostLook
    <3>3. ASSUME NEW j \in Keys \ torn' PROVE KeyClean(j)'
      <4>1. KeyClean(j)
        BY <1>c, <2>2
      <4>3. CASE j # k
        <5>1. \A q \in Posts : Runs(q, j)' <=> Runs(q, j)
          BY <3>1, <3>p, <4>3 DEF Runs
        <5>2. \A q \in Posts : Runs(q, j) => post'[q] = post[q]
          BY <3>1, <3>p DEF Runs
        <5> QED BY <2>2, <4>1, <5>1, <5>2, KeyKept
      <4>4. CASE j = k
        <5>1. \A q \in Posts : ~Runs(q, k)
          BY <2>2, <4>4 DEF Runs, Underway
        <5>2. \A q \in Posts : Runs(q, k)' <=> q = p
          BY <3>1, <5>1 DEF Runs
        <5>3. made[k] = 0
          BY <1>t, <2>2, <4>1, <4>4, <5>1 DEF KeyClean
        <5> QED BY <2>2, <3>1, <4>1, <4>4, <5>2, <5>3 DEF KeyClean
      <4> QED BY <4>3, <4>4
    <3> QED BY <3>2, <3>3 DEF PostsInv, OneRun
  <2> QED BY <1>1, <2>1, <2>2 DEF PostLook
<1>2. ASSUME NEW p \in Posts, PostWork(p) PROVE PostsInv'
  <2> DEFINE k == post[p].key
  <2>k. k \in Keys /\ Runs(p, k) /\ UNCHANGED <<known, answers, torn>>
    BY <1>2, <1>t DEF PostWork, Runs
  <2>1. CASE post' = [post EXCEPT ![p] = Quiet] /\ UNCHANGED made
    <3>1. post' \in [Posts -> PostRow] /\ post'[p].at = "idle" /\ \A x \in Posts \ {p} : post'[x] = post[x]
      BY <2>1, PostForms, <1>t
    <3>2. PostsTyped'
      BY <1>t, <2>1, <2>k, <3>1 DEF PostsTyped, IdempotencyTypeOK
    <3>3. ASSUME NEW j \in Keys \ torn' PROVE KeyClean(j)'
      <4>1. KeyClean(j)
        BY <1>c, <2>k
      <4>2. \A q \in Posts : Runs(q, j)' <=> Runs(q, j) /\ q # p
        BY <3>1 DEF Runs
      <4>3. post[p].at = "work"
        BY <1>2 DEF PostWork
      <4> HIDE DEF k
      <4> QED BY <2>1, <2>k, <3>1, <4>1, <4>2, <4>3 DEF KeyClean
    <3> QED BY <3>2, <3>3 DEF PostsInv, OneRun
  <2>2. CASE /\ made[k] < MaxRecords /\ made' = [made EXCEPT ![k] = @ + 1]
             /\ post' = [post EXCEPT ![p].at = "store", ![p].got = made[k] + 1]
    <3>0. made[k] + 1 \in 1..MaxRecords
      BY <1>t, <2>2, <2>k
    <3>1. /\ post' \in [Posts -> PostRow] /\ post'[p].at = "store" /\ post'[p].key = k
          /\ post'[p].got = made[k] + 1
          /\ \A x \in Posts \ {p} : post'[x] = post[x]
      BY <2>2, <3>0, PostMade, <1>t
    <3>2. /\ made' \in [Keys -> 0..MaxRecords] /\ made'[k] = made[k] + 1
          /\ \A j \in Keys \ {k} : made'[j] = made[j]
      BY <1>t, <2>2, <2>k, <3>0
    <3>3. PostsTyped'
      BY <1>t, <2>k, <3>1, <3>2 DEF PostsTyped, IdempotencyTypeOK
    <3> HIDE DEF k
    <3>4. ASSUME NEW j \in Keys \ torn' PROVE KeyClean(j)'
      <4>1. KeyClean(j)
        BY <1>c, <2>k
      <4>2. \A q \in Posts : Runs(q, j)' <=> Runs(q, j)
        BY <1>2, <2>k, <3>1 DEF Runs, PostWork, k
      <4>3. CASE j # k
        <5>1. \A q \in Posts : Runs(q, j) => post'[q] = post[q]
          BY <2>k, <3>1, <4>3 DEF Runs, k
        <5> QED BY <2>k, <3>2, <4>1, <4>2, <4>3, <5>1, KeyKept
      <4>4. CASE j = k
        <5>1. made[k] = 0
          BY <1>2, <2>k, <4>1, <4>4 DEF KeyClean, PostWork
        <5>2. made'[k] = 1 /\ post'[p].got = 1 /\ answers[k] \subseteq 1..1
          BY <3>1, <3>2, <4>1, <4>4, <5>1 DEF KeyClean
        <5>3. \A q \in Posts : Runs(q, k) => q = p
          BY <2>k, <4>1, <4>4 DEF KeyClean
        <5>4. known[k] = 0
          BY <2>k, <4>1, <4>4 DEF KeyClean
        <5> QED BY <2>k, <3>1, <4>2, <4>4, <5>2, <5>3, <5>4 DEF KeyClean
      <4> QED BY <4>3, <4>4
    <3> QED BY <3>3, <3>4 DEF PostsInv, OneRun
  <2> QED BY <1>2, <2>1, <2>2 DEF PostWork
<1>3. ASSUME NEW p \in Posts, PostStore(p) PROVE PostsInv'
  <2> DEFINE k == post[p].key
  <2>k. k \in Keys /\ Runs(p, k) /\ UNCHANGED <<made, torn>> /\ post[p].got \in 1..MaxRecords
    BY <1>3, <1>t DEF PostStore, Runs, PostRow
  <2>1. /\ known' = [known EXCEPT ![k] = IF @ = 0 THEN post[p].got ELSE @]
        /\ answers' = [answers EXCEPT ![k] = @ \cup {post[p].got}]
        /\ post' = [post EXCEPT ![p] = Quiet]
    BY <1>3 DEF PostStore
  <2>2. post' \in [Posts -> PostRow] /\ post'[p].at = "idle" /\ \A x \in Posts \ {p} : post'[x] = post[x]
    BY <2>1, PostForms, <1>t
  <2>3. known' \in [Keys -> 0..MaxRecords]
    BY <1>t, <2>1, <2>k
  <2>4. answers' \in [Keys -> SUBSET (1..MaxRecords)]
    BY <1>t, <2>1, <2>k
  <2>5. PostsTyped'
    BY <1>t, <2>k, <2>2, <2>3, <2>4 DEF PostsTyped, IdempotencyTypeOK
  <2>6. ASSUME NEW j \in Keys \ torn' PROVE KeyClean(j)'
    <3>1. KeyClean(j)
      BY <1>c, <2>k
    <3>2. \A q \in Posts : Runs(q, j)' <=> Runs(q, j) /\ q # p
      BY <2>2 DEF Runs
    <3>3. CASE j # k
      <4>1. \A q \in Posts : Runs(q, j) => q # p
        BY <3>3 DEF Runs
      <4>2. known'[j] = known[j] /\ answers'[j] = answers[j]
        BY <1>t, <2>1, <3>3
      <4> QED BY <2>2, <2>k, <3>1, <3>2, <4>1, <4>2, KeyKept
    <3>4. CASE j = k
      <4>1. made[j] = 1 /\ post[p].got = 1 /\ known[j] = 0
        BY <1>3, <2>k, <3>1, <3>4 DEF KeyClean, PostStore
      <4>2. known'[j] = 1 /\ answers'[j] = answers[j] \cup {1}
        BY <1>t, <2>1, <2>k, <3>4, <4>1
      <4>3. \A q \in Posts : ~Runs(q, j)'
        BY <2>k, <3>1, <3>2, <3>4 DEF KeyClean
      <4>4. answers'[j] \subseteq 1..1
        BY <3>1, <4>1, <4>2 DEF KeyClean
      <4> QED BY <2>k, <4>1, <4>2, <4>3, <4>4 DEF KeyClean
    <3> QED BY <3>3, <3>4
  <2> QED BY <2>5, <2>6 DEF PostsInv, OneRun
<1>4. ASSUME NEW k \in Keys, PurgeKey(k) PROVE PostsInv'
  <2>1. /\ known' = [known EXCEPT ![k] = 0] /\ torn' = torn \cup {k} /\ UNCHANGED <<made, post, answers>>
    BY <1>4 DEF PurgeKey
  <2>2. PostsTyped'
    BY <1>t, <2>1 DEF PostsTyped, IdempotencyTypeOK
  <2>3. ASSUME NEW j \in Keys \ torn' PROVE KeyClean(j)'
    <3>1. KeyClean(j) /\ known'[j] = known[j]
      BY <1>c, <1>t, <2>1
    <3> QED BY <2>1, <3>1 DEF KeyClean, Runs
  <2> QED BY <2>2, <2>3 DEF PostsInv, OneRun
<1>5. ASSUME PostCrash PROVE PostsInv'
  <2>1. /\ torn' = torn \cup {post[p].key : p \in {r \in Posts : post[r].at = "store"}}
        /\ post' = [p \in Posts |-> Quiet] /\ UNCHANGED <<known, made, answers>>
    BY <1>5 DEF PostCrash
  <2>2. Quiet \in PostRow /\ Quiet.at = "idle"
    BY <1>t DEF Quiet, PostRow
  <2>3. PostsTyped'
    BY <1>t, <2>1, <2>2 DEF PostsTyped, IdempotencyTypeOK
  <2>4. ASSUME NEW j \in Keys \ torn' PROVE KeyClean(j)'
    <3>1. KeyClean(j) /\ \A p \in Posts : Runs(p, j) => post[p].at # "store"
      BY <1>c, <2>1 DEF Runs
    <3>2. \A p \in Posts : ~Runs(p, j)'
      BY <2>1, <2>2 DEF Runs
    <3> QED BY <2>1, <3>1, <3>2 DEF KeyClean
  <2> QED BY <2>3, <2>4 DEF PostsInv, OneRun
<1>6. CASE UNCHANGED postVars
  BY <1>6 DEF postVars, PostsInv, PostsTyped, IdempotencyTypeOK, OneRun, KeyClean, Runs
<1> QED BY <1>1, <1>2, <1>3, <1>4, <1>5, <1>6 DEF IdempotencyNext

\* A POST that is retried makes one record and every copy of it is told of that one
\* (withIdempotency), unless two copies overlapped, the process ended between the
\* record and its key, or the key was purged.
THEOREM RetriesMakeOne == PostsSpec => []OneRecord
<1>1. PostsInv => OneRecord
  BY DEF PostsInv, OneRun, KeyClean, OneRecord
<1> QED BY <1>1, PostsInit, PostsNext, PTL DEF PostsSpec

----------------------------------------------------------------------------
(* One-time codes.                                                          *)

Code      == [purpose : Purposes, used : BOOLEAN, over : BOOLEAN]
CallerRow == [at : {"idle", "signup", "issue", "accepted"}, purpose : Purposes]

OtpTyped ==
  /\ OtpTypeOK
  /\ caller \in [Callers -> CallerRow] /\ spent \in [1..MaxCodes -> Nat]

\* The codes of a purpose that were accepted, and the callers about to act on one.
Paid(p)     == {i \in DOMAIN codes : codes[i].purpose = p /\ spent[i] = 1}
Accepted(p) == {c \in Callers : caller[c].at = "accepted" /\ caller[c].purpose = p}

\* A code that may still be accepted was not, and is the last of its purpose; one
\* that was not issued was not accepted.
CodesFresh ==
  \A i \in 1..MaxCodes :
    /\ spent[i] <= 1
    /\ i > Len(codes) => spent[i] = 0
    /\ i <= Len(codes) /\ ~codes[i].used =>
         spent[i] = 0 /\ \A j \in 1..Len(codes) : j > i => codes[j].purpose # codes[i].purpose

\* What was done, or is about to be, was paid for.
AllPaid ==
  /\ IsFiniteSet(Accepted("reset_password"))
  /\ account.resets + Cardinality(Accepted("reset_password")) <= Cardinality(Paid("reset_password"))
  /\ account.verified \/ Accepted("verify_email") # {} => Paid("verify_email") # {}

OtpInv == OtpTyped /\ CodesFresh /\ AllPaid

LEMMA OtpBounds == MaxCodes \in Nat /\ MaxResets \in Nat
BY OtpAssumption

LEMMA WaitsTyped == Waits \in CallerRow /\ Waits.at = "idle"
BY DEF Waits, CallerRow, Purposes

LEMMA CodesDomain ==
  ASSUME OtpTyped
  PROVE  /\ codes \in Seq(Code) /\ Len(codes) \in Nat /\ Len(codes) <= MaxCodes
         /\ DOMAIN codes = 1..Len(codes) /\ codes \in [1..Len(codes) -> Code]
         /\ \A i \in 1..Len(codes) : i \in 1..MaxCodes /\ codes[i] \in Code
<1>1. codes \in Seq(Code) /\ Len(codes) <= MaxCodes
  BY DEF OtpTyped, OtpTypeOK, Code
<1>2. Len(codes) \in Nat /\ DOMAIN codes = 1..Len(codes) /\ codes \in [1..Len(codes) -> Code]
  BY <1>1, LenProperties
<1> QED BY <1>1, <1>2, OtpBounds

LEMMA OtpInitInv == OtpInit => OtpInv
<1> SUFFICES ASSUME OtpInit PROVE OtpInv
  OBVIOUS
<1>1. /\ codes = <<>> /\ account = [there |-> FALSE, verified |-> FALSE, resets |-> 0]
      /\ caller = [c \in Callers |-> Waits] /\ spent = [i \in 1..MaxCodes |-> 0]
  BY DEF OtpInit
<1>2. codes \in Seq(Code) /\ Len(codes) = 0
  BY <1>1, EmptySeq
<1>3. OtpTyped
  BY <1>1, <1>2, OtpBounds, WaitsTyped DEF OtpTyped, OtpTypeOK, Code
<1>4. DOMAIN codes = {}
  BY <1>3, <1>2, CodesDomain
<1>5. Paid("reset_password") = {} /\ \A p \in Purposes : Accepted(p) = {}
  BY <1>1, <1>4, WaitsTyped DEF Paid, Accepted
<1>6. CodesFresh
  BY <1>1, <1>2, OtpBounds DEF CodesFresh
<1>7. AllPaid
  <2>1. Accepted("reset_password") = {} /\ Accepted("verify_email") = {}
    BY <1>5 DEF Purposes
  <2>2. account.resets = 0 /\ account.verified = FALSE
    BY <1>1
  <2>3. Cardinality(Accepted("reset_password")) = 0 /\ Cardinality(Paid("reset_password")) = 0
        /\ IsFiniteSet(Accepted("reset_password"))
    BY <1>5, <2>1, FS_EmptySet
  <2> QED BY <2>1, <2>2, <2>3 DEF AllPaid
<1> QED BY <1>3, <1>6, <1>7 DEF OtpInv

\* A new code: those before it keep their purpose, and those of its purpose are used.
LEMMA IssuedCodes ==
  ASSUME OtpTyped, NEW p \in Purposes, Issued(p)
  PROVE  /\ codes' \in Seq(Code) /\ Len(codes') = Len(codes) + 1 /\ Len(codes') <= MaxCodes
         /\ DOMAIN codes' = 1..(Len(codes) + 1)
         /\ codes'[Len(codes) + 1] = [purpose |-> p, used |-> FALSE, over |-> FALSE]
         /\ \A i \in 1..Len(codes) :
              /\ codes'[i].purpose = codes[i].purpose
              /\ ~codes'[i].used => ~codes[i].used /\ codes[i].purpose # p
<1> DEFINE n == Len(codes)
           old == [i \in 1..n |-> IF codes[i].purpose = p THEN [codes[i] EXCEPT !.used = TRUE] ELSE codes[i]]
           new == [purpose |-> p, used |-> FALSE, over |-> FALSE]
<1>1. n \in Nat /\ n < MaxCodes /\ DOMAIN codes = 1..n /\ \A i \in 1..n : codes[i] \in Code
  BY CodesDomain DEF Issued
<1>2. codes' = Append(old, new)
  BY <1>1 DEF Issued
<1>3. new \in Code
  BY DEF Code
<1>4. \A i \in 1..n : /\ old[i] \in Code /\ old[i].purpose = codes[i].purpose
                      /\ ~old[i].used => ~codes[i].used /\ codes[i].purpose # p
  BY <1>1 DEF Code
<1>5. old \in Seq(Code)
  <2>1. old \in [1..n -> Code]
    BY <1>4
  <2> HIDE DEF old
  <2> QED BY <1>1, <2>1, SeqDef
<1>6. Len(old) = n
  <2>1. DOMAIN old = 1..n
    OBVIOUS
  <2> HIDE DEF old
  <2> QED BY <1>1, <1>5, <2>1, LenProperties
<1> HIDE DEF old, new
<1>7. /\ codes' \in Seq(Code) /\ Len(codes') = n + 1 /\ codes'[n + 1] = new
      /\ \A i \in 1..n : codes'[i] = old[i]
  BY <1>1, <1>2, <1>3, <1>5, <1>6
<1>8. DOMAIN codes' = 1..(n + 1)
  BY <1>7, LenProperties
<1>9. Len(codes') <= MaxCodes
  BY <1>1, <1>7, OtpBounds
<1> QED BY <1>4, <1>7, <1>8, <1>9 DEF new

\* What a step on which the codes' purposes and acceptances do not depend keeps.
LEMMA PaidAfterIssue ==
  ASSUME OtpTyped, CodesFresh, OtpTyped', NEW p \in Purposes, Issued(p), spent' = spent
  PROVE  CodesFresh' /\ \A q \in Purposes : Paid(q)' = Paid(q)
<1>1. /\ Len(codes) \in Nat /\ Len(codes') = Len(codes) + 1 /\ Len(codes') <= MaxCodes
      /\ DOMAIN codes = 1..Len(codes) /\ DOMAIN codes' = 1..(Len(codes) + 1)
      /\ codes'[Len(codes) + 1] = [purpose |-> p, used |-> FALSE, over |-> FALSE]
      /\ \A i \in 1..Len(codes) :
           /\ codes'[i].purpose = codes[i].purpose
           /\ ~codes'[i].used => ~codes[i].used /\ codes[i].purpose # p
  BY IssuedCodes, CodesDomain
<1>2. spent[Len(codes) + 1] = 0
  BY <1>1, OtpBounds DEF CodesFresh
<1>3. CodesFresh'
  <2> SUFFICES ASSUME NEW i \in 1..MaxCodes
               PROVE  /\ spent[i] <= 1
                      /\ i > Len(codes) + 1 => spent[i] = 0
                      /\ i <= Len(codes) + 1 /\ ~codes'[i].used =>
                           spent[i] = 0 /\ \A j \in 1..(Len(codes) + 1) : j > i => codes'[j].purpose # codes'[i].purpose
    BY <1>1 DEF CodesFresh
  <2>1. spent[i] <= 1 /\ (i > Len(codes) + 1 => spent[i] = 0)
    BY <1>1, OtpBounds DEF CodesFresh
  <2>2. CASE i = Len(codes) + 1
    BY <1>1, <1>2, <2>1, <2>2
  <2>3. CASE i # Len(codes) + 1
    <3> SUFFICES ASSUME i <= Len(codes) + 1, ~codes'[i].used
                 PROVE  spent[i] = 0 /\ \A j \in 1..(Len(codes) + 1) : j > i => codes'[j].purpose # codes'[i].purpose
      BY <2>1
    <3>1. i \in 1..Len(codes) /\ i <= Len(codes)
      BY <1>1, <2>3, OtpBounds
    <3>2. ~codes[i].used /\ codes[i].purpose # p /\ codes'[i].purpose = codes[i].purpose
      BY <1>1, <3>1
    <3>3. spent[i] = 0 /\ \A j \in 1..Len(codes) : j > i => codes[j].purpose # codes[i].purpose
      BY <3>1, <3>2 DEF CodesFresh
    <3>4. codes'[Len(codes) + 1].purpose = p
      BY <1>1
    <3>5. \A j \in 1..(Len(codes) + 1) : j \in 1..Len(codes) \/ j = Len(codes) + 1
      BY <1>1
    <3> QED BY <1>1, <3>2, <3>3, <3>4, <3>5
  <2> QED BY <2>2, <2>3
<1>4. ASSUME NEW q \in Purposes PROVE Paid(q)' = Paid(q)
  <2>1. \A i \in 1..(Len(codes) + 1) : i \in 1..Len(codes) \/ i = Len(codes) + 1
    BY <1>1
  <2>2. \A i \in 1..Len(codes) : i \in 1..(Len(codes) + 1)
    BY <1>1
  <2> QED BY <1>1, <1>2, <2>1, <2>2 DEF Paid
<1> QED BY <1>3, <1>4

\* A step that leaves the codes' purposes and acceptances alone.
LEMMA PaidKept ==
  ASSUME DOMAIN codes' = DOMAIN codes, \A i \in DOMAIN codes : codes'[i].purpose = codes[i].purpose,
         spent' = spent
  PROVE  \A q \in Purposes : Paid(q)' = Paid(q)
BY DEF Paid

\* What the callers do: nobody new has an accepted code.
LEMMA AllPaidKept ==
  ASSUME AllPaid, IsFiniteSet(Paid("reset_password")),
         \A q \in Purposes : Paid(q)' = Paid(q) /\ Accepted(q)' \subseteq Accepted(q),
         account'.resets = account.resets, account'.resets \in Nat, account'.verified = account.verified
  PROVE  AllPaid'
<1> DEFINE A == Accepted("reset_password")
           B == Accepted("reset_password")'
<1>1. IsFiniteSet(A) /\ B \subseteq A
  BY DEF AllPaid, Purposes
<1>2. IsFiniteSet(B) /\ Cardinality(B) <= Cardinality(A) /\ Cardinality(A) \in Nat /\ Cardinality(B) \in Nat
      /\ Cardinality(Paid("reset_password")) \in Nat
  BY <1>1, FS_Subset, FS_CardinalityType
<1>3. account.resets + Cardinality(A) <= Cardinality(Paid("reset_password"))
  BY DEF AllPaid
<1>4. Paid("reset_password")' = Paid("reset_password") /\ Paid("verify_email")' = Paid("verify_email")
  BY DEF Purposes
<1>5. account'.resets + Cardinality(B) <= Cardinality(Paid("reset_password")')
  <2>1. account.resets + Cardinality(B) <= Cardinality(Paid("reset_password"))
    <3> HIDE DEF A, B
    <3> QED BY <1>2, <1>3
  <2> QED BY <1>4, <2>1
<1>6. account.verified \/ Accepted("verify_email") # {} => Paid("verify_email") # {}
  BY DEF AllPaid
<1>7. account'.verified \/ Accepted("verify_email")' # {} => Paid("verify_email")' # {}
  BY <1>4, <1>6 DEF Purposes
<1> QED BY <1>2, <1>5, <1>7 DEF AllPaid

LEMMA OtpNextInv == OtpInv /\ [OtpNext]_otpVars => OtpInv'
<1> SUFFICES ASSUME OtpInv, [OtpNext]_otpVars PROVE OtpInv'
  OBVIOUS
<1>t. /\ codes \in Seq(Code) /\ Len(codes) \in Nat /\ Len(codes) <= MaxCodes
      /\ DOMAIN codes = 1..Len(codes) /\ codes \in [1..Len(codes) -> Code]
      /\ \A i \in 1..Len(codes) : i \in 1..MaxCodes /\ codes[i] \in Code
      /\ account \in [there : BOOLEAN, verified : BOOLEAN, resets : 0..MaxResets]
      /\ account.resets \in 0..MaxResets /\ account.resets \in Nat
      /\ caller \in [Callers -> CallerRow] /\ spent \in [1..MaxCodes -> Nat]
      /\ OtpTyped /\ CodesFresh /\ AllPaid
  BY CodesDomain, OtpBounds DEF OtpInv, OtpTyped, OtpTypeOK
<1>p. IsFiniteSet(Paid("reset_password"))
  <2>1. Paid("reset_password") \subseteq 1..Len(codes) /\ IsFiniteSet(1..Len(codes))
    BY <1>t, FS_Interval DEF Paid
  <2> QED BY <2>1, FS_Subset
\* A step that moves one caller, accepts nothing and changes neither code nor account.
<1>q. ASSUME NEW c \in Callers, NEW at \in {"idle", "signup", "issue"}, NEW p \in Purposes, Goes(c, at, p)
      PROVE  /\ caller' \in [Callers -> CallerRow]
             /\ \A q \in Purposes : Accepted(q)' = Accepted(q) \ {c}
  <2>1. caller' = [caller EXCEPT ![c] = [at |-> at, purpose |-> p]]
    BY <1>q DEF Goes
  <2>2. [at |-> at, purpose |-> p] \in CallerRow
    BY <1>q DEF CallerRow
  <2>3. caller'[c].at # "accepted" /\ \A d \in Callers \ {c} : caller'[d] = caller[d]
    BY <1>q, <1>t, <2>1
  <2> QED BY <1>t, <2>1, <2>2, <2>3 DEF Accepted
<1>k. ASSUME caller' \in [Callers -> CallerRow], \A q \in Purposes : Accepted(q)' \subseteq Accepted(q),
             UNCHANGED <<codes, spent>>, account' \in [there : BOOLEAN, verified : BOOLEAN, resets : 0..MaxResets],
             account'.resets = account.resets, account'.verified = account.verified
      PROVE  OtpInv'
  <2>1. OtpTyped'
    BY <1>k, <1>t DEF OtpTyped, OtpTypeOK
  <2>2. CodesFresh'
    BY <1>k, <1>t DEF CodesFresh
  <2>3. \A q \in Purposes : Paid(q)' = Paid(q)
    BY <1>k, PaidKept
  <2>4. AllPaid'
    BY <1>k, <1>t, <2>3, <1>p, AllPaidKept
  <2> QED BY <2>1, <2>2, <2>4 DEF OtpInv
\* A step that issues a code.
<1>i. ASSUME caller' \in [Callers -> CallerRow], \A q \in Purposes : Accepted(q)' \subseteq Accepted(q),
             NEW p \in Purposes, Issued(p), spent' = spent,
             account' \in [there : BOOLEAN, verified : BOOLEAN, resets : 0..MaxResets],
             account'.resets = account.resets, account'.verified = account.verified
      PROVE  OtpInv'
  <2>1. OtpTyped'
    BY <1>i, <1>t, IssuedCodes DEF OtpTyped, OtpTypeOK, Code
  <2>2. CodesFresh' /\ \A q \in Purposes : Paid(q)' = Paid(q)
    BY <1>i, <1>t, <2>1, PaidAfterIssue
  <2>3. AllPaid'
    BY <1>i, <1>t, <2>2, <1>p, AllPaidKept
  <2> QED BY <2>1, <2>2, <2>3 DEF OtpInv
<1>1. ASSUME NEW c \in Callers, SignupLook(c) PROVE OtpInv'
  <2>1. Goes(c, "signup", "verify_email") /\ UNCHANGED <<codes, account, spent>>
    BY <1>1 DEF SignupLook
  <2> QED BY <1>q, <1>k, <1>t, <2>1 DEF Purposes
<1>2. ASSUME NEW c \in Callers, SignupWrite(c) PROVE OtpInv'
  <2>1. Goes(c, "idle", "verify_email") /\ spent' = spent
    BY <1>2 DEF SignupWrite
  <2>2. caller' \in [Callers -> CallerRow] /\ \A q \in Purposes : Accepted(q)' \subseteq Accepted(q)
    BY <1>q, <2>1 DEF Purposes
  <2>3. CASE UNCHANGED <<codes, account>>
    BY <1>k, <1>t, <2>1, <2>2, <2>3
  <2>4. CASE Issued("verify_email") /\ account' = [account EXCEPT !.there = TRUE]
    <3>1. /\ account' \in [there : BOOLEAN, verified : BOOLEAN, resets : 0..MaxResets]
          /\ account'.resets = account.resets /\ account'.verified = account.verified
      BY <1>t, <2>4
    <3>2. "verify_email" \in Purposes
      BY DEF Purposes
    <3> QED BY <1>i, <2>1, <2>2, <2>4, <3>1, <3>2
  <2> QED BY <1>2, <2>3, <2>4 DEF SignupWrite
<1>3. ASSUME NEW c \in Callers, NEW p \in Purposes, ResendLook(c, p) PROVE OtpInv'
  <2>1. Goes(c, "issue", p) /\ UNCHANGED <<codes, account, spent>>
    BY <1>3 DEF ResendLook
  <2> QED BY <1>q, <1>k, <1>t, <2>1
<1>4. ASSUME NEW c \in Callers, ResendIssue(c) PROVE OtpInv'
  <2>1. Goes(c, "idle", "verify_email") /\ UNCHANGED <<account, spent>> /\ Issued(caller[c].purpose)
    BY <1>4 DEF ResendIssue
  <2>2. caller[c].purpose \in Purposes
    BY <1>t DEF CallerRow
  <2>3. caller' \in [Callers -> CallerRow] /\ \A q \in Purposes : Accepted(q)' \subseteq Accepted(q)
    BY <1>q, <2>1 DEF Purposes
  <2> QED BY <1>i, <1>t, <2>1, <2>2, <2>3
<1>5. ASSUME NEW c \in Callers, NEW p \in Purposes, NEW guess \in 0..MaxCodes, ConsumeOtp(c, p, guess) PROVE OtpInv'
  <2>1. /\ guess \in 1..Len(codes) /\ codes[guess].purpose = p /\ ~codes[guess].used
        /\ codes' = [codes EXCEPT ![guess].used = TRUE] /\ spent' = [spent EXCEPT ![guess] = @ + 1]
        /\ account' = account /\ caller' = [caller EXCEPT ![c] = [at |-> "accepted", purpose |-> p]]
        /\ caller[c] = Waits
    BY <1>5, <1>t DEF ConsumeOtp, Current, Unused, Goes
  <2>2. guess \in 1..MaxCodes /\ codes[guess] \in Code /\ spent[guess] = 0
    BY <1>t, <2>1 DEF CodesFresh
  <2>3. [codes[guess] EXCEPT !.used = TRUE] \in Code /\ [codes[guess] EXCEPT !.used = TRUE].purpose = p
        /\ [codes[guess] EXCEPT !.used = TRUE].used = TRUE
    BY <2>1, <2>2 DEF Code
  <2>4. /\ codes' \in Seq(Code) /\ Len(codes') = Len(codes) /\ DOMAIN codes' = DOMAIN codes
        /\ codes'[guess].purpose = p /\ codes'[guess].used = TRUE
        /\ \A i \in 1..Len(codes) : i # guess => codes'[i] = codes[i]
    BY <1>t, <2>1, <2>3, ExceptSeq
  <2>5. /\ spent' \in [1..MaxCodes -> Nat] /\ spent'[guess] = 1
        /\ \A i \in 1..MaxCodes : i # guess => spent'[i] = spent[i]
    BY <1>t, <2>1, <2>2
  <2>6. [at |-> "accepted", purpose |-> p] \in CallerRow
    BY DEF CallerRow
  <2>7. /\ caller' \in [Callers -> CallerRow] /\ caller'[c].at = "accepted" /\ caller'[c].purpose = p
        /\ \A d \in Callers \ {c} : caller'[d] = caller[d]
    BY <1>t, <2>1, <2>6
  <2>8. OtpTyped'
    BY <1>t, <2>1, <2>4, <2>5, <2>7 DEF OtpTyped, OtpTypeOK, Code
  <2>9. CodesFresh'
    <3>1. \A i \in 1..Len(codes) : codes'[i].purpose = codes[i].purpose
      BY <2>1, <2>4
    <3> QED BY <1>t, <2>1, <2>4, <2>5, <3>1 DEF CodesFresh
  <2>10. Paid(p)' = Paid(p) \cup {guess} /\ guess \notin Paid(p)
         /\ \A q \in Purposes : q # p => Paid(q)' = Paid(q)
    BY <1>t, <2>1, <2>2, <2>4, <2>5 DEF Paid
  <2>11. Accepted(p)' = Accepted(p) \cup {c} /\ \A q \in Purposes : q # p => Accepted(q)' = Accepted(q)
    BY <1>t, <2>1, <2>7, WaitsTyped DEF Accepted
  <2>12. AllPaid'
    <3>1. CASE p = "verify_email"
      BY <1>t, <2>1, <2>10, <2>11, <3>1 DEF AllPaid, Purposes
    <3>2. CASE p = "reset_password"
      <4> DEFINE A == Accepted(p)
                 P == Paid(p)
      <4>1. IsFiniteSet(A) /\ IsFiniteSet(P) /\ account.resets + Cardinality(A) <= Cardinality(P)
        BY <1>t, <1>p, <3>2 DEF AllPaid
      <4>2. IsFiniteSet(A \cup {c}) /\ Cardinality(A \cup {c}) <= Cardinality(A) + 1
            /\ Cardinality(A \cup {c}) \in Nat /\ Cardinality(A) \in Nat /\ Cardinality(P) \in Nat
        <5>1. IsFiniteSet(A \cup {c}) /\ Cardinality(A) \in Nat /\ Cardinality(P) \in Nat
          BY <4>1, FS_AddElement, FS_CardinalityType
        <5>2. Cardinality(A \cup {c}) \in Nat
          BY <5>1, FS_CardinalityType
        <5>3. Cardinality(A \cup {c}) = IF c \in A THEN Cardinality(A) ELSE Cardinality(A) + 1
          BY <4>1, FS_AddElement
        <5> QED BY <5>1, <5>2, <5>3
      <4>3. Cardinality(P \cup {guess}) = Cardinality(P) + 1
        BY <2>10, <4>1, FS_AddElement
      <4>4. account'.resets = account.resets /\ account'.verified = account.verified
        BY <2>1
      <4>5. account'.resets + Cardinality(A \cup {c}) <= Cardinality(P \cup {guess})
        BY <1>t, <4>1, <4>2, <4>3, <4>4
      <4>6. account'.verified \/ Accepted("verify_email")' # {} => Paid("verify_email")' # {}
        BY <1>t, <2>10, <2>11, <3>2, <4>4 DEF AllPaid, Purposes
      <4>7. IsFiniteSet(Accepted("reset_password")')
        BY <2>11, <3>2, <4>2
      <4>8. account'.resets + Cardinality(Accepted("reset_password")') <= Cardinality(Paid("reset_password")')
        BY <2>10, <2>11, <3>2, <4>5
      <4> QED BY <4>6, <4>7, <4>8 DEF AllPaid
    <3> QED BY <3>1, <3>2 DEF Purposes
  <2> QED BY <2>8, <2>9, <2>12 DEF OtpInv
<1>6. ASSUME NEW c \in Callers, VerifyEmail(c) PROVE OtpInv'
  <2>1. /\ account' = [account EXCEPT !.verified = TRUE] /\ Goes(c, "idle", "verify_email")
        /\ UNCHANGED <<codes, spent>> /\ caller[c] = [at |-> "accepted", purpose |-> "verify_email"]
    BY <1>6 DEF VerifyEmail
  <2>2. caller' \in [Callers -> CallerRow] /\ \A q \in Purposes : Accepted(q)' = Accepted(q) \ {c}
    BY <1>q, <2>1 DEF Purposes
  <2>3. /\ account' \in [there : BOOLEAN, verified : BOOLEAN, resets : 0..MaxResets]
        /\ account'.resets = account.resets /\ account'.verified = TRUE
    BY <1>t, <2>1
  <2>4. OtpTyped'
    BY <1>t, <2>1, <2>2, <2>3 DEF OtpTyped, OtpTypeOK
  <2>5. CodesFresh'
    BY <1>t, <2>1 DEF CodesFresh
  <2>6. \A q \in Purposes : Paid(q)' = Paid(q)
    BY <2>1, PaidKept
  <2>7. Accepted("reset_password")' = Accepted("reset_password") /\ c \in Accepted("verify_email")
    BY <2>1, <2>2 DEF Accepted, Purposes
  <2>8. Paid("verify_email") # {}
    BY <1>t, <2>7 DEF AllPaid
  <2>9. AllPaid'
    BY <1>t, <2>3, <2>6, <2>7, <2>8 DEF AllPaid, Purposes
  <2> QED BY <2>4, <2>5, <2>9 DEF OtpInv
<1>7. ASSUME NEW c \in Callers, ResetPassword(c) PROVE OtpInv'
  <2>1. /\ account' = [account EXCEPT !.resets = @ + 1] /\ account.resets < MaxResets
        /\ Goes(c, "idle", "verify_email")
        /\ UNCHANGED <<codes, spent>> /\ caller[c] = [at |-> "accepted", purpose |-> "reset_password"]
    BY <1>7 DEF ResetPassword
  <2>2. caller' \in [Callers -> CallerRow] /\ \A q \in Purposes : Accepted(q)' = Accepted(q) \ {c}
    BY <1>q, <2>1 DEF Purposes
  <2>3. /\ account' \in [there : BOOLEAN, verified : BOOLEAN, resets : 0..MaxResets]
        /\ account'.resets = account.resets + 1 /\ account'.verified = account.verified
    <3>1. account.resets + 1 \in 0..MaxResets
      BY <1>t, <2>1, OtpBounds
    <3>2. account' = [account EXCEPT !.resets = account.resets + 1]
      BY <2>1
    <3> QED BY <1>t, <3>1, <3>2
  <2>4. OtpTyped'
    BY <1>t, <2>1, <2>2, <2>3 DEF OtpTyped, OtpTypeOK
  <2>5. CodesFresh'
    BY <1>t, <2>1 DEF CodesFresh
  <2>6. \A q \in Purposes : Paid(q)' = Paid(q)
    BY <2>1, PaidKept
  <2> DEFINE A == Accepted("reset_password")
  <2>7. c \in A /\ A' = A \ {c} /\ Accepted("verify_email")' \subseteq Accepted("verify_email")
    BY <2>1, <2>2 DEF Accepted, Purposes
  <2>8. IsFiniteSet(A) /\ account.resets + Cardinality(A) <= Cardinality(Paid("reset_password"))
    BY <1>t DEF AllPaid
  <2>9. IsFiniteSet(A \ {c}) /\ Cardinality(A \ {c}) = Cardinality(A) - 1 /\ Cardinality(A) \in Nat
    BY <2>7, <2>8, FS_RemoveElement, FS_CardinalityType
  <2>10. account'.resets + Cardinality(A \ {c}) <= Cardinality(Paid("reset_password"))
    BY <1>t, <2>3, <2>8, <2>9
  <2>11. account'.verified \/ Accepted("verify_email")' # {} => Paid("verify_email")' # {}
    BY <1>t, <2>3, <2>6, <2>7 DEF AllPaid, Purposes
  <2>12. Paid("reset_password")' = Paid("reset_password")
    BY <2>6 DEF Purposes
  <2>13. AllPaid'
    BY <2>7, <2>9, <2>10, <2>11, <2>12 DEF AllPaid
  <2> QED BY <2>4, <2>5, <2>13 DEF OtpInv
<1>8. ASSUME NEW i \in DOMAIN codes, CodeExpires(i) PROVE OtpInv'
  <2>1. i \in 1..Len(codes) /\ codes' = [codes EXCEPT ![i].over = TRUE] /\ UNCHANGED <<account, caller, spent>>
    BY <1>8, <1>t DEF CodeExpires
  <2>2. LET r == [codes[i] EXCEPT !.over = TRUE] IN
        r \in Code /\ r.purpose = codes[i].purpose /\ r.used = codes[i].used
    BY <1>t, <2>1 DEF Code
  <2>3. codes' \in Seq(Code) /\ Len(codes') = Len(codes) /\ DOMAIN codes' = DOMAIN codes
        /\ \A j \in 1..Len(codes) : codes'[j].purpose = codes[j].purpose /\ codes'[j].used = codes[j].used
    BY <1>t, <2>1, <2>2, ExceptSeq
  <2>4. OtpTyped'
    BY <1>t, <2>1, <2>3 DEF OtpTyped, OtpTypeOK, Code
  <2>5. CodesFresh'
    BY <1>t, <2>1, <2>3 DEF CodesFresh
  <2>6. \A q \in Purposes : Paid(q)' = Paid(q)
    BY <1>t, <2>1, <2>3, PaidKept
  <2>7. \A q \in Purposes : Accepted(q)' = Accepted(q)
    BY <2>1 DEF Accepted
  <2>8. AllPaid'
    BY <1>t, <2>1, <2>6, <2>7, <1>p, AllPaidKept
  <2> QED BY <2>4, <2>5, <2>8 DEF OtpInv
<1>9. ASSUME OtpCrash PROVE OtpInv'
  <2>1. caller' = [c \in Callers |-> Waits] /\ UNCHANGED <<codes, account, spent>>
    BY <1>9 DEF OtpCrash
  <2>2. caller' \in [Callers -> CallerRow] /\ \A q \in Purposes : Accepted(q)' \subseteq Accepted(q)
    BY <2>1, WaitsTyped DEF Accepted
  <2> QED BY <1>k, <1>t, <2>1, <2>2
<1>10. CASE UNCHANGED otpVars
  <2>1. \A q \in Purposes : Accepted(q)' \subseteq Accepted(q)
    BY <1>10 DEF otpVars, Accepted
  <2> QED BY <1>k, <1>t, <1>10, <2>1 DEF otpVars
<1> QED BY <1>1, <1>2, <1>3, <1>4, <1>5, <1>6, <1>7, <1>8, <1>9, <1>10 DEF OtpNext

\* A code is accepted once and not after a later one of its purpose was issued, and
\* what the account became was paid for with codes (consumeOtp and what follows it).
THEOREM CodesOpenOnce == OtpSpec => []CodeSpentOnce
<1>1. OtpInv => CodeSpentOnce
  <2> SUFFICES ASSUME OtpInv PROVE CodeSpentOnce
    OBVIOUS
  <2>1. /\ DOMAIN codes = 1..Len(codes) /\ Len(codes) \in Nat
        /\ \A i \in 1..Len(codes) : i \in 1..MaxCodes
        /\ account.resets \in Nat
    BY CodesDomain, OtpBounds DEF OtpInv, OtpTyped, OtpTypeOK
  <2>2. \A i \in 1..MaxCodes : spent[i] <= 1
    BY DEF OtpInv, CodesFresh
  <2>3. \A i \in DOMAIN codes : ~codes[i].used =>
          spent[i] = 0 /\ \A j \in DOMAIN codes : j > i => codes[j].purpose # codes[i].purpose
    BY <2>1 DEF OtpInv, CodesFresh
  <2>4. IsFiniteSet(Accepted("reset_password")) /\ IsFiniteSet(Paid("reset_password"))
    <3>1. Paid("reset_password") \subseteq 1..Len(codes) /\ IsFiniteSet(1..Len(codes))
      BY <2>1, FS_Interval DEF Paid
    <3> QED BY <3>1, FS_Subset DEF OtpInv, AllPaid
  <2>5. Cardinality(Accepted("reset_password")) \in Nat /\ Cardinality(Paid("reset_password")) \in Nat
    BY <2>4, FS_CardinalityType
  <2>6. account.resets <= Cardinality(Paid("reset_password"))
    <3>1. account.resets + Cardinality(Accepted("reset_password")) <= Cardinality(Paid("reset_password"))
      BY DEF OtpInv, AllPaid
    <3> QED BY <2>1, <2>5, <3>1
  <2>7. account.verified => Paid("verify_email") # {}
    BY DEF OtpInv, AllPaid
  <2> QED BY <2>2, <2>3, <2>6, <2>7 DEF CodeSpentOnce, Paid
<1> QED BY <1>1, OtpInitInv, OtpNextInv, PTL DEF OtpSpec

----------------------------------------------------------------------------
(* Purchases and referrals: types.                                          *)

EntRow  == [plan : Plans \cup {None}, source : {"grant", "play"},
            status : {"free", "active", "grace", "cancelled"},
            token : Tokens \cup {None}, over : BOOLEAN, stamp : 0..MaxStamp]
PlayRow == [state : {"none", "active", "grace", "cancelled", "expired"},
            phase : {"none", "trial", "base"}, acked : BOOLEAN]
RefRow  == [by : Users \cup {None}, status : Statuses,
            token : Tokens \cup {None}, period : Periods \cup {""}]

\* How far a verification is until its referral is seen to.
Verifying == {"fetch", "ack", "plans", "upsert", "note", "remember", "qualify"}
Stations  == Verifying \cup {"start", "load", "row", "plan", "keep", "answer", "forget", "clear",
                              "drop", "grant", "apply", "ask", "promote"}
Errands   == {"idle", "entitlement", "verify", "console", "apply", "recheck"}

\* A request is a record of these fields; nothing is said of the list of a recheck.
IsRequest(r) ==
  r \in [op : Errands, at : Stations, user : Users \cup {None}, token : Tokens \cup {None},
         plan : Plans \cup {None}, period : Periods \cup {""}, seen : PlayRow, got : EntRow,
         told : Users \cup Answers \cup {None}, list : {r.list}]

\* What a request has when it is where it is.
Equipped(r) ==
  /\ r.at \in Verifying => r.user \in Users /\ r.token \in Tokens
  /\ r.at \in {"load", "row", "plan", "keep", "grant", "apply", "forget"} => r.user \in Users
  /\ r.at = "forget" /\ r.op = "verify" => r.token \in Tokens
  /\ r.at = "grant" => r.op # "verify"
  /\ r.at = "keep" => r.told \in Answers /\ r.told.stamp = r.got.stamp
  /\ r.at = "apply" => r.told \in Users
  /\ r.at \in {"upsert", "grant", "drop"} => r.plan \in Plans
  /\ r.at \in {"plans", "upsert"} => Granted(r.seen) # "none"

SlotsTyped ==
  /\ slot = [x \in Slots |-> slot[x]]
  /\ \A x \in Slots : IsRequest(slot[x]) /\ Equipped(slot[x])

AccountsTyped == ReferralsTypeOK /\ SlotsTyped

LEMMA BillingTypes ==
  /\ BillingTypeOK <=>
       /\ plan \in [Plans -> [there : BOOLEAN, period : Periods]]
       /\ ent \in [Users -> EntRow] /\ play \in [Tokens -> PlayRow]
       /\ cache \in [Users -> Answers \cup {None}] /\ raced \subseteq Tokens \cup Users
  /\ ReferralsTypeOK <=> BillingTypeOK /\ ref \in [Users -> RefRow] /\ payouts \in [Users -> Nat]
BY DEF BillingTypeOK, ReferralsTypeOK, EntRow, PlayRow, RefRow

LEMMA MaxStampNat == MaxStamp \in Nat /\ 0 \in 0..MaxStamp
BY BillingAssumption

LEMMA RowsTyped == NoRow \in EntRow /\ NotSold \in PlayRow /\ NoReferral \in RefRow
BY MaxStampNat DEF NoRow, NotSold, NoReferral, EntRow, PlayRow, RefRow, Statuses

LEMMA IdleTyped ==
  /\ IsRequest(Idle) /\ Equipped(Idle)
  /\ Idle.op = "idle" /\ Idle.at = "start" /\ Idle.user = None /\ Idle.token = None
BY RowsTyped DEF Idle, IsRequest, Equipped, Errands, Stations, Verifying

\* What a slot becomes, and the others do not.
LEMMA SlotStep ==
  ASSUME SlotsTyped, NEW s \in Slots, NEW r, Step(s, r), IsRequest(r), Equipped(r)
  PROVE  SlotsTyped' /\ slot'[s] = r /\ \A x \in Slots \ {s} : slot'[x] = slot[x]
<1>1. slot' = [x \in Slots |-> IF x = s THEN r ELSE slot[x]]
  BY DEF SlotsTyped, Step
<1>2. slot'[s] = r /\ \A x \in Slots \ {s} : slot'[x] = slot[x]
  BY <1>1
<1>3. slot' = [x \in Slots |-> slot'[x]]
  BY <1>1
<1>4. \A x \in Slots : IsRequest(slot'[x]) /\ Equipped(slot'[x])
  BY <1>2 DEF SlotsTyped
<1> QED BY <1>2, <1>3, <1>4 DEF SlotsTyped

\* The forms in which a request is written back.
LEMMA MovedOn ==
  ASSUME NEW r, IsRequest(r), NEW a \in Stations
  PROVE  LET q == [r EXCEPT !.at = a] IN
         /\ IsRequest(q) /\ q.at = a /\ q.op = r.op /\ q.user = r.user /\ q.token = r.token /\ q.plan = r.plan
         /\ q.seen = r.seen /\ q.period = r.period /\ q.got = r.got /\ q.told = r.told /\ q.list = r.list
BY DEF IsRequest

LEMMA Seeing ==
  ASSUME NEW r, IsRequest(r), NEW p \in PlayRow
  PROVE  LET q == [r EXCEPT !.seen = p] IN
         /\ IsRequest(q) /\ q.at = r.at /\ q.op = r.op /\ q.user = r.user /\ q.token = r.token /\ q.plan = r.plan
         /\ q.seen = p /\ q.period = r.period /\ q.got = r.got /\ q.told = r.told /\ q.list = r.list
BY DEF IsRequest

LEMMA Telling ==
  ASSUME NEW r, IsRequest(r), NEW e \in Answers \cup {None}
  PROVE  LET q == [r EXCEPT !.at = "answer", !.told = e] IN
         IsRequest(q) /\ q.at = "answer" /\ q.user = r.user /\ q.token = r.token
BY DEF IsRequest, Stations

LEMMA WorkedOut ==
  ASSUME NEW r, IsRequest(r), NEW e \in Answers
  PROVE  LET q == [r EXCEPT !.at = "keep", !.told = e] IN
         IsRequest(q) /\ q.at = "keep" /\ q.user = r.user /\ q.token = r.token /\ q.got = r.got /\ q.told = e
BY DEF IsRequest, Stations

LEMMA Kept ==
  ASSUME NEW r, IsRequest(r)
  PROVE  LET q == [r EXCEPT !.at = "answer", !.got = NoRow] IN
         IsRequest(q) /\ q.at = "answer" /\ q.user = r.user /\ q.token = r.token
BY RowsTyped DEF IsRequest, Stations

LEMMA Holding ==
  ASSUME NEW r, IsRequest(r), NEW row \in EntRow
  PROVE  LET q == [r EXCEPT !.at = "plan", !.got = row] IN
         IsRequest(q) /\ q.at = "plan" /\ q.user = r.user /\ q.token = r.token /\ q.got = row
BY DEF IsRequest, Stations

LEMMA WroteForm ==
  ASSUME NEW r, IsRequest(r)
  PROVE  LET q == [r EXCEPT !.at = "forget", !.plan = None] IN
         IsRequest(q) /\ q.at = "forget" /\ q.user = r.user /\ q.token = r.token
BY DEF IsRequest, Stations

LEMMA Relisting ==
  ASSUME NEW r, IsRequest(r), NEW l
  PROVE  LET q == [r EXCEPT !.at = "ask", !.list = l] IN
         IsRequest(q) /\ q.at = "ask" /\ q.user = r.user /\ q.token = r.token
BY DEF IsRequest, Stations

\* The requests that arrive, and a verification whose referral is seen to.
LEMMA Reading ==
  ASSUME NEW u \in Users, NEW o \in Errands
  PROVE  LET q == [Idle EXCEPT !.op = o, !.at = "load", !.user = u] IN
         IsRequest(q) /\ Equipped(q) /\ q.at = "load" /\ q.token = None
BY RowsTyped DEF Idle, IsRequest, Equipped, Stations, Verifying

LEMMA Buying ==
  ASSUME NEW u \in Users, NEW t \in Tokens
  PROVE  LET q == [Idle EXCEPT !.op = "verify", !.at = "fetch", !.user = u, !.token = t] IN
         IsRequest(q) /\ Equipped(q) /\ q.at = "fetch" /\ q.user = u /\ q.token = t
BY RowsTyped DEF Idle, IsRequest, Equipped, Errands, Stations, Verifying

LEMMA Dropping ==
  ASSUME NEW p \in Plans
  PROVE  LET q == [Idle EXCEPT !.op = "console", !.at = "drop", !.plan = p] IN
         IsRequest(q) /\ Equipped(q) /\ q.at = "drop" /\ q.token = None
BY RowsTyped DEF Idle, IsRequest, Equipped, Errands, Stations, Verifying

LEMMA Granting ==
  ASSUME NEW u \in Users, NEW p \in Plans
  PROVE  LET q == [Idle EXCEPT !.op = "console", !.at = "grant", !.user = u, !.plan = p] IN
         IsRequest(q) /\ Equipped(q) /\ q.at = "grant" /\ q.token = None
BY RowsTyped DEF Idle, IsRequest, Equipped, Errands, Stations, Verifying

LEMMA Clearing ==
  LET q == [Idle EXCEPT !.op = "console", !.at = "clear"] IN
  IsRequest(q) /\ Equipped(q) /\ q.at = "clear" /\ q.token = None
BY RowsTyped DEF Idle, IsRequest, Equipped, Errands, Stations, Verifying

LEMMA Revoking ==
  ASSUME NEW u \in Users
  PROVE  LET q == [Idle EXCEPT !.op = "console", !.at = "forget", !.user = u] IN
         IsRequest(q) /\ Equipped(q) /\ q.at = "forget" /\ q.user = u /\ q.token = None
BY RowsTyped DEF Idle, IsRequest, Equipped, Errands, Stations, Verifying

LEMMA Applying ==
  ASSUME NEW u \in Users, NEW o \in Users
  PROVE  LET q == [Idle EXCEPT !.op = "apply", !.at = "apply", !.user = u, !.told = o] IN
         IsRequest(q) /\ Equipped(q) /\ q.at = "apply" /\ q.token = None
BY RowsTyped DEF Idle, IsRequest, Equipped, Errands, Stations, Verifying

LEMMA Rechecking ==
  ASSUME NEW l
  PROVE  LET q == [Idle EXCEPT !.op = "recheck", !.at = "ask", !.list = l] IN
         IsRequest(q) /\ Equipped(q) /\ q.at = "ask" /\ q.token = None
BY RowsTyped DEF Idle, IsRequest, Equipped, Errands, Stations, Verifying

\* How a request goes on without touching what an invariant is about: it holds
\* its token for the same account, or lets go of it ...
HoldsOn(q, r) == q.token \in {None, r.token} /\ (q.token # None => q.user = r.user)
\* ... it still has in hand the row it had read, and the entry to drop ...
LoadsOn(q, r) == /\ q.at \in {"plan", "keep"} => r.at \in {"plan", "keep"} /\ q.user = r.user /\ q.got = r.got
                 /\ r.at = "forget" => q.at = "forget" /\ q.user = r.user
\* ... it was past the acknowledgement before ...
AcksOn(q, r)  == q.at \in {"plans", "upsert"} => r.at \in {"plans", "upsert"} /\ q.token = r.token
\* ... it had heard that the purchase is paid before.
EarnsOn(q, r) == /\ q.at = "qualify" => r.at = "qualify" /\ q.user = r.user
                 /\ q.at = "promote" => r.at = "promote" /\ q.list = r.list

Spared(q, r) == HoldsOn(q, r) /\ LoadsOn(q, r) /\ AcksOn(q, r) /\ EarnsOn(q, r)

LEMMA IdleQuiet ==
  \A r : /\ HoldsOn(Idle, r) /\ AcksOn(Idle, r) /\ EarnsOn(Idle, r) /\ Spared(r, r)
         /\ r.at # "forget" => Spared(Idle, r)
BY IdleTyped DEF Spared, HoldsOn, LoadsOn, AcksOn, EarnsOn

LEMMA ArriveForm == \A s, what : Arrive(s, what) => slot[s].at # "forget" /\ Step(s, what)
BY IdleTyped DEF Arrive

LEMMA StepOn ==
  ASSUME SlotsTyped, NEW s \in Slots, NEW r, Step(s, r), IsRequest(r), Equipped(r)
  PROVE  /\ SlotsTyped'
         /\ HoldsOn(r, slot[s]) => \A x \in Slots : HoldsOn(slot'[x], slot[x])
         /\ LoadsOn(r, slot[s]) => \A x \in Slots : LoadsOn(slot'[x], slot[x])
         /\ AcksOn(r, slot[s]) => \A x \in Slots : AcksOn(slot'[x], slot[x])
         /\ EarnsOn(r, slot[s]) => \A x \in Slots : EarnsOn(slot'[x], slot[x])
<1>1. SlotsTyped' /\ slot'[s] = r /\ \A x \in Slots \ {s} : slot'[x] = slot[x]
  BY SlotStep
<1>2. \A x \in Slots \ {s} : Spared(slot'[x], slot[x])
  BY <1>1, IdleQuiet
<1> QED BY <1>1, <1>2 DEF Spared

----------------------------------------------------------------------------
(* What each operation does to types, and what it leaves alone.             *)

BillingTyped == BillingTypeOK /\ SlotsTyped

TokensOn == \A u \in Users : ent'[u].token \in {None, ent[u].token}
PlayOn   == \A t \in Tokens : play[t].acked => play'[t].acked
CacheOn  == \A u \in Users : ent'[u].stamp = ent[u].stamp /\ cache'[u] \in {None, cache[u]}

HoldCalm  == raced \cap Tokens \subseteq raced' /\ TokensOn /\ \A x \in Slots : HoldsOn(slot'[x], slot[x])
LoadCalm  == raced \subseteq raced' /\ CacheOn /\ \A x \in Slots : LoadsOn(slot'[x], slot[x])
AckCalm   == PlayOn /\ TokensOn /\ \A x \in Slots : AcksOn(slot'[x], slot[x])
BonusCalm == \A x \in Slots : EarnsOn(slot'[x], slot[x])
Calm      == HoldCalm /\ LoadCalm /\ AckCalm /\ BonusCalm

LEMMA SlotsSame ==
  ASSUME slot' = slot
  PROVE  \A x \in Slots : Spared(slot'[x], slot[x])
BY IdleQuiet

\* A step that changes one request, and nothing else an invariant is about.
LEMMA OnlySlot ==
  ASSUME BillingTyped, NEW s \in Slots, NEW r, Step(s, r), IsRequest(r), Equipped(r),
         UNCHANGED <<plan, ent, play, cache, raced>>
  PROVE  /\ BillingTyped'
         /\ HoldsOn(r, slot[s]) => HoldCalm
         /\ LoadsOn(r, slot[s]) => LoadCalm
         /\ AcksOn(r, slot[s]) => AckCalm
         /\ EarnsOn(r, slot[s]) => BonusCalm
<1>1. SlotsTyped' /\ BillingTypeOK'
  BY StepOn, BillingTypes DEF BillingTyped, BillingTypeOK
<1>2. raced \subseteq raced' /\ TokensOn /\ PlayOn /\ CacheOn
  BY DEF TokensOn, PlayOn, CacheOn
<1> QED BY <1>1, <1>2, StepOn DEF BillingTyped, HoldCalm, LoadCalm, AckCalm, BonusCalm

LEMMA OnlySlotQuiet ==
  ASSUME BillingTyped, NEW s \in Slots, NEW r, Step(s, r), IsRequest(r), Equipped(r), Spared(r, slot[s]),
         UNCHANGED <<plan, ent, play, cache, raced>>
  PROVE  BillingTyped' /\ Calm
BY OnlySlot DEF Spared, Calm

LEMMA BuyCalm ==
  ASSUME BillingTyped, NEW t \in Tokens, Buy(t) \/ Moves(t)
  PROVE  BillingTyped' /\ Calm
<1> USE BillingTypes DEF BillingTyped
<1>1. UNCHANGED <<plan, ent, cache, slot, raced>> /\ play \in [Tokens -> PlayRow]
  BY DEF Buy, Moves
<1>2. /\ play' = [x \in Tokens |-> play'[x]] /\ \A x \in Tokens \ {t} : play'[x] = play[x]
      /\ play'[t] \in PlayRow /\ (play[t].acked => play'[t].acked)
  <2>1. CASE Buy(t)
    <3>1. ~play[t].acked
      BY <2>1 DEF Buy, NotSold
    <3>2. PICK ph \in {"trial", "base"} :
            play' = [play EXCEPT ![t] = [state |-> "active", phase |-> ph, acked |-> FALSE]]
      BY <2>1 DEF Buy
    <3> DEFINE row == [state |-> "active", phase |-> ph, acked |-> FALSE]
    <3>3. row \in PlayRow
      BY DEF PlayRow
    <3>4. play' = [play EXCEPT ![t] = row]
      BY <3>2
    <3> HIDE DEF row
    <3> QED BY <1>1, <3>1, <3>3, <3>4
  <2>2. CASE Moves(t)
    <3>1. PICK st \in {"active", "grace", "cancelled", "expired"}, ph \in {play[t].phase, "base"} :
            play' = [play EXCEPT ![t].state = st, ![t].phase = ph]
      BY <2>2 DEF Moves
    <3>2. play[t] \in PlayRow /\ ph \in {"none", "trial", "base"}
      BY <1>1 DEF PlayRow
    <3> QED BY <1>1, <3>1, <3>2 DEF PlayRow
  <2> QED BY <2>1, <2>2
<1>3. play' \in [Tokens -> PlayRow] /\ PlayOn
  BY <1>1, <1>2 DEF PlayOn
<1>4. BillingTyped'
  BY <1>1, <1>3 DEF BillingTypeOK, SlotsTyped, PlayRow
<1>5. raced \subseteq raced' /\ TokensOn /\ CacheOn
  BY <1>1 DEF TokensOn, CacheOn
<1> QED BY <1>1, <1>3, <1>4, <1>5, SlotsSame DEF Calm, HoldCalm, LoadCalm, AckCalm, BonusCalm, Spared

LEMMA CatalogCalm ==
  ASSUME BillingTyped,
         \/ \E p \in Plans : CreatePlan(p)
         \/ \E u \in Users : RunsOut(u) \/ CacheExpires(u)
  PROVE  BillingTyped' /\ Calm
<1> USE BillingTypes DEF BillingTyped
<1>1. plan \in [Plans -> [there : BOOLEAN, period : Periods]] /\ ent \in [Users -> EntRow]
      /\ play \in [Tokens -> PlayRow] /\ cache \in [Users -> Answers \cup {None}] /\ raced \subseteq Tokens \cup Users
  OBVIOUS
<1>2. UNCHANGED <<play, raced>>
  BY DEF CreatePlan, RunsOut, CacheExpires
<1>3. plan' \in [Plans -> [there : BOOLEAN, period : Periods]]
  <2>1. CASE \E p \in Plans : CreatePlan(p)
    <3>1. PICK p \in Plans, per \in Periods : plan' = [plan EXCEPT ![p] = [there |-> TRUE, period |-> per]]
      BY <2>1 DEF CreatePlan
    <3> DEFINE row == [there |-> TRUE, period |-> per]
    <3>2. row \in [there : BOOLEAN, period : Periods]
      OBVIOUS
    <3>3. plan' = [plan EXCEPT ![p] = row]
      BY <3>1
    <3> HIDE DEF row
    <3> QED BY <1>1, <3>2, <3>3
  <2>2. CASE plan' = plan
    BY <1>1, <2>2
  <2> QED BY <2>1, <2>2 DEF RunsOut, CacheExpires
<1>4. ent' \in [Users -> EntRow] /\ \A u \in Users : ent'[u].token = ent[u].token /\ ent'[u].stamp = ent[u].stamp
  <2>1. CASE \E u \in Users : RunsOut(u)
    <3>1. PICK u \in Users : ent' = [ent EXCEPT ![u].over = TRUE]
      BY <2>1 DEF RunsOut
    <3> DEFINE row == [ent[u] EXCEPT !.over = TRUE]
    <3>2. row \in EntRow /\ row.token = ent[u].token /\ row.stamp = ent[u].stamp
      BY <1>1 DEF EntRow
    <3>3. ent' = [ent EXCEPT ![u] = row]
      BY <3>1
    <3> HIDE DEF row
    <3> QED BY <1>1, <3>2, <3>3
  <2>2. CASE ent' = ent
    BY <1>1, <2>2
  <2> QED BY <2>1, <2>2 DEF CreatePlan, CacheExpires
<1>5. cache' \in [Users -> Answers \cup {None}] /\ \A u \in Users : cache'[u] \in {None, cache[u]}
  BY <1>1 DEF CreatePlan, RunsOut, CacheExpires, Forget
<1>6. SlotsTyped' /\ \A x \in Slots : Spared(slot'[x], slot[x])
  <2>1. slot' = slot
    BY DEF CreatePlan, RunsOut, CacheExpires
  <2> QED BY <2>1, SlotsSame DEF SlotsTyped
<1>7. raced \subseteq raced' /\ TokensOn /\ CacheOn /\ PlayOn
  BY <1>2, <1>4, <1>5 DEF TokensOn, CacheOn, PlayOn
<1>8. BillingTypeOK'
  BY <1>1, <1>2, <1>3, <1>4, <1>5 DEF BillingTypeOK, EntRow, PlayRow
<1> QED BY <1>6, <1>7, <1>8 DEF Calm, HoldCalm, LoadCalm, AckCalm, BonusCalm, Spared

\* Nothing is in flight and nothing is remembered.
LEMMA RestartStep ==
  ASSUME BillingTyped, Restart
  PROVE  /\ BillingTyped' /\ HoldCalm /\ AckCalm /\ BonusCalm
         /\ \A x \in Slots : slot'[x].at = "start"
         /\ \A u \in Users : cache'[u] = None
<1>1. /\ UNCHANGED <<plan, ent, play, raced>> /\ slot' = [x \in Slots |-> Idle]
      /\ cache' = [u \in Users |-> None]
  BY DEF Restart
<1>2. BillingTyped'
  BY <1>1, IdleTyped DEF BillingTyped, BillingTypeOK, SlotsTyped
<1>3. TokensOn /\ PlayOn /\ raced \cap Tokens \subseteq raced'
  BY <1>1 DEF TokensOn, PlayOn
<1> QED BY <1>1, <1>2, <1>3, IdleTyped, IdleQuiet DEF HoldCalm, AckCalm, BonusCalm

\* A request without a token that is nowhere an invariant looks, or one that
\* keeps its account and token on the way to such a place.
LEMMA QuietForms ==
  ASSUME NEW q, NEW r, q.at \notin {"plan", "keep", "plans", "upsert", "qualify", "promote"}, r.at # "forget",
         q.token = None \/ (q.token = r.token /\ q.user = r.user)
  PROVE  Spared(q, r)
BY DEF Spared, HoldsOn, LoadsOn, AcksOn, EarnsOn

LEMMA RequestCalm ==
  ASSUME BillingTyped, NEW s \in Slots,
         \/ Answer(s)
         \/ \E u \in Users : Entitlement(s, u)
         \/ \E p \in Plans : DeletePlanCount(s, p)
         \/ \E u \in Users, p \in Plans : GrantLook(s, u, p)
  PROVE  BillingTyped' /\ Calm
<1>1. CASE Answer(s)
  BY <1>1, IdleTyped, IdleQuiet, OnlySlotQuiet DEF Answer, Finished
<1>2. ASSUME NEW q, IsRequest(q), Equipped(q), q.at \in {"load", "drop", "grant"}, q.token = None, Arrive(s, q),
             UNCHANGED <<plan, ent, play, cache, raced>>
      PROVE  BillingTyped' /\ Calm
  BY <1>2, ArriveForm, QuietForms, OnlySlotQuiet
<1>3. ASSUME NEW u \in Users, Entitlement(s, u)
      PROVE  BillingTyped' /\ Calm
  BY <1>2, <1>3, Reading DEF Entitlement, Errands
<1>4. ASSUME NEW p \in Plans, DeletePlanCount(s, p)
      PROVE  BillingTyped' /\ Calm
  BY <1>2, <1>4, Dropping DEF DeletePlanCount
<1>5. ASSUME NEW u \in Users, NEW p \in Plans, GrantLook(s, u, p)
      PROVE  BillingTyped' /\ Calm
  BY <1>2, <1>5, Granting DEF GrantLook
<1> QED BY <1>1, <1>3, <1>4, <1>5

\* What the console does to the catalogue.
LEMMA PlanStep ==
  ASSUME BillingTyped, NEW s \in Slots,
         DeletePlan(s) \/ ForgetsAll(s) \/ \E p \in Plans : UpdatePlan(s, p)
  PROVE  BillingTyped' /\ Calm
<1>1. /\ plan \in [Plans -> [there : BOOLEAN, period : Periods]]
      /\ cache \in [Users -> Answers \cup {None}] /\ UNCHANGED <<ent, play, raced>>
  BY DEF BillingTyped, BillingTypeOK, DeletePlan, ForgetsAll, UpdatePlan
<1>2. ASSUME NEW q, IsRequest(q), Equipped(q), Step(s, q), Spared(q, slot[s]),
             plan' \in [Plans -> [there : BOOLEAN, period : Periods]],
             cache' \in [Users -> Answers \cup {None}], \A u \in Users : cache'[u] \in {None, cache[u]}
      PROVE  BillingTyped' /\ Calm
  <2>1. BillingTypeOK'
    BY <1>1, <1>2 DEF BillingTyped, BillingTypeOK
  <2>2. raced \subseteq raced' /\ TokensOn /\ CacheOn /\ PlayOn
    BY <1>1, <1>2 DEF TokensOn, CacheOn, PlayOn
  <2> QED BY <1>2, <2>1, <2>2, StepOn
       DEF BillingTyped, Spared, Calm, HoldCalm, LoadCalm, AckCalm, BonusCalm
<1>3. CASE DeletePlan(s)
  <2>1. Step(s, Idle) /\ slot[s].at = "drop" /\ slot[s].plan \in Plans /\ UNCHANGED cache
    BY <1>3 DEF DeletePlan, Finished, BillingTyped, SlotsTyped, Equipped
  <2> DEFINE row == [plan[slot[s].plan] EXCEPT !.there = FALSE]
  <2>2. row \in [there : BOOLEAN, period : Periods]
    BY <1>1, <2>1
  <2>3. plan' = [plan EXCEPT ![slot[s].plan] = row]
    BY <1>3 DEF DeletePlan
  <2> HIDE DEF row
  <2>4. plan' \in [Plans -> [there : BOOLEAN, period : Periods]]
    BY <1>1, <2>1, <2>2, <2>3
  <2> QED BY <1>1, <1>2, <2>1, <2>4, IdleTyped, IdleQuiet
<1>4. CASE ForgetsAll(s)
  <2>1. Step(s, Idle) /\ slot[s].at = "clear" /\ UNCHANGED plan /\ cache' = [u \in Users |-> None]
    BY <1>4 DEF ForgetsAll, Finished
  <2> QED BY <1>1, <1>2, <2>1, IdleTyped, IdleQuiet
<1>5. ASSUME NEW p \in Plans, UpdatePlan(s, p)
      PROVE  BillingTyped' /\ Calm
  <2> DEFINE q == [Idle EXCEPT !.op = "console", !.at = "clear"]
  <2>1. Step(s, q) /\ slot[s].at # "forget" /\ UNCHANGED cache
    BY <1>5, ArriveForm DEF UpdatePlan
  <2>2. IsRequest(q) /\ Equipped(q) /\ q.at = "clear" /\ q.token = None
    BY Clearing
  <2>3. plan' \in [Plans -> [there : BOOLEAN, period : Periods]]
    BY <1>1, <1>5 DEF UpdatePlan
  <2> HIDE DEF q
  <2> QED BY <1>1, <1>2, <2>1, <2>2, <2>3, QuietForms
<1> QED BY <1>3, <1>4, <1>5

\* The verification up to its write: who gets how far.
LEMMA LookCalm ==
  ASSUME BillingTyped, NEW s \in Slots, NEW u \in Users, NEW t \in Tokens, VerifyLook(s, u, t)
  PROVE  /\ BillingTyped' /\ LoadCalm /\ AckCalm /\ BonusCalm
         /\ UNCHANGED <<ent, play>> /\ Holders(t) \subseteq {u}
         /\ slot'[s].user = u /\ slot'[s].token = t /\ \A x \in Slots \ {s} : slot'[x] = slot[x]
         /\ raced' = raced \cup {t : r \in {x \in Slots : slot[x].token = t /\ slot[x].user # u}}
<1> DEFINE q == [Idle EXCEPT !.op = "verify", !.at = "fetch", !.user = u, !.token = t]
<1>1. /\ Step(s, q) /\ UNCHANGED <<plan, ent, play, cache>> /\ Holders(t) \subseteq {u}
      /\ raced' = raced \cup {t : r \in {x \in Slots : slot[x].token = t /\ slot[x].user # u}}
      /\ slot[s].at # "forget"
  BY ArriveForm DEF VerifyLook
<1>2. IsRequest(q) /\ Equipped(q) /\ q.at = "fetch" /\ q.user = u /\ q.token = t
  BY Buying
<1> HIDE DEF q
<1>3. SlotsTyped' /\ slot'[s] = q /\ \A x \in Slots \ {s} : slot'[x] = slot[x]
  BY <1>1, <1>2, SlotStep DEF BillingTyped
<1>4. raced \subseteq raced' /\ raced' \subseteq Tokens \cup Users
  BY <1>1 DEF BillingTyped, BillingTypeOK
<1>5. BillingTypeOK'
  BY <1>1, <1>4 DEF BillingTyped, BillingTypeOK
<1>6. LoadsOn(q, slot[s]) /\ AcksOn(q, slot[s]) /\ EarnsOn(q, slot[s])
  BY <1>1, <1>2 DEF LoadsOn, AcksOn, EarnsOn
<1>7. PlayOn /\ CacheOn /\ TokensOn
  BY <1>1 DEF PlayOn, CacheOn, TokensOn
<1> QED BY <1>1, <1>2, <1>3, <1>4, <1>5, <1>6, <1>7, StepOn
     DEF BillingTyped, LoadCalm, AckCalm, BonusCalm

\* Play's answer: only an acknowledged purchase goes on to its plan.
LEMMA FetchCalm ==
  ASSUME BillingTyped, NEW s \in Slots, VerifyFetch(s)
  PROVE  /\ BillingTyped' /\ HoldCalm /\ LoadCalm /\ BonusCalm /\ UNCHANGED <<ent, play>>
         /\ slot'[s].at \in {"plans", "upsert"} => play'[slot'[s].token].acked
         /\ \A x \in Slots \ {s} : slot'[x] = slot[x]
<1>1. IsRequest(slot[s]) /\ slot[s].at = "fetch" /\ slot[s].user \in Users /\ slot[s].token \in Tokens
  BY DEF BillingTyped, SlotsTyped, Equipped, VerifyFetch, Verifying
<1>2. UNCHANGED <<plan, ent, play, cache, raced>>
  BY DEF VerifyFetch
<1> DEFINE p == play[slot[s].token]
           seen == [slot[s] EXCEPT !.seen = p]
<1>3. p \in PlayRow
  BY <1>1, BillingTypes DEF BillingTyped
<1>4. IsRequest(seen) /\ seen.user = slot[s].user /\ seen.token = slot[s].token /\ seen.seen = p
  BY <1>1, <1>3, Seeing
<1>5. CASE Step(s, Idle)
  BY <1>1, <1>2, <1>5, IdleTyped, IdleQuiet, OnlySlotQuiet, SlotStep DEF BillingTyped, Calm
<1>6. ASSUME NEW a \in {"ack", "plans"}, Step(s, [seen EXCEPT !.at = a]),
             a = "plans" => p.acked /\ Granted(p) # "none"
      PROVE  /\ BillingTyped' /\ HoldCalm /\ LoadCalm /\ BonusCalm
             /\ slot'[s].at \in {"plans", "upsert"} => play'[slot'[s].token].acked
             /\ \A x \in Slots \ {s} : slot'[x] = slot[x]
  <2> HIDE DEF seen
  <2>1. a \in Stations
    BY DEF Stations, Verifying
  <2> DEFINE q == [seen EXCEPT !.at = a]
  <2>2. /\ IsRequest(q) /\ q.at = a /\ q.user = slot[s].user /\ q.token = slot[s].token /\ q.seen = p
        /\ Step(s, q)
    BY <1>4, <1>6, <2>1, MovedOn
  <2> HIDE DEF q, p
  <2>3. Equipped(q)
    BY <1>1, <1>6, <2>2 DEF Equipped
  <2>4. HoldsOn(q, slot[s]) /\ LoadsOn(q, slot[s]) /\ EarnsOn(q, slot[s])
    BY <1>1, <2>2 DEF HoldsOn, LoadsOn, EarnsOn
  <2>5. slot'[s] = q /\ \A x \in Slots \ {s} : slot'[x] = slot[x]
    BY <2>2, <2>3, SlotStep DEF BillingTyped
  <2>6. a = "plans" => play'[slot'[s].token].acked
    BY <1>2, <1>6, <2>2, <2>5 DEF p
  <2>7. slot'[s].at \in {"plans", "upsert"} => a = "plans"
    BY <2>2, <2>5
  <2> QED BY <1>2, <2>2, <2>3, <2>4, <2>5, <2>6, <2>7, OnlySlot
<1> HIDE DEF seen
<1>7. \/ Step(s, Idle) \/ Step(s, [seen EXCEPT !.at = "ack"])
      \/ p.acked /\ Granted(p) # "none" /\ Step(s, [seen EXCEPT !.at = "plans"])
  BY DEF VerifyFetch, Finished, seen
<1> QED BY <1>2, <1>5, <1>6, <1>7 DEF BillingTyped

\* The acknowledgement: without it the request ends here.
LEMMA AckStep ==
  ASSUME BillingTyped, NEW s \in Slots, VerifyAck(s)
  PROVE  /\ BillingTyped' /\ HoldCalm /\ LoadCalm /\ BonusCalm /\ PlayOn /\ UNCHANGED ent
         /\ slot'[s].at \in {"plans", "upsert"} => play'[slot'[s].token].acked
         /\ \A x \in Slots \ {s} : slot'[x] = slot[x]
<1>1. IsRequest(slot[s]) /\ slot[s].at = "ack" /\ slot[s].user \in Users /\ slot[s].token \in Tokens
  BY DEF BillingTyped, SlotsTyped, Equipped, VerifyAck, Verifying
<1>2. UNCHANGED <<plan, ent, cache, raced>>
  BY DEF VerifyAck
<1>3. play' \in [Tokens -> PlayRow] /\ PlayOn
  <2>1. play \in [Tokens -> PlayRow]
    BY BillingTypes DEF BillingTyped
  <2>2. CASE play' = [play EXCEPT ![slot[s].token].acked = TRUE]
    <3> DEFINE row == [play[slot[s].token] EXCEPT !.acked = TRUE]
    <3>1. row \in PlayRow /\ row.acked
      BY <1>1, <2>1 DEF PlayRow
    <3>2. play' = [play EXCEPT ![slot[s].token] = row]
      BY <2>2
    <3> HIDE DEF row
    <3> QED BY <1>1, <2>1, <3>1, <3>2 DEF PlayOn
  <2>3. CASE play' = play
    BY <2>1, <2>3 DEF PlayOn
  <2> QED BY <2>2, <2>3 DEF VerifyAck
<1>4. BillingTypeOK'
  BY <1>2, <1>3 DEF BillingTyped, BillingTypeOK, PlayRow
<1>5. raced \subseteq raced' /\ TokensOn /\ CacheOn
  BY <1>2 DEF TokensOn, CacheOn
<1>6. ASSUME NEW q, Step(s, q), IsRequest(q), Equipped(q), HoldsOn(q, slot[s]), LoadsOn(q, slot[s]), EarnsOn(q, slot[s])
      PROVE  BillingTyped' /\ HoldCalm /\ LoadCalm /\ BonusCalm
             /\ slot'[s] = q /\ \A x \in Slots \ {s} : slot'[x] = slot[x]
  BY <1>4, <1>5, <1>6, StepOn, SlotStep DEF BillingTyped, HoldCalm, LoadCalm, BonusCalm
<1>7. CASE Step(s, Idle)
  BY <1>1, <1>2, <1>3, <1>6, <1>7, IdleTyped, IdleQuiet DEF Spared
<1>8. CASE play'[slot[s].token].acked /\ Granted(slot[s].seen) # "none" /\ Step(s, [slot[s] EXCEPT !.at = "plans"])
  <2> DEFINE q == [slot[s] EXCEPT !.at = "plans"]
  <2>1. /\ IsRequest(q) /\ q.at = "plans" /\ q.user = slot[s].user /\ q.token = slot[s].token
        /\ q.seen = slot[s].seen /\ Step(s, q)
    <3>1. "plans" \in Stations
      BY DEF Stations, Verifying
    <3> QED BY <1>1, <1>8, <3>1, MovedOn
  <2> HIDE DEF q
  <2>2. Equipped(q) /\ HoldsOn(q, slot[s]) /\ LoadsOn(q, slot[s]) /\ EarnsOn(q, slot[s])
    BY <1>1, <1>8, <2>1 DEF Equipped, HoldsOn, LoadsOn, EarnsOn
  <2> QED BY <1>2, <1>3, <1>6, <1>8, <2>1, <2>2
<1> QED BY <1>7, <1>8 DEF VerifyAck, Finished

LEMMA PlansCalm ==
  ASSUME BillingTyped, NEW s \in Slots, VerifyPlans(s)
  PROVE  BillingTyped' /\ Calm
<1>1. /\ IsRequest(slot[s]) /\ slot[s].at = "plans" /\ slot[s].user \in Users /\ slot[s].token \in Tokens
      /\ Granted(slot[s].seen) # "none"
  BY DEF BillingTyped, SlotsTyped, Equipped, VerifyPlans, Verifying
<1>2. UNCHANGED <<plan, ent, play, cache, raced>>
  BY DEF VerifyPlans
<1>3. CASE Step(s, Idle)
  BY <1>1, <1>2, <1>3, IdleTyped, IdleQuiet, OnlySlotQuiet
<1>4. ASSUME NEW p \in Plans, NEW per \in Periods,
             Step(s, [slot[s] EXCEPT !.at = "upsert", !.plan = p, !.period = per])
      PROVE  BillingTyped' /\ Calm
  <2> DEFINE q == [slot[s] EXCEPT !.at = "upsert", !.plan = p, !.period = per]
  <2>1. /\ IsRequest(q) /\ q.at = "upsert" /\ q.user = slot[s].user /\ q.token = slot[s].token
        /\ q.plan = p /\ q.seen = slot[s].seen
    BY <1>1 DEF IsRequest, Stations, Verifying
  <2>2. Step(s, q)
    BY <1>4
  <2> HIDE DEF q
  <2>3. Equipped(q) /\ Spared(q, slot[s])
    BY <1>1, <2>1 DEF Equipped, Spared, HoldsOn, LoadsOn, AcksOn, EarnsOn
  <2> QED BY <1>2, <2>1, <2>2, <2>3, OnlySlotQuiet
<1>5. \/ Step(s, Idle)
      \/ \E p \in Plans : Step(s, [slot[s] EXCEPT !.at = "upsert", !.plan = p, !.period = plan[p].period])
  BY DEF VerifyPlans, Finished, Picks
<1>6. \A p \in Plans : plan[p].period \in Periods
  BY DEF BillingTyped, BillingTypeOK
<1> QED BY <1>3, <1>4, <1>5, <1>6

\* Loads: what is remembered, or held until the plan is read, comes from the row.
LEMMA ResolvedTyped ==
  ASSUME NEW row \in EntRow, NEW live \in BOOLEAN
  PROVE  Resolved(row, live) \in Answers /\ Resolved(row, live).stamp = row.stamp
BY DEF Resolved, Answers, EntRow

\* A load on its way: the cache has no answer, or the plan is read.
LEMMA LoadCalmly ==
  ASSUME BillingTyped, NEW s \in Slots, LoadLook(s) \/ LoadPlan(s)
  PROVE  BillingTyped' /\ Calm
<1>1. IsRequest(slot[s]) /\ slot[s].at \in {"load", "plan"} /\ slot[s].user \in Users
  BY DEF BillingTyped, SlotsTyped, Equipped, LoadLook, LoadPlan
<1>2. UNCHANGED <<plan, ent, play, cache, raced>>
  BY DEF LoadLook, LoadPlan
<1>3. CASE LoadLook(s)
  <2>1. cache[slot[s].user] \in Answers \cup {None} /\ "row" \in Stations
    BY <1>1, BillingTypes DEF BillingTyped, Stations
  <2>2. CASE Step(s, [slot[s] EXCEPT !.at = "answer", !.told = cache[slot[s].user]])
    <3> DEFINE q == [slot[s] EXCEPT !.at = "answer", !.told = cache[slot[s].user]]
    <3>1. IsRequest(q) /\ q.at = "answer" /\ q.user = slot[s].user /\ q.token = slot[s].token
      BY <1>1, <2>1, Telling
    <3>2. Step(s, q)
      BY <2>2
    <3> HIDE DEF q
    <3>3. Equipped(q) /\ Spared(q, slot[s])
      BY <1>1, <3>1, QuietForms DEF Equipped, Verifying
    <3> QED BY <1>2, <3>1, <3>2, <3>3, OnlySlotQuiet
  <2>3. CASE Step(s, [slot[s] EXCEPT !.at = "row"])
    <3> DEFINE q == [slot[s] EXCEPT !.at = "row"]
    <3>1. IsRequest(q) /\ q.at = "row" /\ q.user = slot[s].user /\ q.token = slot[s].token
      BY <1>1, <2>1, MovedOn
    <3>2. Step(s, q)
      BY <2>3
    <3> HIDE DEF q
    <3>3. Equipped(q) /\ Spared(q, slot[s])
      BY <1>1, <3>1, QuietForms DEF Equipped, Verifying
    <3> QED BY <1>2, <3>1, <3>2, <3>3, OnlySlotQuiet
  <2> QED BY <1>3, <2>2, <2>3 DEF LoadLook
<1>4. CASE LoadPlan(s)
  <2> DEFINE row == slot[s].got
             live == Live(row) /\ plan[row.plan].there
             e == Resolved(row, live)
             q == [slot[s] EXCEPT !.at = "keep", !.told = e]
  <2>1. row \in EntRow /\ slot[s].at = "plan"
    BY <1>1, <1>4 DEF IsRequest, LoadPlan
  <2>2. e = Resolved(row, TRUE) \/ e = Resolved(row, FALSE)
    BY DEF Resolved
  <2>3. Step(s, q)
    BY <1>4 DEF LoadPlan
  <2> HIDE DEF e
  <2>4. e \in Answers /\ e.stamp = slot[s].got.stamp
    BY <2>1, <2>2, ResolvedTyped
  <2>5. /\ IsRequest(q) /\ q.at = "keep" /\ q.user = slot[s].user /\ q.token = slot[s].token
        /\ q.got = slot[s].got /\ q.told = e
    BY <1>1, <2>4, WorkedOut
  <2> HIDE DEF q, row
  <2>6. Equipped(q) /\ Spared(q, slot[s])
    BY <1>1, <2>1, <2>4, <2>5 DEF Equipped, Verifying, Spared, HoldsOn, LoadsOn, AcksOn, EarnsOn
  <2> QED BY <1>2, <2>3, <2>5, <2>6, OnlySlotQuiet
<1> QED BY <1>3, <1>4

\* The statement that reads the row: the request has it as it is.
LEMMA LoadRowStep ==
  ASSUME BillingTyped, NEW s \in Slots, LoadRow(s)
  PROVE  /\ BillingTyped' /\ HoldCalm /\ AckCalm /\ BonusCalm /\ UNCHANGED <<ent, cache, raced>>
         /\ slot[s].at = "row" /\ slot'[s].at # "forget" /\ slot'[s].got = ent[slot'[s].user]
         /\ \A x \in Slots \ {s} : slot'[x] = slot[x]
<1> DEFINE row == ent[slot[s].user]
           e == Resolved(row, FALSE)
<1>1. IsRequest(slot[s]) /\ slot[s].at = "row" /\ slot[s].user \in Users
  BY DEF BillingTyped, SlotsTyped, Equipped, LoadRow
<1>2. UNCHANGED <<plan, ent, play, cache, raced>>
  BY DEF LoadRow
<1>3. row \in EntRow
  BY <1>1, BillingTypes DEF BillingTyped
<1>4. e \in Answers /\ e.stamp = row.stamp
  BY <1>3, ResolvedTyped
<1>5. \/ Step(s, [slot[s] EXCEPT !.at = "keep", !.got = row, !.told = e])
      \/ Step(s, [slot[s] EXCEPT !.at = "plan", !.got = row])
  BY DEF LoadRow
<1> HIDE DEF e, row
<1>6. ASSUME NEW q, Step(s, q), IsRequest(q), q.user = slot[s].user, q.token = slot[s].token, q.got = row,
             q.at = "plan" \/ (q.at = "keep" /\ q.told = e)
      PROVE  /\ BillingTyped' /\ HoldCalm /\ AckCalm /\ BonusCalm
             /\ slot'[s].at # "forget" /\ slot'[s].got = row /\ slot'[s].user = slot[s].user
             /\ \A x \in Slots \ {s} : slot'[x] = slot[x]
  <2>1. Equipped(q) /\ HoldsOn(q, slot[s]) /\ AcksOn(q, slot[s]) /\ EarnsOn(q, slot[s])
    BY <1>1, <1>4, <1>6 DEF Equipped, Verifying, HoldsOn, AcksOn, EarnsOn
  <2>2. slot'[s] = q /\ \A x \in Slots \ {s} : slot'[x] = slot[x]
    BY <1>6, <2>1, SlotStep DEF BillingTyped
  <2> QED BY <1>2, <1>6, <2>1, <2>2, OnlySlot
<1>7. /\ BillingTyped' /\ HoldCalm /\ AckCalm /\ BonusCalm
      /\ slot'[s].at # "forget" /\ slot'[s].got = row /\ slot'[s].user = slot[s].user
      /\ \A x \in Slots \ {s} : slot'[x] = slot[x]
  <2>1. CASE Step(s, [slot[s] EXCEPT !.at = "keep", !.got = row, !.told = e])
    <3> DEFINE q == [slot[s] EXCEPT !.at = "keep", !.got = row, !.told = e]
    <3>1. Step(s, q) /\ q = [slot[s] EXCEPT !.at = "keep", !.got = row, !.told = e]
      BY <2>1
    <3> HIDE DEF q
    <3>2. /\ IsRequest(q) /\ q.at = "keep" /\ q.user = slot[s].user /\ q.token = slot[s].token
          /\ q.got = row /\ q.told = e
      BY <1>1, <1>3, <1>4, <3>1 DEF IsRequest, Stations
    <3> QED BY <1>6, <3>1, <3>2
  <2>2. CASE Step(s, [slot[s] EXCEPT !.at = "plan", !.got = row])
    <3> DEFINE q == [slot[s] EXCEPT !.at = "plan", !.got = row]
    <3>1. IsRequest(q) /\ q.at = "plan" /\ q.user = slot[s].user /\ q.token = slot[s].token /\ q.got = row
      BY <1>1, <1>3, Holding
    <3>2. Step(s, q)
      BY <2>2
    <3> HIDE DEF q
    <3> QED BY <1>6, <3>1, <3>2
  <2> QED BY <1>5, <2>1, <2>2
<1> QED BY <1>1, <1>2, <1>7 DEF row

\* The entry is what the request has in hand.
LEMMA KeepStep ==
  ASSUME BillingTyped, NEW s \in Slots, Keep(s)
  PROVE  /\ BillingTyped' /\ HoldCalm /\ AckCalm /\ BonusCalm /\ UNCHANGED <<ent, raced>>
         /\ \A x \in Slots : LoadsOn(slot'[x], slot[x])
         /\ Reads(s, slot[s].user)
         /\ \A u \in Users : IF u = slot[s].user THEN cache'[u].stamp = slot[s].got.stamp ELSE cache'[u] = cache[u]
<1> DEFINE u == slot[s].user
           e == slot[s].told
<1>1. /\ IsRequest(slot[s]) /\ slot[s].at = "keep" /\ u \in Users
      /\ e \in Answers /\ e.stamp = slot[s].got.stamp
  BY DEF BillingTyped, SlotsTyped, Equipped, Keep
<1>2. UNCHANGED <<plan, ent, play, raced>> /\ cache \in [Users -> Answers \cup {None}]
  BY BillingTypes DEF Keep, BillingTyped
<1> DEFINE q == [slot[s] EXCEPT !.at = "answer", !.got = NoRow]
<1>3. IsRequest(q) /\ q.at = "answer" /\ q.user = slot[s].user /\ q.token = slot[s].token
  BY <1>1, Kept
<1>4. Step(s, q) /\ cache' = [cache EXCEPT ![u] = e]
  BY DEF Keep
<1> HIDE DEF q, u, e
<1>5. Equipped(q) /\ Spared(q, slot[s])
  BY <1>1, <1>3, QuietForms DEF Equipped, Verifying
<1>6. /\ cache' \in [Users -> Answers \cup {None}]
      /\ \A v \in Users : IF v = u THEN cache'[v].stamp = slot[s].got.stamp ELSE cache'[v] = cache[v]
  BY <1>1, <1>2, <1>4
<1>7. BillingTypeOK'
  BY <1>2, <1>6 DEF BillingTyped, BillingTypeOK
<1>8. raced \cap Tokens \subseteq raced' /\ TokensOn /\ PlayOn
  BY <1>2 DEF TokensOn, PlayOn
<1> QED BY <1>1, <1>2, <1>3, <1>4, <1>5, <1>6, <1>7, <1>8, StepOn
     DEF BillingTyped, Spared, HoldCalm, AckCalm, BonusCalm, Reads, u

\* A write of an entitlement row.
LEMMA WrittenTyped ==
  ASSUME BillingTyped, NEW u \in Users, NEW row \in EntRow, Written(u, row)
  PROVE  /\ ent' \in [Users -> EntRow] /\ ent'[u].token = row.token /\ ent'[u].stamp # ent[u].stamp
         /\ \A v \in Users \ {u} : ent'[v] = ent[v]
<1>1. ent \in [Users -> EntRow]
  BY BillingTypes DEF BillingTyped
<1>2. ent[u].stamp \in 0..MaxStamp /\ ent[u].stamp < MaxStamp /\ ent[u].stamp + 1 \in 0..MaxStamp
  <2>1. ent[u].stamp \in 0..MaxStamp /\ ent[u].stamp < MaxStamp
    BY <1>1 DEF EntRow, Written
  <2> QED BY <2>1, MaxStampNat
<1> DEFINE new == [row EXCEPT !.stamp = ent[u].stamp + 1]
<1>3. new \in EntRow /\ new.token = row.token /\ new.stamp # ent[u].stamp
  BY <1>2 DEF EntRow
<1>4. ent' = [ent EXCEPT ![u] = new]
  BY DEF Written
<1> HIDE DEF new
<1> QED BY <1>1, <1>3, <1>4

\* What a write of u's row with this token leaves for the invariants to see: the
\* entry is still to be dropped.
WroteRow(u, t) ==
  /\ ent'[u].token = t /\ ent'[u].stamp # ent[u].stamp
  /\ \A v \in Users \ {u} : ent'[v] = ent[v]
  /\ UNCHANGED <<play, cache, raced>> /\ Forgetting(u)'
  /\ \A x \in Slots : Spared(slot'[x], slot[x])

LEMMA UpsertRow ==
  ASSUME NEW p \in Plans, NEW src \in {"grant", "play"}, NEW st \in {"active", "grace"}, NEW t \in Tokens \cup {None}
  PROVE  LET row == [plan |-> p, source |-> src, status |-> st, token |-> t, over |-> FALSE, stamp |-> 0] IN
         row \in EntRow /\ row.token = t
BY MaxStampNat DEF EntRow

LEMMA WriteStep ==
  ASSUME BillingTyped, NEW s \in Slots, NEW u \in Users, NEW row \in EntRow, Written(u, row),
         NEW q, Step(s, q), IsRequest(q), Equipped(q), q.at = "forget", q.user = u, Spared(q, slot[s]),
         UNCHANGED <<plan, play, cache, raced>>
  PROVE  BillingTyped' /\ WroteRow(u, row.token)
<1>1. /\ ent' \in [Users -> EntRow] /\ ent'[u].token = row.token /\ ent'[u].stamp # ent[u].stamp
      /\ \A v \in Users \ {u} : ent'[v] = ent[v]
  BY WrittenTyped
<1>2. SlotsTyped' /\ slot'[s] = q /\ \A x \in Slots : Spared(slot'[x], slot[x])
  BY StepOn, SlotStep DEF BillingTyped, Spared
<1>3. BillingTypeOK'
  BY <1>1, BillingTypes DEF BillingTyped, BillingTypeOK, EntRow
<1>4. Forgetting(u)'
  BY <1>2 DEF Forgetting
<1> QED BY <1>1, <1>2, <1>3, <1>4 DEF BillingTyped, WroteRow

LEMMA UpsertStep ==
  ASSUME BillingTyped, NEW s \in Slots, VerifyUpsert(s)
  PROVE  /\ BillingTyped' /\ WroteRow(slot[s].user, slot[s].token)
         /\ slot[s].at = "upsert" /\ slot[s].user \in Users /\ slot[s].token \in Tokens
<1> DEFINE u == slot[s].user
           t == slot[s].token
           p == slot[s].plan
           st == Granted(slot[s].seen)
<1>1. /\ IsRequest(slot[s]) /\ slot[s].at = "upsert" /\ u \in Users /\ t \in Tokens /\ p \in Plans /\ st # "none"
  BY DEF BillingTyped, SlotsTyped, Equipped, VerifyUpsert, Verifying
<1>2. st \in {"active", "grace"}
  BY <1>1 DEF Granted
<1> HIDE DEF st
<1>3. Upsert(u, p, "play", st, t) /\ UNCHANGED <<plan, play, cache, raced>>
  BY DEF VerifyUpsert, st
<1> DEFINE q == [slot[s] EXCEPT !.at = "forget", !.plan = None]
<1>4. Step(s, q)
  BY DEF VerifyUpsert
<1>5. IsRequest(q) /\ q.at = "forget" /\ q.user = u /\ q.token = t
  BY <1>1, WroteForm
<1> HIDE DEF q
<1>6. Equipped(q) /\ Spared(q, slot[s])
  BY <1>1, <1>5, QuietForms DEF Equipped, Verifying
<1> DEFINE row == [plan |-> p, source |-> "play", status |-> st, token |-> t, over |-> FALSE, stamp |-> 0]
<1>7. row \in EntRow /\ row.token = t
  BY <1>1, <1>2, UpsertRow
<1>8. Written(u, row)
  BY <1>3 DEF Upsert
<1> HIDE DEF row, u, t
<1>9. BillingTyped' /\ WroteRow(u, t)
  BY <1>1, <1>3, <1>4, <1>5, <1>6, <1>7, <1>8, WriteStep
<1> QED BY <1>1, <1>9 DEF u, t

\* The console's writes take the token off the row.
LEMMA ConsoleStep ==
  ASSUME BillingTyped, NEW s \in Slots, Grant(s) \/ \E u \in Users : Revoke(s, u)
  PROVE  /\ BillingTyped' /\ HoldCalm /\ AckCalm /\ BonusCalm
         /\ \E u \in Users : WroteRow(u, None)
<1>1. ASSUME Grant(s)
      PROVE  BillingTyped' /\ WroteRow(slot[s].user, None) /\ slot[s].user \in Users
  <2>1. IsRequest(slot[s]) /\ slot[s].at = "grant" /\ slot[s].user \in Users /\ slot[s].plan \in Plans
    BY <1>1 DEF BillingTyped, SlotsTyped, Equipped, Grant
  <2> DEFINE row == [plan |-> slot[s].plan, source |-> "grant", status |-> "active", token |-> None,
                     over |-> FALSE, stamp |-> 0]
             q == [slot[s] EXCEPT !.at = "forget", !.plan = None]
  <2>2. row \in EntRow /\ row.token = None
    BY <2>1, UpsertRow
  <2>3. Written(slot[s].user, row) /\ Step(s, q) /\ UNCHANGED <<plan, play, cache, raced>>
    BY <1>1 DEF Grant, Upsert
  <2>4. IsRequest(q) /\ q.at = "forget" /\ q.user = slot[s].user /\ q.token = slot[s].token /\ q.op = slot[s].op
    BY <2>1, WroteForm DEF IsRequest
  <2>5. slot[s].op # "verify"
    BY <2>1 DEF BillingTyped, SlotsTyped, Equipped
  <2> HIDE DEF row, q
  <2>6. Equipped(q) /\ Spared(q, slot[s])
    BY <2>1, <2>4, <2>5, QuietForms DEF Equipped, Verifying
  <2>7. BillingTyped' /\ WroteRow(slot[s].user, row.token)
    BY <2>1, <2>2, <2>3, <2>4, <2>6, WriteStep
  <2> QED BY <2>1, <2>2, <2>7
<1>2. ASSUME NEW u \in Users, Revoke(s, u)
      PROVE  BillingTyped' /\ WroteRow(u, None)
  <2> DEFINE row == [ent[u] EXCEPT !.plan = None, !.status = "cancelled", !.token = None, !.over = FALSE]
             q == [Idle EXCEPT !.op = "console", !.at = "forget", !.user = u]
  <2>1. row \in EntRow /\ row.token = None
    <3>1. ent[u] \in EntRow
      BY BillingTypes DEF BillingTyped
    <3> QED BY <3>1 DEF EntRow
  <2>2. Written(u, row) /\ Step(s, q) /\ slot[s].at # "forget" /\ UNCHANGED <<plan, play, cache, raced>>
    BY <1>2, ArriveForm DEF Revoke
  <2>3. IsRequest(q) /\ Equipped(q) /\ q.at = "forget" /\ q.user = u /\ q.token = None
    BY Revoking
  <2> HIDE DEF row, q
  <2>4. Spared(q, slot[s])
    BY <2>2, <2>3, QuietForms
  <2> QED BY <2>1, <2>2, <2>3, <2>4, WriteStep
<1>3. ASSUME NEW u \in Users, WroteRow(u, None)
      PROVE  HoldCalm /\ AckCalm /\ BonusCalm
  BY <1>3 DEF WroteRow, HoldCalm, AckCalm, BonusCalm, TokensOn, PlayOn, Spared
<1> QED BY <1>1, <1>2, <1>3

\* The writer goes on: the entry is dropped.
LEMMA ForgetsStep ==
  ASSUME BillingTyped, NEW s \in Slots, Forgets(s)
  PROVE  /\ BillingTyped' /\ HoldCalm /\ AckCalm /\ BonusCalm /\ UNCHANGED ent
         /\ slot[s].at = "forget" /\ slot[s].user \in Users
         /\ slot'[s].at \notin {"plan", "keep"} /\ \A x \in Slots \ {s} : slot'[x] = slot[x]
         /\ cache'[slot[s].user] = None /\ \A v \in Users \ {slot[s].user} : cache'[v] = cache[v]
         /\ raced \subseteq raced' \cup {slot[s].user}
         /\ Outdated(slot[s].user) => slot[s].user \in raced'
<1> DEFINE u == slot[s].user
<1>1. IsRequest(slot[s]) /\ slot[s].at = "forget" /\ u \in Users
  BY DEF BillingTyped, SlotsTyped, Equipped, Forgets
<1>2. /\ plan \in [Plans -> [there : BOOLEAN, period : Periods]] /\ ent \in [Users -> EntRow]
      /\ play \in [Tokens -> PlayRow] /\ cache \in [Users -> Answers \cup {None}] /\ raced \subseteq Tokens \cup Users
  BY BillingTypes DEF BillingTyped
<1>3. /\ UNCHANGED <<plan, ent, play>> /\ cache' = [cache EXCEPT ![u] = None]
      /\ raced' = IF Outdated(u) THEN raced \cup {u} ELSE raced \ {u}
  BY DEF Forgets, Forget
<1> DEFINE q == [slot[s] EXCEPT !.at = "note"]
<1>4. (slot[s].op = "verify" /\ Step(s, q)) \/ Step(s, Idle)
  BY DEF Forgets
<1>5. /\ IsRequest(q) /\ q.at = "note" /\ q.op = slot[s].op /\ q.user = u /\ q.token = slot[s].token
  <2>1. "note" \in Stations
    BY DEF Stations, Verifying
  <2> QED BY <1>1, <2>1, MovedOn
<1> HIDE DEF q, u
<1>6. slot[s].op = "verify" => Equipped(q)
  BY <1>1, <1>5 DEF Equipped, Verifying, BillingTyped, SlotsTyped
<1>7. HoldsOn(q, slot[s]) /\ AcksOn(q, slot[s]) /\ EarnsOn(q, slot[s])
  BY <1>5 DEF HoldsOn, AcksOn, EarnsOn, u
<1>8. /\ SlotsTyped' /\ slot'[s].at \in {"note", "start"} /\ \A x \in Slots \ {s} : slot'[x] = slot[x]
      /\ \A x \in Slots : HoldsOn(slot'[x], slot[x]) /\ AcksOn(slot'[x], slot[x]) /\ EarnsOn(slot'[x], slot[x])
  <2>1. CASE slot[s].op = "verify" /\ Step(s, q)
    BY <1>5, <1>6, <1>7, <2>1, StepOn, SlotStep DEF BillingTyped
  <2>2. CASE Step(s, Idle)
    BY <2>2, IdleTyped, IdleQuiet, StepOn, SlotStep DEF BillingTyped
  <2> QED BY <1>4, <2>1, <2>2
<1>9. /\ cache' \in [Users -> Answers \cup {None}] /\ cache'[u] = None
      /\ \A v \in Users \ {u} : cache'[v] = cache[v]
  BY <1>1, <1>2, <1>3
<1>10. /\ raced' \subseteq Tokens \cup Users /\ raced \subseteq raced' \cup {u} /\ (Outdated(u) => u \in raced')
       /\ raced \cap Tokens \subseteq raced'
  BY <1>1, <1>2, <1>3, BillingAssumption
<1>11. BillingTypeOK'
  BY <1>2, <1>3, <1>9, <1>10 DEF BillingTypeOK, EntRow, PlayRow
<1>12. TokensOn /\ PlayOn
  BY <1>3 DEF TokensOn, PlayOn
<1> QED BY <1>1, <1>3, <1>8, <1>9, <1>10, <1>11, <1>12 DEF BillingTyped, HoldCalm, AckCalm, BonusCalm, u

----------------------------------------------------------------------------
(* Referrals: their requests, and their rows.                               *)

LEMMA NotedForm ==
  ASSUME BillingTyped, NEW s \in Slots, slot[s].at \in Verifying
  PROVE  IsRequest(Noted(s)) /\ Equipped(Noted(s)) /\ Spared(Noted(s), slot[s])
<1>0. slot[s].at # "forget"
  BY DEF Verifying
<1> DEFINE q == [Idle EXCEPT !.op = "verify", !.at = "load", !.user = slot[s].user]
<1>1. slot[s].user \in Users
  BY DEF BillingTyped, SlotsTyped, Equipped
<1>2. IsRequest(q) /\ Equipped(q) /\ q.at = "load" /\ q.token = None
  <2>1. "verify" \in Errands
    BY DEF Errands
  <2> QED BY <1>1, <2>1, Reading
<1>3. Noted(s) = q
  BY DEF Noted
<1> HIDE DEF q
<1>4. Spared(q, slot[s])
  BY <1>0, <1>2, QuietForms
<1> QED BY <1>2, <1>3, <1>4

LEMMA RestForm ==
  ASSUME BillingTyped, NEW s \in Slots, slot[s].at # "forget"
  PROVE  IsRequest(Rest(s)) /\ Equipped(Rest(s)) /\ Spared(Rest(s), slot[s])
<1>1. IsRequest(slot[s])
  BY DEF BillingTyped, SlotsTyped
<1> DEFINE l == Tail(slot[s].list)
           q == [slot[s] EXCEPT !.at = "ask", !.list = l]
<1>2. Rest(s) = Idle \/ Rest(s) = q
  BY DEF Rest
<1> HIDE DEF l
<1>3. IsRequest(q) /\ q.at = "ask" /\ q.user = slot[s].user /\ q.token = slot[s].token
  BY <1>1, Relisting
<1> HIDE DEF q
<1>4. Equipped(q) /\ Spared(q, slot[s])
  BY <1>3, QuietForms DEF Equipped, Verifying
<1> QED BY <1>2, <1>3, <1>4, IdleTyped, IdleQuiet

LEMMA ReferralCalm ==
  ASSUME BillingTyped, NEW s \in Slots,
         \/ \E u \in Users, o \in Users : ApplyLook(s, u, o)
         \/ ApplyInsert(s) \/ NoteLook(s) \/ NoteQualify(s) \/ RecheckList(s) \/ RecheckPromote(s)
  PROVE  BillingTyped' /\ Calm
<1>1. UNCHANGED <<plan, ent, play, cache, raced>>
  BY DEF ApplyLook, ApplyInsert, NoteLook, NoteQualify, RecheckList, RecheckPromote
<1>2. ASSUME NEW u \in Users, NEW o \in Users, ApplyLook(s, u, o)
      PROVE  BillingTyped' /\ Calm
  <2> DEFINE q == [Idle EXCEPT !.op = "apply", !.at = "apply", !.user = u, !.told = o]
  <2>1. Step(s, q) /\ slot[s].at # "forget"
    BY <1>2, ArriveForm DEF ApplyLook
  <2>2. IsRequest(q) /\ Equipped(q) /\ q.at = "apply" /\ q.token = None
    BY Applying
  <2> HIDE DEF q
  <2> QED BY <1>1, <2>1, <2>2, QuietForms, OnlySlotQuiet
<1>3. CASE ApplyInsert(s)
  BY <1>1, <1>3, IdleTyped, IdleQuiet, OnlySlotQuiet DEF ApplyInsert, Finished
<1>4. CASE NoteLook(s)
  <2> DEFINE q == [slot[s] EXCEPT !.at = "remember"]
  <2>1. Step(s, q) \/ Step(s, Noted(s))
    BY <1>4 DEF NoteLook
  <2>2. slot[s].at = "note" /\ slot[s].at \in Verifying /\ IsRequest(slot[s])
    BY <1>4 DEF NoteLook, Verifying, BillingTyped, SlotsTyped
  <2>3. slot[s].user \in Users /\ slot[s].token \in Tokens
    BY <2>2 DEF BillingTyped, SlotsTyped, Equipped
  <2>4. "remember" \in Stations
    BY DEF Stations, Verifying
  <2>5. IsRequest(q) /\ q.at = "remember" /\ q.user = slot[s].user /\ q.token = slot[s].token
    BY <2>2, <2>4, MovedOn
  <2> HIDE DEF q
  <2>6. Equipped(q) /\ Spared(q, slot[s])
    BY <2>2, <2>3, <2>5, QuietForms DEF Equipped
  <2> QED BY <1>1, <2>1, <2>2, <2>5, <2>6, NotedForm, OnlySlotQuiet
<1>5. CASE NoteQualify(s)
  BY <1>1, <1>5, NotedForm, OnlySlotQuiet DEF NoteQualify, Verifying
<1>6. CASE RecheckList(s)
  <2>1. PICK l : Step(s, [Idle EXCEPT !.op = "recheck", !.at = "ask", !.list = l]) /\ slot[s].at # "forget"
    BY <1>6, ArriveForm DEF RecheckList
  <2> DEFINE q == [Idle EXCEPT !.op = "recheck", !.at = "ask", !.list = l]
  <2>2. IsRequest(q) /\ Equipped(q) /\ q.at = "ask" /\ q.token = None
    BY Rechecking
  <2>3. Step(s, q)
    BY <2>1
  <2> HIDE DEF q
  <2> QED BY <1>1, <2>1, <2>2, <2>3, QuietForms, OnlySlotQuiet
<1>7. CASE RecheckPromote(s)
  BY <1>1, <1>7, RestForm, OnlySlotQuiet DEF RecheckPromote
<1> QED BY <1>2, <1>3, <1>4, <1>5, <1>6, <1>7

\* The two steps that hear from Play that money has changed hands.
LEMMA HeardStep ==
  ASSUME BillingTyped, NEW s \in Slots, NoteRemember(s) \/ RecheckAsk(s)
  PROVE  /\ BillingTyped' /\ HoldCalm /\ LoadCalm /\ AckCalm
         /\ \A x \in Slots \ {s} : slot'[x] = slot[x]
         /\ slot'[s].at = "qualify" => slot'[s].user \in earned'
         /\ slot'[s].at = "promote" => Head(slot'[s].list)[1] \in earned'
<1>1. UNCHANGED <<plan, ent, play, cache, raced>> /\ IsRequest(slot[s]) /\ slot[s].at # "forget"
  BY DEF NoteRemember, RecheckAsk, BillingTyped, SlotsTyped
<1>2. ASSUME NEW q, Step(s, q), IsRequest(q), Equipped(q), Spared(q, slot[s]), q.at \notin {"qualify", "promote"}
      PROVE  /\ BillingTyped' /\ HoldCalm /\ LoadCalm /\ AckCalm
             /\ \A x \in Slots \ {s} : slot'[x] = slot[x]
             /\ slot'[s].at \notin {"qualify", "promote"}
  BY <1>1, <1>2, OnlySlotQuiet, SlotStep DEF BillingTyped, Calm
<1>3. ASSUME NEW a \in {"qualify", "promote"}, Step(s, [slot[s] EXCEPT !.at = a]),
             a = "qualify" => slot[s].at \in Verifying /\ slot[s].user \in earned',
             a = "promote" => Head(slot[s].list)[1] \in earned'
      PROVE  /\ BillingTyped' /\ HoldCalm /\ LoadCalm /\ AckCalm
             /\ \A x \in Slots \ {s} : slot'[x] = slot[x]
             /\ slot'[s].at = "qualify" => slot'[s].user \in earned'
             /\ slot'[s].at = "promote" => Head(slot'[s].list)[1] \in earned'
  <2> DEFINE q == [slot[s] EXCEPT !.at = a]
  <2>1. a \in Stations
    BY DEF Stations, Verifying
  <2>2. IsRequest(q) /\ q.at = a /\ q.user = slot[s].user /\ q.token = slot[s].token /\ q.list = slot[s].list
    BY <1>1, <2>1, MovedOn
  <2>3. Step(s, q)
    BY <1>3
  <2> HIDE DEF q
  <2>4. Equipped(q)
    BY <1>3, <2>2 DEF BillingTyped, SlotsTyped, Equipped, Verifying
  <2>5. HoldsOn(q, slot[s]) /\ LoadsOn(q, slot[s]) /\ AcksOn(q, slot[s])
    BY <1>1, <2>2 DEF HoldsOn, LoadsOn, AcksOn
  <2>6. slot'[s] = q /\ \A x \in Slots \ {s} : slot'[x] = slot[x]
    BY <2>2, <2>3, <2>4, SlotStep DEF BillingTyped
  <2> QED BY <1>1, <1>3, <2>2, <2>3, <2>4, <2>5, <2>6, OnlySlot
<1>4. CASE NoteRemember(s)
  <2>1. slot[s].at \in Verifying
    BY <1>4 DEF NoteRemember, Verifying
  <2>2. CASE Qualifies(slot[s].seen, slot[s].period)
    <3>1. Step(s, [slot[s] EXCEPT !.at = "qualify"])
      BY <1>4, <2>2 DEF NoteRemember
    <3>2. slot[s].user \in earned'
      BY <1>4, <2>2 DEF NoteRemember, Qualifies
    <3> QED BY <1>3, <2>1, <3>1, <3>2
  <2>3. CASE ~Qualifies(slot[s].seen, slot[s].period)
    <3>1. Step(s, Noted(s)) /\ Noted(s).at = "load"
      BY <1>4, <2>3 DEF NoteRemember, Noted, Idle
    <3> QED BY <1>2, <2>1, <3>1, NotedForm
  <2> QED BY <2>2, <2>3
<1>5. CASE RecheckAsk(s)
  <2>1. CASE Step(s, Rest(s))
    <3>1. Rest(s).at \in {"start", "ask"}
      BY <1>1, IdleTyped, Relisting DEF Rest
    <3> QED BY <1>1, <1>2, <2>1, <3>1, RestForm
  <2>2. CASE /\ Step(s, [slot[s] EXCEPT !.at = "promote"])
             /\ Head(slot[s].list)[1] \in earned'
    BY <1>3, <2>2
  <2> QED BY <1>5, <2>1, <2>2 DEF RecheckAsk, Qualifies
<1> QED BY <1>4, <1>5

Moved == {"qualified", "claimed", "paid"}

\* Whose payment some request has heard of.
Heard(u) == \E x \in Slots : \/ slot[x].at = "qualify" /\ slot[x].user = u
                             \/ slot[x].at = "promote" /\ Head(slot[x].list)[1] = u

\* What happens to referrals, seen from one of them: it moves on only if it is
\* heard of, and is paid only from a claim, which is counted.
RefStep(u) ==
  /\ ref'[u].status \in Moved => ref[u].status \in Moved \/ Heard(u)
  /\ \/ payouts'[u] = payouts[u] /\ (ref'[u].status = "paid" <=> ref[u].status = "paid")
     \/ payouts'[u] = payouts[u] + 1 /\ ref[u].status = "claimed" /\ ref'[u].status = "paid"

RefTyped == ref \in [Users -> RefRow] /\ payouts \in [Users -> Nat]

LEMMA QualifiedStep ==
  ASSUME RefTyped, NEW h, Qualified(h), UNCHANGED payouts, Heard(h)
  PROVE  RefTyped' /\ \A u \in Users : RefStep(u)
<1>1. \A u \in Users : ref[u] \in RefRow
  BY DEF RefTyped
<1>2. CASE h \notin Users
  <2>1. ref' = ref
    BY <1>2 DEF Qualified, RefTyped
  <2> QED BY <2>1 DEF RefTyped, RefStep
<1>3. CASE h \in Users
  <2> DEFINE row == [ref[h] EXCEPT !.status = IF @ = "pending" THEN "qualified" ELSE @]
  <2>1. ref' = [ref EXCEPT ![h] = row]
    BY <1>3 DEF Qualified
  <2>2. row \in RefRow /\ row.status = IF ref[h].status = "pending" THEN "qualified" ELSE ref[h].status
    BY <1>1, <1>3 DEF RefRow, Statuses
  <2> HIDE DEF row
  <2> QED BY <1>1, <1>3, <2>1, <2>2 DEF RefTyped, RefStep, Moved
<1> QED BY <1>2, <1>3

LEMMA RefNext ==
  ASSUME AccountsTyped, ReferralsNext
  PROVE  RefTyped' /\ \A u \in Users : RefStep(u)
<1>1. RefTyped /\ (\A u \in Users : ref[u] \in RefRow) /\ SlotsTyped
  BY BillingTypes DEF RefTyped, AccountsTyped
<1>2. CASE UNCHANGED <<ref, payouts>>
  BY <1>1, <1>2 DEF RefTyped, RefStep
<1>3. ASSUME NEW h \in Users, NEW row \in RefRow, ref' = [ref EXCEPT ![h] = row], UNCHANGED payouts,
             row.status \in Moved => ref[h].status \in Moved, row.status = "paid" <=> ref[h].status = "paid"
      PROVE  RefTyped' /\ \A u \in Users : RefStep(u)
  BY <1>1, <1>3 DEF RefTyped, RefStep
<1>4. ASSUME NEW h \in Users, ClaimBonus(h)
      PROVE  RefTyped' /\ \A u \in Users : RefStep(u)
  <2> DEFINE Becomes(x) == [ref[x] EXCEPT !.status = "claimed"]
  <2>1. \A x \in Users : Becomes(x) \in RefRow /\ Becomes(x).status = "claimed"
    BY <1>1 DEF RefRow, Statuses
  <2>2. ref' = [x \in Users |-> IF ref[x].by = h /\ ref[x].status = "qualified" THEN Becomes(x) ELSE ref[x]]
        /\ UNCHANGED payouts
    BY <1>4 DEF ClaimBonus
  <2> HIDE DEF Becomes
  <2>3. \A x \in Users : \/ ref'[x] = ref[x]
                         \/ ref'[x] \in RefRow /\ ref'[x].status = "claimed" /\ ref[x].status = "qualified"
    BY <2>1, <2>2
  <2>4. ref' \in [Users -> RefRow]
    BY <1>1, <2>1, <2>2
  <2> QED BY <1>1, <2>2, <2>3, <2>4 DEF RefTyped, RefStep, Moved
<1>5. ASSUME NEW h \in Users, MarkPaid(h)
      PROVE  RefTyped' /\ \A u \in Users : RefStep(u)
  <2> DEFINE row == [ref[h] EXCEPT !.status = "paid"]
  <2>1. row \in RefRow /\ row.status = "paid"
    BY <1>1 DEF RefRow, Statuses
  <2>2. ref' = [ref EXCEPT ![h] = row] /\ ref[h].status = "claimed" /\ payouts' = [payouts EXCEPT ![h] = @ + 1]
    BY <1>5 DEF MarkPaid
  <2> HIDE DEF row
  <2>3. RefTyped' /\ payouts'[h] = payouts[h] + 1 /\ \A u \in Users \ {h} : ref'[u] = ref[u] /\ payouts'[u] = payouts[u]
    BY <1>1, <2>1, <2>2 DEF RefTyped
  <2>4. ref'[h] = row
    BY <1>1, <2>2 DEF RefTyped
  <2> QED BY <2>1, <2>2, <2>3, <2>4 DEF RefStep, Moved
<1>6. ASSUME NEW h \in Users, RejectReferral(h)
      PROVE  RefTyped' /\ \A u \in Users : RefStep(u)
  <2> DEFINE row == [ref[h] EXCEPT !.status = "rejected"]
  <2>1. row \in RefRow /\ row.status = "rejected"
    BY <1>1 DEF RefRow, Statuses
  <2>2. ref' = [ref EXCEPT ![h] = row] /\ ref[h].status # "paid" /\ UNCHANGED payouts
    BY <1>6 DEF RejectReferral
  <2> HIDE DEF row
  <2> QED BY <1>3, <2>1, <2>2 DEF Moved
<1>7. ASSUME NEW s \in Slots, ApplyInsert(s)
      PROVE  RefTyped' /\ \A u \in Users : RefStep(u)
  <2>1. slot[s].user \in Users /\ slot[s].told \in Users
    BY <1>1, <1>7 DEF SlotsTyped, Equipped, ApplyInsert
  <2> DEFINE h == slot[s].user
             row == [NoReferral EXCEPT !.by = slot[s].told, !.status = "pending"]
  <2>2. row \in RefRow /\ row.status = "pending"
    BY <2>1, RowsTyped DEF RefRow, Statuses
  <2>3. UNCHANGED payouts /\ (UNCHANGED ref \/ (ref[h] = NoReferral /\ ref' = [ref EXCEPT ![h] = row]))
    BY <1>7 DEF ApplyInsert
  <2>4. NoReferral.status = "none"
    BY DEF NoReferral
  <2> HIDE DEF row, h
  <2>5. h \in Users
    BY <2>1 DEF h
  <2> QED BY <1>2, <1>3, <2>2, <2>3, <2>4, <2>5 DEF Moved
<1>8. ASSUME NEW s \in Slots, NoteRemember(s)
      PROVE  RefTyped' /\ \A u \in Users : RefStep(u)
  <2> DEFINE h == slot[s].user
  <2>1. h \in Users /\ slot[s].token \in Tokens /\ slot[s].period \in Periods \cup {""}
    BY <1>1, <1>8 DEF SlotsTyped, Equipped, IsRequest, NoteRemember, Verifying
  <2>2. ref' = [ref EXCEPT ![h].token = slot[s].token, ![h].period = slot[s].period] /\ UNCHANGED payouts
    BY <1>8 DEF NoteRemember
  <2> HIDE DEF h
  <2>3. /\ ref' \in [Users -> RefRow] /\ \A u \in Users : ref'[u].status = ref[u].status
    BY <1>1, <2>1, <2>2 DEF RefTyped, RefRow
  <2> QED BY <1>1, <2>2, <2>3 DEF RefTyped, RefStep
<1>9. ASSUME NEW s \in Slots, NoteQualify(s)
      PROVE  RefTyped' /\ \A u \in Users : RefStep(u)
  <2>1. Heard(slot[s].user) /\ Qualified(slot[s].user) /\ UNCHANGED payouts
    BY <1>9 DEF NoteQualify, Heard
  <2> QED BY <1>1, <2>1, QualifiedStep
<1>10. ASSUME NEW s \in Slots, RecheckPromote(s)
       PROVE  RefTyped' /\ \A u \in Users : RefStep(u)
  <2>1. Heard(Head(slot[s].list)[1]) /\ Qualified(Head(slot[s].list)[1]) /\ UNCHANGED payouts
    BY <1>10 DEF RecheckPromote, Heard
  <2> QED BY <1>1, <2>1, QualifiedStep
<1>11. \/ UNCHANGED <<ref, payouts>>
       \/ \E u \in Users : ClaimBonus(u) \/ MarkPaid(u) \/ RejectReferral(u)
       \/ \E s \in Slots : ApplyInsert(s) \/ NoteRemember(s) \/ NoteQualify(s) \/ RecheckPromote(s)
  BY DEF ReferralsNext, referralVars, EnsureCode, ApplyLook, NoteLook, RecheckList, RecheckAsk
<1> QED BY <1>2, <1>4, <1>5, <1>6, <1>7, <1>8, <1>9, <1>10, <1>11

----------------------------------------------------------------------------
(* Types, over every step, and which steps are not calm.                    *)

LEMMA AccountsTypedSplit ==
  /\ AccountsTyped <=> BillingTyped /\ RefTyped
  /\ AccountsTyped' <=> BillingTyped' /\ RefTyped'
BY DEF AccountsTyped, ReferralsTypeOK, BillingTyped, RefTyped, RefRow

\* The steps the invariants are about.
Asking(s)   == VerifyFetch(s) \/ VerifyAck(s)
Loading(s)    == LoadRow(s) \/ Keep(s)
Writing(s)    == VerifyUpsert(s) \/ Grant(s) \/ \E u \in Users : Revoke(s, u)
Hearing(s)    == NoteRemember(s) \/ RecheckAsk(s)
Looking       == \E s \in Slots, u \in Users, t \in Tokens : VerifyLook(s, u, t)
Special == \/ Looking \/ Restart
           \/ \E s \in Slots : Asking(s) \/ Loading(s) \/ Writing(s) \/ Forgets(s) \/ Hearing(s)

\* A step is calm, or it is one of those.
LEMMA StepKinds ==
  ASSUME AccountsTyped, ReferralsNext
  PROVE  AccountsTyped' /\ earned \subseteq earned' /\ (Calm \/ Special)
<1>1. BillingTyped /\ RefTyped'
  BY RefNext, AccountsTypedSplit
<1>2. earned \subseteq earned'
  BY DEF ReferralsNext, referralVars, EnsureCode, ClaimBonus, MarkPaid, RejectReferral, ApplyLook,
         ApplyInsert, NoteLook, NoteRemember, NoteQualify, RecheckList, RecheckAsk, RecheckPromote
<1>3. CASE \E t \in Tokens : Buy(t) \/ Moves(t)
  <2>1. BillingTyped' /\ Calm
    BY <1>1, <1>3, BuyCalm
  <2> QED BY <1>1, <1>2, <2>1, AccountsTypedSplit
<1>4. CASE \E s \in Slots : Loading(s)
  <2>1. BillingTyped'
    BY <1>1, <1>4, LoadRowStep, KeepStep DEF Loading
  <2> QED BY <1>1, <1>2, <1>4, <2>1, AccountsTypedSplit DEF Special
<1>5. CASE \/ \E s \in Slots : Answer(s) \/ DeletePlan(s) \/ ForgetsAll(s) \/ LoadLook(s) \/ LoadPlan(s)
           \/ \E s \in Slots, u \in Users : Entitlement(s, u)
           \/ \E s \in Slots, p \in Plans : UpdatePlan(s, p) \/ DeletePlanCount(s, p)
           \/ \E s \in Slots, u \in Users, p \in Plans : GrantLook(s, u, p)
  <2>1. BillingTyped' /\ Calm
    BY <1>1, <1>5, RequestCalm, PlanStep, LoadCalmly
  <2> QED BY <1>1, <1>2, <2>1, AccountsTypedSplit
<1>6. CASE Looking
  <2>1. BillingTyped'
    BY <1>1, <1>6, LookCalm DEF Looking
  <2> QED BY <1>1, <1>2, <1>6, <2>1, AccountsTypedSplit DEF Special
<1>7. CASE \E s \in Slots : Asking(s)
  <2>1. BillingTyped'
    BY <1>1, <1>7, FetchCalm, AckStep DEF Asking
  <2> QED BY <1>1, <1>2, <1>7, <2>1, AccountsTypedSplit DEF Special
<1>8. CASE \E s \in Slots : VerifyPlans(s)
  <2>1. BillingTyped' /\ Calm
    BY <1>1, <1>8, PlansCalm
  <2> QED BY <1>1, <1>2, <2>1, AccountsTypedSplit
<1>9. CASE \E s \in Slots : Writing(s)
  <2>1. BillingTyped'
    BY <1>1, <1>9, UpsertStep, ConsoleStep DEF Writing
  <2> QED BY <1>1, <1>2, <1>9, <2>1, AccountsTypedSplit DEF Special
<1>10. CASE Restart \/ \E s \in Slots : Forgets(s)
  <2>1. BillingTyped'
    BY <1>1, <1>10, RestartStep, ForgetsStep
  <2> QED BY <1>1, <1>2, <1>10, <2>1, AccountsTypedSplit DEF Special
<1>11. CASE \/ \E p \in Plans : CreatePlan(p)
            \/ \E u \in Users : RunsOut(u) \/ CacheExpires(u)
  <2>1. BillingTyped' /\ Calm
    BY <1>1, <1>11, CatalogCalm
  <2> QED BY <1>1, <1>2, <2>1, AccountsTypedSplit
<1>12. CASE \E u \in Users : EnsureCode(u) \/ ClaimBonus(u) \/ MarkPaid(u) \/ RejectReferral(u)
  <2>1. UNCHANGED <<plan, ent, play, cache, slot, raced>>
    BY <1>12 DEF billingVars, EnsureCode, ClaimBonus, MarkPaid, RejectReferral
  <2>2. BillingTyped'
    BY <1>1, <2>1 DEF BillingTyped, BillingTypeOK, SlotsTyped
  <2>3. raced \subseteq raced' /\ TokensOn /\ CacheOn /\ PlayOn
    BY <2>1 DEF TokensOn, CacheOn, PlayOn
  <2>4. Calm
    BY <2>1, <2>3, SlotsSame DEF Calm, HoldCalm, LoadCalm, AckCalm, BonusCalm, Spared
  <2> QED BY <1>1, <1>2, <2>2, <2>4, AccountsTypedSplit
<1>13. CASE \/ \E s \in Slots, u \in Users, o \in Users : ApplyLook(s, u, o)
            \/ \E s \in Slots : ApplyInsert(s) \/ NoteLook(s) \/ NoteQualify(s) \/ RecheckList(s) \/ RecheckPromote(s)
  <2>1. BillingTyped' /\ Calm
    BY <1>1, <1>13, ReferralCalm
  <2> QED BY <1>1, <1>2, <2>1, AccountsTypedSplit
<1>14. CASE \E s \in Slots : Hearing(s)
  <2>1. BillingTyped'
    BY <1>1, <1>14, HeardStep DEF Hearing
  <2> QED BY <1>1, <1>2, <1>14, <2>1, AccountsTypedSplit DEF Special
<1> QED BY <1>3, <1>4, <1>5, <1>6, <1>7, <1>8, <1>9, <1>10, <1>11, <1>12, <1>13, <1>14
     DEF ReferralsNext, BillingNext, Looking, Loading, Asking, Writing, Hearing

LEMMA AccountsInitTyped == ReferralsInit => AccountsTyped
<1> SUFFICES ASSUME ReferralsInit
             PROVE  AccountsTyped
  OBVIOUS
<1>1. BillingTypeOK
  BY RowsTyped, BillingTypes DEF ReferralsInit, BillingInit
<1>2. RefTyped
  BY RowsTyped DEF ReferralsInit, RefTyped
<1>3. SlotsTyped
  BY IdleTyped DEF ReferralsInit, BillingInit, SlotsTyped
<1> QED BY <1>1, <1>2, <1>3, AccountsTypedSplit DEF BillingTyped

----------------------------------------------------------------------------
(* Acknowledge before granting.                                             *)

\* A verification past Play's answer has an acknowledged token in hand.
Acked ==
  /\ \A x \in Slots : slot[x].at \in {"plans", "upsert"} => play[slot[x].token].acked
  /\ AckedFirst

LEMMA AckedNext ==
  ASSUME AccountsTyped, Acked, ReferralsNext
  PROVE  Acked'
<1>1. BillingTyped /\ \A x \in Slots : slot[x].at \in {"plans", "upsert"} => slot[x].token \in Tokens
  BY AccountsTypedSplit DEF BillingTyped, SlotsTyped, Equipped, Verifying
<1>2. \A u \in Users : ent[u].token \in Tokens \cup {None}
  BY <1>1, BillingTypes DEF BillingTyped, EntRow
<1>3. ASSUME AckCalm
      PROVE  Acked'
  BY <1>1, <1>2, <1>3 DEF Acked, AckedFirst, AckCalm, PlayOn, TokensOn, AcksOn
<1>4. ASSUME NEW s \in Slots, VerifyFetch(s) \/ VerifyAck(s)
      PROVE  Acked'
  <2>1. /\ PlayOn /\ UNCHANGED ent
        /\ slot'[s].at \in {"plans", "upsert"} => play'[slot'[s].token].acked
        /\ \A x \in Slots \ {s} : slot'[x] = slot[x]
    BY <1>1, <1>4, FetchCalm, AckStep DEF PlayOn
  <2> QED BY <1>1, <1>2, <2>1 DEF Acked, AckedFirst, PlayOn
<1>5. ASSUME NEW s \in Slots, VerifyUpsert(s)
      PROVE  Acked'
  <2>1. /\ UNCHANGED play /\ \A x \in Slots : AcksOn(slot'[x], slot[x])
        /\ slot[s].at = "upsert" /\ slot[s].user \in Users /\ WroteRow(slot[s].user, slot[s].token)
    BY <1>1, <1>5, UpsertStep DEF WroteRow, Spared
  <2> QED BY <1>1, <1>2, <2>1 DEF Acked, AckedFirst, AcksOn, WroteRow
<1> QED BY <1>1, <1>3, <1>4, <1>5, StepKinds, LookCalm, LoadRowStep, KeepStep, ConsoleStep, ForgetsStep,
           RestartStep, HeardStep DEF Calm, Special, Looking, Asking, Loading, Writing, Hearing

----------------------------------------------------------------------------
(* One holder.                                                              *)

\* Requests that carry a token, and the row that has it, are of one account.
Held == \A t \in Tokens \ raced :
  /\ \A x, y \in Slots : slot[x].token = t /\ slot[y].token = t => slot[x].user = slot[y].user
  /\ \A x \in Slots, u \in Users : slot[x].token = t /\ ent[u].token = t => u = slot[x].user
  /\ \A u, v \in Users : ent[u].token = t /\ ent[v].token = t => u = v

LEMMA HeldNext ==
  ASSUME AccountsTyped, Held, ReferralsNext
  PROVE  Held'
<1>1. BillingTyped /\ \A t \in Tokens : t # None
  BY AccountsTypedSplit, BillingAssumption
<1>2. ASSUME HoldCalm
      PROVE  Held'
  <2>1. \A x \in Slots, t \in Tokens : slot'[x].token = t => slot[x].token = t /\ slot'[x].user = slot[x].user
    BY <1>1, <1>2 DEF HoldCalm, HoldsOn
  <2>2. \A u \in Users, t \in Tokens : ent'[u].token = t => ent[u].token = t
    BY <1>1, <1>2 DEF HoldCalm, TokensOn
  <2>3. Tokens \ raced' \subseteq Tokens \ raced
    BY <1>2 DEF HoldCalm
  <2> QED BY <2>1, <2>2, <2>3 DEF Held
<1>3. ASSUME NEW s \in Slots, NEW u \in Users, NEW t \in Tokens, VerifyLook(s, u, t)
      PROVE  Held'
  <2>1. /\ UNCHANGED ent /\ Holders(t) \subseteq {u}
        /\ slot'[s].user = u /\ slot'[s].token = t /\ \A x \in Slots \ {s} : slot'[x] = slot[x]
        /\ raced' = raced \cup {t : r \in {x \in Slots : slot[x].token = t /\ slot[x].user # u}}
    BY <1>1, <1>3, LookCalm
  <2>2. t \notin raced' => \A x \in Slots : slot[x].token = t => slot[x].user = u
    BY <2>1
  <2>3. \A v \in Users : ent[v].token = t => v = u
    BY <2>1 DEF Holders
  <2>4. Tokens \ raced' \subseteq Tokens \ raced
    BY <2>1
  <2> QED BY <2>1, <2>2, <2>3, <2>4 DEF Held
<1>4. ASSUME NEW s \in Slots, VerifyUpsert(s)
      PROVE  Held'
  <2>1. /\ \A x \in Slots : HoldsOn(slot'[x], slot[x])
        /\ slot[s].user \in Users /\ slot[s].token \in Tokens /\ WroteRow(slot[s].user, slot[s].token)
    BY <1>1, <1>4, UpsertStep DEF WroteRow, Spared
  <2>2. \A x \in Slots, t \in Tokens : slot'[x].token = t => slot[x].token = t /\ slot'[x].user = slot[x].user
    BY <1>1, <2>1 DEF HoldsOn
  <2>3. Tokens \ raced' \subseteq Tokens \ raced
    BY <2>1 DEF WroteRow
  <2>4. \A u \in Users, t \in Tokens : ent'[u].token = t =>
          ent[u].token = t \/ (u = slot[s].user /\ t = slot[s].token)
    BY <2>1 DEF WroteRow
  <2> QED BY <2>1, <2>2, <2>3, <2>4 DEF Held
<1> QED BY <1>1, <1>2, <1>3, <1>4, StepKinds, FetchCalm, AckStep, LoadRowStep, KeepStep, ConsoleStep, ForgetsStep,
           RestartStep, HeardStep DEF Calm, Special, Looking, Asking, Loading, Writing, Hearing

----------------------------------------------------------------------------
(* The cache.                                                               *)

\* A load that has u's row in hand has it as it is; so does the cache.
LoadsNow(u) == \A x \in Slots : Reads(x, u) => slot[x].got.stamp = ent[u].stamp
CacheNow(u) == cache[u] # None => cache[u].stamp = ent[u].stamp

\* Nothing is written and nothing put back: what was current stays so.
Follows(u) ==
  /\ u \in raced => u \in raced'
  /\ LoadsNow(u) => LoadsNow(u)' /\ (CacheNow(u) => CacheNow(u)')
  /\ Forgetting(u) => Forgetting(u)'

\* u's row is written: the entry is to be dropped, and no load has outdated it
\* unless one had it in hand.
WritesIt(u) ==
  /\ u \in raced => u \in raced'
  /\ Forgetting(u)' /\ (LoadsUndisturbed(u) => LoadsNow(u)')

\* The entry is dropped.
DropsIt(u) == CacheNow(u)' /\ (LoadsNow(u) \/ u \notin raced' => LoadsNow(u)')

\* Every step is one of the three for every account.
LEMMA CacheSteps ==
  ASSUME AccountsTyped, ReferralsNext, NEW u \in Users
  PROVE  Follows(u) \/ WritesIt(u) \/ DropsIt(u)
<1>1. BillingTyped
  BY AccountsTypedSplit
<1>2. ASSUME LoadCalm
      PROVE  Follows(u)
  <2>1. ent'[u].stamp = ent[u].stamp /\ cache'[u] \in {None, cache[u]}
    BY <1>2 DEF LoadCalm, CacheOn
  <2>2. \A x \in Slots : /\ Reads(x, u)' => Reads(x, u) /\ slot'[x].got = slot[x].got
                         /\ slot[x].at = "forget" => slot'[x].at = "forget" /\ slot'[x].user = slot[x].user
    BY <1>2 DEF LoadCalm, LoadsOn, Reads
  <2>3. LoadsNow(u) => LoadsNow(u)'
    BY <2>1, <2>2 DEF LoadsNow
  <2>4. CacheNow(u) => CacheNow(u)'
    BY <2>1 DEF CacheNow
  <2>5. Forgetting(u) => Forgetting(u)'
    BY <2>2 DEF Forgetting
  <2> QED BY <1>2, <2>3, <2>4, <2>5 DEF Follows, LoadCalm
<1>3. ASSUME NEW s \in Slots, LoadRow(s)
      PROVE  Follows(u)
  <2>1. /\ UNCHANGED <<ent, cache, raced>>
        /\ slot[s].at = "row" /\ slot'[s].at # "forget" /\ slot'[s].got = ent[slot'[s].user]
        /\ \A x \in Slots \ {s} : slot'[x] = slot[x]
    BY <1>1, <1>3, LoadRowStep
  <2>2. LoadsNow(u) => LoadsNow(u)'
    BY <2>1 DEF LoadsNow, Reads
  <2>3. Forgetting(u) => Forgetting(u)'
    BY <2>1 DEF Forgetting
  <2> QED BY <2>1, <2>2, <2>3 DEF Follows, CacheNow
<1>4. ASSUME NEW s \in Slots, Keep(s)
      PROVE  Follows(u)
  <2>1. /\ UNCHANGED <<ent, raced>> /\ Reads(s, slot[s].user)
        /\ IF u = slot[s].user THEN cache'[u].stamp = slot[s].got.stamp ELSE cache'[u] = cache[u]
    BY <1>1, <1>4, KeepStep
  <2>2. \A x \in Slots : /\ Reads(x, u)' => Reads(x, u) /\ slot'[x].got = slot[x].got
                         /\ slot[x].at = "forget" => slot'[x].at = "forget" /\ slot'[x].user = slot[x].user
    BY <1>1, <1>4, KeepStep DEF LoadsOn, Reads
  <2>3. LoadsNow(u) => LoadsNow(u)' /\ (CacheNow(u) => CacheNow(u)')
    BY <2>1, <2>2 DEF LoadsNow, CacheNow
  <2>4. Forgetting(u) => Forgetting(u)'
    BY <2>2 DEF Forgetting
  <2> QED BY <2>1, <2>3, <2>4 DEF Follows
<1>5. ASSUME NEW v \in Users, NEW t, WroteRow(v, t)
      PROVE  Follows(u) \/ WritesIt(u)
  <2>1. /\ UNCHANGED <<cache, raced>>
        /\ \A x \in Slots : /\ Reads(x, u)' => Reads(x, u) /\ slot'[x].got = slot[x].got
                            /\ slot[x].at = "forget" => slot'[x].at = "forget" /\ slot'[x].user = slot[x].user
    BY <1>5 DEF WroteRow, Spared, LoadsOn, Reads
  <2>2. CASE u = v
    <3>1. ent'[u].stamp # ent[u].stamp /\ Forgetting(u)'
      BY <1>5, <2>2 DEF WroteRow
    <3>2. LoadsUndisturbed(u) => LoadsNow(u)'
      BY <2>1, <3>1 DEF LoadsUndisturbed, LoadsNow
    <3> QED BY <2>1, <3>1, <3>2 DEF WritesIt
  <2>3. CASE u # v
    <3>1. ent'[u] = ent[u]
      BY <1>5, <2>3 DEF WroteRow
    <3>2. LoadsNow(u) => LoadsNow(u)'
      BY <2>1, <3>1 DEF LoadsNow
    <3>3. Forgetting(u) => Forgetting(u)'
      BY <2>1 DEF Forgetting
    <3> QED BY <2>1, <3>1, <3>2, <3>3 DEF Follows, CacheNow
  <2> QED BY <2>2, <2>3
<1>6. ASSUME NEW s \in Slots, Writing(s)
      PROVE  Follows(u) \/ WritesIt(u)
  BY <1>1, <1>5, <1>6, UpsertStep, ConsoleStep DEF Writing
<1>7. ASSUME NEW s \in Slots, Forgets(s)
      PROVE  Follows(u) \/ DropsIt(u)
  <2>1. /\ UNCHANGED ent /\ slot[s].at = "forget" /\ slot[s].user \in Users
        /\ slot'[s].at \notin {"plan", "keep"} /\ \A x \in Slots \ {s} : slot'[x] = slot[x]
        /\ cache'[slot[s].user] = None /\ \A v \in Users \ {slot[s].user} : cache'[v] = cache[v]
        /\ raced \subseteq raced' \cup {slot[s].user}
        /\ Outdated(slot[s].user) => slot[s].user \in raced'
    BY <1>1, <1>7, ForgetsStep
  <2>2. LoadsNow(u) => LoadsNow(u)'
    BY <2>1 DEF LoadsNow, Reads
  <2>3. CASE u = slot[s].user
    <3>1. ~Outdated(u) => LoadsNow(u)
      BY DEF Outdated, LoadsNow
    <3> QED BY <2>1, <2>2, <2>3, <3>1 DEF DropsIt, CacheNow
  <2>4. CASE u # slot[s].user
    <3>1. Forgetting(u) => Forgetting(u)'
      BY <2>1, <2>4 DEF Forgetting
    <3> QED BY <2>1, <2>2, <2>4, <3>1 DEF Follows, CacheNow
  <2> QED BY <2>3, <2>4
<1>8. ASSUME Restart
      PROVE  DropsIt(u)
  <2>1. (\A x \in Slots : slot'[x].at = "start") /\ cache'[u] = None
    BY <1>1, <1>8, RestartStep
  <2> QED BY <2>1 DEF DropsIt, CacheNow, LoadsNow, Reads
<1> QED BY <1>1, <1>2, <1>3, <1>4, <1>6, <1>7, <1>8, StepKinds, LookCalm, FetchCalm, AckStep, HeardStep
     DEF Calm, Special, Looking, Asking, Loading, Hearing

\* Until the entry is dropped, or unless one was put back since, both are current.
Cached == \A u \in Users \ raced : Forgetting(u) \/ (LoadsNow(u) /\ CacheNow(u))

LEMMA CachedNext ==
  ASSUME AccountsTyped, Cached, ReferralsNext
  PROVE  Cached'
<1> SUFFICES ASSUME NEW u \in Users, u \notin raced'
             PROVE  Forgetting(u)' \/ (LoadsNow(u)' /\ CacheNow(u)')
  BY DEF Cached
<1>1. CASE Follows(u)
  BY <1>1 DEF Follows, Cached
<1>2. CASE WritesIt(u)
  BY <1>2 DEF WritesIt
<1>3. CASE DropsIt(u)
  BY <1>3 DEF DropsIt
<1> QED BY <1>1, <1>2, <1>3, CacheSteps

----------------------------------------------------------------------------
(* Referrals.                                                               *)

\* Whoever some request has heard of is earned, and so is whoever moved on; what
\* was paid was paid once.
Bonuses ==
  /\ \A x \in Slots : slot[x].at = "qualify" => slot[x].user \in earned
  /\ \A x \in Slots : slot[x].at = "promote" => Head(slot[x].list)[1] \in earned
  /\ Earned /\ OnePayout

LEMMA BonusesNext ==
  ASSUME AccountsTyped, Bonuses, ReferralsNext
  PROVE  Bonuses'
<1>1. BillingTyped /\ RefTyped /\ earned \subseteq earned' /\ \A u \in Users : RefStep(u)
  BY AccountsTypedSplit, StepKinds, RefNext
<1>2. Earned'
  <2>1. \A u \in Users : Heard(u) => u \in earned
    BY DEF Bonuses, Heard
  <2> QED BY <1>1, <2>1 DEF Bonuses, Earned, RefStep, Moved
<1>3. OnePayout'
  BY <1>1 DEF Bonuses, OnePayout, RefStep, RefTyped
<1>4. ASSUME BonusCalm
      PROVE  Bonuses'
  BY <1>1, <1>2, <1>3, <1>4 DEF Bonuses, BonusCalm, EarnsOn
<1>5. ASSUME NEW s \in Slots, NoteRemember(s) \/ RecheckAsk(s)
      PROVE  Bonuses'
  <2>1. /\ \A x \in Slots \ {s} : slot'[x] = slot[x]
        /\ slot'[s].at = "qualify" => slot'[s].user \in earned'
        /\ slot'[s].at = "promote" => Head(slot'[s].list)[1] \in earned'
    BY <1>1, <1>5, HeardStep
  <2> QED BY <1>1, <1>2, <1>3, <2>1 DEF Bonuses
<1>6. ASSUME NEW s \in Slots, VerifyUpsert(s)
      PROVE  BonusCalm
  BY <1>1, <1>6, UpsertStep DEF WroteRow, Spared, BonusCalm
<1> QED BY <1>1, <1>4, <1>5, <1>6, StepKinds, LookCalm, FetchCalm, AckStep, LoadRowStep, KeepStep, ConsoleStep,
           ForgetsStep, RestartStep DEF Calm, Special, Looking, Asking, Loading, Writing, Hearing

----------------------------------------------------------------------------
(* The theorems.                                                            *)

AccountsInv == AccountsTyped /\ Acked /\ Held /\ Cached /\ Bonuses

LEMMA AccountsInvInit == ReferralsInit => AccountsInv
<1> SUFFICES ASSUME ReferralsInit
             PROVE  AccountsInv
  OBVIOUS
<1>1. AccountsTyped
  BY AccountsInitTyped
<1>2. \A x \in Slots : slot[x] = Idle /\ slot[x].at = "start" /\ slot[x].token = None
  BY IdleTyped DEF ReferralsInit, BillingInit
<1>3. \A u \in Users : ent[u].token = None /\ cache[u] = None /\ ref[u].status = "none" /\ payouts[u] = 0
  BY DEF ReferralsInit, BillingInit, NoRow, NoReferral
<1>4. \A t \in Tokens : t # None
  BY BillingAssumption
<1> QED BY <1>1, <1>2, <1>3, <1>4
     DEF AccountsInv, Acked, AckedFirst, Held, Cached, LoadsNow, CacheNow, Reads, Bonuses, Earned, OnePayout

LEMMA AccountsInvNext == AccountsInv /\ [ReferralsNext]_accountVars => AccountsInv'
<1> SUFFICES ASSUME AccountsInv, [ReferralsNext]_accountVars
             PROVE  AccountsInv'
  OBVIOUS
<1>1. CASE ReferralsNext
  BY <1>1, StepKinds, AckedNext, HeldNext, CachedNext, BonusesNext DEF AccountsInv
<1>2. CASE UNCHANGED accountVars
  <2>1. UNCHANGED <<plan, ent, play, cache, slot, raced, ref, payouts, earned>>
    BY <1>2 DEF accountVars, billingVars, referralVars
  <2>2. AccountsTyped'
    BY <2>1 DEF AccountsInv, AccountsTyped, ReferralsTypeOK, BillingTypeOK, SlotsTyped
  <2>3. Acked' /\ Held' /\ Cached'
    BY <2>1 DEF AccountsInv, Acked, AckedFirst, Held, Cached, Forgetting, LoadsNow, CacheNow, Reads
  <2>4. Bonuses'
    BY <2>1 DEF AccountsInv, Bonuses, Earned, OnePayout
  <2> QED BY <2>2, <2>3, <2>4 DEF AccountsInv
<1> QED BY <1>1, <1>2

\* What the purchases, the cache and the referrals hold is always well formed, and
\* every request has what the statement it is at needs (modules/billing, plans, referral).
THEOREM AccountsTypes == ReferralsSpec => []AccountsTyped
<1>1. AccountsInv => AccountsTyped
  BY DEF AccountsInv
<1> QED BY <1>1, AccountsInvInit, AccountsInvNext, PTL DEF ReferralsSpec

\* Play is told before an account is given a purchase (billing/service.ts).
THEOREM AcknowledgedFirst == ReferralsSpec => []AckedFirst
<1>1. AccountsInv => AckedFirst
  BY DEF AccountsInv, Acked
<1> QED BY <1>1, AccountsInvInit, AccountsInvNext, PTL DEF ReferralsSpec

\* A purchase that no two accounts had in verification at once serves one account.
THEOREM OneAccountEach == ReferralsSpec => []OneHolder
<1>1. AccountsInv => OneHolder
  BY DEF AccountsInv, Held, OneHolder
<1> QED BY <1>1, AccountsInvInit, AccountsInvNext, PTL DEF ReferralsSpec

\* Once a writer has dropped the entry, what entitlementOf remembers of an account
\* was worked out from its row as it is, unless a load that had read the older row
\* was under way at that moment (plans/service.ts).
THEOREM CacheKeepsUp == ReferralsSpec => []CachedIsCurrent
<1>1. AccountsInv => CachedIsCurrent
  BY DEF AccountsInv, Cached, CacheNow, CachedIsCurrent
<1> QED BY <1>1, AccountsInvInit, AccountsInvNext, PTL DEF ReferralsSpec

\* A referral moves on only after Play was heard to say that its purchase is paid.
THEOREM RealMoneyFirst == ReferralsSpec => []Earned
<1>1. AccountsInv => Earned
  BY DEF AccountsInv, Bonuses
<1> QED BY <1>1, AccountsInvInit, AccountsInvNext, PTL DEF ReferralsSpec

\* A referral is paid at most once, however verification, recheck and desk overlap.
THEOREM PaidOnce == ReferralsSpec => []OnePayout
<1>1. AccountsInv => OnePayout
  BY DEF AccountsInv, Bonuses
<1> QED BY <1>1, AccountsInvInit, AccountsInvNext, PTL DEF ReferralsSpec

----------------------------------------------------------------------------
(* One token, one account, without the history.                             *)

\* The request that carries the token t and the row that has it are of one account.
HeldOnce(t) ==
  /\ \A x \in Slots, u \in Users : slot[x].token = t /\ ent[u].token = t => u = slot[x].user
  /\ \A u, v \in Users : ent[u].token = t /\ ent[v].token = t => u = v

LEMMA HeldOnceNext ==
  ASSUME AccountsTyped, NEW t \in Tokens, HeldOnce(t), Unshared(t), Unshared(t)', ReferralsNext
  PROVE  HeldOnce(t)'
<1>1. BillingTyped /\ t # None
  BY AccountsTypedSplit, BillingAssumption
<1>2. ASSUME HoldCalm
      PROVE  HeldOnce(t)'
  BY <1>1, <1>2 DEF HoldCalm, HoldsOn, TokensOn, HeldOnce
<1>3. ASSUME NEW s \in Slots, NEW u \in Users, NEW k \in Tokens, VerifyLook(s, u, k)
      PROVE  HeldOnce(t)'
  <2>1. /\ UNCHANGED ent /\ Holders(k) \subseteq {u}
        /\ slot'[s].user = u /\ slot'[s].token = k /\ \A x \in Slots \ {s} : slot'[x] = slot[x]
    BY <1>1, <1>3, LookCalm
  <2>2. \A v \in Users : ent[v].token = k => v = u
    BY <2>1 DEF Holders
  <2> QED BY <2>1, <2>2 DEF HeldOnce
<1>4. ASSUME NEW s \in Slots, VerifyUpsert(s)
      PROVE  HeldOnce(t)'
  <2>1. /\ \A x \in Slots : HoldsOn(slot'[x], slot[x])
        /\ slot[s].user \in Users /\ slot[s].token \in Tokens /\ WroteRow(slot[s].user, slot[s].token)
    BY <1>1, <1>4, UpsertStep DEF WroteRow, Spared
  <2>2. \A x \in Slots : slot'[x].token = t => slot[x].token = t /\ slot'[x].user = slot[x].user
    BY <1>1, <2>1 DEF HoldsOn
  <2>3. \A u \in Users : ent'[u].token = t => ent[u].token = t \/ (u = slot[s].user /\ t = slot[s].token)
    BY <2>1 DEF WroteRow
  <2> QED BY <2>1, <2>2, <2>3 DEF HeldOnce, Unshared
<1> QED BY <1>1, <1>2, <1>3, <1>4, StepKinds, FetchCalm, AckStep, LoadRowStep, KeepStep, ConsoleStep, ForgetsStep,
           RestartStep, HeardStep DEF Calm, Special, Looking, Asking, Loading, Writing, Hearing

\* Loads of the account u have its row as it is; so does the cache, once the
\* writer has dropped the entry.
CachedNow(u) == LoadsNow(u) /\ (Forgetting(u) \/ CacheNow(u))

LEMMA CachedNowNext ==
  ASSUME AccountsTyped, NEW u \in Users, CachedNow(u), LoadsUndisturbed(u), ReferralsNext
  PROVE  CachedNow(u)'
<1>1. CASE Follows(u)
  BY <1>1 DEF Follows, CachedNow
<1>2. CASE WritesIt(u)
  BY <1>2 DEF WritesIt, CachedNow
<1>3. CASE DropsIt(u)
  BY <1>3 DEF DropsIt, CachedNow
<1> QED BY <1>1, <1>2, <1>3, CacheSteps

\* A token that no two accounts have in flight at once serves one account, whatever
\* happens to other tokens (billing/routes.ts, the holder's look-up).
THEOREM TokensServeOne ==
  ASSUME NEW t \in Tokens
  PROVE  ReferralsSpec /\ []Unshared(t) =>
           [](\A u, v \in Users : ent[u].token = t /\ ent[v].token = t => u = v)
<1> DEFINE One == \A u, v \in Users : ent[u].token = t /\ ent[v].token = t => u = v
<1>1. ReferralsInit => HeldOnce(t)
  BY IdleTyped, BillingAssumption DEF ReferralsInit, BillingInit, NoRow, HeldOnce
<1>2. AccountsInv /\ HeldOnce(t) /\ Unshared(t) /\ Unshared(t)' /\ [ReferralsNext]_accountVars => HeldOnce(t)'
  <2>1. ASSUME HeldOnce(t), UNCHANGED accountVars PROVE HeldOnce(t)'
    BY <2>1 DEF accountVars, billingVars, HeldOnce
  <2> QED BY <2>1, HeldOnceNext DEF AccountsInv
<1>3. HeldOnce(t) => One
  BY DEF HeldOnce
<1> HIDE DEF One
<1>4. ReferralsSpec /\ []Unshared(t) => []One
  BY <1>1, <1>2, <1>3, AccountsInvInit, AccountsInvNext, PTL DEF ReferralsSpec
<1> QED BY <1>4 DEF One

\* What is remembered of an account whose row is never written between the
\* statement of a load that reads it and the moment the load keeps its result is
\* the row, but for the moment between a write and its invalidation; whatever
\* happens to other accounts (plans/service.ts).
THEOREM CacheIsTheRow ==
  ASSUME NEW u \in Users
  PROVE  ReferralsSpec /\ [][LoadsUndisturbed(u)]_accountVars =>
           [](~Forgetting(u) /\ cache[u] # None => cache[u].stamp = ent[u].stamp)
<1> DEFINE Same == ~Forgetting(u) /\ cache[u] # None => cache[u].stamp = ent[u].stamp
<1>1. ReferralsInit => CachedNow(u)
  BY IdleTyped DEF ReferralsInit, BillingInit, CachedNow, LoadsNow, CacheNow, Reads
<1>2. AccountsInv /\ CachedNow(u) /\ [LoadsUndisturbed(u)]_accountVars /\ [ReferralsNext]_accountVars
        => CachedNow(u)'
  <2>1. ASSUME CachedNow(u), UNCHANGED accountVars PROVE CachedNow(u)'
    BY <2>1 DEF accountVars, billingVars, CachedNow, LoadsNow, CacheNow, Forgetting, Reads
  <2> QED BY <2>1, CachedNowNext DEF AccountsInv
<1>3. CachedNow(u) => Same
  BY DEF CachedNow, CacheNow
<1> HIDE DEF Same
<1>4. ReferralsSpec /\ [][LoadsUndisturbed(u)]_accountVars => []Same
  BY <1>1, <1>2, <1>3, AccountsInvInit, AccountsInvNext, PTL DEF ReferralsSpec
<1> QED BY <1>4 DEF Same
=============================================================================
