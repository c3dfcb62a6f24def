--------------------------- MODULE SyncPullProofs ---------------------------
(* For any tables, rows and page size: when a write shares its millisecond  *)
(* with no other row of its table and with no bound of a pull (WritesApart),*)
(* the cursor passes no row the device has not seen, and a device keeps no  *)
(* row that is gone unless it is told to start again, or the row was        *)
(* written under a tombstone.                                               *)
EXTENDS SyncPull, FiniteSetTheorems, WellFoundedInduction, TLAPS

\* No row is newer than now, and no two rows of a table carry the same time.
Stamped ==
  /\ \A i \in Ids : rows[i].at <= now
  /\ \A i \in Ids : Exists(i) => rows[i].ver # 0 /\ rows[i].dead \in {0, rows[i].at}
  /\ \A i, j \in Ids : Exists(i) /\ Home[i] = Home[j] /\ rows[i].at = rows[j].at => i = j

\* A child of a tombstone is one itself, a millisecond younger at most, unless
\* it was written since.
Family ==
  \A c \in Ids : Parent[c] # 0 /\ Dead(Parent[c]) /\ Exists(c) /\ c \notin late
    => rows[c].dead # 0 /\ rows[c].at <= rows[Parent[c]].at + 1

LiveCopy(c) == c.ver # 0 /\ ~c.dead

\* A device without a cursor holds nothing; a request that was let in has the
\* device's cursor, and found nothing held that was purged.
Asked ==
  /\ device.cursor <= now
  /\ device.cursor = 0 => \A i \in Ids : device.held[i] = NoCopy
  /\ pull.pc # "idle" => /\ pull.cursor = device.cursor
                         /\ \A i \in Ids : LiveCopy(device.held[i]) => Exists(i) \/ i \in late

Reads == pull.pc \in {"page", "answer"}

\* How far a request has come.
Paged ==
  /\ ~Reads => pull.table = 1 /\ pull.top = 0 /\ pull.floor = 0 /\ \A i \in Ids : pull.got[i] = NoCopy
  /\ Reads => /\ 0 < pull.upper /\ pull.upper <= now /\ pull.cursor <= pull.upper /\ pull.top <= pull.upper
              /\ pull.floor = 0 \/ (pull.cursor < pull.floor /\ pull.floor <= pull.upper)
  /\ pull.pc = "page" => pull.table \in 1..Tables
  /\ pull.pc = "answer" => pull.table = Tables + 1

\* What was read is what is there, unless it changed since.
Got ==
  \A i \in Ids : Reads /\ pull.got[i] # NoCopy =>
    /\ Exists(i) => /\ rows[i].at > pull.cursor
                    /\ rows[i].at <= pull.upper => pull.got[i] = Current(i)
    /\ ~Exists(i) /\ LiveCopy(pull.got[i]) => pull.upper < now - Retention \/ i \in late

\* Nothing up to the first cut was left out.
Seen ==
  \A i \in Ids : /\ Reads /\ Home[i] < pull.table /\ pull.cursor < rows[i].at /\ rows[i].at <= pull.upper
                 /\ pull.floor = 0 \/ rows[i].at <= pull.floor
                 => pull.got[i] = Current(i)

\* The rows, the device and its request; and the rest of the variables.
Typed == /\ now \in Nat \ {0} /\ rows \in [Ids -> Row] /\ late \subseteq Ids
         /\ device \in [cursor : Nat, held : [Ids -> Copy]] /\ pull \in Pull
Minor == /\ marker \in Nat /\ known \subseteq Nat /\ Cardinality(known) <= 1
         /\ due \in Nat /\ queued \in Nat /\ missed \in BOOLEAN /\ breaks \in Nat

Core    == Typed /\ Stamped /\ Family /\ Asked /\ Paged /\ Got /\ Seen /\ NothingSkipped /\ NoGhosts
PullInv == Minor /\ Core

----------------------------------------------------------------------------
(* Numbers.                                                                 *)

LEMMA Least ==
  ASSUME NEW S \in SUBSET Nat, S # {}
  PROVE  \E x \in S : \A y \in S : x <= y
<1> DEFINE R == OpToRel(<, Nat)
<1>1. IsWellFoundedOn(R, Nat)
  BY NatLessThanWellFounded
<1> HIDE DEF R
<1>2. PICK x \in S : \A y \in S : ~(<<y, x>> \in R)
  BY <1>1, WFMin
<1>3. ASSUME NEW y \in S PROVE x <= y
  <2>0. x \in Nat /\ y \in Nat
    OBVIOUS
  <2>1. y < x => <<y, x>> \in R
    BY <2>0 DEF R, OpToRel
  <2> QED BY <1>2, <2>0, <2>1
<1> QED BY <1>3

LEMMA Greatest ==
  ASSUME NEW S \in SUBSET Nat, S # {}, NEW n \in Nat, \A x \in S : x <= n
  PROVE  Max(S) \in S /\ \A x \in S : x <= Max(S)
<1> DEFINE U == {u \in Nat : \A x \in S : x <= u}
<1>1. n \in U
  OBVIOUS
<1>2. PICK m \in U : \A u \in U : m <= u
  BY <1>1, Least
<1>3. m \in S
  <2> SUFFICES ASSUME m \notin S PROVE FALSE
    OBVIOUS
  <2>1. PICK x \in S : TRUE
    OBVIOUS
  <2>2. \A y \in S : y \in Nat /\ y < m
    BY <1>2
  <2>3. m - 1 \in U
    BY <1>2, <2>1, <2>2
  <2> QED BY <1>2, <2>3
<1>4. m \in S /\ \A y \in S : m >= y
  BY <1>2, <1>3
<1>5. Max(S) \in S /\ \A y \in S : Max(S) >= y
  BY <1>4 DEF Max
<1>6. \A y \in S : y \in Nat
  OBVIOUS
<1> QED BY <1>5, <1>6

----------------------------------------------------------------------------
(* Copies.                                                                  *)

LEMMA CopyIs ==
  ASSUME rows \in [Ids -> Row], NEW i \in Ids
  PROVE  /\ Current(i) \in Copy /\ Current(i).ver = rows[i].ver /\ (Current(i).dead <=> rows[i].dead # 0)
         /\ NoCopy \in Copy /\ NoCopy.ver = 0
<1> DEFINE d == rows[i].dead # 0
           no == FALSE
<1>1. d \in BOOLEAN /\ no \in BOOLEAN /\ rows[i].ver \in Nat
  BY DEF Row
<1>2. Current(i) = [ver |-> rows[i].ver, dead |-> d] /\ NoCopy = [ver |-> 0, dead |-> no]
  BY DEF Current, NoCopy
<1> HIDE DEF d, no
<1>3. /\ Current(i) \in Copy /\ Current(i).ver = rows[i].ver /\ Current(i).dead = d
      /\ NoCopy \in Copy /\ NoCopy.ver = 0
  BY <1>1, <1>2 DEF Copy
<1> QED BY <1>3 DEF d

\* A row that stays as it is.
LEMMA Same ==
  ASSUME NEW i \in Ids, rows'[i] = rows[i]
  PROVE  Current(i)' = Current(i) /\ (Exists(i)' <=> Exists(i))
BY DEF Current, Exists

\* Nobody but the clock moves.
LEMMA Passing ==
  ASSUME Core, now' \in {now, now + 1}, UNCHANGED <<rows, late, device, pull>>
  PROVE  Core'
<1>t. /\ now \in Nat /\ now' \in Nat \ {0} /\ now <= now' /\ Retention \in Nat
      /\ rows \in [Ids -> Row] /\ pull.upper \in Nat /\ device.cursor \in Nat
  BY PullConstants DEF Core, Typed, Pull
<1>1. Typed'
  BY <1>t DEF Core, Typed
<1>2. Stamped' /\ Family'
  BY <1>t DEF Core, Stamped, Family, Exists, Dead, Row
<1>3. Asked'
  BY <1>t DEF Core, Asked, Exists, LiveCopy
<1>4. Paged'
  BY <1>t DEF Core, Paged, Reads
<1>5. Got'
  BY <1>t, Same DEF Core, Got, Reads, LiveCopy
<1>6. Seen'
  BY <1>t, Same DEF Core, Seen, Reads
<1>7. NothingSkipped'
  BY <1>t, Same DEF Core, NothingSkipped
<1>8. NoGhosts'
  BY <1>t, Same DEF Core, NoGhosts
<1> QED BY <1>1, <1>2, <1>3, <1>4, <1>5, <1>6, <1>7, <1>8 DEF Core

LEMMA Blank == NoCopy \in Copy
<1> DEFINE no == FALSE
<1>1. no \in BOOLEAN /\ NoCopy = [ver |-> 0, dead |-> no]
  BY DEF NoCopy
<1> HIDE DEF no
<1> QED BY <1>1 DEF Copy

\* The request is over, or is not one yet.
LEMMA NoRequest ==
  /\ NoPull \in Pull /\ NoPull.pc = "idle" /\ NoPull.table = 1 /\ NoPull.top = 0 /\ NoPull.floor = 0
  /\ NoPull.upper = 0 /\ \A i \in Ids : NoPull.got[i] = NoCopy
  /\ \A pc \in {"marker", "upper"} :
       /\ Request(pc) = [NoPull EXCEPT !.pc = pc, !.cursor = device.cursor]
       /\ device.cursor \in Nat => Request(pc) \in Pull
       /\ Request(pc).pc = pc /\ Request(pc).cursor = device.cursor
       /\ Request(pc).table = 1 /\ Request(pc).top = 0 /\ Request(pc).floor = 0
       /\ \A i \in Ids : Request(pc).got[i] = NoCopy
<1> DEFINE no == FALSE
           none == [i \in Ids |-> NoCopy]
<1>1. NoCopy \in Copy
  BY Blank
<1>2. /\ none \in [Ids -> Copy] /\ no \in BOOLEAN /\ \A i \in Ids : none[i] = NoCopy
      /\ 1 \in 1..(Tables + 1)
  BY <1>1, PullConstants
<1>3. NoPull = [pc |-> "idle", cursor |-> 0, upper |-> 0, table |-> 1, got |-> none,
                top |-> 0, floor |-> 0, more |-> no]
  BY DEF NoPull
<1> HIDE DEF none, no
<1>4. /\ NoPull \in Pull /\ NoPull.pc = "idle" /\ NoPull.table = 1 /\ NoPull.top = 0 /\ NoPull.floor = 0
      /\ NoPull.upper = 0 /\ NoPull.got = none
  BY <1>2, <1>3 DEF Pull
<1>5. ASSUME NEW pc \in {"marker", "upper"}
      PROVE  /\ Request(pc) = [NoPull EXCEPT !.pc = pc, !.cursor = device.cursor]
             /\ device.cursor \in Nat => Request(pc) \in Pull
             /\ Request(pc).pc = pc /\ Request(pc).cursor = device.cursor
             /\ Request(pc).table = 1 /\ Request(pc).top = 0 /\ Request(pc).floor = 0
             /\ Request(pc).got = none
  <2>1. Request(pc) = [NoPull EXCEPT !.pc = pc, !.cursor = device.cursor]
    BY DEF Request
  <2>2. /\ Request(pc).pc = pc /\ Request(pc).cursor = device.cursor
        /\ Request(pc).table = 1 /\ Request(pc).top = 0 /\ Request(pc).floor = 0
        /\ Request(pc).got = none
    BY <1>4, <2>1 DEF Pull
  <2>3. device.cursor \in Nat => Request(pc) \in Pull
    BY <1>4, <2>1 DEF Pull
  <2> QED BY <2>1, <2>2, <2>3
<1> QED BY <1>2, <1>4, <1>5

----------------------------------------------------------------------------
(* The request, up to its first page.                                       *)

LEMMA Began ==
  ASSUME Core, UNCHANGED <<now, rows, late, device>>, pull' \in Pull, pull'.pc \in {"idle", "marker", "upper"},
         pull'.table = 1, pull'.top = 0, pull'.floor = 0, \A i \in Ids : pull'.got[i] = NoCopy,
         pull'.pc # "idle" => /\ pull'.cursor = device.cursor
                              /\ \A i \in Ids : LiveCopy(device.held[i]) => Exists(i) \/ i \in late
  PROVE  Core'
<1>0. ~Reads'
  BY DEF Reads
<1>1. Typed'
  BY DEF Core, Typed
<1>2. Stamped' /\ Family'
  BY DEF Core, Stamped, Family, Exists, Dead
<1>3. Asked'
  BY DEF Core, Asked, Exists, LiveCopy
<1>4. Paged'
  BY <1>0 DEF Paged
<1>5. Got' /\ Seen'
  BY <1>0 DEF Got, Seen
<1>6. NothingSkipped'
  BY Same DEF Core, NothingSkipped
<1>7. NoGhosts'
  BY Same DEF Core, NoGhosts
<1> QED BY <1>1, <1>2, <1>3, <1>4, <1>5, <1>6, <1>7 DEF Core

LEMMA Dropped ==
  ASSUME Core, UNCHANGED <<now, rows, late, device>>, pull' = NoPull
  PROVE  Core'
BY NoRequest, Began

\* A cursor that is let in: whatever it holds is in the tables.
LEMMA AskStep ==
  ASSUME Core, Ask
  PROVE  Core'
<1>1. pull.pc = "idle" /\ ~TooOld(device.cursor) /\ UNCHANGED <<now, rows, late, device>>
  BY DEF Ask
<1>2. pull' = pull \/ \E pc \in {"marker", "upper"} : pull' = Request(pc)
  BY DEF Ask
<1>3. CASE pull' = pull
  BY <1>1, <1>3, Passing
<1>4. ASSUME NEW pc \in {"marker", "upper"}, pull' = Request(pc)
      PROVE  Core'
  <2>1. device.cursor \in Nat
    BY DEF Core, Typed
  <2>2. ASSUME NEW i \in Ids, LiveCopy(device.held[i])
        PROVE  Exists(i) \/ i \in late
    <3>1. device.cursor # 0
      BY <2>2, CopyIs DEF Core, Typed, Asked, LiveCopy
    <3>2. ~(device.cursor < now - Retention)
      BY <1>1, <3>1 DEF TooOld
    <3> QED BY <2>2, <3>2 DEF Core, NoGhosts, LiveCopy
  <2>3. /\ pull' \in Pull /\ pull'.pc = pc /\ pull'.cursor = device.cursor
        /\ pull'.table = 1 /\ pull'.top = 0 /\ pull'.floor = 0 /\ \A i \in Ids : pull'.got[i] = NoCopy
    BY <1>4, <2>1, NoRequest
  <2> QED BY <1>1, <2>2, <2>3, Began
<1> QED BY <1>2, <1>3, <1>4

LEMMA RefusedStep ==
  ASSUME Core, Refused
  PROVE  Core'
<1> DEFINE none == [i \in Ids |-> NoCopy]
<1>1. /\ pull.pc = "idle" /\ UNCHANGED <<now, rows, late, pull>>
      /\ device' = [cursor |-> 0, held |-> none]
  BY DEF Refused
<1>2. /\ none \in [Ids -> Copy] /\ \A i \in Ids : none[i] = NoCopy
      /\ \A i \in Ids : ~LiveCopy(NoCopy)
  <2>1. \A i \in Ids : NoCopy \in Copy /\ NoCopy.ver = 0
    BY CopyIs DEF Core, Typed
  <2> QED BY <2>1 DEF LiveCopy
<1> HIDE DEF none
<1>3. device' \in [cursor : Nat, held : [Ids -> Copy]] /\ device'.cursor = 0 /\ device'.held = none
  BY <1>1, <1>2
<1>4. Typed' /\ Stamped' /\ Family'
  BY <1>1, <1>3 DEF Core, Typed, Stamped, Family, Exists, Dead
<1>5. Asked'
  BY <1>1, <1>2, <1>3 DEF Asked, Core, Typed
<1>6. Paged' /\ Got' /\ Seen'
  BY <1>1 DEF Core, Paged, Got, Seen, Reads
<1>7. NothingSkipped'
  BY <1>1, <1>3 DEF NothingSkipped, Exists, Core, Typed, Row
<1>8. NoGhosts'
  BY <1>2, <1>3 DEF NoGhosts, LiveCopy
<1> QED BY <1>4, <1>5, <1>6, <1>7, <1>8 DEF Core

LEMMA ReadMarkerStep ==
  ASSUME Core, ReadMarker
  PROVE  Core'
<1>1. pull.pc = "marker" /\ UNCHANGED <<now, rows, late, device>> /\ pull' \in {NoPull, [pull EXCEPT !.pc = "upper"]}
  BY DEF ReadMarker
<1>2. CASE pull' = NoPull
  BY <1>1, <1>2, Dropped
<1>3. CASE pull' = [pull EXCEPT !.pc = "upper"]
  <2>1. pull \in Pull
    BY DEF Core, Typed
  <2>2. /\ pull' \in Pull /\ pull'.pc = "upper" /\ pull'.cursor = pull.cursor /\ pull'.table = pull.table
        /\ pull'.top = pull.top /\ pull'.floor = pull.floor /\ pull'.got = pull.got
    BY <1>3, <2>1 DEF Pull
  <2>3. /\ pull.cursor = device.cursor /\ \A i \in Ids : LiveCopy(device.held[i]) => Exists(i) \/ i \in late
        /\ pull.table = 1 /\ pull.top = 0 /\ pull.floor = 0 /\ \A i \in Ids : pull.got[i] = NoCopy
    BY <1>1 DEF Core, Asked, Paged, Reads
  <2> QED BY <1>1, <2>2, <2>3, Began
<1> QED BY <1>1, <1>2, <1>3

LEMMA ReadUpperStep ==
  ASSUME Core, ReadUpper
  PROVE  Core'
<1>1. pull.pc = "upper" /\ UNCHANGED <<now, rows, late, device>> /\ pull' = [pull EXCEPT !.pc = "page", !.upper = now]
  BY DEF ReadUpper
<1>2. pull \in Pull /\ now \in Nat \ {0} /\ device.cursor \in Nat
  BY DEF Core, Typed
<1>3. /\ pull' \in Pull /\ pull'.pc = "page" /\ pull'.cursor = pull.cursor /\ pull'.table = pull.table
      /\ pull'.top = pull.top /\ pull'.floor = pull.floor /\ pull'.got = pull.got /\ pull'.upper = now
  BY <1>1, <1>2 DEF Pull
<1>4. /\ pull.cursor = device.cursor /\ \A i \in Ids : LiveCopy(device.held[i]) => Exists(i) \/ i \in late
      /\ pull.table = 1 /\ pull.top = 0 /\ pull.floor = 0 /\ \A i \in Ids : pull.got[i] = NoCopy
      /\ device.cursor <= now
  BY <1>1 DEF Core, Asked, Paged, Reads
<1>5. Typed' /\ Stamped' /\ Family'
  BY <1>1, <1>3 DEF Core, Typed, Stamped, Family, Exists, Dead
<1>6. Asked'
  BY <1>1, <1>3, <1>4 DEF Core, Asked, Exists, LiveCopy
<1>7. Paged'
  <2>1. 1 \in 1..Tables
    BY PullConstants
  <2> QED BY <1>1, <1>2, <1>3, <1>4, <2>1 DEF Paged, Reads
<1>8. Got'
  BY <1>3, <1>4 DEF Got
<1>9. Seen'
  <2>1. \A i \in Ids : ~(Home[i] < 1)
    BY PullConstants
  <2> QED BY <1>3, <1>4, <2>1 DEF Seen
<1>10. NothingSkipped'
  BY <1>1, Same DEF Core, NothingSkipped
<1>11. NoGhosts'
  BY <1>1, Same DEF Core, NoGhosts
<1> QED BY <1>5, <1>6, <1>7, <1>8, <1>9, <1>10, <1>11 DEF Core

----------------------------------------------------------------------------
(* The rows.                                                                *)

\* Rows are stamped after every bound: they are behind no cursor and in no page.
LEMMA Restamped ==
  ASSUME Core, NEW S \in SUBSET Ids, rows' \in [Ids -> Row], \A j \in Ids \ S : rows'[j] = rows[j],
         now' \in {now, now + 1}, UNCHANGED <<device, pull>>, Family',
         \A i \in S : /\ rows'[i].at # 0 /\ rows'[i].at <= now' /\ rows'[i].ver # 0
                      /\ rows'[i].dead \in {0, rows'[i].at}
                      /\ pull.upper < rows'[i].at /\ device.cursor < rows'[i].at
                      /\ \A j \in Ids \ {i} : Home[j] = Home[i] => rows'[j].at # rows'[i].at,
         late' \subseteq Ids, \A j \in Ids \ S : ~Exists(j) /\ j \in late => j \in late'
  PROVE  Core'
<1>t. /\ now \in Nat \ {0} /\ Retention \in Nat /\ rows \in [Ids -> Row] /\ pull \in Pull
      /\ device.cursor \in Nat /\ pull.upper \in Nat /\ pull.cursor \in Nat
  BY PullConstants DEF Core, Typed, Pull
<1>r. \A j \in Ids : rows[j].at \in Nat /\ rows'[j].at \in Nat
  BY <1>t DEF Row
<1>n. now' \in Nat \ {0} /\ now' >= now
  BY <1>t
<1>i. \A i \in S : Exists(i)'
  BY DEF Exists
<1>s. \A j \in Ids \ S : Current(j)' = Current(j) /\ (Exists(j)' <=> Exists(j))
  BY Same
<1>1. Typed'
  BY <1>n DEF Core, Typed
<1>2. Stamped'
  <2>1. ASSUME NEW j \in Ids PROVE rows'[j].at <= now'
    <3>1. rows[j].at <= now
      BY DEF Core, Stamped
    <3> QED BY <1>t, <1>r, <1>n, <3>1
  <2>2. \A j \in Ids : Exists(j)' => rows'[j].ver # 0 /\ rows'[j].dead \in {0, rows'[j].at}
    BY <1>s DEF Core, Stamped
  <2>3. ASSUME NEW j \in Ids, NEW k \in Ids, Exists(j)', Home[j] = Home[k], rows'[j].at = rows'[k].at
        PROVE  j = k
    <3>1. CASE j \in S \/ k \in S
      BY <2>3, <3>1
    <3>2. CASE j \notin S /\ k \notin S
      BY <1>s, <2>3, <3>2 DEF Core, Stamped
    <3> QED BY <3>1, <3>2
  <2> QED BY <2>1, <2>2, <2>3 DEF Stamped
<1>3. Asked'
  <2>1. device'.cursor <= now'
    BY <1>t, <1>n DEF Core, Asked
  <2>2. ASSUME NEW j \in Ids, pull.pc # "idle", LiveCopy(device.held[j])
        PROVE  Exists(j)' \/ j \in late'
    BY <1>i, <1>s, <2>2 DEF Core, Asked
  <2> QED BY <2>1, <2>2 DEF Core, Asked, LiveCopy
<1>4. Paged'
  BY <1>t, <1>n DEF Core, Paged, Reads
<1>5. Got'
  <2> SUFFICES ASSUME NEW j \in Ids, Reads, pull.got[j] # NoCopy
               PROVE  /\ Exists(j)' => /\ rows'[j].at > pull.cursor
                                       /\ rows'[j].at <= pull.upper => pull.got[j] = Current(j)'
                      /\ ~Exists(j)' /\ LiveCopy(pull.got[j]) => pull.upper < now' - Retention \/ j \in late'
    BY DEF Got, Reads, LiveCopy
  <2>0. pull.cursor <= pull.upper
    BY <1>t DEF Core, Paged
  <2>1. CASE j \in S
    BY <1>t, <1>r, <1>i, <2>0, <2>1
  <2>2. CASE j \notin S
    <3>1. rows'[j] = rows[j] /\ Current(j)' = Current(j) /\ (Exists(j)' <=> Exists(j))
      BY <1>s, <2>2
    <3>2. /\ Exists(j) => /\ rows[j].at > pull.cursor
                          /\ rows[j].at <= pull.upper => pull.got[j] = Current(j)
          /\ ~Exists(j) /\ LiveCopy(pull.got[j]) => pull.upper < now - Retention \/ j \in late
      BY DEF Core, Got
    <3> QED BY <1>t, <1>n, <2>2, <3>1, <3>2
  <2> QED BY <2>1, <2>2
<1>6. Seen'
  <2> SUFFICES ASSUME NEW j \in Ids, Reads, Home[j] < pull.table, pull.cursor < rows'[j].at, rows'[j].at <= pull.upper,
                      pull.floor = 0 \/ rows'[j].at <= pull.floor
               PROVE  pull.got[j] = Current(j)'
    BY DEF Seen, Reads
  <2>1. j \notin S
    BY <1>t, <1>r
  <2> QED BY <1>s, <2>1 DEF Core, Seen
<1>7. NothingSkipped'
  <2> SUFFICES ASSUME NEW j \in Ids, Exists(j)', rows'[j].at <= device.cursor
               PROVE  device.held[j] = Current(j)'
    BY DEF NothingSkipped
  <2>1. j \notin S
    BY <1>t, <1>r
  <2> QED BY <1>s, <2>1 DEF Core, NothingSkipped
<1>8. NoGhosts'
  <2> SUFFICES ASSUME NEW j \in Ids, device.held[j].ver # 0, ~device.held[j].dead, ~Exists(j)'
               PROVE  device.cursor < now' - Retention \/ j \in late'
    BY DEF NoGhosts
  <2>1. j \notin S /\ ~Exists(j)
    BY <1>i, <1>s
  <2>2. device.cursor < now - Retention \/ j \in late
    BY <2>1 DEF Core, NoGhosts
  <2> QED BY <1>t, <1>n, <2>1, <2>2
<1> QED BY <1>1, <1>2, <1>3, <1>4, <1>5, <1>6, <1>7, <1>8 DEF Core

\* A write puts a row under a live parent, or notes it.
LEMMA WriteStep ==
  ASSUME WritesApart, Core, NEW i \in Ids, Write(i)
  PROVE  Core'
<1>1. PICK t \in Stamps :
        /\ now' = t /\ UNCHANGED <<device, pull>> /\ late' = Noted(i)
        /\ rows' = [rows EXCEPT ![i] = [ver |-> rows[i].ver + 1, at |-> t, dead |-> 0]]
  BY DEF Write
<1> DEFINE r == [ver |-> rows[i].ver + 1, at |-> t, dead |-> 0]
<1>t. now \in Nat \ {0} /\ rows \in [Ids -> Row] /\ late \subseteq Ids
  BY DEF Core, Typed
<1>2. t \in {now, now + 1} /\ t \in Nat \ {0} /\ rows[i].ver \in Nat
  BY <1>t DEF Stamps, Row
<1>3. r \in Row /\ r.at = t /\ r.ver = rows[i].ver + 1 /\ r.ver # rows[i].ver /\ r.ver # 0 /\ r.dead = 0
  BY <1>2 DEF Row
<1>4. rows' = [rows EXCEPT ![i] = r]
  BY <1>1
<1> HIDE DEF r
<1>5. rows' \in [Ids -> Row] /\ rows'[i] = r /\ \A j \in Ids \ {i} : rows'[j] = rows[j]
  BY <1>t, <1>3, <1>4
<1>6. late' \subseteq Ids /\ (\A j \in Ids \ {i} : j \in late <=> j \in late') /\ (i \notin late' => ~Orphaned(i))
  BY <1>1, <1>t DEF Noted
<1>7. ~Dead(i)'
  BY <1>3, <1>5 DEF Dead
<1>8. \A j \in Ids \ {i} : (Dead(j)' <=> Dead(j)) /\ (Exists(j)' <=> Exists(j))
  BY <1>5 DEF Dead, Exists
<1>9. Family'
  <2> SUFFICES ASSUME NEW c \in Ids, Parent[c] # 0, Dead(Parent[c])', Exists(c)', c \notin late'
               PROVE  rows'[c].dead # 0 /\ rows'[c].at <= rows'[Parent[c]].at + 1
    BY DEF Family
  <2>1. Parent[c] \in Ids \ {i}
    BY <1>7, PullConstants
  <2>2. c # i
    BY <1>6, <1>8, <2>1 DEF Orphaned
  <2> QED BY <1>5, <1>6, <1>8, <2>1, <2>2 DEF Core, Family
<1>10. /\ rows'[i].at # 0 /\ rows'[i].at <= now' /\ rows'[i].ver # 0 /\ rows'[i].dead \in {0, rows'[i].at}
       /\ pull.upper < rows'[i].at /\ device.cursor < rows'[i].at
       /\ \A j \in Ids \ {i} : Home[j] = Home[i] => rows'[j].at # rows'[i].at
  BY <1>1, <1>2, <1>3, <1>5 DEF WritesApart
<1> DEFINE S == {i}
<1>11. S \in SUBSET Ids /\ \A j \in S : j = i
  OBVIOUS
<1>12. \A j \in Ids \ S : j # i
  OBVIOUS
<1> HIDE DEF S
<1> QED BY <1>1, <1>2, <1>5, <1>6, <1>9, <1>10, <1>11, <1>12, Restamped

\* A delete leaves its children dead with it.
LEMMA DeleteStep ==
  ASSUME WritesApart, Core, NEW i \in Ids, Delete(i)
  PROVE  Core'
<1> DEFINE S == {i} \cup Brood(i)
<1>1. PICK t \in Stamps, u \in Stamps :
        /\ t <= u /\ (Brood(i) = {} => u = t) /\ now' = u
        /\ rows' = [c \in Ids |-> IF c = i THEN Tombstone(c, t)
                                  ELSE IF c \in Brood(i) THEN Tombstone(c, u) ELSE rows[c]]
  BY DEF Delete
<1>2. Live(i) /\ late' = Noted(i) \ Children(i) /\ UNCHANGED <<device, pull>>
  BY DEF Delete
<1>t. /\ now \in Nat \ {0} /\ rows \in [Ids -> Row] /\ late \subseteq Ids
      /\ \A c \in Ids : rows[c].at \in Nat /\ rows[c].ver \in Nat
  BY DEF Core, Typed, Row
<1>3. /\ t \in {now, now + 1} /\ u \in {now, now + 1} /\ t \in Nat \ {0} /\ u \in Nat \ {0}
      /\ u <= t + 1
  BY <1>1, <1>t DEF Stamps
<1>4. ASSUME NEW c \in Ids, NEW m \in {t, u}
      PROVE  /\ Tombstone(c, m) \in Row /\ Tombstone(c, m).at = m /\ Tombstone(c, m).dead = m
             /\ Tombstone(c, m).ver = rows[c].ver + 1 /\ Tombstone(c, m).ver # rows[c].ver
             /\ Tombstone(c, m).ver # 0
  <2>1. m \in Nat /\ rows[c].ver + 1 \in Nat /\ rows[c].ver + 1 # 0 /\ rows[c].ver + 1 # rows[c].ver
    BY <1>3, <1>t
  <2> QED BY <2>1 DEF Tombstone, Row
<1>5. /\ rows' \in [Ids -> Row] /\ rows'[i] = Tombstone(i, t)
      /\ \A c \in Brood(i) \ {i} : rows'[c] = Tombstone(c, u)
      /\ \A c \in Ids \ S : rows'[c] = rows[c]
  BY <1>1, <1>4, <1>t DEF Brood, Children
<1>6. S \in SUBSET Ids
  BY DEF Brood, Children
<1>7. \A c \in S : \E m \in {t, u} : rows'[c] = Tombstone(c, m)
  BY <1>5
<1>8. /\ late' \subseteq Ids /\ \A j \in Ids \ S : ~Exists(j) /\ j \in late => j \in late'
      /\ i \notin late' => ~Orphaned(i) \/ i \in Children(i)
  BY <1>2, <1>t DEF Noted, Children
<1>9. Parent[i] # i
  BY PullConstants
<1>10. \A c \in Children(i) \ S : rows[c].dead # 0
  BY DEF Children, Brood, Live
<1>11. Family'
  <2> SUFFICES ASSUME NEW c \in Ids, Parent[c] # 0, Dead(Parent[c])', Exists(c)', c \notin late'
               PROVE  rows'[c].dead # 0 /\ rows'[c].at <= rows'[Parent[c]].at + 1
    BY DEF Family
  <2>1. Parent[c] \in Ids /\ Parent[Parent[c]] = 0
    BY PullConstants
  <2>2. CASE Parent[c] = i
    <3>0. c # i /\ rows'[i].at = t
      BY <1>4, <1>5, <1>9, <2>2
    <3>1. CASE c \in Brood(i)
      <4>1. rows'[c].dead = u /\ rows'[c].at = u
        BY <1>4, <1>5, <3>0, <3>1
      <4> QED BY <1>3, <2>2, <3>0, <4>1
    <3>2. CASE c \notin Brood(i)
      <4>1. c \notin S /\ rows'[c] = rows[c]
        BY <1>5, <3>0, <3>2
      <4>2. Exists(c)
        BY <4>1 DEF Exists
      <4>3. rows[c].dead # 0
        BY <1>10, <2>2, <4>1, <4>2 DEF Children
      <4>4. rows[c].at <= now
        BY DEF Core, Stamped
      <4> QED BY <1>3, <1>t, <2>2, <3>0, <4>1, <4>3, <4>4
    <3> QED BY <3>1, <3>2
  <2>3. CASE Parent[c] # i
    <3>1. c \notin Children(i) /\ Parent[c] \notin Children(i)
      BY <2>1, <2>3, PullConstants DEF Children
    <3>2. Parent[c] \notin S /\ (c \notin S \/ c = i)
      BY <2>3, <3>1 DEF Brood
    <3>3. rows'[Parent[c]] = rows[Parent[c]] /\ Dead(Parent[c])
      BY <1>5, <2>1, <3>2 DEF Dead, Exists
    <3>4. c # i
      <4>1. ASSUME c = i PROVE FALSE
        BY <1>8, <3>1, <3>3, <4>1 DEF Orphaned
      <4> QED BY <4>1
    <3>5. rows'[c] = rows[c] /\ Exists(c) /\ c \notin late
      BY <1>2, <1>5, <3>1, <3>2, <3>4 DEF Exists, Noted
    <3> QED BY <3>3, <3>5 DEF Core, Family
  <2> QED BY <2>2, <2>3
<1> HIDE DEF S
<1>12. ASSUME NEW c \in S
       PROVE  /\ rows'[c].at # 0 /\ rows'[c].at <= now' /\ rows'[c].ver # 0
              /\ rows'[c].dead \in {0, rows'[c].at}
              /\ pull.upper < rows'[c].at /\ device.cursor < rows'[c].at
              /\ \A j \in Ids \ {c} : Home[j] = Home[c] => rows'[j].at # rows'[c].at
  <2>1. PICK m \in {t, u} : rows'[c] = Tombstone(c, m)
    BY <1>7
  <2>2. c \in Ids /\ rows'[c].ver # rows[c].ver
    BY <1>4, <1>6, <2>1
  <2>3. rows'[c].at = m /\ rows'[c].dead = m /\ rows'[c].ver # 0 /\ m # 0 /\ m <= u
    BY <1>1, <1>3, <1>4, <2>1, <2>2
  <2> QED BY <1>1, <2>2, <2>3 DEF WritesApart
<1>13. now' \in {now, now + 1}
  BY <1>1, <1>3
<1> QED BY <1>2, <1>5, <1>6, <1>8, <1>11, <1>12, <1>13, Restamped

\* A tombstone goes, and its children, which are tombstones of its age: whoever is
\* still to be told of them is refused, or is in the middle of a first pull that will be.
LEMMA PurgeStep ==
  ASSUME Core, NEW i \in Ids, Purge(i)
  PROVE  Core'
<1> DEFINE G == {c \in Ids : c = i \/ Parent[c] = i}
<1>g. /\ Dead(i) /\ rows[i].dead < now - Retention
      /\ pull.pc = "idle" \/ pull.cursor = 0 \/ pull.cursor >= now - Retention
      /\ rows' = [c \in Ids |-> IF c \in G THEN [rows[c] EXCEPT !.at = 0] ELSE rows[c]]
      /\ late' = late \ {i} /\ UNCHANGED <<now, device, pull>>
  BY DEF Purge
<1>t. /\ now \in Nat \ {0} /\ Retention \in Nat /\ rows \in [Ids -> Row] /\ pull \in Pull
      /\ device.cursor \in Nat /\ pull.upper \in Nat /\ pull.cursor \in Nat /\ late \subseteq Ids
      /\ \A j \in Ids : rows[j] \in Row /\ rows[j].at \in Nat
  BY PullConstants DEF Core, Typed, Pull, Row
<1>r. /\ rows' \in [Ids -> Row] /\ \A j \in Ids \ G : rows'[j] = rows[j]
      /\ \A j \in G : rows'[j].at = 0 /\ ~Exists(j)'
  <2>1. ASSUME NEW j \in Ids
        PROVE  LET r == [rows[j] EXCEPT !.at = 0] IN r \in Row /\ r.at = 0
    BY <1>t DEF Row
  <2> QED BY <1>g, <1>t, <2>1 DEF Exists
<1>s. \A j \in Ids \ G : Current(j)' = Current(j) /\ (Exists(j)' <=> Exists(j))
  BY <1>r, Same
<1>d. ASSUME NEW j \in G, Exists(j), j \notin late'
      PROVE  Current(j).dead /\ rows[j].at <= now - Retention
  <2>1. rows[i].at = rows[i].dead /\ rows[i].at < now - Retention
    BY <1>g, <1>t DEF Core, Stamped, Dead
  <2>2. CASE j = i
    BY <1>g, <1>t, <2>1, <2>2, CopyIs DEF Dead
  <2>3. CASE j # i
    <3>1. rows[j].dead # 0 /\ rows[j].at <= rows[i].at + 1
      BY <1>g, <1>d, <2>3, PullConstants DEF Core, Family
    <3>2. Current(j).dead
      BY <1>t, <3>1, CopyIs
    <3> QED BY <1>t, <2>1, <3>1, <3>2
  <2> QED BY <2>2, <2>3
<1>h. \A j \in G : Exists(j) /\ rows[j].at <= device.cursor => device.held[j] = Current(j)
  BY DEF Core, NothingSkipped
<1>l. \A j \in Ids \ {i} : j \in late => j \in late'
  BY <1>g
<1>e. i \in G /\ Exists(i) /\ i \notin late'
  BY <1>g DEF Dead
<1> HIDE DEF G
<1>1. Typed'
  BY <1>t, <1>r, <1>g DEF Core, Typed
<1>2. Stamped'
  <2>1. \A j \in Ids : rows'[j].at <= now
    BY <1>t, <1>r DEF Core, Stamped
  <2>2. \A j \in Ids : Exists(j)' => j \notin G /\ Exists(j)
    BY <1>r, <1>s
  <2>3. \A j, k \in Ids : Exists(j)' /\ rows'[j].at = rows'[k].at => Exists(k)'
    BY DEF Exists
  <2> QED BY <1>g, <1>r, <2>1, <2>2, <2>3 DEF Core, Stamped
<1>f. Family'
  <2> SUFFICES ASSUME NEW c \in Ids, Parent[c] # 0, Dead(Parent[c])', Exists(c)', c \notin late'
               PROVE  rows'[c].dead # 0 /\ rows'[c].at <= rows'[Parent[c]].at + 1
    BY DEF Family
  <2>1. Parent[c] \in Ids /\ Parent[c] \notin G /\ c \notin G
    BY <1>r, PullConstants DEF Dead, Exists
  <2>2. rows'[c] = rows[c] /\ rows'[Parent[c]] = rows[Parent[c]] /\ c \notin late
    BY <1>l, <1>e, <1>r, <2>1
  <2>3. Dead(Parent[c]) /\ Exists(c)
    BY <2>2 DEF Dead, Exists
  <2> QED BY <2>2, <2>3 DEF Core, Family
<1>3. Asked'
  <2>1. ASSUME NEW j \in Ids, pull.pc # "idle", LiveCopy(device.held[j])
        PROVE  Exists(j)' \/ j \in late'
    <3>1. Exists(j) \/ j \in late
      BY <2>1 DEF Core, Asked
    <3>2. CASE j \notin G
      BY <1>e, <1>l, <1>s, <3>1, <3>2
    <3>3. CASE j \in G /\ ~Exists(j)
      BY <1>e, <1>l, <3>1, <3>3
    <3>4. CASE j \in G /\ Exists(j)
      <4> SUFFICES ASSUME j \notin late' PROVE FALSE
        OBVIOUS
      <4>1. Current(j).dead /\ rows[j].at <= now - Retention
        BY <1>d, <3>4
      <4>2. CASE device.cursor = 0
        BY <1>t, <2>1, <4>2, CopyIs DEF Core, Asked, LiveCopy
      <4>3. CASE device.cursor # 0
        <5>1. device.cursor >= now - Retention
          BY <1>g, <2>1, <4>3 DEF Core, Asked
        <5>2. rows[j].at <= device.cursor
          BY <1>t, <4>1, <5>1
        <5> QED BY <1>h, <2>1, <3>4, <4>1, <5>2 DEF LiveCopy
      <4> QED BY <4>2, <4>3
    <3> QED BY <3>2, <3>3, <3>4
  <2> QED BY <1>g, <2>1 DEF Core, Asked, LiveCopy
<1>4. Paged'
  BY <1>g DEF Core, Paged, Reads
<1>5. Got'
  <2> SUFFICES ASSUME NEW j \in Ids, Reads, pull.got[j] # NoCopy
               PROVE  /\ Exists(j)' => /\ rows'[j].at > pull.cursor
                                       /\ rows'[j].at <= pull.upper => pull.got[j] = Current(j)'
                      /\ ~Exists(j)' /\ LiveCopy(pull.got[j]) => pull.upper < now - Retention \/ j \in late'
    BY <1>g DEF Got, Reads, LiveCopy
  <2>0. /\ Exists(j) => /\ rows[j].at > pull.cursor
                        /\ rows[j].at <= pull.upper => pull.got[j] = Current(j)
        /\ ~Exists(j) /\ LiveCopy(pull.got[j]) => pull.upper < now - Retention \/ j \in late
    BY DEF Core, Got
  <2>1. CASE j \in G
    <3> SUFFICES ASSUME LiveCopy(pull.got[j]), j \notin late' PROVE pull.upper < now - Retention
      BY <1>r, <2>1
    <3>1. CASE ~Exists(j)
      BY <1>e, <1>l, <2>0, <3>1
    <3>2. CASE Exists(j)
      <4>1. Current(j).dead /\ rows[j].at <= now - Retention
        BY <1>d, <2>1, <3>2
      <4>2. ~(rows[j].at <= pull.upper)
        BY <2>0, <3>2, <4>1 DEF LiveCopy
      <4> QED BY <1>t, <4>1, <4>2
    <3> QED BY <3>1, <3>2
  <2>2. CASE j \notin G
    <3>1. rows'[j] = rows[j] /\ Current(j)' = Current(j) /\ (Exists(j)' <=> Exists(j))
      BY <1>r, <1>s, <2>2
    <3>2. j \in late => j \in late'
      BY <1>e, <1>l, <2>2
    <3> QED BY <2>0, <3>1, <3>2
  <2> QED BY <2>1, <2>2
<1>6. Seen'
  <2> SUFFICES ASSUME NEW j \in Ids, Reads, Home[j] < pull.table, pull.cursor < rows'[j].at, rows'[j].at <= pull.upper,
                      pull.floor = 0 \/ rows'[j].at <= pull.floor
               PROVE  pull.got[j] = Current(j)'
    BY <1>g DEF Seen, Reads
  <2>1. j \notin G
    <3>1. j \in G => rows'[j].at = 0
      BY <1>r
    <3> QED BY <1>t, <3>1
  <2> QED BY <1>r, <1>s, <2>1 DEF Core, Seen
<1>7. NothingSkipped'
  <2> SUFFICES ASSUME NEW j \in Ids, Exists(j)', rows'[j].at <= device.cursor
               PROVE  device.held[j] = Current(j)'
    BY <1>g DEF NothingSkipped
  <2>1. j \notin G
    BY <1>r
  <2> QED BY <1>r, <1>s, <2>1 DEF Core, NothingSkipped
<1>8. NoGhosts'
  <2> SUFFICES ASSUME NEW j \in Ids, LiveCopy(device.held[j]), ~Exists(j)', j \notin late'
               PROVE  device.cursor < now - Retention
    BY <1>g DEF NoGhosts, LiveCopy
  <2>1. CASE Exists(j)
    <3>1. j \in G
      BY <1>s, <2>1
    <3>2. Current(j).dead /\ rows[j].at <= now - Retention
      BY <1>d, <2>1, <3>1
    <3>3. ~(rows[j].at <= device.cursor)
      BY <1>h, <2>1, <3>1, <3>2 DEF LiveCopy
    <3> QED BY <1>t, <3>2, <3>3
  <2>2. CASE ~Exists(j)
    <3>1. j \notin late
      BY <1>e, <1>l, <2>2
    <3> QED BY <2>2, <3>1 DEF Core, NoGhosts, LiveCopy
  <2> QED BY <2>1, <2>2
<1> QED BY <1>1, <1>2, <1>f, <1>3, <1>4, <1>5, <1>6, <1>7, <1>8 DEF Core

----------------------------------------------------------------------------
(* A page.                                                                  *)

\* A page is where its table begins: what is no newer than its newest row is in
\* it, and a page that is cut is not empty.
LEMMA PageFacts ==
  ASSUME Core, Reads, NEW t \in 1..Tables
  PROVE  /\ Page(t) \subseteq Window(t) /\ Newest(Page(t)) \in Nat /\ Newest(Page(t)) <= pull.upper
         /\ Page(t) # Window(t) => pull.cursor < Newest(Page(t))
         /\ \A i \in Window(t) : rows[i].at <= Newest(Page(t)) => i \in Page(t)
<1> DEFINE W == Window(t)
           P == Page(t)
           S == {0} \cup {rows[i].at : i \in P}
           D(i) == {j \in W : Before(j, i)}
<1>t. /\ rows \in [Ids -> Row] /\ pull.upper \in Nat /\ pull.cursor \in Nat
      /\ \A i \in Ids : rows[i].at \in Nat /\ i \in Nat
      /\ Limit \in Nat \ {0} /\ IsFiniteSet(Ids)
  BY PullConstants DEF Core, Typed, Pull, Row
<1>w. \A i \in W : i \in Ids /\ pull.cursor < rows[i].at /\ rows[i].at <= pull.upper
  BY DEF Window
<1>p. P \subseteq W /\ \A i \in W : i \in P <=> Cardinality(D(i)) < Limit
  BY DEF Page
<1>d. \A i, j \in W : rows[i].at = rows[j].at => i = j
  <2>1. \A i \in W : Home[i] = t /\ Exists(i)
    BY <1>t, <1>w DEF Window, Exists
  <2> QED BY <1>w, <2>1 DEF Core, Stamped
<1>1. S \in SUBSET Nat /\ S # {} /\ \A x \in S : x <= pull.upper
  BY <1>t, <1>w, <1>p
<1>2. Max(S) \in S /\ \A x \in S : x <= Max(S)
  BY <1>1, <1>t, Greatest
<1>3. Newest(P) = Max(S)
  BY DEF Newest
<1>4. ASSUME NEW i \in W, rows[i].at <= Max(S)
      PROVE  i \in P
  <2>1. Max(S) # 0
    BY <1>t, <1>w, <1>4
  <2>2. PICK j \in P : rows[j].at = Max(S)
    BY <1>2, <2>1
  <2>3. CASE i = j
    BY <2>2, <2>3
  <2>4. CASE i # j
    <3>1. i \in Ids /\ j \in Ids /\ j \in W /\ rows[i].at < rows[j].at
      BY <1>d, <1>p, <1>t, <1>w, <1>4, <2>2, <2>4
    <3>2. \A k \in W : rows[k].at \in Nat
      BY <1>t, <1>w
    <3>3. D(i) \subseteq D(j)
      BY <1>t, <3>1, <3>2 DEF Before
    <3>4. IsFiniteSet(D(j)) /\ IsFiniteSet(D(i))
      <4>1. D(j) \subseteq Ids /\ D(i) \subseteq Ids
        BY <1>w
      <4> QED BY <1>t, <4>1, FS_Subset
    <3>5. Cardinality(D(i)) <= Cardinality(D(j)) /\ Cardinality(D(i)) \in Nat /\ Cardinality(D(j)) \in Nat
      BY <3>3, <3>4, FS_Subset, FS_CardinalityType
    <3>6. Cardinality(D(j)) < Limit
      BY <1>p, <2>2
    <3> HIDE DEF D
    <3> QED BY <1>p, <1>t, <3>5, <3>6
  <2> QED BY <2>3, <2>4
<1>5. ASSUME P # W
      PROVE  pull.cursor < Max(S)
  <2>1. PICK w \in W : TRUE
    BY <1>5, <1>p
  <2> DEFINE T == {rows[i].at : i \in W}
  <2>2. T \in SUBSET Nat /\ T # {}
    BY <1>t, <1>w, <2>1
  <2> HIDE DEF T
  <2>3. PICK x \in T : \A y \in T : x <= y
    BY <2>2, Least
  <2>4. PICK m \in W : rows[m].at = x
    BY <2>3 DEF T
  <2>5. \A k \in W : rows[m].at <= rows[k].at
    BY <2>3, <2>4 DEF T
  <2>6. ASSUME NEW k \in W, Before(k, m)
        PROVE  FALSE
    <3>1. rows[m].at <= rows[k].at /\ rows[k].at \in Nat /\ rows[m].at \in Nat /\ m \in Nat /\ k \in Nat
      BY <1>t, <1>w, <2>5
    <3>2. rows[k].at = rows[m].at /\ k < m
      BY <2>6, <3>1 DEF Before
    <3>3. k = m
      BY <1>d, <3>2
    <3> QED BY <3>1, <3>2, <3>3
  <2>7. D(m) = {}
    BY <2>6
  <2>8. m \in P
    BY <1>p, <1>t, <2>7, FS_EmptySet
  <2>9. rows[m].at \in S
    BY <2>8
  <2> QED BY <1>1, <1>2, <1>t, <1>w, <2>4, <2>9
<1> HIDE DEF S, W, P
<1>6. Max(S) \in Nat /\ Max(S) <= pull.upper
  BY <1>1, <1>2
<1>7. P \subseteq W /\ Newest(P) \in Nat /\ Newest(P) <= pull.upper /\ (P # W => pull.cursor < Newest(P))
      /\ \A i \in W : rows[i].at <= Newest(P) => i \in P
  BY <1>p, <1>3, <1>4, <1>5, <1>6
<1> QED BY <1>7 DEF P, W

LEMMA ReadPageStep ==
  ASSUME Core, ReadPage
  PROVE  Core'
<1> DEFINE t == pull.table
           P == Page(t)
           N == Newest(P)
           cut == P # Window(t)
           got == [i \in Ids |-> IF i \in P THEN Current(i) ELSE pull.got[i]]
           top == Max({pull.top, N})
           more == pull.more \/ cut
           floor == IF cut THEN Earlier(pull.floor, N) ELSE pull.floor
           pc == After(t)
<1>1. /\ pull.pc = "page" /\ UNCHANGED <<now, rows, late, device>>
      /\ pull' = [pull EXCEPT !.got = got, !.top = top, !.more = more, !.floor = floor, !.table = t + 1, !.pc = pc]
  BY DEF ReadPage
<1>2. Reads
  BY <1>1 DEF Reads
<1>t. /\ pull \in Pull /\ rows \in [Ids -> Row] /\ t \in 1..Tables /\ Tables \in Nat /\ Home \in [Ids -> 1..Tables]
      /\ pull.top \in Nat /\ pull.floor \in Nat /\ pull.upper \in Nat /\ pull.cursor \in Nat
      /\ \A i \in Ids : rows[i].at \in Nat
  BY <1>1, PullConstants DEF Core, Typed, Paged, Pull, Row
<1>3. /\ P \subseteq Window(t) /\ N \in Nat /\ N <= pull.upper /\ (cut => pull.cursor < N)
      /\ \A i \in Window(t) : rows[i].at <= N => i \in P
  BY <1>2, <1>t, PageFacts
<1>4. \A i \in Window(t) : i \in Ids /\ pull.cursor < rows[i].at /\ rows[i].at <= pull.upper
  BY DEF Window
<1>5. got \in [Ids -> Copy] /\ \A i \in Ids : got[i] = IF i \in P THEN Current(i) ELSE pull.got[i]
  BY <1>t, CopyIs DEF Pull
<1>6. top \in Nat /\ top <= pull.upper
  <2>1. {pull.top, N} \in SUBSET Nat /\ {pull.top, N} # {} /\ \A x \in {pull.top, N} : x <= pull.upper
    BY <1>2, <1>3, <1>t DEF Core, Paged
  <2>2. Max({pull.top, N}) \in {pull.top, N}
    BY <2>1, <1>t, Greatest
  <2> QED BY <2>1, <2>2
<1>7. /\ floor \in Nat
      /\ floor = 0 \/ (pull.cursor < floor /\ floor <= pull.upper)
      /\ floor = 0 => pull.floor = 0 /\ ~cut
      /\ pull.floor # 0 => floor <= pull.floor
      /\ cut => floor <= N
  BY <1>2, <1>3, <1>t DEF Core, Paged, Earlier
<1>8. more \in BOOLEAN
  BY <1>t DEF Pull
<1>9. pc \in {"page", "answer"} /\ (pc = "page" => t # Tables) /\ (pc = "answer" => t = Tables)
  BY DEF After
<1>10. t + 1 \in 1..(Tables + 1)
  BY <1>t
<1> HIDE DEF got, top, more, floor, pc, N, cut
<1>11. /\ pull' \in Pull /\ pull'.got = got /\ pull'.top = top /\ pull'.floor = floor /\ pull'.table = t + 1
       /\ pull'.pc = pc /\ pull'.cursor = pull.cursor /\ pull'.upper = pull.upper
  <2> DEFINE n == t + 1
  <2>1. n \in 1..(Tables + 1) /\ pull \in Pull /\ floor \in Nat /\ top \in Nat /\ got \in [Ids -> Copy]
    BY <1>t, <1>5, <1>6, <1>7, <1>10
  <2>2. pull' = [pull EXCEPT !.got = got, !.top = top, !.more = more, !.floor = floor, !.table = n, !.pc = pc]
    BY <1>1
  <2> HIDE DEF n
  <2>3. /\ pull' \in Pull /\ pull'.got = got /\ pull'.top = top /\ pull'.floor = floor /\ pull'.table = n
        /\ pull'.pc = pc /\ pull'.cursor = pull.cursor /\ pull'.upper = pull.upper
    BY <1>8, <1>9, <2>1, <2>2 DEF Pull
  <2> QED BY <2>3 DEF n
<1>12. Reads'
  BY <1>9, <1>11 DEF Reads
<1>13. Typed' /\ Stamped' /\ Family'
  BY <1>1, <1>11 DEF Core, Typed, Stamped, Family, Exists, Dead
<1>14. Asked'
  BY <1>1, <1>11 DEF Core, Asked, Exists, LiveCopy
<1>15. Paged'
  BY <1>1, <1>2, <1>6, <1>7, <1>9, <1>11, <1>12, <1>t DEF Core, Paged
<1>16. Got'
  <2> SUFFICES ASSUME NEW i \in Ids, got[i] # NoCopy
               PROVE  /\ Exists(i) => /\ rows[i].at > pull.cursor
                                      /\ rows[i].at <= pull.upper => got[i] = Current(i)
                      /\ ~Exists(i) /\ LiveCopy(got[i]) => pull.upper < now - Retention \/ i \in late
    BY <1>1, <1>11, Same DEF Got, LiveCopy
  <2>1. CASE i \in P
    <3>1. pull.cursor < rows[i].at /\ got[i] = Current(i) /\ Exists(i)
      BY <1>3, <1>4, <1>5, <1>t, <2>1 DEF Exists
    <3> QED BY <1>t, <3>1
  <2>2. CASE i \notin P
    <3>1. got[i] = pull.got[i]
      BY <1>5, <2>2
    <3> QED BY <1>2, <3>1 DEF Core, Got
  <2> QED BY <2>1, <2>2
<1>17. Seen'
  <2> SUFFICES ASSUME NEW i \in Ids, Home[i] < t + 1, pull.cursor < rows[i].at, rows[i].at <= pull.upper,
                      floor = 0 \/ rows[i].at <= floor
               PROVE  got[i] = Current(i)
    BY <1>1, <1>11, Same DEF Seen
  <2>1. CASE Home[i] < t
    <3>1. pull.floor = 0 \/ rows[i].at <= pull.floor
      BY <1>7, <1>t
    <3>2. pull.got[i] = Current(i)
      BY <1>2, <2>1, <3>1 DEF Core, Seen
    <3> QED BY <1>5, <3>2
  <2>2. CASE Home[i] = t
    <3>1. i \in Window(t)
      BY <2>2 DEF Window
    <3>2. cut => rows[i].at <= N
      BY <1>3, <1>7, <1>t
    <3>3. i \in P
      BY <1>3, <3>1, <3>2 DEF cut
    <3> QED BY <1>5, <3>3
  <2>3. Home[i] \in Nat /\ t \in Nat
    BY <1>t
  <2> QED BY <2>1, <2>2, <2>3
<1>18. NothingSkipped'
  BY <1>1, Same DEF Core, NothingSkipped
<1>19. NoGhosts'
  BY <1>1, Same DEF Core, NoGhosts
<1> QED BY <1>13, <1>14, <1>15, <1>16, <1>17, <1>18, <1>19 DEF Core

\* The cursor that is handed out is before the first row that was left out.
LEMMA CursorFacts ==
  ASSUME Core, Reads
  PROVE  /\ NextCursor(pull) \in Nat \ {0} /\ NextCursor(pull) <= pull.upper
         /\ pull.floor = 0 \/ NextCursor(pull) <= pull.floor
<1>1. /\ pull.top \in Nat /\ pull.floor \in Nat /\ pull.upper \in Nat /\ pull.cursor \in Nat
  BY DEF Core, Typed, Pull
<1>2. /\ 0 < pull.upper /\ pull.top <= pull.upper
      /\ pull.floor = 0 \/ (pull.cursor < pull.floor /\ pull.floor <= pull.upper)
  BY DEF Core, Paged
<1> QED BY <1>1, <1>2 DEF NextCursor

LEMMA DeliverStep ==
  ASSUME Core, Deliver
  PROVE  Core'
<1> DEFINE c == NextCursor(pull)
           held == [i \in Ids |-> IF pull.got[i] # NoCopy THEN pull.got[i] ELSE device.held[i]]
<1>1. pull.pc = "answer" /\ device' = [cursor |-> c, held |-> held] /\ pull' = NoPull /\ UNCHANGED <<now, rows, late>>
  BY DEF Deliver
<1>2. Reads
  BY <1>1 DEF Reads
<1>t. /\ rows \in [Ids -> Row] /\ now \in Nat \ {0} /\ pull.upper \in Nat /\ pull.cursor \in Nat /\ Retention \in Nat
      /\ Tables \in Nat /\ Home \in [Ids -> 1..Tables] /\ \A i \in Ids : rows[i].at \in Nat
  BY PullConstants DEF Core, Typed, Pull, Row
<1>3. c \in Nat \ {0} /\ c <= pull.upper /\ (pull.floor = 0 \/ c <= pull.floor)
  BY <1>2, CursorFacts
<1>4. /\ held \in [Ids -> Copy]
      /\ \A i \in Ids : held[i] = IF pull.got[i] # NoCopy THEN pull.got[i] ELSE device.held[i]
  BY DEF Core, Typed, Pull
<1> HIDE DEF c, held
<1>5. /\ device' \in [cursor : Nat, held : [Ids -> Copy]] /\ device'.cursor = c /\ device'.held = held
      /\ pull' \in Pull /\ pull'.pc = "idle"
  BY <1>1, <1>3, <1>4, NoRequest
<1>6. ~Reads'
  BY <1>5 DEF Reads
<1>7. Typed' /\ Stamped' /\ Family'
  BY <1>1, <1>5 DEF Core, Typed, Stamped, Family, Exists, Dead
<1>8. Asked'
  <2>1. pull.upper <= now
    BY <1>2 DEF Core, Paged
  <2>2. c <= now
    BY <1>3, <1>t, <2>1
  <2> QED BY <1>1, <1>3, <1>5, <2>2 DEF Asked
<1>9. Paged'
  BY <1>1, <1>5, <1>6, NoRequest DEF Paged
<1>10. Got' /\ Seen'
  BY <1>6 DEF Got, Seen
<1>11. NothingSkipped'
  <2> SUFFICES ASSUME NEW i \in Ids, Exists(i), rows[i].at <= c
               PROVE  held[i] = Current(i)
    BY <1>1, <1>5, Same DEF NothingSkipped
  <2>1. CASE rows[i].at <= pull.cursor
    <3>1. device.held[i] = Current(i)
      BY <1>1, <2>1 DEF Core, Asked, NothingSkipped
    <3>2. pull.got[i] = NoCopy
      BY <1>2, <1>t, <2>1 DEF Core, Got
    <3> QED BY <1>4, <3>1, <3>2
  <2>2. CASE pull.cursor < rows[i].at
    <3>1. rows[i].at <= pull.upper /\ (pull.floor = 0 \/ rows[i].at <= pull.floor)
      <4>1. pull.floor \in Nat
        BY DEF Core, Typed, Pull
      <4> QED BY <1>3, <1>t, <4>1
    <3>2. Home[i] < pull.table
      BY <1>1, <1>t DEF Core, Paged
    <3>3. pull.got[i] = Current(i)
      BY <1>2, <2>2, <3>1, <3>2 DEF Core, Seen
    <3>4. Current(i) # NoCopy
      BY <1>t, CopyIs DEF Core, Stamped
    <3> QED BY <1>4, <3>3, <3>4
  <2> QED BY <1>t, <2>1, <2>2
<1>12. NoGhosts'
  <2> SUFFICES ASSUME NEW i \in Ids, LiveCopy(held[i]), ~Exists(i)
               PROVE  c < now - Retention \/ i \in late
    BY <1>1, <1>5, Same DEF NoGhosts, LiveCopy
  <2>1. CASE pull.got[i] # NoCopy
    <3>1. pull.upper < now - Retention \/ i \in late
      BY <1>2, <1>4, <2>1 DEF Core, Got
    <3> QED BY <1>3, <1>t, <3>1
  <2>2. CASE pull.got[i] = NoCopy
    BY <1>1, <1>4, <2>2 DEF Core, Asked
  <2> QED BY <2>1, <2>2
<1> QED BY <1>7, <1>8, <1>9, <1>10, <1>11, <1>12 DEF Core

----------------------------------------------------------------------------
(* The invariant.                                                           *)

LEMMA PullInit == Init => PullInv
<1> SUFFICES ASSUME Init PROVE PullInv
  OBVIOUS
<1> DEFINE none == [i \in Ids |-> NoCopy]
           off == [i \in Ids |-> Absent]
<1>1. /\ now = 1 /\ rows = off /\ late = {} /\ device = [cursor |-> 0, held |-> none] /\ pull = NoPull
      /\ marker \in {0, now} /\ known = {} /\ due = 0 /\ queued = 0 /\ missed = FALSE /\ breaks = 0
  BY DEF Init
<1>2. off \in [Ids -> Row] /\ \A i \in Ids : off[i].at = 0 /\ off[i].ver = 0
  BY DEF Absent, Row
<1>3. \A i \in Ids : NoCopy \in Copy /\ NoCopy.ver = 0
  BY <1>1, <1>2, CopyIs
<1>4. none \in [Ids -> Copy] /\ \A i \in Ids : none[i] = NoCopy
  BY <1>3
<1> HIDE DEF none, off
<1>5. device \in [cursor : Nat, held : [Ids -> Copy]] /\ device.cursor = 0 /\ device.held = none
  BY <1>1, <1>4
<1>6. \A i \in Ids : ~Exists(i) /\ rows[i].at = 0
  BY <1>1, <1>2 DEF Exists
<1>7. Minor
  <2>1. missed \in BOOLEAN
    BY <1>1
  <2>2. Cardinality(known) = 0
    BY <1>1, FS_EmptySet
  <2> QED BY <1>1, <2>1, <2>2 DEF Minor
<1>8. Typed /\ Stamped /\ Family
  BY <1>1, <1>2, <1>5, <1>6, NoRequest DEF Typed, Stamped, Family
<1>9. ~Reads
  BY <1>1, NoRequest DEF Reads
<1>10. Asked /\ Paged /\ Got /\ Seen
  BY <1>1, <1>4, <1>5, <1>9, NoRequest DEF Asked, Paged, Got, Seen
<1>11. NothingSkipped /\ NoGhosts
  BY <1>3, <1>4, <1>5, <1>6 DEF NothingSkipped, NoGhosts
<1> QED BY <1>7, <1>8, <1>10, <1>11 DEF PullInv, Core

LEMMA MinorStep == Typed /\ Minor /\ Next => Minor'
<1> SUFFICES ASSUME Typed, Minor, Next PROVE Minor'
  OBVIOUS
<1>0. /\ marker \in Nat /\ known \subseteq Nat /\ Cardinality(known) <= 1 /\ now \in Nat
      /\ due \in Nat /\ queued \in Nat /\ missed \in BOOLEAN /\ breaks \in Nat
  BY DEF Minor, Typed
<1>1. known' \in {known, {}, {marker}} /\ marker' \in {marker, now}
  BY DEF Next, Write, Delete, Purge, Tick, BumpDrop, BumpLands, Expire, PullStep, Refused, Ask, ReadMarker,
         ReadUpper, ReadPage, Deliver, LoseAnswer, BumpFails, Restart
<1>2. due' \in Nat /\ queued' \in Nat /\ breaks' \in Nat
  BY <1>0 DEF Next, Write, Delete, Purge, Tick, BumpDrop, BumpLands, Expire, PullStep, Refused, Ask, ReadMarker,
         ReadUpper, ReadPage, Deliver, LoseAnswer, BumpFails, Restart
<1>3. missed' \in BOOLEAN
  BY <1>0 DEF Next, Write, Delete, Purge, Tick, BumpDrop, BumpLands, Expire, PullStep, Refused, Ask, ReadMarker,
         ReadUpper, ReadPage, Deliver, LoseAnswer, BumpFails, Restart
<1>4. known' \subseteq Nat /\ marker' \in Nat
  BY <1>0, <1>1
<1>5. Cardinality(known') <= 1
  <2>1. Cardinality({marker}) = 1 /\ Cardinality({}) = 0
    BY FS_EmptySet, FS_Singleton
  <2>2. CASE known' = known
    BY <1>0, <2>2
  <2>3. CASE known' = {}
    BY <2>1, <2>3
  <2>4. CASE known' = {marker}
    BY <2>1, <2>4
  <2> QED BY <1>1, <2>2, <2>3, <2>4
<1> QED BY <1>2, <1>3, <1>4, <1>5 DEF Minor

LEMMA CoreStep ==
  ASSUME WritesApart, Core, Next
  PROVE  Core'
<1>1. ASSUME NEW i \in Ids, Write(i) PROVE Core'
  BY <1>1, WriteStep
<1>2. ASSUME NEW i \in Ids, Delete(i) PROVE Core'
  BY <1>2, DeleteStep
<1>3. ASSUME Tick \/ BumpDrop \/ BumpLands \/ Expire \/ BumpFails PROVE Core'
  <2>1. now' \in {now, now + 1} /\ UNCHANGED <<rows, late, device, pull>>
    BY <1>3 DEF Tick, BumpDrop, BumpLands, Expire, BumpFails
  <2> QED BY <2>1, Passing
<1>4. ASSUME LoseAnswer \/ Restart PROVE Core'
  <2>1. UNCHANGED <<now, rows, late, device>> /\ pull' = NoPull
    BY <1>4 DEF LoseAnswer, Restart
  <2> QED BY <2>1, Dropped
<1>5. ASSUME PullStep PROVE Core'
  BY <1>5, RefusedStep, AskStep, ReadMarkerStep, ReadUpperStep, ReadPageStep, DeliverStep DEF PullStep
<1>6. ASSUME NEW i \in Ids, Purge(i) PROVE Core'
  BY <1>6, PurgeStep
<1> QED BY <1>1, <1>2, <1>3, <1>4, <1>5, <1>6 DEF Next

LEMMA PullNext == PullInv /\ [Next]_vars /\ [WritesApart]_vars => PullInv'
<1>1. ASSUME WritesApart, PullInv, Next PROVE PullInv'
  BY <1>1, MinorStep, CoreStep DEF PullInv, Core
<1>2. ASSUME PullInv, UNCHANGED vars PROVE PullInv'
  <2>1. Core'
    BY <1>2, Passing DEF PullInv, vars
  <2>2. Minor'
    BY <1>2 DEF PullInv, Minor, vars
  <2> QED BY <2>1, <2>2 DEF PullInv
<1> QED BY <1>1, <1>2

----------------------------------------------------------------------------
(* Types, whatever meets in a millisecond.                                  *)

\* A page is of a table there is.
Turned == /\ pull.pc \in {"idle", "marker", "upper"} => pull.table = 1
          /\ pull.pc = "page" => pull.table \in 1..Tables

LEMMA PageTyped ==
  ASSUME Typed, Turned, ReadPage
  PROVE  Typed' /\ Turned'
<1> DEFINE t == pull.table
           P == Page(t)
           S == {0} \cup {rows[i].at : i \in P}
           N == Newest(P)
           cut == P # Window(t)
           got == [i \in Ids |-> IF i \in P THEN Current(i) ELSE pull.got[i]]
           top == Max({pull.top, N})
           more == pull.more \/ cut
           floor == IF cut THEN Earlier(pull.floor, N) ELSE pull.floor
           pc == After(t)
           n == t + 1
<1>1. /\ pull.pc = "page" /\ UNCHANGED <<now, rows, late, device>>
      /\ pull' = [pull EXCEPT !.got = got, !.top = top, !.more = more, !.floor = floor, !.table = n, !.pc = pc]
  BY DEF ReadPage
<1>2. /\ pull \in Pull /\ rows \in [Ids -> Row] /\ t \in 1..Tables /\ Tables \in Nat
      /\ pull.top \in Nat /\ pull.floor \in Nat /\ pull.upper \in Nat
      /\ \A i \in Ids : rows[i].at \in Nat
  BY <1>1, PullConstants DEF Typed, Turned, Pull, Row
<1>3. N \in Nat
  <2>0. \A i \in P : i \in Ids /\ rows[i].at <= pull.upper
    BY DEF Page, Window
  <2> HIDE DEF P
  <2>1. S \in SUBSET Nat /\ S # {} /\ \A x \in S : x <= pull.upper
    BY <1>2, <2>0
  <2>2. Max(S) \in S
    BY <1>2, <2>1, Greatest
  <2> QED BY <2>1, <2>2 DEF Newest
<1>4. got \in [Ids -> Copy]
  BY <1>2, CopyIs DEF Pull
<1> HIDE DEF N
<1>5. top \in Nat
  <2>1. /\ {pull.top, N} \in SUBSET Nat /\ {pull.top, N} # {} /\ pull.top + N \in Nat
        /\ \A x \in {pull.top, N} : x <= pull.top + N
    BY <1>2, <1>3
  <2>2. Max({pull.top, N}) \in {pull.top, N}
    BY <2>1, Greatest
  <2> QED BY <2>1, <2>2
<1>6. floor \in Nat /\ more \in BOOLEAN
  <2>1. Earlier(pull.floor, N) \in Nat
    BY <1>2, <1>3 DEF Earlier
  <2>2. pull.more \in BOOLEAN
    BY <1>2 DEF Pull
  <2> QED BY <1>2, <2>1, <2>2
<1>7. pc \in {"page", "answer"} /\ (pc = "page" => t # Tables) /\ n \in 1..(Tables + 1)
      /\ (t # Tables => n \in 1..Tables)
  BY <1>2 DEF After
<1> HIDE DEF got, top, more, floor, pc, n
<1>8. pull' \in Pull /\ pull'.pc = pc /\ pull'.table = n
  BY <1>1, <1>2, <1>4, <1>5, <1>6, <1>7 DEF Pull
<1> QED BY <1>1, <1>7, <1>8 DEF Typed, Turned

LEMMA TypedStep ==
  ASSUME Typed, Turned, Next
  PROVE  Typed' /\ Turned'
<1>t. /\ now \in Nat \ {0} /\ rows \in [Ids -> Row] /\ late \subseteq Ids /\ pull \in Pull
      /\ device \in [cursor : Nat, held : [Ids -> Copy]] /\ device.cursor \in Nat
  BY DEF Typed
<1>c. NoCopy \in Copy
  BY Blank
<1>1. ASSUME now' \in Nat \ {0}, rows' \in [Ids -> Row], late' \subseteq Ids, UNCHANGED <<device, pull>>
      PROVE  Typed' /\ Turned'
  BY <1>1 DEF Typed, Turned
<1>2. ASSUME pull' \in Pull, pull'.table = 1, pull'.pc # "page", UNCHANGED <<now, rows, late, device>>
      PROVE  Typed' /\ Turned'
  BY <1>2 DEF Typed, Turned
<1>s. \A t \in Stamps : t \in Nat \ {0}
  BY <1>t DEF Stamps
<1>r. ASSUME NEW i \in Ids, NEW t \in Stamps
      PROVE  Tombstone(i, t) \in Row /\ [ver |-> rows[i].ver + 1, at |-> t, dead |-> 0] \in Row
  BY <1>t, <1>s DEF Tombstone, Row
<1>3. ASSUME NEW i \in Ids, Write(i) PROVE Typed' /\ Turned'
  <2>1. PICK t \in Stamps : /\ now' = t /\ UNCHANGED <<device, pull>> /\ late' = Noted(i)
          /\ rows' = [rows EXCEPT ![i] = [ver |-> rows[i].ver + 1, at |-> t, dead |-> 0]]
    BY <1>3 DEF Write
  <2>2. rows' \in [Ids -> Row]
    BY <1>t, <1>r, <2>1
  <2> QED BY <1>t, <1>s, <1>1, <2>1, <2>2 DEF Noted
<1>3d. ASSUME NEW i \in Ids, Delete(i) PROVE Typed' /\ Turned'
  <2>1. PICK t \in Stamps, u \in Stamps :
          /\ now' = u
          /\ rows' = [c \in Ids |-> IF c = i THEN Tombstone(c, t)
                                    ELSE IF c \in Brood(i) THEN Tombstone(c, u) ELSE rows[c]]
    BY <1>3d DEF Delete
  <2>2. UNCHANGED <<device, pull>> /\ late' = Noted(i) \ Children(i)
    BY <1>3d DEF Delete
  <2>3. rows' \in [Ids -> Row]
    BY <1>t, <1>r, <2>1
  <2> QED BY <1>t, <1>s, <1>1, <2>1, <2>2, <2>3 DEF Noted
<1>4. ASSUME NEW i \in Ids, Purge(i) PROVE Typed' /\ Turned'
  <2>1. /\ rows' = [c \in Ids |-> IF c = i \/ Parent[c] = i THEN [rows[c] EXCEPT !.at = 0] ELSE rows[c]]
        /\ late' = late \ {i} /\ UNCHANGED <<now, device, pull>>
    BY <1>4 DEF Purge
  <2>2. ASSUME NEW c \in Ids PROVE [rows[c] EXCEPT !.at = 0] \in Row
    BY <1>t DEF Row
  <2>3. rows' \in [Ids -> Row]
    BY <1>t, <2>1, <2>2
  <2> QED BY <1>t, <1>1, <2>1, <2>3
<1>5. ASSUME Tick \/ BumpDrop \/ BumpLands \/ Expire \/ BumpFails PROVE Typed' /\ Turned'
  <2>1. now' \in {now, now + 1} /\ UNCHANGED <<rows, late, device, pull>>
    BY <1>5 DEF Tick, BumpDrop, BumpLands, Expire, BumpFails
  <2> QED BY <1>t, <1>1, <2>1
<1>6. ASSUME LoseAnswer \/ Restart PROVE Typed' /\ Turned'
  BY <1>2, <1>6, NoRequest DEF LoseAnswer, Restart
<1>7. ASSUME Refused PROVE Typed' /\ Turned'
  <2>1. device' \in [cursor : Nat, held : [Ids -> Copy]]
    BY <1>c, <1>7 DEF Refused
  <2> QED BY <1>t, <1>7, <2>1 DEF Refused, Typed, Turned
<1>8. ASSUME Ask PROVE Typed' /\ Turned'
  <2>1. UNCHANGED <<now, rows, late, device>> /\ pull.pc = "idle"
    BY <1>8 DEF Ask
  <2>2. pull' = pull \/ \E pc \in {"marker", "upper"} : pull' = Request(pc)
    BY <1>8 DEF Ask
  <2>3. ASSUME NEW pc \in {"marker", "upper"}, pull' = Request(pc) PROVE Typed' /\ Turned'
    BY <1>t, <1>2, <2>1, <2>3, NoRequest
  <2> QED BY <1>t, <1>1, <2>1, <2>2, <2>3
<1>9. ASSUME ReadMarker PROVE Typed' /\ Turned'
  <2>1. /\ UNCHANGED <<now, rows, late, device>> /\ pull.pc = "marker"
        /\ pull' \in {NoPull, [pull EXCEPT !.pc = "upper"]}
    BY <1>9 DEF ReadMarker
  <2>2. CASE pull' = NoPull
    BY <1>2, <2>1, <2>2, NoRequest
  <2>3. CASE pull' = [pull EXCEPT !.pc = "upper"]
    <3>1. pull' \in Pull /\ pull'.table = pull.table /\ pull'.pc = "upper"
      BY <1>t, <2>3 DEF Pull
    <3> QED BY <1>2, <2>1, <3>1 DEF Turned
  <2> QED BY <2>1, <2>2, <2>3
<1>10. ASSUME ReadUpper PROVE Typed' /\ Turned'
  <2>1. /\ UNCHANGED <<now, rows, late, device>> /\ pull.pc = "upper"
        /\ pull' = [pull EXCEPT !.pc = "page", !.upper = now]
    BY <1>10 DEF ReadUpper
  <2>2. pull' \in Pull /\ pull'.table = pull.table /\ pull'.pc = "page"
    BY <1>t, <2>1 DEF Pull
  <2>3. 1 \in 1..Tables
    BY PullConstants
  <2> QED BY <1>t, <2>1, <2>2, <2>3 DEF Typed, Turned
<1>11. ASSUME Deliver PROVE Typed' /\ Turned'
  <2> DEFINE c == NextCursor(pull)
             held == [i \in Ids |-> IF pull.got[i] # NoCopy THEN pull.got[i] ELSE device.held[i]]
  <2>1. device' = [cursor |-> c, held |-> held] /\ pull' = NoPull /\ UNCHANGED <<now, rows, late>>
    BY <1>11 DEF Deliver
  <2>2. c \in Nat
    BY <1>t DEF NextCursor, Pull
  <2>3. held \in [Ids -> Copy]
    BY <1>t DEF Pull
  <2> HIDE DEF c, held
  <2>4. device' \in [cursor : Nat, held : [Ids -> Copy]]
    BY <2>1, <2>2, <2>3
  <2> QED BY <1>t, <2>1, <2>4, NoRequest DEF Typed, Turned
<1> QED BY <1>3, <1>3d, <1>4, <1>5, <1>6, <1>7, <1>8, <1>9, <1>10, <1>11, PageTyped DEF Next, PullStep

\* The variables of the pull keep their types (sync/pull.ts, lib/caches.ts).
THEOREM PullTyped == Spec => []TypeOK
<1> DEFINE I == Minor /\ Typed /\ Turned
<1>1. Init => I
  BY PullInit, NoRequest DEF PullInv, Core, Turned, Init
<1>2. I /\ [Next]_vars => I'
  <2>1. ASSUME I, UNCHANGED vars PROVE I'
    BY <2>1 DEF vars, Minor, Typed, Turned
  <2> QED BY <2>1, MinorStep, TypedStep
<1>3. I => TypeOK
  BY DEF Minor, Typed, TypeOK
<1> QED BY <1>1, <1>2, <1>3, PTL DEF Spec

\* However many tables there are and wherever their pages are cut, the cursor handed
\* out passes no change the device has not been given (sync/pull.ts), when no write
\* shares its millisecond with another row of its table or with the bound of a pull.
THEOREM CursorPassesNothing == Spec /\ [][WritesApart]_vars => []NothingSkipped
<1>1. PullInv => NothingSkipped
  BY DEF PullInv, Core
<1> QED BY <1>1, PullNext, PullInit, PTL DEF Spec

\* A device that holds a row that was purged, by itself or with its parent, has a cursor
\* that is refused: it starts again (CURSOR_TOO_OLD), under the same condition, unless
\* the row was written under a parent that was a tombstone (jobs/purge.ts,
\* masters/service.ts).
THEOREM PurgedIsNoticed == Spec /\ [][WritesApart]_vars => []NoGhosts
<1>1. PullInv => NoGhosts
  BY DEF PullInv, Core
<1> QED BY <1>1, PullNext, PullInit, PTL DEF Spec
=============================================================================
