------------------------------ MODULE SyncPull ------------------------------
(***************************************************************************)
(* A device that pulls the changes of one firm: the rows of the firm's     *)
(* tables, the cursor, pages cut at a limit, the firm's data watermark and *)
(* its cache, tombstones and their purge.  The device is the loop of       *)
(* FRONTEND_INTEGRATION, which is external.  Rows carry no content but a   *)
(* version.  Parts without a row of their own travel with their parent; a  *)
(* row of another table that refers to its parent by a cascading foreign   *)
(* key (a route, a purchase, a scheme) is deleted and purged with it.      *)
(***************************************************************************)
EXTENDS Integers, FiniteSets, FiniteSetsExt

CONSTANTS
  Tables,     \* how many tables a pull reads, one after the other
  Ids,        \* rows; their order is the tie-break of a page
  Home,       \* row -> its table
  Parent,     \* row -> the row its foreign key names, or 0
  Limit,      \* rows of a page
  Retention,  \* TOMBSTONE_RETENTION_DAYS
  MaxTime,    \* bound on the clock
  MaxBumps,   \* bound on the bumps under way
  MaxBreaks   \* bound on connections lost and restarts

ASSUME PullConstants ==
  /\ Tables \in Nat \ {0} /\ Ids \subseteq Nat /\ IsFiniteSet(Ids)
  /\ Home \in [Ids -> 1..Tables]
  /\ 0 \notin Ids /\ Parent \in [Ids -> Ids \cup {0}]
  /\ \A i \in Ids : Parent[i] # 0 => Parent[Parent[i]] = 0
  /\ Limit \in Nat \ {0} /\ Retention \in Nat
  /\ MaxTime \in Nat /\ MaxBumps \in Nat /\ MaxBreaks \in Nat

VARIABLES
  now,     \* UTC_TIMESTAMP(3), from 1
  rows,    \* row -> version, updated_at (0: not in the table), deleted_at
  late,    \* history: rows last written when their parent was a tombstone
  marker,  \* firms.data_updated_at, 0 for NULL
  known,   \* what the markers cache holds: a set of at most one marker
  due,     \* writes committed whose response is still to be sent
  queued,  \* bumpFirmData's UPDATEs in the queue of the database lock
  missed,  \* history: a bump was lost and none has landed since
  device,  \* the cursor (0: none) and the copies the device holds
  pull,    \* the request it has in flight
  breaks

vars == <<now, rows, late, marker, known, due, queued, missed, device, pull, breaks>>

Absent == [ver |-> 0, at |-> 0, dead |-> 0]
NoCopy == [ver |-> 0, dead |-> FALSE]
Row    == [ver : Nat, at : Nat, dead : Nat]
Copy   == [ver : Nat, dead : BOOLEAN]

NoPull == [pc |-> "idle", cursor |-> 0, upper |-> 0, table |-> 1,
           got |-> [i \in Ids |-> NoCopy], top |-> 0, floor |-> 0, more |-> FALSE]
Pull ==
  [pc : {"idle", "marker", "upper", "page", "answer"}, cursor : Nat, upper : Nat,
   table : 1..(Tables + 1), got : [Ids -> Copy], top : Nat, floor : Nat, more : BOOLEAN]

TypeOK ==
  /\ now \in Nat \ {0} /\ rows \in [Ids -> Row] /\ late \subseteq Ids
  /\ marker \in Nat /\ known \subseteq Nat /\ Cardinality(known) <= 1
  /\ due \in Nat /\ queued \in Nat /\ missed \in BOOLEAN /\ breaks \in Nat
  /\ device \in [cursor : Nat, held : [Ids -> Copy]]
  /\ pull \in Pull

Init ==
  /\ now = 1 /\ rows = [i \in Ids |-> Absent] /\ late = {}
  /\ marker \in {0, now} /\ known = {} /\ due = 0 /\ queued = 0 /\ missed = FALSE
  /\ device = [cursor |-> 0, held |-> [i \in Ids |-> NoCopy]]
  /\ pull = NoPull /\ breaks = 0

Exists(i)  == rows[i].at # 0
Live(i)    == Exists(i) /\ rows[i].dead = 0
Dead(i)    == Exists(i) /\ rows[i].dead # 0
Current(i) == [ver |-> rows[i].ver, dead |-> rows[i].dead # 0]

\* The millisecond of a write: the one it is, or the next.
Stamps == IF due + queued >= MaxBumps THEN {} ELSE {t \in {now, now + 1} : t <= MaxTime}

----------------------------------------------------------------------------
(* Everything else that happens to the firm's rows.                         *)

Orphaned(i) == Parent[i] # 0 /\ Dead(Parent[i])
Noted(i)    == IF Orphaned(i) THEN late \cup {i} ELSE late \ {i}

\* A create, an update or a resurrection.  The foreign key wants the parent's
\* row, and a tombstone will do.
Write(i) ==
  /\ Parent[i] # 0 => Exists(Parent[i])
  /\ \E t \in Stamps :
       /\ now' = t
       /\ rows' = [rows EXCEPT ![i] = [ver |-> @.ver + 1, at |-> t, dead |-> 0]]
  /\ late' = Noted(i) /\ due' = due + 1
  /\ UNCHANGED <<marker, known, queued, missed, device, pull, breaks>>

Tombstone(i, t) == [ver |-> rows[i].ver + 1, at |-> t, dead |-> t]
Children(i)     == {c \in Ids : Parent[c] = i /\ Exists(c)}

\* Mutant: a delete leaves the children live.
Brood_None(i) == {}

\* What a delete takes along.
Brood(i) == {c \in Children(i) : Live(c)}

\* A delete leaves a tombstone, and then one of each live child.  (A bound: the
\* last of its statements is a millisecond after the first at most.)
Delete(i) ==
  /\ Live(i)
  /\ \E t, u \in Stamps :
       /\ t <= u /\ (Brood(i) = {} => u = t) /\ now' = u
       /\ rows' = [c \in Ids |-> IF c = i THEN Tombstone(c, t)
                                 ELSE IF c \in Brood(i) THEN Tombstone(c, u) ELSE rows[c]]
  /\ late' = Noted(i) \ Children(i) /\ due' = due + 1
  /\ UNCHANGED <<marker, known, queued, missed, device, pull, breaks>>

\* The purge of a tombstone; the foreign keys take its children along, live or
\* dead.  (A bound: it does not overtake a pull whose cursor expires while the
\* pull runs, half a year against seconds.)
Purge(i) ==
  /\ Dead(i) /\ rows[i].dead < now - Retention
  /\ pull.pc = "idle" \/ pull.cursor = 0 \/ pull.cursor >= now - Retention
  /\ rows' = [c \in Ids |-> IF c = i \/ Parent[c] = i THEN [rows[c] EXCEPT !.at = 0] ELSE rows[c]]
  /\ late' = late \ {i}
  /\ UNCHANGED <<now, marker, known, due, queued, missed, device, pull, breaks>>

Tick ==
  /\ now < MaxTime /\ now' = now + 1
  /\ UNCHANGED <<rows, late, marker, known, due, queued, missed, device, pull, breaks>>

----------------------------------------------------------------------------
(* The watermark: after the response, the cache entry is dropped and the    *)
(* UPDATE joins the queue of the lock; nobody waits for it.                 *)

BumpDrop ==
  /\ due > 0
  /\ due' = due - 1 /\ queued' = queued + 1 /\ known' = {}
  /\ UNCHANGED <<now, rows, late, marker, missed, device, pull, breaks>>

BumpLands ==
  /\ queued > 0
  /\ queued' = queued - 1 /\ marker' = now /\ missed' = FALSE
  /\ UNCHANGED <<now, rows, late, known, due, device, pull, breaks>>

\* MARKER_TTL
Expire ==
  /\ known # {} /\ known' = {}
  /\ UNCHANGED <<now, rows, late, marker, due, queued, missed, device, pull, breaks>>

----------------------------------------------------------------------------
(* A pull.                                                                  *)

\* Mutant: no cursor is ever refused.
TooOld_Never(c) == FALSE

\* CURSOR_TOO_OLD
TooOld(c) == c # 0 /\ c < now - Retention

\* The fast path: nothing changed since the cursor.
Unchanged(m, c) == m # 0 /\ m <= c

Request(pc) == [NoPull EXCEPT !.pc = pc, !.cursor = device.cursor]

\* The device is told that its cursor is too old: it drops what it holds and
\* starts from nothing.
Refused ==
  /\ pull.pc = "idle" /\ TooOld(device.cursor)
  /\ device' = [cursor |-> 0, held |-> [i \in Ids |-> NoCopy]]
  /\ UNCHANGED <<now, rows, late, marker, known, due, queued, missed, pull, breaks>>

\* Without a cursor every row is wanted; with one the cached marker decides.
Ask ==
  /\ pull.pc = "idle" /\ ~TooOld(device.cursor)
  /\ \/ device.cursor = 0 /\ pull' = Request("upper")
     \/ device.cursor # 0 /\ known = {} /\ pull' = Request("marker")
     \/ /\ device.cursor # 0
        /\ \E m \in known : pull' = IF Unchanged(m, device.cursor) THEN pull ELSE Request("upper")
  /\ UNCHANGED <<now, rows, late, marker, known, due, queued, missed, device, breaks>>

\* firmWatermark on a miss.  Its place in the queue of the lock may be ahead
\* of a bump's UPDATE, and then what it caches is out of date.
ReadMarker ==
  /\ pull.pc = "marker"
  /\ known' = {marker}
  /\ pull' = IF Unchanged(marker, pull.cursor) THEN NoPull ELSE [pull EXCEPT !.pc = "upper"]
  /\ UNCHANGED <<now, rows, late, marker, due, queued, missed, device, breaks>>

ReadUpper ==
  /\ pull.pc = "upper"
  /\ pull' = [pull EXCEPT !.pc = "page", !.upper = now]
  /\ UNCHANGED <<now, rows, late, marker, known, due, queued, missed, device, breaks>>

\* The rows a page selects from, in the order updated_at, id.
Window(t)    == {i \in Ids : Home[i] = t /\ pull.cursor < rows[i].at /\ rows[i].at <= pull.upper}
Before(i, j) == rows[i].at < rows[j].at \/ (rows[i].at = rows[j].at /\ i < j)

Page(t)   == {i \in Window(t) : Cardinality({j \in Window(t) : Before(j, i)}) < Limit}
Newest(S) == Max({0} \cup {rows[i].at : i \in S})

Earlier(a, b) == IF a = 0 \/ b < a THEN b ELSE a

\* Table after table, then the answer.
After(t) == IF t = Tables THEN "answer" ELSE "page"

ReadPage ==
  LET t == pull.table
      cut == Page(t) # Window(t) IN
  /\ pull.pc = "page"
  /\ pull' = [pull EXCEPT
       !.got   = [i \in Ids |-> IF i \in Page(t) THEN Current(i) ELSE @[i]],
       !.top   = Max({@, Newest(Page(t))}),
       !.more  = @ \/ cut,
       !.floor = IF cut THEN Earlier(@, Newest(Page(t))) ELSE @,
       !.table = t + 1,
       !.pc    = After(t)]
  /\ UNCHANGED <<now, rows, late, marker, known, due, queued, missed, device, breaks>>

\* Mutant: the newest row of any table, cut or not.
NextCursor_Newest(p) == IF p.top # 0 THEN p.top ELSE p.upper

\* Mutant: a page that was cut leaves the cursor where it is.
NextCursor_Stays(p) ==
  IF p.more THEN p.cursor ELSE IF p.top # 0 THEN p.top ELSE p.upper

\* The newest row returned, or upper when there is none, and no later than
\* the first table that was cut.
NextCursor(p) ==
  LET newest == IF p.top # 0 THEN p.top ELSE p.upper IN
  IF p.floor # 0 /\ p.floor > p.cursor /\ p.floor < newest THEN p.floor ELSE newest

\* The device applies the changes, then stores the cursor.
Deliver ==
  /\ pull.pc = "answer"
  /\ device' = [cursor |-> NextCursor(pull),
                held |-> [i \in Ids |-> IF pull.got[i] # NoCopy THEN pull.got[i]
                                        ELSE device.held[i]]]
  /\ pull' = NoPull
  /\ UNCHANGED <<now, rows, late, marker, known, due, queued, missed, breaks>>

----------------------------------------------------------------------------
(* What may be lost.                                                        *)

\* The device gives up on a request, or its answer is lost.
LoseAnswer ==
  /\ breaks < MaxBreaks /\ breaks' = breaks + 1
  /\ pull.pc # "idle" /\ pull' = NoPull
  /\ UNCHANGED <<now, rows, late, marker, known, due, queued, missed, device>>

\* A bump that fails is not tried again.
BumpFails ==
  /\ breaks < MaxBreaks /\ breaks' = breaks + 1
  /\ queued > 0 /\ queued' = queued - 1 /\ missed' = TRUE
  /\ UNCHANGED <<now, rows, late, marker, known, due, device, pull>>

Restart ==
  /\ breaks < MaxBreaks /\ breaks' = breaks + 1
  /\ missed' = (missed \/ due + queued > 0)
  /\ due' = 0 /\ queued' = 0 /\ known' = {} /\ pull' = NoPull
  /\ UNCHANGED <<now, rows, late, marker, device>>

----------------------------------------------------------------------------
PullStep == Refused \/ Ask \/ ReadMarker \/ ReadUpper \/ ReadPage \/ Deliver

Next ==
  \/ \E i \in Ids : Write(i) \/ Delete(i) \/ Purge(i)
  \/ Tick
  \/ BumpDrop \/ BumpLands \/ Expire
  \/ PullStep
  \/ LoseAnswer \/ BumpFails \/ Restart

Spec == Init /\ [][Next]_vars

\* The device keeps pulling, the server answers, responses and bumps are
\* sent, and a cache entry runs out.
Fairness == WF_vars(PullStep) /\ WF_vars(BumpDrop) /\ WF_vars(BumpLands) /\ WF_vars(Expire)

----------------------------------------------------------------------------
(* What must not meet in one millisecond for the properties to hold.        *)

\* A write bears the millisecond of no other row of its table, of no bound up to
\* which a pull reads, and of no cursor that was handed out.
WritesApart ==
  \A i \in Ids : rows'[i].ver # rows[i].ver =>
    /\ \A j \in Ids \ {i} : Home[j] = Home[i] => rows'[j].at # rows'[i].at
    /\ pull.upper < rows'[i].at /\ device.cursor < rows'[i].at

----------------------------------------------------------------------------
(* Properties.                                                              *)

\* The cursor never passes a change the device has not seen: the device holds
\* the current version of every row up to its cursor, tombstones included,
\* whatever was written while the pages were read and wherever they were cut.
NothingSkipped ==
  \A i \in Ids : Exists(i) /\ rows[i].at <= device.cursor => device.held[i] = Current(i)

\* A device does not keep a row that is gone, or its next pull is refused and it
\* starts again: a delete tombstones the children that the purge of the parent
\* takes along.  Excepted is a row written under a parent that was a tombstone
\* already: the purge may take it live, and no device hears of that.
NoGhosts ==
  \A i \in Ids : device.held[i].ver # 0 /\ ~device.held[i].dead /\ ~Exists(i)
    => device.cursor < now - Retention \/ i \in late

InStep ==
  \A i \in Ids : IF Exists(i) THEN device.held[i] = Current(i)
                 ELSE device.held[i] = NoCopy \/ device.held[i].dead \/ i \in late

\* "A missed bump can delay a change.  It cannot lose one": a device that
\* keeps pulling ends up with what the server holds (but for the rows NoGhosts
\* excepts), unless the last bump was lost, or the server goes on refusing its
\* cursor.
CatchesUp == <>[](InStep \/ missed) \/ []<>TooOld(device.cursor)

\* "CURSOR_TOO_OLD, full resync recovers correctly": the server does not go
\* on refusing the cursors it hands out.
ResyncRecovers == <>[]~TooOld(device.cursor)
=============================================================================
