------------------------------ MODULE MCSyncPull ------------------------------
(* Small instances of SyncPull: two tables, of two rows and of one.  In one    *)
(* scope a write takes the next millisecond, so that none shares its own; in   *)
(* the other it may take the present one where WritesApart allows.  `part'     *)
(* says which; a behaviour stays in it.                                        *)
EXTENDS SyncPull, TLC

VARIABLE part

TwoAndOne == (1 :> 1) @@ (2 :> 1) @@ (3 :> 2)
TwoInOne  == (1 :> 1) @@ (2 :> 1)

OneChild   == (1 :> 0) @@ (2 :> 0) @@ (3 :> 1)    \* a party, another, a route of the first
NoChildren == (1 :> 0) @@ (2 :> 0)

Versions == 2    \* a bound of the second scope: writes of one row
Latest   == 3    \* a bound of the second scope: its clock
Broken   == 4    \* a bound of the first: the clock once a connection was lost

PullInit == Init /\ part \in {"strict", "apart"}

PullNext ==
  /\ Next /\ WritesApart /\ UNCHANGED part
  /\ part = "strict" => (due' > due => now' > now) /\ (breaks' > 0 => now' <= Broken)
  /\ part = "apart" => breaks' = 0 /\ now' <= Latest /\ \A i \in Ids : rows'[i].ver <= Versions

\* Neither the scopes nor WritesApart hold up what Fairness is about.
PullSpec == PullInit /\ [][PullNext]_<<vars, part>> /\ Fairness
=============================================================================
