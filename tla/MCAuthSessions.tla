--------------------------- MODULE MCAuthSessions ---------------------------
(***************************************************************************)
(* AuthSessions for TLC.  Two scopes share the run of overlapping          *)
(* requests, and `part' says which a behaviour is in: what fills and       *)
(* clears the cache, with two sessions at most, and what walks and rewrites*)
(* the rotation chain.  Two share the serial run: every operation, one     *)
(* request at a time, and those that insert or revoke sessions, where they *)
(* overlap as RefreshesApart and PasswordsApart allow.  A changePassword   *)
(* with a wrong password stands for every handler that writes nothing.     *)
(***************************************************************************)
EXTENDS AuthSessions

CONSTANTS u1, r1, r2

VARIABLE part

CacheOps == {"login", "access", "logoutAll", "revoke", "refresh"}
ChainOps == {"login", "refresh", "logout", "purge", "restart"}
OverlapOps == CacheOps \cup ChainOps
SerialOps == {"login", "logoutAll", "changePassword", "revoke",
              "refresh", "logout", "reset"}

OverlapInit == Init /\ part \in {"cache", "chain"}

OpsOf  == IF part = "cache" THEN CacheOps ELSE ChainOps
Few    == 2     \* a bound: sessions of the cache's scope

OverlapNext ==
  /\ \/ \E r \in Slots : 
          /\ Arrive(r) /\ req'[r].op \in OpsOf \cup {"none"}
          /\ part = "cache" => (Len(sess) + Cardinality(Creating')) <= Few
          /\ part = "cache" /\ req'[r].op = "login" => sess = <<>> /\ Creating = {}
     \/ \E r \in Slots : Continue(r)
     \/ "purge" \in OpsOf /\ Purge
     \/ "restart" \in OpsOf /\ Restart
     \/ Tick
  /\ UNCHANGED part

OverlapSpec ==
  /\ OverlapInit /\ [][OverlapNext]_<<vars, part>>
  /\ \A r \in Slots : WF_<<vars, part>>(Continue(r) /\ UNCHANGED part)

ApartOps == {"login", "refresh", "logout", "reset", "purge"}
OneOrApart == SerialOps \cup ApartOps

Early == 3    \* a bound: the clock of the serial scope

SerialInit == Init /\ part \in {"serial", "apart"}

SerialNext ==
  /\ \/ \E r \in Slots :
          /\ Arrive(r)
          /\ req'[r].op \in {"none"} \cup IF part = "serial" THEN SerialOps ELSE ApartOps
          /\ part = "serial" => r = r1
     \/ \E r \in Slots : Continue(r)
     \/ part = "apart" /\ Purge
     \/ Tick
  /\ part = "serial" => now' <= Early
  /\ part = "apart" => RefreshesApart' /\ PasswordsApart
  /\ UNCHANGED part

SerialSpec == SerialInit /\ [][SerialNext]_<<vars, part>>
=============================================================================
