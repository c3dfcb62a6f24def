---------------------------- MODULE BackupImport ----------------------------
(***************************************************************************)
(* Restoring a backup over the vouchers of FreightSerials: importBackup's  *)
(* passes are transactions of their own, so every other request can run    *)
(* between them.  Of the file, its freight rows: id and serial.            *)
(***************************************************************************)
EXTENDS FreightSerials

CONSTANTS
  Chunk,     \* rows written per transaction (CHUNK, 500 in the code)
  MaxSerial  \* bound on the counter

ASSUME ImportConstants == Chunk \in Nat \ {0} /\ MaxSerial \in Nat

VARIABLES
  file,      \* the backup at hand, and in use while an import runs: id -> serial
  imp,       \* the import under way, or how the last one ended
  restored   \* history: an import has begun

backupVars == <<rows, counter, edits, file, imp, restored>>

ImportTypeOK ==
  /\ FreightTypeOK
  /\ DOMAIN file \subseteq Ids /\ \A i \in DOMAIN file : file[i] \in Nat
  /\ imp \in [pc : {"none", "write", "ensure", "done", "failed"},
              mode : {"merge", "replace"}, todo : SUBSET DOMAIN file, quiet : BOOLEAN]
  /\ restored \in BOOLEAN

Idle    == [pc |-> "none", mode |-> "merge", todo |-> {}, quiet |-> TRUE]
Running == imp.pc \in {"write", "ensure"}

\* buildPlan refuses a file in which a serial appears twice.
LegacyFiles ==
  {f \in UNION {[S -> 1..Cardinality(Ids)] : S \in SUBSET Ids} : IsInjective(f)}

BackupInit ==
  /\ FreightInit
  /\ file \in LegacyFiles
  /\ imp = Idle
  /\ restored = FALSE

\* GET export/backup: the live rows, read in one statement.  (A bound: the
\* user takes no new export while an import runs.)
Export ==
  /\ ~Running
  /\ file' = [i \in Live |-> rows[i].serial]
  /\ imp' = Idle
  /\ UNCHANGED <<rows, counter, edits, restored>>

\* mode=replace buries every live row in a transaction of its own; the
\* counter stays where it is.
ImportStart(mode) ==
  /\ ~Running
  /\ mode = "replace" => \A i \in Live : Room(i)
  /\ rows' = IF mode = "merge" THEN rows
             ELSE [i \in Ids |-> IF i \in Live THEN [Touched(rows[i]) EXCEPT !.state = "dead"]
                                 ELSE rows[i]]
  /\ imp' = [pc |-> IF DOMAIN file = {} THEN "ensure" ELSE "write", mode |-> mode,
             todo |-> DOMAIN file, quiet |-> TRUE]
  /\ restored' = TRUE
  /\ UNCHANGED <<counter, edits, file>>

\* Mutant: ON CONFLICT also sets serial=excluded.serial.
Upserted_Renumbers(r, s) ==
  IF r.state = "none" THEN Fresh(s) ELSE [r EXCEPT !.state = "live", !.serial = s, !.rev = @ + 1]

\* INSERT .. ON CONFLICT (firm_id, id) DO UPDATE: a row that exists, alive or
\* dead, keeps the serial it has.
Upserted(r, s) ==
  IF r.state = "none" THEN Fresh(s) ELSE [r EXCEPT !.state = "live", !.rev = @ + 1]

Written(S) == [i \in Ids |-> IF i \in S THEN Upserted(rows[i], file[i]) ELSE rows[i]]

Collides(tab) == \E i, j \in LiveIn(tab) : i # j /\ tab[i].serial = tab[j].serial

\* Mutant: only the first chunk is written.
ImportChunk_First ==
  /\ imp.pc = "write"
  /\ \E S \in SUBSET imp.todo :
       /\ Cardinality(S) = (IF Cardinality(imp.todo) < Chunk THEN Cardinality(imp.todo) ELSE Chunk)
       /\ \A i \in S : Room(i)
       /\ ~Collides(Written(S)) /\ rows' = Written(S)
       /\ imp' = [imp EXCEPT !.todo = {}, !.pc = "ensure"]
  /\ UNCHANGED <<counter, edits, file, restored>>

\* One chunk, one transaction; a collision on the index ends the import.
ImportChunk ==
  /\ imp.pc = "write"
  /\ \E S \in SUBSET imp.todo :
       /\ Cardinality(S) = (IF Cardinality(imp.todo) < Chunk THEN Cardinality(imp.todo) ELSE Chunk)
       /\ \A i \in S : Room(i)
       /\ IF Collides(Written(S))
          THEN imp' = [imp EXCEPT !.pc = "failed"] /\ UNCHANGED rows
          ELSE /\ rows' = Written(S)
               /\ imp' = [imp EXCEPT !.todo = @ \ S, !.pc = IF imp.todo = S THEN "ensure" ELSE @]
  /\ UNCHANGED <<counter, edits, file, restored>>

\* ensureSerialAtLeast, the last transaction of the import.
ImportEnsure ==
  /\ imp.pc = "ensure"
  /\ LET serials == {counter} \cup {file[i] : i \in DOMAIN file}
     IN  \E top \in serials : (\A n \in serials : n <= top) /\ counter' = top
  /\ imp' = [imp EXCEPT !.pc = "done"]
  /\ UNCHANGED <<rows, edits, file, restored>>

\* Another pass throws, or the process ends: what is committed stays.
ImportAbort ==
  /\ Running
  /\ imp' = [imp EXCEPT !.pc = "failed"]
  /\ UNCHANGED <<rows, counter, edits, file, restored>>

FreightStep ==
  /\ FreightNext /\ counter' <= MaxSerial
  /\ imp' = IF Running THEN [imp EXCEPT !.quiet = FALSE] ELSE Idle
  /\ UNCHANGED <<file, restored>>

BackupNext ==
  \/ FreightStep
  \/ Export
  \/ \E mode \in {"merge", "replace"} : ImportStart(mode)
  \/ ImportChunk
  \/ ImportEnsure
  \/ ImportAbort

BackupSpec == BackupInit /\ [][BackupNext]_backupVars

----------------------------------------------------------------------------
\* Until a backup is restored the live vouchers are numbered 1..N and the
\* counter stands at N (the comment on compactSerialsAfterDelete).
ContiguousUntilRestore == restored \/ Contiguous

\* Restoring a backup by merge never kills a live voucher and never changes
\* the number printed on it, whatever number the file gives it.
MergeKeepsNumbers ==
  [][(ImportStart("merge") \/ (imp.mode = "merge" /\ (ImportChunk \/ ImportEnsure)))
       => \A i \in Live : rows'[i].state = "live" /\ rows'[i].serial = rows[i].serial]_backupVars

\* An import that reported success left every row of its file alive, as long
\* as no other request ran since it began.
SuccessRestoresAll ==
  imp.pc = "done" /\ imp.quiet => DOMAIN file \subseteq Live

\* After an import that reported success the counter is ahead of every live
\* voucher ("keep the counter ahead of restored data", and the next create
\* takes a serial nobody holds).
CounterAhead ==
  imp.pc = "done" => \A i \in Live : rows[i].serial <= counter

=============================================================================
