--------------------------- MODULE MCBackupImport ---------------------------
(* Small instances of BackupImport: two or three vouchers, chunks of two. *)
EXTENDS BackupImport, TLC

Interchangeable == Permutations(Ids)
=============================================================================
