----------------------------- MODULE MCArchiver -----------------------------
(* The archiver with one txn and one settings item, up to three versions *)
(* each, both Rotate callers, failed uploads and crashes.                 *)
EXTENDS Archiver

CONSTANTS t1, s1, loop, http

MCItems    == {t1, s1}
MCRotators == {loop, http}

=============================================================================
