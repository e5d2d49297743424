---------------------------- MODULE MCIndexIngest ----------------------------
(* Small instances of IndexIngest for TLC. *)
EXTENDS IndexIngest, TLC

\* No load, scan or read looks at data_status, skips or stamp: states that differ in them
\* alone are explored once.
IngestView == <<conflicts, candles, now, ghostVars>>

IngestSymmetry == Permutations(ConflictId)

=============================================================================
