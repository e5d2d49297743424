--------------------------- MODULE MCConflictGate ---------------------------
(* Small instances of ConflictGate for TLC. *)
EXTENDS ConflictGate, TLC

GateSymmetry == Permutations(Instrument) \cup Permutations(ConflictId)

=============================================================================
