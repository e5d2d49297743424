------------------------------ MODULE MCRegistry ------------------------------
(* Small instances of Registry for TLC. *)
EXTENDS Registry, TLC

\* Two tickers with their synthetic uids, and one uid a caller may supply.
CONSTANTS t1, t2, share1, share2, index1, index2, opaque

MCTicker == {t1, t2}
MCUid == {share1, share2, index1, index2, opaque}
MCShareUid == t1 :> share1 @@ t2 :> share2
MCIndexUid == t1 :> index1 @@ t2 :> index2

=============================================================================
