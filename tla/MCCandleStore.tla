---------------------------- MODULE MCCandleStore ----------------------------
(* Small instances of CandleStore for TLC. *)
EXTENDS CandleStore

\* No candle write and no read looks at data_status, skips or stamp (the properties use
\* stamp' only), so states that differ in them alone are explored once.
StoreView == <<conflicts, candles>>

=============================================================================
