---------------------------- MODULE MCOrderChain ----------------------------
(* Small instances of OrderChain for TLC. *)
EXTENDS OrderChain, TLC

\* Keys of one table, instruments and accounts are only ever compared for equality.
ChainSymmetry ==
    Permutations(Instrument) \cup Permutations(Account) \cup Permutations(SignalId)
      \cup Permutations(ProposalId) \cup Permutations(OrderId)

=============================================================================
