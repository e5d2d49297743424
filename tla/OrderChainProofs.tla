-------------------------- MODULE OrderChainProofs --------------------------
(***************************************************************************)
(* Proofs about OrderChain for every set of keys, instruments, accounts    *)
(* and lots.  Two inductive invariants: RefInv, type correctness and the   *)
(* resolution of every reference, holds whatever the writers overwrite;    *)
(* ChainInv adds the soundness of every buy order's chain, which needs     *)
(* RefInv (without it a deleted signal or proposal could leave a buy order *)
(* resting on nothing) and writers that overwrite no signal and no         *)
(* proposal by key.                                                        *)
(***************************************************************************)
EXTENDS OrderChain, TLAPS

RefInv == TypeOK /\ ReferencesResolve

ChainInv == RefInv /\ EntryChainSound

\* The empty database satisfies the invariants.
LEMMA ChainInvInit == Init => ChainInv
  BY AbsenceAssumption
     DEF Init, ChainInv, RefInv, TypeOK, ReferencesResolve, EntryChainSound, Rows,
         BuyOrders

\* After a change of keys, a row that is there was there before, under src[k], and no
\* key that source names lacks a row.
LEMMA RekeyedRows ==
  ASSUME NEW table, NEW K, NEW R, table \in [K -> R \cup {NoRow}], NoRow \notin R,
         NEW src \in [K -> Rows(table) \cup {NoRow}]
  PROVE  /\ Rekeyed(table, src) \in [K -> R \cup {NoRow}]
         /\ \A k \in K : src[k] = NoRow => Rekeyed(table, src)[k] = NoRow
         /\ \A k \in K : src[k] # NoRow =>
              /\ src[k] \in K /\ table[src[k]] # NoRow
              /\ Rekeyed(table, src)[k] = table[src[k]]
         /\ Rows(Rekeyed(table, src)) = {k \in K : src[k] # NoRow}
  BY DEF Rekeyed, Rows

\* Where the writers overwrite nothing, a row that keeps its key is the row it was.
LEMMA RekeyingKeeps ==
  ASSUME NEW table, NEW K, DOMAIN table = K, NEW src \in [K -> Rows(table) \cup {NoRow}],
         NEW name, name \notin Overwritten, Rekeying(table, src, name),
         NEW k \in Rows(table), src[k] # NoRow
  PROVE  src[k] = k /\ Rekeyed(table, src)[k] = table[k]
  BY DEF Rekeying, Rekeyed, Rows

\* Each statement on signals keeps every reference: the foreign key of proposals.
LEMMA SignalStatementRefs ==
  ASSUME RefInv, SignalStatement
  PROVE  RefInv'
<1>1. UNCHANGED <<proposals, positions, orders, journal>>
  BY DEF SignalStatement, InsertSignal, UpdateSignal, RekeySignals, DeleteSignal
<1>2. /\ signals' \in [SignalId -> SignalRow \cup {NoRow}]
      /\ \A p \in Rows(proposals) : signals'[proposals[p].signal_id] # NoRow
  <2>1. \A p \in Rows(proposals) : /\ proposals[p].signal_id \in SignalId
                                   /\ signals[proposals[p].signal_id] # NoRow
    BY DEF RefInv, ReferencesResolve, TypeOK, Rows
  <2>2. CASE \E s \in SignalId :
               DeleteSignal(s) \/ \E r \in SignalRow : InsertSignal(s, r) \/ UpdateSignal(s, r)
    BY <2>1, <2>2, AbsenceAssumption
       DEF DeleteSignal, InsertSignal, UpdateSignal, RefInv, TypeOK
  <2>3. CASE \E src \in [SignalId -> Rows(signals) \cup {NoRow}] : RekeySignals(src)
    <3>1. PICK src \in [SignalId -> Rows(signals) \cup {NoRow}] : RekeySignals(src)
      BY <2>3
    <3> QED
      BY <2>1, <3>1, RekeyedRows, AbsenceAssumption DEF RekeySignals, RefInv, TypeOK
  <2> QED BY <2>2, <2>3 DEF SignalStatement
<1> QED
  BY <1>1, <1>2 DEF RefInv, TypeOK, ReferencesResolve, Rows, OrderReferences

\* Each statement on proposals keeps every reference: the trigger on insertion and the
\* foreign keys of orders and of the journal.
LEMMA ProposalStatementRefs ==
  ASSUME RefInv, ProposalStatement
  PROVE  RefInv'
<1> DEFINE Held(p) == p \in journal \/ \E o \in Rows(orders) : orders[o].proposal_id = p
<1>1. UNCHANGED <<signals, positions, orders, journal>>
  BY DEF ProposalStatement, InsertProposal, UpdateProposal, RekeyProposals, DeleteProposal
<1>2. /\ proposals' \in [ProposalId -> ProposalRow \cup {NoRow}]
      /\ \A p \in Rows(proposals) : Held(p) => proposals'[p] # NoRow
      /\ \A p \in ProposalId : proposals'[p] # NoRow =>
           \/ SelectedSignal(proposals'[p].signal_id)
           \/ \E x \in Rows(proposals) : proposals'[p].signal_id = proposals[x].signal_id
  <2>1. CASE \E p \in ProposalId : DeleteProposal(p)
    BY <2>1, AbsenceAssumption DEF DeleteProposal, RefInv, TypeOK, Rows
  <2>2. CASE \E p \in ProposalId, r \in ProposalRow : InsertProposal(p, r)
    BY <2>2, AbsenceAssumption DEF InsertProposal, RefInv, TypeOK, Rows
  <2>3. CASE \E p \in ProposalId, r \in ProposalRow : UpdateProposal(p, r)
    BY <2>3, AbsenceAssumption DEF UpdateProposal, RefInv, TypeOK, Rows
  <2>4. CASE \E src \in [ProposalId -> Rows(proposals) \cup {NoRow}] : RekeyProposals(src)
    <3>1. PICK src \in [ProposalId -> Rows(proposals) \cup {NoRow}] : RekeyProposals(src)
      BY <2>4
    <3>2. /\ proposals \in [ProposalId -> ProposalRow \cup {NoRow}]
          /\ NoRow \notin ProposalRow
          /\ proposals' = Rekeyed(proposals, src)
          /\ \A p \in Rows(proposals) : Held(p) => src[p] # NoRow
      BY <3>1, AbsenceAssumption DEF RekeyProposals, RefInv, TypeOK
    <3>3. /\ proposals' \in [ProposalId -> ProposalRow \cup {NoRow}]
          /\ \A p \in ProposalId : src[p] = NoRow => proposals'[p] = NoRow
          /\ \A p \in ProposalId : src[p] # NoRow =>
               /\ src[p] \in ProposalId /\ proposals[src[p]] # NoRow
               /\ proposals'[p] = proposals[src[p]]
      BY <3>2, RekeyedRows
    <3> QED BY <3>2, <3>3 DEF Rows
  <2> QED BY <2>1, <2>2, <2>3, <2>4 DEF ProposalStatement
<1>3. (\A x \in Rows(proposals) : proposals[x].signal_id \in Rows(signals))'
  BY <1>1, <1>2 DEF RefInv, ReferencesResolve, Rows, SelectedSignal
<1>4. (\A o \in Rows(orders) : OrderReferences(orders[o]))'
  BY <1>1, <1>2 DEF RefInv, TypeOK, ReferencesResolve, Rows, OrderReferences
<1>5. (journal \subseteq Rows(proposals) \cup Rows(positions) \cup Rows(orders))'
  BY <1>1, <1>2 DEF RefInv, TypeOK, ReferencesResolve, Rows
<1> QED BY <1>1, <1>2, <1>3, <1>4, <1>5 DEF RefInv, TypeOK, ReferencesResolve

\* No trigger watches positions; foreign keys keep the ones a sell order or the
\* journal names.
LEMMA PositionStatementRefs ==
  ASSUME RefInv, PositionStatement
  PROVE  RefInv'
<1> DEFINE Held(q) == q \in journal \/ \E o \in Rows(orders) : orders[o].position_id = q
<1>1. UNCHANGED <<signals, proposals, orders, journal>>
  BY DEF PositionStatement, InsertPosition, UpdatePosition, RekeyPositions, DeletePosition
<1>2. /\ positions' \in [PositionId -> PositionRow \cup {NoRow}]
      /\ \A q \in Rows(positions) : Held(q) => positions'[q] # NoRow
  <2>1. CASE \E q \in PositionId :
               \/ DeletePosition(q)
               \/ \E r \in PositionRow : InsertPosition(q, r) \/ UpdatePosition(q, r)
    BY <2>1, AbsenceAssumption
       DEF DeletePosition, InsertPosition, UpdatePosition, RefInv, TypeOK, Rows
  <2>2. CASE \E src \in [PositionId -> Rows(positions) \cup {NoRow}] : RekeyPositions(src)
    <3>1. PICK src \in [PositionId -> Rows(positions) \cup {NoRow}] : RekeyPositions(src)
      BY <2>2
    <3>2. /\ positions \in [PositionId -> PositionRow \cup {NoRow}]
          /\ NoRow \notin PositionRow
          /\ positions' = Rekeyed(positions, src)
          /\ \A q \in Rows(positions) : Held(q) => src[q] # NoRow
      BY <3>1, AbsenceAssumption DEF RekeyPositions, RefInv, TypeOK
    <3>3. /\ positions' \in [PositionId -> PositionRow \cup {NoRow}]
          /\ \A q \in PositionId : src[q] # NoRow =>
               positions[src[q]] # NoRow /\ positions'[q] = positions[src[q]]
      BY <3>2, RekeyedRows
    <3> QED BY <3>2, <3>3 DEF Rows
  <2> QED BY <2>1, <2>2 DEF PositionStatement
<1>3. (\A x \in Rows(proposals) : proposals[x].signal_id \in Rows(signals))'
  BY <1>1 DEF RefInv, ReferencesResolve, Rows
<1>4. (\A o \in Rows(orders) : OrderReferences(orders[o]))'
  BY <1>1, <1>2 DEF RefInv, TypeOK, ReferencesResolve, Rows, OrderReferences
<1>5. (journal \subseteq Rows(proposals) \cup Rows(positions) \cup Rows(orders))'
  BY <1>1, <1>2 DEF RefInv, TypeOK, ReferencesResolve, Rows
<1> QED BY <1>1, <1>2, <1>3, <1>4, <1>5 DEF RefInv, TypeOK, ReferencesResolve

\* Every order after a statement on orders was an order before it, perhaps under
\* another key, or satisfies the triggers on insertion.
LEMMA OrderStatementRows ==
  ASSUME RefInv, OrderStatement
  PROVE  /\ UNCHANGED <<signals, proposals, positions, journal>>
         /\ orders' \in [OrderId -> OrderRow \cup {NoRow}]
         /\ \A o \in journal \cap Rows(orders) : orders'[o] # NoRow
         /\ \A o \in OrderId : orders'[o] # NoRow => OrderReferences(orders'[o])
         /\ \A o \in OrderId : orders'[o] # NoRow /\ orders'[o].side = "buy" =>
              \/ ConfirmedSelectedProposal(orders'[o].proposal_id, orders'[o].instrument_uid)
              \/ \E x \in BuyOrders :
                   /\ orders'[o].proposal_id = orders[x].proposal_id
                   /\ orders'[o].instrument_uid = orders[x].instrument_uid
<1>1. UNCHANGED <<signals, proposals, positions, journal>>
  BY DEF OrderStatement, InsertOrder, UpdateOrder, RekeyOrders, DeleteOrder
<1>2. /\ orders \in [OrderId -> OrderRow \cup {NoRow}]
      /\ NoRow \notin OrderRow
      /\ \A o \in Rows(orders) : OrderReferences(orders[o])
  BY AbsenceAssumption DEF RefInv, TypeOK, ReferencesResolve
<1>3. CASE \E o \in OrderId :
             DeleteOrder(o) \/ \E r \in OrderRow : InsertOrder(o, r) \/ UpdateOrder(o, r)
  <2>1. PICK o \in OrderId, r \in OrderRow \cup {NoRow} :
          /\ orders' = [orders EXCEPT ![o] = r]
          /\ r = NoRow => o \notin journal
          /\ r # NoRow => OrderReferences(r)
          /\ r # NoRow /\ r.side = "buy" =>
               \/ ConfirmedSelectedProposal(r.proposal_id, r.instrument_uid)
               \/ /\ o \in BuyOrders
                  /\ r.proposal_id = orders[o].proposal_id
                  /\ r.instrument_uid = orders[o].instrument_uid
    BY <1>3, AbsenceAssumption
       DEF InsertOrder, UpdateOrder, DeleteOrder, Rows, BuyOrders, BuyColumnsUpdated
  <2>2. /\ orders' \in [OrderId -> OrderRow \cup {NoRow}]
        /\ orders'[o] = r
        /\ \A x \in OrderId \ {o} : orders'[x] = orders[x]
    BY <1>2, <2>1
  <2> QED BY <1>1, <1>2, <2>1, <2>2 DEF Rows, BuyOrders
<1>4. CASE \E src \in [OrderId -> Rows(orders) \cup {NoRow}] : RekeyOrders(src)
  <2>1. PICK src \in [OrderId -> Rows(orders) \cup {NoRow}] : RekeyOrders(src)
    BY <1>4
  <2>2. /\ orders' = Rekeyed(orders, src)
        /\ \A o \in Rows(orders) : o \in journal => src[o] # NoRow
    BY <2>1 DEF RekeyOrders
  <2>3. /\ orders' \in [OrderId -> OrderRow \cup {NoRow}]
        /\ \A o \in OrderId : src[o] = NoRow => orders'[o] = NoRow
        /\ \A o \in OrderId : src[o] # NoRow =>
             /\ src[o] \in OrderId /\ orders[src[o]] # NoRow
             /\ orders'[o] = orders[src[o]]
    BY <1>2, <2>2, RekeyedRows
  <2> QED BY <1>1, <1>2, <2>2, <2>3 DEF Rows, BuyOrders
<1> QED BY <1>3, <1>4 DEF OrderStatement

\* A statement on orders keeps every reference.
LEMMA OrderStatementRefs ==
  ASSUME RefInv, OrderStatement
  PROVE  RefInv'
<1>1. UNCHANGED <<signals, proposals, positions, journal>>
  BY OrderStatementRows
<1>2. (\A o \in Rows(orders) : OrderReferences(orders[o]))'
  BY OrderStatementRows DEF Rows, OrderReferences
<1>3. (journal \subseteq Rows(proposals) \cup Rows(positions) \cup Rows(orders))'
  BY OrderStatementRows DEF RefInv, TypeOK, ReferencesResolve, Rows
<1>4. (\A x \in Rows(proposals) : proposals[x].signal_id \in Rows(signals))'
  BY <1>1 DEF RefInv, ReferencesResolve, Rows
<1> QED
  BY <1>1, <1>2, <1>3, <1>4, OrderStatementRows DEF RefInv, TypeOK, ReferencesResolve

\* An appended journal row references a row that exists, and a replaced one drops
\* references only.
LEMMA JournalRefs ==
  ASSUME RefInv, NEW k \in Key, AppendJournal(k) \/ ReplaceJournal(k)
  PROVE  RefInv'
  BY DEF RefInv, TypeOK, AppendJournal, ReplaceJournal, ReferencesResolve,
         OrderReferences, Rows

\* RefInv is inductive, whatever the writers overwrite.
LEMMA RefInvStep == RefInv /\ [Next]_vars => RefInv'
<1>1. ASSUME RefInv, Next PROVE RefInv'
  BY <1>1, SignalStatementRefs, ProposalStatementRefs, PositionStatementRefs,
     OrderStatementRefs, JournalRefs DEF Next
<1>2. ASSUME RefInv, UNCHANGED vars PROVE RefInv'
  BY <1>2 DEF RefInv, vars, TypeOK, ReferencesResolve, OrderReferences, Rows
<1> QED BY <1>1, <1>2

\* RefInv holds in every reachable state.
LEMMA RefInvariant == Spec => []RefInv
<1>1. Init => RefInv
  BY ChainInvInit DEF ChainInv
<1> QED BY <1>1, RefInvStep, PTL DEF Spec

-----------------------------------------------------------------------------
\* Where signals are not overwritten, a statement on signals leaves the row of every
\* signal under a buy order as it is, once it is selected: the two signal locks and the
\* foreign key of proposals.
LEMMA SignalUnderOrderKept ==
  ASSUME DecisionsNotOverwritten, RefInv, SignalStatement,
         NEW s \in Rows(signals), BuyOrderOnSignal(s), signals[s].decision = "selected"
  PROVE  signals'[s] = signals[s]
<1>1. /\ signals \in [SignalId -> SignalRow \cup {NoRow}] /\ s \in SignalId
      /\ signals[s] \in SignalRow
      /\ \E p \in Rows(proposals) : proposals[p].signal_id = s
      /\ "signals" \notin Overwritten
  BY DEF RefInv, TypeOK, Rows, BuyOrderOnSignal, DecisionsNotOverwritten
<1>2. ASSUME NEW t \in SignalId, DeleteSignal(t) PROVE signals'[s] = signals[s]
  BY <1>1, <1>2 DEF DeleteSignal
<1>3. ASSUME NEW t \in SignalId, NEW r \in SignalRow, InsertSignal(t, r)
      PROVE  signals'[s] = signals[s]
  BY <1>1, <1>3 DEF InsertSignal, Insertable, Rows
<1>4. ASSUME NEW t \in SignalId, NEW r \in SignalRow, UpdateSignal(t, r)
      PROVE  signals'[s] = signals[s]
  <2>1. CASE t = s
    <3>1. r.decision = signals[s].decision /\ r.instrument_uid = signals[s].instrument_uid
      BY <1>4, <2>1 DEF UpdateSignal
    <3>2. r = signals[s]
      BY <1>1, <3>1 DEF SignalRow
    <3> QED BY <1>1, <1>4, <2>1, <3>2 DEF UpdateSignal
  <2>2. CASE t # s
    BY <1>1, <1>4, <2>2 DEF UpdateSignal
  <2> QED BY <2>1, <2>2
<1>5. ASSUME NEW src \in [SignalId -> Rows(signals) \cup {NoRow}], RekeySignals(src)
      PROVE  signals'[s] = signals[s]
  BY <1>1, <1>5, RekeyingKeeps DEF RekeySignals
<1> QED BY <1>2, <1>3, <1>4, <1>5 DEF SignalStatement

\* Where proposals are not overwritten, a statement on proposals leaves the row of every
\* confirmed proposal under a buy order as it is: the two proposal locks and the foreign
\* keys.
LEMMA ProposalUnderOrderKept ==
  ASSUME DecisionsNotOverwritten, RefInv, ProposalStatement,
         NEW p \in Rows(proposals), BuyOrderOnProposal(p), proposals[p].state = "confirmed"
  PROVE  proposals'[p] = proposals[p]
<1>1. /\ proposals \in [ProposalId -> ProposalRow \cup {NoRow}] /\ p \in ProposalId
      /\ proposals[p] \in ProposalRow
      /\ \E o \in Rows(orders) : orders[o].proposal_id = p
      /\ "proposals" \notin Overwritten
  BY DEF RefInv, TypeOK, Rows, BuyOrderOnProposal, BuyOrders, DecisionsNotOverwritten
<1>2. ASSUME NEW t \in ProposalId, DeleteProposal(t) PROVE proposals'[p] = proposals[p]
  BY <1>1, <1>2 DEF DeleteProposal
<1>3. ASSUME NEW t \in ProposalId, NEW r \in ProposalRow, InsertProposal(t, r)
      PROVE  proposals'[p] = proposals[p]
  BY <1>1, <1>3 DEF InsertProposal, Insertable, Rows
<1>4. ASSUME NEW t \in ProposalId, NEW r \in ProposalRow, UpdateProposal(t, r)
      PROVE  proposals'[p] = proposals[p]
  <2>1. CASE t = p
    <3>1. r.state = proposals[p].state /\ r.signal_id = proposals[p].signal_id
      BY <1>4, <2>1 DEF UpdateProposal
    <3>2. r = proposals[p]
      BY <1>1, <3>1 DEF ProposalRow
    <3> QED BY <1>1, <1>4, <2>1, <3>2 DEF UpdateProposal
  <2>2. CASE t # p
    BY <1>1, <1>4, <2>2 DEF UpdateProposal
  <2> QED BY <2>1, <2>2
<1>5. ASSUME NEW src \in [ProposalId -> Rows(proposals) \cup {NoRow}], RekeyProposals(src)
      PROVE  proposals'[p] = proposals[p]
  BY <1>1, <1>5, RekeyingKeeps DEF RekeyProposals
<1> QED BY <1>2, <1>3, <1>4, <1>5 DEF ProposalStatement

\* What a sound chain says of the rows under a buy order.
LEMMA UnderBuyOrder ==
  ASSUME ChainInv, NEW o \in BuyOrders
  PROVE  LET p == orders[o].proposal_id
             s == proposals[p].signal_id
         IN  /\ p \in Rows(proposals) /\ s \in Rows(signals)
             /\ BuyOrderOnProposal(p) /\ BuyOrderOnSignal(s)
             /\ proposals[p].state = "confirmed" /\ signals[s].decision = "selected"
             /\ signals[s].instrument_uid = orders[o].instrument_uid
  BY DEF ChainInv, EntryChainSound, ConfirmedSelectedProposal, SelectedSignal,
         BuyOrderOnProposal, BuyOrderOnSignal

\* While a buy order rests on a proposal, no statement changes that proposal's row or
\* its signal's row.
LEMMA DecisionKept ==
  ASSUME DecisionsNotOverwritten, ChainInv, Next, NEW o \in BuyOrders
  PROVE  LET p == orders[o].proposal_id
             s == proposals[p].signal_id
         IN  proposals'[p] = proposals[p] /\ signals'[s] = signals[s]
<1> DEFINE p == orders[o].proposal_id
           s == proposals[p].signal_id
<1>1. CASE SignalStatement
  <2>1. signals'[s] = signals[s]
    BY <1>1, UnderBuyOrder, SignalUnderOrderKept DEF ChainInv
  <2>2. proposals' = proposals
    BY <1>1 DEF SignalStatement, InsertSignal, UpdateSignal, RekeySignals, DeleteSignal
  <2> QED BY <2>1, <2>2
<1>2. CASE ProposalStatement
  <2>1. proposals'[p] = proposals[p]
    BY <1>2, UnderBuyOrder, ProposalUnderOrderKept DEF ChainInv
  <2>2. signals' = signals
    BY <1>2 DEF ProposalStatement, InsertProposal, UpdateProposal, RekeyProposals,
       DeleteProposal
  <2> QED BY <2>1, <2>2
<1>3. CASE PositionStatement \/ OrderStatement
           \/ \E k \in Key : AppendJournal(k) \/ ReplaceJournal(k)
  BY <1>3 DEF PositionStatement, InsertPosition, UpdatePosition, RekeyPositions,
     DeletePosition, OrderStatement, InsertOrder, UpdateOrder, RekeyOrders, DeleteOrder,
     AppendJournal, ReplaceJournal
<1> QED BY <1>1, <1>2, <1>3 DEF Next

\* ChainInv is inductive: a statement on orders admits a buy order only on a chain that
\* already stands, and no other statement touches a chain a buy order rests on.
LEMMA ChainInvStep ==
  ASSUME DecisionsNotOverwritten
  PROVE  ChainInv /\ [Next]_vars => ChainInv'
<1>1. ASSUME ChainInv, OrderStatement PROVE EntryChainSound'
  <2>1. UNCHANGED <<signals, proposals>>
    BY <1>1, OrderStatementRows DEF ChainInv
  <2>2. ASSUME NEW o \in OrderId, orders'[o] # NoRow, orders'[o].side = "buy"
        PROVE  ConfirmedSelectedProposal(orders'[o].proposal_id, orders'[o].instrument_uid)
    BY <1>1, <2>2, OrderStatementRows DEF ChainInv, EntryChainSound
  <2>3. orders' \in [OrderId -> OrderRow \cup {NoRow}]
    BY <1>1, OrderStatementRows DEF ChainInv
  <2> QED
    BY <2>1, <2>2, <2>3
       DEF EntryChainSound, ConfirmedSelectedProposal, SelectedSignal, BuyOrders, Rows
<1>2. ASSUME ChainInv, RefInv', Next, UNCHANGED orders PROVE EntryChainSound'
  <2>1. SUFFICES ASSUME NEW o \in BuyOrders
                 PROVE  ConfirmedSelectedProposal(orders[o].proposal_id,
                                                  orders[o].instrument_uid)'
    BY <1>2 DEF EntryChainSound, BuyOrders, Rows
  <2> DEFINE p == orders[o].proposal_id
             s == proposals[p].signal_id
  <2>2. proposals'[p] = proposals[p] /\ signals'[s] = signals[s]
    BY <1>2, DecisionKept
  <2>3. /\ p \in Rows(proposals) /\ s \in Rows(signals)
        /\ proposals[p].state = "confirmed" /\ signals[s].decision = "selected"
        /\ signals[s].instrument_uid = orders[o].instrument_uid
    BY <1>2, UnderBuyOrder
  <2>4. p \in DOMAIN proposals' /\ s \in DOMAIN signals'
    BY <1>2, <2>3 DEF ChainInv, RefInv, TypeOK, Rows
  <2> QED
    BY <1>2, <2>2, <2>3, <2>4 DEF ConfirmedSelectedProposal, SelectedSignal, Rows
<1>3. ASSUME ChainInv, Next PROVE OrderStatement \/ UNCHANGED orders
  BY <1>3 DEF Next, SignalStatement, InsertSignal, UpdateSignal, RekeySignals,
     DeleteSignal, ProposalStatement, InsertProposal, UpdateProposal, RekeyProposals,
     DeleteProposal, PositionStatement, InsertPosition, UpdatePosition, RekeyPositions,
     DeletePosition, AppendJournal, ReplaceJournal
<1>4. ASSUME ChainInv, UNCHANGED vars PROVE EntryChainSound'
  BY <1>4 DEF ChainInv, vars, EntryChainSound, ConfirmedSelectedProposal, SelectedSignal,
         BuyOrders, Rows
<1>5. ChainInv /\ [Next]_vars => RefInv'
  BY RefInvStep DEF ChainInv
<1> QED BY <1>1, <1>2, <1>3, <1>4, <1>5 DEF ChainInv

\* Where writers overwrite no signal and no proposal, ChainInv holds in every
\* reachable state.
LEMMA ChainInvariant ==
  ASSUME DecisionsNotOverwritten
  PROVE  Spec => []ChainInv
  BY ChainInvInit, ChainInvStep, PTL DEF Spec

\* Every table always holds rows its CHECKs admit, whatever the writers overwrite.
THEOREM TypeCorrect == Spec => []TypeOK
<1>1. RefInv => TypeOK
  BY DEF RefInv
<1> QED BY <1>1, RefInvariant, PTL

\* No reference ever dangles, the audit journal's included, whatever the writers
\* overwrite.
THEOREM ReferencesAlwaysResolve == Spec => []ReferencesResolve
<1>1. RefInv => ReferencesResolve
  BY DEF RefInv
<1> QED BY <1>1, RefInvariant, PTL

\* Confirm-first entry holds at all times, for any writer that overwrites no signal
\* and no proposal by key.
THEOREM EntryChainAlwaysSound ==
  ASSUME DecisionsNotOverwritten
  PROVE  Spec => []EntryChainSound
<1>1. ChainInv => EntryChainSound
  BY DEF ChainInv
<1> QED BY <1>1, ChainInvariant, PTL

-----------------------------------------------------------------------------
\* While a buy order rests on a proposal, no statement changes that proposal's row or
\* its signal's row, when neither table is overwritten by key: the locks, not the order
\* of the writers, freeze the decision.
THEOREM ConfirmedDecisionAlwaysFrozen ==
  ASSUME DecisionsNotOverwritten
  PROVE  Spec => ConfirmedDecisionFrozen
<1> DEFINE Frozen == \A o \in BuyOrders :
                       LET p == orders[o].proposal_id
                           s == proposals[p].signal_id
                       IN  (o \in BuyOrders' /\ orders'[o].proposal_id = p)
                             => /\ proposals'[p] = proposals[p]
                                /\ signals'[s] = signals[s]
<1>1. ChainInv /\ [Next]_vars => [Frozen]_vars
  BY DecisionKept
<1> QED BY <1>1, ChainInvariant, PTL DEF Spec, ConfirmedDecisionFrozen

\* While no writer replaces a journal row, the journal only grows, and what it
\* references is never deleted, whatever else the writers overwrite.
THEOREM JournaledRowsAlwaysKept ==
  ASSUME "audit_journal" \notin Overwritten
  PROVE  Spec => JournaledRowsKept
<1> DEFINE Kept == /\ journal \subseteq journal'
                   /\ \A k \in journal :
                        k \in (Rows(proposals) \cup Rows(positions) \cup Rows(orders))'
<1>1. RefInv /\ Next => journal \subseteq journal'
  BY DEF Next, SignalStatement, InsertSignal, UpdateSignal, RekeySignals, DeleteSignal,
     ProposalStatement, InsertProposal, UpdateProposal, RekeyProposals, DeleteProposal,
     PositionStatement, InsertPosition, UpdatePosition, RekeyPositions, DeletePosition,
     OrderStatement, InsertOrder, UpdateOrder, RekeyOrders, DeleteOrder,
     AppendJournal, ReplaceJournal
<1>2. RefInv /\ Next => Kept
  BY <1>1, RefInvStep DEF RefInv, ReferencesResolve
<1>3. RefInv /\ [Next]_vars => [Kept]_vars
  BY <1>2
<1> QED BY <1>3, RefInvariant, PTL DEF Spec, JournaledRowsKept

-----------------------------------------------------------------------------
(* The schema implements EntryAuthority under the mapping of Chain. *)

\* The tables start without authorities and without entries.
LEMMA ChainInitRefines == Init => Chain!Init
  BY DEF Init, Chain!Init, Rows, BuyOrders, ConfirmedSelectedProposal

\* A statement that leaves orders alone reconsiders the authorities, and the invariant
\* keeps every one an entry rests on.
LEMMA ReconsiderRefines ==
  ASSUME ChainInv, ChainInv', UNCHANGED orders
  PROVE  Chain!Reconsider
<1>1. BuyOrders' = BuyOrders
  BY DEF BuyOrders, Rows
<1>2. \A o \in BuyOrders : /\ orders[o].proposal_id \in ProposalId
                           /\ orders[o].instrument_uid \in Instrument
  BY AbsenceAssumption DEF ChainInv, RefInv, TypeOK, BuyOrders, Rows, OrderRow
<1>3. \A o \in BuyOrders :
        ConfirmedSelectedProposal(orders[o].proposal_id, orders[o].instrument_uid)'
  BY <1>1 DEF ChainInv, EntryChainSound
<1> QED BY <1>1, <1>2, <1>3 DEF Chain!Reconsider, Chain!RestedOn, Chain!Authority

\* A statement on one order enters on an authority that already stands, or withdraws.
LEMMA OneOrderRefines ==
  ASSUME ChainInv, NEW o \in OrderId,
         DeleteOrder(o) \/ \E r \in OrderRow : InsertOrder(o, r) \/ UpdateOrder(o, r)
  PROVE  Chain!Next
<1>1. PICK r \in OrderRow \cup {NoRow} :
        /\ orders' = [orders EXCEPT ![o] = r]
        /\ UNCHANGED <<signals, proposals, positions, journal>>
        /\ r # NoRow /\ r.side = "buy" =>
             \/ ConfirmedSelectedProposal(r.proposal_id, r.instrument_uid)
             \/ /\ o \in BuyOrders
                /\ r.proposal_id = orders[o].proposal_id
                /\ r.instrument_uid = orders[o].instrument_uid
  BY AbsenceAssumption
     DEF InsertOrder, UpdateOrder, DeleteOrder, Rows, BuyOrders, BuyColumnsUpdated
<1> DEFINE Entries == {[order |-> x, on |-> [proposal |-> orders[x].proposal_id,
                                            instrument |-> orders[x].instrument_uid]] :
                          x \in BuyOrders}
           Auth == {a \in [proposal : ProposalId, instrument : Instrument] :
                      ConfirmedSelectedProposal(a.proposal, a.instrument)}
<1>2. Auth' = Auth
  BY <1>1 DEF ConfirmedSelectedProposal, SelectedSignal, Rows
<1>3. orders \in [OrderId -> OrderRow \cup {NoRow}]
  BY DEF ChainInv, RefInv, TypeOK
<1>4. CASE r # NoRow /\ r.side = "buy"
  <2> DEFINE a == [proposal |-> r.proposal_id, instrument |-> r.instrument_uid]
  <2>1. ConfirmedSelectedProposal(r.proposal_id, r.instrument_uid)
    BY <1>1, <1>4 DEF ChainInv, EntryChainSound
  <2>2. r.proposal_id \in ProposalId /\ r.instrument_uid \in Instrument
    BY <1>4 DEF OrderRow
  <2>3. a \in Auth
    BY <2>1, <2>2
  <2>4. BuyOrders' = BuyOrders \cup {o}
    BY <1>1, <1>3, <1>4 DEF BuyOrders, Rows
  <2>5. Entries' = {e \in Entries : e.order # o} \cup {[order |-> o, on |-> a]}
    BY <1>1, <1>3, <2>4 DEF BuyOrders, Rows
  <2>6. Chain!Enter(o, a)
    BY <1>2, <2>3, <2>5 DEF Chain!Enter
  <2> QED BY <2>2, <2>6 DEF Chain!Next, Chain!Authority
<1>5. CASE ~(r # NoRow /\ r.side = "buy")
  <2>1. BuyOrders' = BuyOrders \ {o}
    BY <1>1, <1>3, <1>5 DEF BuyOrders, Rows
  <2>2. Entries' = {e \in Entries : e.order # o}
    BY <1>1, <1>3, <2>1 DEF BuyOrders, Rows
  <2>3. Chain!Withdraw(o)
    BY <1>2, <2>2 DEF Chain!Withdraw
  <2> QED BY <2>3 DEF Chain!Next
<1> QED BY <1>4, <1>5

\* A change of order keys renames the entries.
LEMMA RekeyOrdersRefines ==
  ASSUME ChainInv, NEW src \in [OrderId -> Rows(orders) \cup {NoRow}], RekeyOrders(src)
  PROVE  Chain!Next
<1> DEFINE Entries == {[order |-> x, on |-> [proposal |-> orders[x].proposal_id,
                                            instrument |-> orders[x].instrument_uid]] :
                          x \in BuyOrders}
           Auth == {a \in [proposal : ProposalId, instrument : Instrument] :
                      ConfirmedSelectedProposal(a.proposal, a.instrument)}
<1>1. /\ orders' = Rekeyed(orders, src)
      /\ UNCHANGED <<signals, proposals, positions, journal>>
  BY DEF RekeyOrders
<1>2. Auth' = Auth
  BY <1>1 DEF ConfirmedSelectedProposal, SelectedSignal, Rows
<1>3. orders \in [OrderId -> OrderRow \cup {NoRow}] /\ NoRow \notin OrderRow
  BY AbsenceAssumption DEF ChainInv, RefInv, TypeOK
<1>4. /\ orders' \in [OrderId -> OrderRow \cup {NoRow}]
      /\ \A x \in OrderId : src[x] = NoRow => orders'[x] = NoRow
      /\ \A x \in OrderId : src[x] # NoRow =>
           src[x] \in OrderId /\ orders[src[x]] # NoRow /\ orders'[x] = orders[src[x]]
  BY <1>1, <1>3, RekeyedRows
<1>5. \A x \in BuyOrders' : /\ x \in OrderId /\ src[x] \in BuyOrders
                            /\ orders'[x] = orders[src[x]]
  BY <1>4 DEF BuyOrders, Rows
<1>6. \A x \in BuyOrders : /\ orders[x].proposal_id \in ProposalId
                           /\ orders[x].instrument_uid \in Instrument
  BY <1>3 DEF BuyOrders, Rows, OrderRow
<1>7. ASSUME NEW e \in Entries'
      PROVE  /\ e \in Chain!Entry
             /\ \E d \in Entries : e.on = d.on
  <2>1. PICK x \in BuyOrders' :
          e = [order |-> x, on |-> [proposal |-> orders'[x].proposal_id,
                                   instrument |-> orders'[x].instrument_uid]]
    BY <1>7
  <2> DEFINE d == [order |-> src[x], on |-> [proposal |-> orders[src[x]].proposal_id,
                                            instrument |-> orders[src[x]].instrument_uid]]
  <2>2. x \in OrderId /\ src[x] \in BuyOrders /\ orders'[x] = orders[src[x]]
    BY <1>5
  <2>3. d \in Entries
    BY <2>2
  <2>4. e = [order |-> x, on |-> d.on]
    BY <2>1, <2>2
  <2>5. d.on \in Chain!Authority
    BY <1>6, <2>2 DEF Chain!Authority
  <2>6. e \in Chain!Entry /\ e.on = d.on
    BY <2>2, <2>4, <2>5 DEF Chain!Entry
  <2> QED BY <2>3, <2>6
<1>8. \A d, e \in Entries' : d.order = e.order => d = e
  OBVIOUS
<1>9. Chain!Rename
  BY <1>2, <1>7, <1>8 DEF Chain!Rename, Chain!RestedOn
<1> QED BY <1>9 DEF Chain!Next

\* Confirm-first entry, as a refinement: every behaviour of the schema under writers
\* that overwrite no signal and no proposal is one of the authority specification.
THEOREM ChainImplementsAuthority ==
  ASSUME DecisionsNotOverwritten
  PROVE  Spec => ImplementsAuthority
<1>1. ChainInv /\ ChainInv' /\ [Next]_vars => [Chain!Next]_(Chain!avars)
  <2> SUFFICES ASSUME ChainInv, ChainInv', [Next]_vars PROVE Chain!Next
    OBVIOUS
  <2>1. CASE OrderStatement
    BY <2>1, OneOrderRefines, RekeyOrdersRefines DEF OrderStatement
  <2>2. CASE UNCHANGED orders
    BY <2>2, ReconsiderRefines DEF Chain!Next
  <2> QED
    BY <2>1, <2>2 DEF Next, vars, SignalStatement, InsertSignal, UpdateSignal,
       RekeySignals, DeleteSignal, ProposalStatement, InsertProposal, UpdateProposal,
       RekeyProposals, DeleteProposal, PositionStatement, InsertPosition, UpdatePosition,
       RekeyPositions, DeletePosition, AppendJournal, ReplaceJournal
<1> QED
  BY <1>1, ChainInitRefines, ChainInvariant, PTL
     DEF Spec, ImplementsAuthority, Chain!Spec

=============================================================================
