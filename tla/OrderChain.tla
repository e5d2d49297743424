----------------------------- MODULE OrderChain -----------------------------
(***************************************************************************)
(* The decision chain signal -> proposal -> order and the positions that   *)
(* sell orders exit, as the SQLite schema of src/stonksbot/db.py holds it: *)
(* any writer may issue any INSERT, UPDATE or DELETE on the four tables    *)
(* and insert into audit_journal; CHECKs, foreign keys and triggers refuse *)
(* the rest.  One action is one SQL statement (SQLite runs it atomically;  *)
(* a rolled back transaction returns to a state already visited), on a     *)
(* connection as the first pragma of the DDL leaves it: foreign keys on    *)
(* and not deferred, recursive_triggers off.                               *)
(*                                                                         *)
(* The schema has one blind spot.  Its locks are UPDATE and DELETE         *)
(* triggers on columns, and two kinds of statement put another row under   *)
(* a key that is occupied, referenced or not, without firing any of them:  *)
(* INSERT OR REPLACE (UPDATE OR REPLACE), and one UPDATE of several keys.  *)
(* Overwritten is the set of tables in which writers issue such            *)
(* statements; what each promise needs of it is said where it is stated.   *)
(*                                                                         *)
(* A table is a function from its keys to rows, NoRow where the key is     *)
(* absent.  Columns no CHECK, key or trigger relates to another table      *)
(* (prices, timestamps, reasons) are left out.  "UPDATE OF c" fires here   *)
(* when c changes: naming an unchanged column can only refuse a statement  *)
(* that is otherwise allowed.                                              *)
(***************************************************************************)
EXTENDS Naturals, FiniteSets

CONSTANTS
    Instrument, Account,
    SignalId, ProposalId, PositionId, OrderId,
    Decision,        \* the signals.decision values in play
    ProposalState,   \* the proposals.state values in play
    OrderState,      \* the orders.state values in play
    Overwritten,     \* the tables where a statement may overwrite a row by key
    MaxLots,         \* bound on orders.lots and positions.qty
    MaxJournal,      \* bound on the keys audit_journal comes to reference
    NULL, NoRow

PositionState == {"open", "closed"}

SignalRow == [instrument_uid : Instrument, decision : Decision]

ProposalRow == [signal_id : SignalId, state : ProposalState]

PositionRow == [instrument_uid : Instrument, account_id : Account,
                qty : 1..MaxLots, state : PositionState]

OrderRow ==
    {r \in [side : {"buy", "sell"},
            proposal_id : ProposalId \cup {NULL},
            position_id : PositionId \cup {NULL},
            instrument_uid : Instrument, account_id : Account,
            lots : 1..MaxLots, state : OrderState] :
        \/ r.side = "buy" /\ r.proposal_id # NULL /\ r.position_id = NULL
        \/ r.side = "sell" /\ r.proposal_id = NULL /\ r.position_id # NULL}

Key == ProposalId \cup PositionId \cup OrderId

ASSUME VocabularyAssumption ==
    /\ Decision \subseteq {"candidate", "selected", "skipped", "risk_rejected"}
    /\ ProposalState \subseteq
         {"awaiting_confirmation", "confirmed", "rejected", "expired"}
    /\ OrderState \subseteq {"submitted", "partially_filled", "filled",
                             "cancel_requested", "cancelled", "reconcile_required"}
    /\ MaxLots \in Nat
    /\ MaxJournal \in Nat

ASSUME OverwrittenAssumption ==
    Overwritten \subseteq {"signals", "proposals", "positions", "orders", "audit_journal"}

ASSUME AbsenceAssumption ==
    /\ NULL \notin ProposalId \cup PositionId
    /\ NoRow \notin SignalRow \cup ProposalRow \cup PositionRow \cup OrderRow

ASSUME DistinctKeysAssumption ==
    /\ ProposalId \cap PositionId = {}
    /\ ProposalId \cap OrderId = {}
    /\ PositionId \cap OrderId = {}

VARIABLES signals, proposals, positions, orders,
          journal   \* the keys that some audit_journal row references

vars == <<signals, proposals, positions, orders, journal>>

-----------------------------------------------------------------------------
Rows(table) == {k \in DOMAIN table : table[k] # NoRow}

BuyOrders == {o \in Rows(orders) : orders[o].side = "buy"}

\* Sell orders carry a NULL proposal_id, so o.side = 'buy' is BuyOrders.
BuyOrderOnProposal(p) == \E o \in BuyOrders : orders[o].proposal_id = p

BuyOrderOnSignal(s) ==
    \E p \in Rows(proposals) : proposals[p].signal_id = s /\ BuyOrderOnProposal(p)

SelectedSignal(s) == s \in Rows(signals) /\ signals[s].decision = "selected"

ConfirmedSelectedProposal(p, i) ==
    /\ p \in Rows(proposals)
    /\ proposals[p].state = "confirmed"
    /\ SelectedSignal(proposals[p].signal_id)
    /\ signals[proposals[p].signal_id].instrument_uid = i

OpenMatchingPosition(r) ==
    /\ r.position_id \in Rows(positions)
    /\ LET q == positions[r.position_id]
       IN  /\ q.state = "open"
           /\ q.instrument_uid = r.instrument_uid
           /\ q.account_id = r.account_id
           /\ q.qty >= r.lots

OrderReferences(r) ==
    /\ r.proposal_id # NULL => r.proposal_id \in Rows(proposals)
    /\ r.position_id # NULL => r.position_id \in Rows(positions)

\* The key is free, or the statement is one that replaces the row it finds there.
Insertable(table, k, name) == table[k] = NoRow \/ name \in Overwritten

\* One UPDATE of keys: afterwards key k holds the row that was under src[k], or none.
\* A row disappears only when another one takes its key, and both that and a key that
\* passes from row to row are overwriting.
Rekeying(table, src, name) ==
    /\ \A j, k \in DOMAIN table : src[j] = src[k] => j = k \/ src[k] = NoRow
    /\ \A k \in Rows(table) :
         /\ src[k] = NoRow => \E j \in DOMAIN table : src[j] = k
         /\ src[k] \in {k, NoRow} \/ name \in Overwritten

Rekeyed(table, src) ==
    [k \in DOMAIN table |-> IF src[k] = NoRow THEN NoRow ELSE table[src[k]]]

-----------------------------------------------------------------------------
Init ==
    /\ signals = [s \in SignalId |-> NoRow]
    /\ proposals = [p \in ProposalId |-> NoRow]
    /\ positions = [q \in PositionId |-> NoRow]
    /\ orders = [o \in OrderId |-> NoRow]
    /\ journal = {}

InsertSignal(s, r) ==
    /\ Insertable(signals, s, "signals")
    /\ signals' = [signals EXCEPT ![s] = r]
    /\ UNCHANGED <<proposals, positions, orders, journal>>

\* Mutation: without signals_decision_locked_after_buy_order.
UpdateSignal_DecisionUnlocked(s, r) ==
    /\ s \in Rows(signals)
    /\ signals[s].instrument_uid # r.instrument_uid => ~BuyOrderOnSignal(s)
    /\ signals' = [signals EXCEPT ![s] = r]
    /\ UNCHANGED <<proposals, positions, orders, journal>>

\* Mutation: without signals_instrument_locked_after_buy_order.
UpdateSignal_InstrumentUnlocked(s, r) ==
    /\ s \in Rows(signals)
    /\ (signals[s].decision # r.decision /\ r.decision # "selected")
         => ~BuyOrderOnSignal(s)
    /\ signals' = [signals EXCEPT ![s] = r]
    /\ UNCHANGED <<proposals, positions, orders, journal>>

\* signals_decision_locked_after_buy_order, signals_instrument_locked_after_buy_order
UpdateSignal(s, r) ==
    /\ s \in Rows(signals)
    /\ (signals[s].decision # r.decision /\ r.decision # "selected")
         => ~BuyOrderOnSignal(s)
    /\ signals[s].instrument_uid # r.instrument_uid => ~BuyOrderOnSignal(s)
    /\ signals' = [signals EXCEPT ![s] = r]
    /\ UNCHANGED <<proposals, positions, orders, journal>>

\* Foreign key: proposals.signal_id.
RekeySignals(src) ==
    /\ Rekeying(signals, src, "signals")
    /\ \A p \in Rows(proposals) : src[proposals[p].signal_id] # NoRow
    /\ signals' = Rekeyed(signals, src)
    /\ UNCHANGED <<proposals, positions, orders, journal>>

DeleteSignal(s) ==
    /\ s \in Rows(signals)
    /\ \A p \in Rows(proposals) : proposals[p].signal_id # s
    /\ signals' = [signals EXCEPT ![s] = NoRow]
    /\ UNCHANGED <<proposals, positions, orders, journal>>

\* proposals_selected_signal_only
InsertProposal(p, r) ==
    /\ Insertable(proposals, p, "proposals")
    /\ SelectedSignal(r.signal_id)
    /\ proposals' = [proposals EXCEPT ![p] = r]
    /\ UNCHANGED <<signals, positions, orders, journal>>

\* Mutation: without proposals_signal_locked_after_buy_order.
UpdateProposal_SignalUnlocked(p, r) ==
    /\ p \in Rows(proposals)
    /\ proposals[p].signal_id # r.signal_id => SelectedSignal(r.signal_id)
    /\ (proposals[p].state # r.state /\ r.state # "confirmed")
         => ~BuyOrderOnProposal(p)
    /\ proposals' = [proposals EXCEPT ![p] = r]
    /\ UNCHANGED <<signals, positions, orders, journal>>

\* proposals_selected_signal_only_update, proposals_signal_locked_after_buy_order,
\* proposals_state_locked_after_buy_order
UpdateProposal(p, r) ==
    /\ p \in Rows(proposals)
    /\ proposals[p].signal_id # r.signal_id
         => SelectedSignal(r.signal_id) /\ ~BuyOrderOnProposal(p)
    /\ (proposals[p].state # r.state /\ r.state # "confirmed")
         => ~BuyOrderOnProposal(p)
    /\ proposals' = [proposals EXCEPT ![p] = r]
    /\ UNCHANGED <<signals, positions, orders, journal>>

\* Foreign keys: orders.proposal_id and audit_journal.proposal_id.
RekeyProposals(src) ==
    /\ Rekeying(proposals, src, "proposals")
    /\ \A p \in Rows(proposals) :
         (p \in journal \/ \E o \in Rows(orders) : orders[o].proposal_id = p)
           => src[p] # NoRow
    /\ proposals' = Rekeyed(proposals, src)
    /\ UNCHANGED <<signals, positions, orders, journal>>

\* Mutation: without the foreign key from orders.
DeleteProposal_OrdersUnchecked(p) ==
    /\ p \in Rows(proposals)
    /\ p \notin journal
    /\ proposals' = [proposals EXCEPT ![p] = NoRow]
    /\ UNCHANGED <<signals, positions, orders, journal>>

DeleteProposal(p) ==
    /\ p \in Rows(proposals)
    /\ \A o \in Rows(orders) : orders[o].proposal_id # p
    /\ p \notin journal
    /\ proposals' = [proposals EXCEPT ![p] = NoRow]
    /\ UNCHANGED <<signals, positions, orders, journal>>

InsertPosition(q, r) ==
    /\ Insertable(positions, q, "positions")
    /\ positions' = [positions EXCEPT ![q] = r]
    /\ UNCHANGED <<signals, proposals, orders, journal>>

\* No trigger watches positions: fills, closes and reconciliation rewrite it freely.
UpdatePosition(q, r) ==
    /\ q \in Rows(positions)
    /\ positions' = [positions EXCEPT ![q] = r]
    /\ UNCHANGED <<signals, proposals, orders, journal>>

\* Foreign keys: orders.position_id and audit_journal.position_id.
RekeyPositions(src) ==
    /\ Rekeying(positions, src, "positions")
    /\ \A q \in Rows(positions) :
         (q \in journal \/ \E o \in Rows(orders) : orders[o].position_id = q)
           => src[q] # NoRow
    /\ positions' = Rekeyed(positions, src)
    /\ UNCHANGED <<signals, proposals, orders, journal>>

\* Mutation: ON DELETE SET NULL instead of refusing.
DeletePosition_SetsNull(q) ==
    /\ q \in Rows(positions)
    /\ q \notin journal
    /\ positions' = [positions EXCEPT ![q] = NoRow]
    /\ orders' = [o \in OrderId |->
                    IF o \in Rows(orders) /\ orders[o].position_id = q
                    THEN [orders[o] EXCEPT !.position_id = NULL] ELSE orders[o]]
    /\ UNCHANGED <<signals, proposals, journal>>

DeletePosition(q) ==
    /\ q \in Rows(positions)
    /\ \A o \in Rows(orders) : orders[o].position_id # q
    /\ q \notin journal
    /\ positions' = [positions EXCEPT ![q] = NoRow]
    /\ UNCHANGED <<signals, proposals, orders, journal>>

\* orders_buy_requires_confirmed_selected_proposal,
\* orders_sell_requires_open_matching_position
InsertOrder(o, r) ==
    /\ Insertable(orders, o, "orders")
    /\ OrderReferences(r)
    /\ r.side = "buy" => ConfirmedSelectedProposal(r.proposal_id, r.instrument_uid)
    /\ r.side = "sell" => OpenMatchingPosition(r)
    /\ orders' = [orders EXCEPT ![o] = r]
    /\ UNCHANGED <<signals, proposals, positions, journal>>

BuyColumnsUpdated(old, new) ==
    <<old.side, old.proposal_id, old.instrument_uid>>
      # <<new.side, new.proposal_id, new.instrument_uid>>

SellColumnsUpdated(old, new) ==
    <<old.side, old.position_id, old.instrument_uid, old.account_id, old.lots>>
      # <<new.side, new.position_id, new.instrument_uid, new.account_id, new.lots>>

\* the two "_update" triggers on orders
UpdateOrder(o, r) ==
    /\ o \in Rows(orders)
    /\ OrderReferences(r)
    /\ (r.side = "buy" /\ BuyColumnsUpdated(orders[o], r))
         => ConfirmedSelectedProposal(r.proposal_id, r.instrument_uid)
    /\ (r.side = "sell" /\ SellColumnsUpdated(orders[o], r)) => OpenMatchingPosition(r)
    /\ orders' = [orders EXCEPT ![o] = r]
    /\ UNCHANGED <<signals, proposals, positions, journal>>

\* Foreign key: audit_journal.order_id.
RekeyOrders(src) ==
    /\ Rekeying(orders, src, "orders")
    /\ \A o \in Rows(orders) : o \in journal => src[o] # NoRow
    /\ orders' = Rekeyed(orders, src)
    /\ UNCHANGED <<signals, proposals, positions, journal>>

DeleteOrder(o) ==
    /\ o \in Rows(orders)
    /\ o \notin journal
    /\ orders' = [orders EXCEPT ![o] = NoRow]
    /\ UNCHANGED <<signals, proposals, positions, journal>>

\* An audit_journal row references rows that exist; triggers refuse to update or
\* delete it.
AppendJournal(k) ==
    /\ k \in Rows(proposals) \cup Rows(positions) \cup Rows(orders)
    /\ k \notin journal
    /\ Cardinality(journal) < MaxJournal
    /\ journal' = journal \cup {k}
    /\ UNCHANGED <<signals, proposals, positions, orders>>

\* The one row that references k is replaced by a row that references nothing: a
\* REPLACE fires no DELETE trigger.
ReplaceJournal(k) ==
    /\ "audit_journal" \in Overwritten
    /\ k \in journal
    /\ journal' = journal \ {k}
    /\ UNCHANGED <<signals, proposals, positions, orders>>

SignalStatement ==
    \/ \E s \in SignalId :
         \/ DeleteSignal(s)
         \/ \E r \in SignalRow : InsertSignal(s, r) \/ UpdateSignal(s, r)
    \/ \E src \in [SignalId -> Rows(signals) \cup {NoRow}] : RekeySignals(src)

ProposalStatement ==
    \/ \E p \in ProposalId :
         \/ DeleteProposal(p)
         \/ \E r \in ProposalRow : InsertProposal(p, r) \/ UpdateProposal(p, r)
    \/ \E src \in [ProposalId -> Rows(proposals) \cup {NoRow}] : RekeyProposals(src)

PositionStatement ==
    \/ \E q \in PositionId :
         \/ DeletePosition(q)
         \/ \E r \in PositionRow : InsertPosition(q, r) \/ UpdatePosition(q, r)
    \/ \E src \in [PositionId -> Rows(positions) \cup {NoRow}] : RekeyPositions(src)

OrderStatement ==
    \/ \E o \in OrderId :
         \/ DeleteOrder(o)
         \/ \E r \in OrderRow : InsertOrder(o, r) \/ UpdateOrder(o, r)
    \/ \E src \in [OrderId -> Rows(orders) \cup {NoRow}] : RekeyOrders(src)

Next ==
    \/ SignalStatement
    \/ ProposalStatement
    \/ PositionStatement
    \/ OrderStatement
    \/ \E k \in Key : AppendJournal(k) \/ ReplaceJournal(k)

Spec == Init /\ [][Next]_vars

-----------------------------------------------------------------------------
\* Every table holds rows its CHECKs admit, under its own keys.
TypeOK ==
    /\ signals \in [SignalId -> SignalRow \cup {NoRow}]
    /\ proposals \in [ProposalId -> ProposalRow \cup {NoRow}]
    /\ positions \in [PositionId -> PositionRow \cup {NoRow}]
    /\ orders \in [OrderId -> OrderRow \cup {NoRow}]
    /\ journal \subseteq Key

\* What the locks of the decision chain are worth: writers do not overwrite signals or
\* proposals by key.
DecisionsNotOverwritten == Overwritten \cap {"signals", "proposals"} = {}

\* Confirm-first entry (db-schema.md section 4): at all times, not only when it was
\* inserted, every buy order in the orders table rests on a confirmed proposal whose
\* signal is still selected and names the order's own instrument.  No trigger alone
\* gives this: the two on orders, the two on proposals, the two on signals and the
\* foreign keys each close one way around it.  It needs DecisionsNotOverwritten: with
\* INSERT OR REPLACE on signals, four statements refute it.
EntryChainSound ==
    \A o \in BuyOrders :
        ConfirmedSelectedProposal(orders[o].proposal_id, orders[o].instrument_uid)

\* Audit trail (db-schema.md section 4): whatever the journal references stays in its
\* table, and so does the whole chain under it, across any sequence of deletes,
\* replacements and changes of key: a kept order keeps its proposal, a proposal its
\* signal.  It holds whatever the writers overwrite.
ReferencesResolve ==
    /\ \A p \in Rows(proposals) : proposals[p].signal_id \in Rows(signals)
    /\ \A o \in Rows(orders) : OrderReferences(orders[o])
    /\ journal \subseteq Rows(proposals) \cup Rows(positions) \cup Rows(orders)

\* While a buy order stays on its proposal, the decision it was confirmed on is
\* frozen: the proposal keeps its signal and its state, the signal its decision and
\* instrument.  A swap to another selected signal of the same instrument would keep
\* EntryChainSound and still falsify the audit trail.  Needs DecisionsNotOverwritten.
ConfirmedDecisionFrozen ==
    [][\A o \in BuyOrders :
         LET p == orders[o].proposal_id
             s == proposals[p].signal_id
         IN  (o \in BuyOrders' /\ orders'[o].proposal_id = p)
               => /\ proposals'[p] = proposals[p]
                  /\ signals'[s] = signals[s]]_vars

\* A row, once the journal references it, is never deleted.  Needs the journal itself
\* not to be overwritten.
JournaledRowsKept ==
    [][journal \subseteq journal' /\
       \A k \in journal : k \in (Rows(proposals) \cup Rows(positions) \cup Rows(orders))']_vars

\* The schema implements the authority specification: buy orders are the entries, and
\* the authorities are the confirmed proposals with a selected signal.  Needs
\* DecisionsNotOverwritten.
Chain == INSTANCE EntryAuthority WITH
    authority <- {a \in [proposal : ProposalId, instrument : Instrument] :
                    ConfirmedSelectedProposal(a.proposal, a.instrument)},
    entries <- {[order |-> o, on |-> [proposal |-> orders[o].proposal_id,
                                     instrument |-> orders[o].instrument_uid]] :
                    o \in BuyOrders}

ImplementsAuthority == Chain!Spec

=============================================================================
