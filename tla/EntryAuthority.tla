--------------------------- MODULE EntryAuthority ---------------------------
(***************************************************************************)
(* What the decision chain of db.py promises, free of tables and triggers: *)
(* an entry (buy) order rests on an authority, a pair of a proposal and    *)
(* the instrument it was confirmed for.  Authorities come and go as owners *)
(* and strategies change their minds, but an entry is only ever taken on   *)
(* an authority that already stands, and no authority is withdrawn while   *)
(* an entry rests on it.                                                   *)
(***************************************************************************)

CONSTANTS OrderId, ProposalId, Instrument

VARIABLES authority,   \* the pairs that may be entered now
          entries      \* the entry orders, each with the pair it rests on

avars == <<authority, entries>>

Authority == [proposal : ProposalId, instrument : Instrument]
Entry == [order : OrderId, on : Authority]

RestedOn(es) == {e.on : e \in es}

Init == authority = {} /\ entries = {}

Reconsider ==
    /\ authority' \subseteq Authority
    /\ RestedOn(entries) \subseteq authority'
    /\ UNCHANGED entries

Enter(o, a) ==
    /\ a \in authority
    /\ entries' = {e \in entries : e.order # o} \cup {[order |-> o, on |-> a]}
    /\ UNCHANGED authority

Withdraw(o) ==
    /\ entries' = {e \in entries : e.order # o}
    /\ UNCHANGED authority

\* Orders change hands among the entries, and some are lost: nothing new is rested on.
Rename ==
    /\ entries' \subseteq Entry
    /\ RestedOn(entries') \subseteq RestedOn(entries)
    /\ \A d, e \in entries' : d.order = e.order => d = e
    /\ UNCHANGED authority

Next ==
    \/ Reconsider
    \/ Rename
    \/ \E o \in OrderId : Withdraw(o) \/ \E a \in Authority : Enter(o, a)

Spec == Init /\ [][Next]_avars

=============================================================================
