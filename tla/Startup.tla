-------------------------------- MODULE Startup --------------------------------
(***************************************************************************)
(* The account guard over a bootstrapped file: load_settings of            *)
(* src/stonksbot/config.py refuses incomplete settings, and                *)
(* evaluate_account_guard of src/stonksbot/account_guard.py compares the   *)
(* account with the one of the last run, which guard_state keeps.  The     *)
(* processes bootstrap the file as in Bootstrap, crash and start again     *)
(* with other settings.  The caller that records the account of a run is   *)
(* not part of the source: it is taken to do so in the transaction in      *)
(* which it read the row.                                                  *)
(***************************************************************************)
EXTENDS Bootstrap

CONSTANTS
    Account,
    Blank           \* an account_id of white space

ASSUME StartupAssumption == NULL \notin Account /\ Blank \notin Account \cup {NULL}

VARIABLES
    last_account_id,    \* of guard_state
    status,             \* what the guard told each process, NULL before it
    started             \* history: the last start the guard let through with an account

startupVars == <<vars, last_account_id, status, started>>

Broker == {"sandbox", "confirm"}

\* A token of the settings is named by the mode that needs it.
Settings == [mode : Broker \cup {"paper"}, account_id : Account \cup {Blank, NULL},
             tokens : SUBSET Broker]

StartupInit ==
    /\ Init
    /\ last_account_id = NULL
    /\ status = [p \in Process |-> NULL]
    /\ started = NULL

-----------------------------------------------------------------------------
\* blank_account_id_is_missing
AccountId(s) == IF s.account_id = Blank THEN NULL ELSE s.account_id

\* _validate_startup on the account and the tokens.
AccountAccepted(s) ==
    s.mode \in Broker => AccountId(s) # NULL /\ s.mode \in s.tokens

AccountChanged(s, confirmed) ==
    /\ AccountId(s) # NULL /\ last_account_id # NULL
    /\ AccountId(s) # last_account_id
    /\ ~confirmed

EvaluateAccountGuard(s, confirmed) ==
    IF s.mode = "paper" /\ AccountId(s) = NULL THEN "paper_no_account"
    ELSE IF AccountId(s) = NULL THEN "refused_missing_account_id"
    ELSE IF AccountChanged(s, confirmed) THEN "refused_account_changed"
    ELSE IF s.mode \in Broker THEN "account_guard_stub_blocked"
    ELSE "ok"

\* Mutation: the bootstrap replaces the row.
UpsertedAccount_Replaced == NULL

\* ON CONFLICT keeps the row: of its columns only updated_at is set, to itself.
UpsertedAccount == last_account_id

Guard(p, s, confirmed) ==
    /\ pc[p] = "ready" /\ status[p] = NULL
    /\ AccountAccepted(s)
    /\ MayWrite(p)
    /\ LET result == EvaluateAccountGuard(s, confirmed)
       IN  /\ status' = [status EXCEPT ![p] = result]
           /\ IF result = "ok"
              THEN /\ last_account_id' = AccountId(s)
                   /\ started' = [account |-> AccountId(s), confirmed |-> confirmed]
              ELSE UNCHANGED <<last_account_id, started>>
    /\ UNCHANGED vars

\* The statements of bootstrap_database before the row of guard_state is committed.
Prepare(p) ==
    /\ \/ Start(p) \/ CheckCore(p) \/ CheckVersion(p) \/ Create(p)
       \/ Stamp(p) \/ InsertGuard(p)
    /\ UNCHANGED <<last_account_id, status, started>>

CommitGuard(p) ==
    /\ Commit(p)
    /\ last_account_id' = UpsertedAccount
    /\ UNCHANGED <<status, started>>

\* The process ends, at whatever point, and may start over with other settings.
Restart(p) ==
    /\ Abort(p)
    /\ status' = [status EXCEPT ![p] = NULL]
    /\ UNCHANGED <<last_account_id, started>>

StartupNext ==
    \E p \in Process :
        \/ Prepare(p) \/ CommitGuard(p) \/ Restart(p)
        \/ \E s \in Settings, confirmed \in BOOLEAN : Guard(p, s, confirmed)

StartupSpec == StartupInit /\ [][StartupNext]_startupVars

-----------------------------------------------------------------------------
GuardStatus == {"ok", "paper_no_account", "refused_missing_account_id",
                "refused_account_changed", "account_guard_stub_blocked"}

StartupTypeOK ==
    /\ TypeOK
    /\ last_account_id \in Account \cup {NULL}
    /\ status \in [Process -> GuardStatus \cup {NULL}]
    /\ started \in [account : Account, confirmed : BOOLEAN] \cup {NULL}

\* Across crashes, bootstraps of the same file and runs without an account, a run under
\* another account than the last one is let through only after a manual confirmation.
AccountSwitchConfirmed ==
    [][started # NULL /\ started' # started /\ started'.account # started.account
         => started'.confirmed]_startupVars

=============================================================================
