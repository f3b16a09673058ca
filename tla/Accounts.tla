------------------------------ MODULE Accounts ------------------------------
(***************************************************************************)
(* The accounts file with its token counts and the financial ledger        *)
(* (core/account_manager.py, core/ledger.py).  Callers, threads or         *)
(* processes on one workspace, record usage in the code's steps: look up   *)
(* the idempotency key, load the file, save it, write the ledger row with  *)
(* the credit, rotate the account when the cost threshold is reached.  The *)
(* file lock covers one load or one save, not both.  A usage is one token  *)
(* and costs one credit.                                                   *)
(***************************************************************************)
EXTENDS Integers, Sequences, FiniteSets, SequencesExt

CONSTANTS
    Callers,        \* concurrent callers of record_usage
    AccountIds,     \* account ids
    UsageIds,       \* usage_id values, the idempotency keys
    TokenBudget,    \* token_budget of an account that has one
    CostThreshold,  \* billing.cost_threshold
    StartCredits,   \* a new tenant's credits
    MaxTokens,      \* bound: tokens counted on one account
    MaxChanges,     \* bound: changes of the account list and failovers registered
    MaxFaults       \* bound: calls that end halfway

ASSUME AccountsAssumption ==
    /\ {TokenBudget, CostThreshold, StartCredits, MaxTokens, MaxChanges, MaxFaults} \subseteq Nat
    /\ AccountIds # {}
    /\ IsFiniteSet(Callers) /\ "none" \notin Callers

VARIABLES
    accountFile, \* accounts.json: the accounts in order and active_account_id
    usageRows,   \* financial_ledger: idempotency key and account of each row
    credits,     \* tenant_credit_budget
    failovers,   \* _failovers: pairs of an account and its fallback
    usagePc,     \* where each record_usage call is
    usageReq,    \* the key and the account it is about
    loadedFile,  \* the file as the call loaded it
    changes, faults,
    overlapped,  \* history: the file changed between a load and its save
    touched      \* history: accounts added, replaced or deleted

acctVars == <<accountFile, usageRows, credits, failovers, usagePc, usageReq,
              loadedFile, changes, faults, overlapped, touched>>
usageVars == <<usagePc, usageReq, loadedFile, faults>>
ledgerVars == <<usageRows, credits>>

NoAccount == "none"
Unlimited == -1

AccountRecords ==
    [id : AccountIds, used : 0..MaxTokens, budget : {Unlimited, TokenBudget},
     isActive : BOOLEAN, model : {"pro", "flash"}]

Positions(f, id) == {i \in DOMAIN f.list : f.list[i].id = id}
HasAccount(f, id) == Positions(f, id) # {}
PositionOf(f, id) == CHOOSE i \in Positions(f, id) : TRUE

UnderBudget(a) == a.budget = Unlimited \/ a.used < a.budget

\* set_active_account: the id, and exactly one flag.
Activate(f, id) ==
    [list |-> [i \in DOMAIN f.list |-> [f.list[i] EXCEPT !.isActive = (f.list[i].id = id)]],
     active |-> id]

\* The first other account with budget left takes over.
Fallbacks(f) == {i \in DOMAIN f.list : f.list[i].id # f.active /\ UnderBudget(f.list[i])}
SwapToFallback(f) == Activate(f, f.list[Min(Fallbacks(f))].id)

\* check_and_rotate_budget once the threshold is reached: a pro model is
\* replaced by flash, otherwise the account is replaced.
Rotate(f) ==
    IF \E i \in Positions(f, f.active) : f.list[i].model = "pro"
      THEN [f EXCEPT !.list[PositionOf(f, f.active)].model = "flash"]
      ELSE IF Fallbacks(f) = {} THEN f ELSE SwapToFallback(f)
-----------------------------------------------------------------------------
\* _ensure_file_exists writes one active account without a budget.
AcctInit ==
    /\ accountFile = [list |-> <<[id |-> CHOOSE a \in AccountIds : TRUE, used |-> 0,
                                  budget |-> Unlimited, isActive |-> TRUE, model |-> "pro"]>>,
                      active |-> CHOOSE a \in AccountIds : TRUE]
    /\ usageRows = {} /\ credits = StartCredits /\ failovers = {}
    /\ usagePc = [c \in Callers |-> "idle"] /\ usageReq = [c \in Callers |-> <<>>]
    /\ loadedFile = [c \in Callers |-> <<>>]
    /\ changes = 0 /\ faults = 0 /\ overlapped = FALSE /\ touched = {}

\* A write of the file while another call is between its load and its save.
NoteOverlap(writer) ==
    overlapped' = (overlapped \/ \E c \in Callers \ {writer} : usagePc[c] = "loaded")

\* The account routes: each loads, changes and saves the file in one go.
ChangeFile(f, ids) ==
    /\ changes < MaxChanges /\ changes' = changes + 1
    /\ accountFile' = f
    /\ touched' = touched \cup ids
    /\ NoteOverlap(NoAccount)
    /\ UNCHANGED <<ledgerVars, failovers, usageVars>>

AddAccount(id, budget, isActive) ==
    LET a == [id |-> id, used |-> 0, budget |-> budget, isActive |-> isActive, model |-> "flash"]
        f == accountFile
        list == IF HasAccount(f, id) THEN [f.list EXCEPT ![PositionOf(f, id)] = a]
                                     ELSE Append(f.list, a)
    IN  ChangeFile([list |-> list,
                    active |-> IF f.active = NoAccount \/ isActive THEN id ELSE f.active], {id})

\* Mutant: the deleted account stays the active one.
DeleteAccountKeepsActive(id) ==
    LET f == accountFile
    IN  /\ HasAccount(f, id)
        /\ ChangeFile([f EXCEPT !.list = RemoveAt(@, PositionOf(f, id))], {id})

\* An id is in the file once (add_account replaces it).
DeleteAccount(id) ==
    LET f == accountFile
        list == RemoveAt(f.list, PositionOf(f, id))
    IN  /\ HasAccount(f, id)
        /\ ChangeFile([list |-> list,
                       active |-> IF f.active # id THEN f.active
                                  ELSE IF list = <<>> THEN NoAccount ELSE list[1].id], {id})

SetActiveAccount(id) ==
    /\ HasAccount(accountFile, id)
    /\ ChangeFile(Activate(accountFile, id), {})

\* A rate limit or an error of the provider.
SwapActive ==
    /\ Fallbacks(accountFile) # {}
    /\ ChangeFile(SwapToFallback(accountFile), {})

RegisterFailover(id, fallback) ==
    /\ id # fallback /\ ~\E p \in failovers : p[1] = id
    /\ changes < MaxChanges /\ changes' = changes + 1
    /\ failovers' = failovers \cup {<<id, fallback>>}
    /\ UNCHANGED <<accountFile, ledgerVars, usageVars, overlapped, touched>>

FailoverOf(id) == IF \E p \in failovers : p[1] = id
                    THEN (CHOOSE p \in failovers : p[1] = id)[2] ELSE id

KeyUsed(key) == \E r \in usageRows : r.key = key

\* record_usage: a key that is in the ledger returns at once.
UsageCheck(c, key, id) ==
    /\ usagePc[c] = "idle" /\ ~KeyUsed(key)
    /\ usagePc' = [usagePc EXCEPT ![c] = "checked"]
    /\ usageReq' = [usageReq EXCEPT ![c] = <<key, FailoverOf(id)>>]
    /\ UNCHANGED <<accountFile, ledgerVars, failovers, loadedFile, faults, changes, overlapped, touched>>

UsageLoad(c) ==
    /\ usagePc[c] = "checked"
    /\ loadedFile' = [loadedFile EXCEPT ![c] = <<accountFile>>]
    /\ usagePc' = [usagePc EXCEPT ![c] = "loaded"]
    /\ UNCHANGED <<accountFile, ledgerVars, failovers, usageReq, faults, changes, overlapped, touched>>

\* Mutant: the counted tokens are not written back.
UsageSaveForgotten(c) ==
    /\ usagePc[c] = "loaded" /\ HasAccount(loadedFile[c][1], usageReq[c][2])
    /\ loadedFile' = [loadedFile EXCEPT ![c] = <<>>]
    /\ usagePc' = [usagePc EXCEPT ![c] = "saved"]
    /\ UNCHANGED <<accountFile, ledgerVars, failovers, usageReq, faults, changes, overlapped, touched>>

\* The whole loaded file is written back with the tokens added.
UsageSave(c) ==
    LET f == loadedFile[c][1]
        id == usageReq[c][2]
    IN  /\ usagePc[c] = "loaded" /\ HasAccount(f, id)
        /\ f.list[PositionOf(f, id)].used < MaxTokens
        /\ accountFile' = [f EXCEPT !.list[PositionOf(f, id)].used = @ + 1]
        /\ loadedFile' = [loadedFile EXCEPT ![c] = <<>>]
        /\ usagePc' = [usagePc EXCEPT ![c] = "saved"]
        /\ NoteOverlap(c)
        /\ UNCHANGED <<ledgerVars, failovers, usageReq, faults, changes, touched>>

\* An account that is not in the file is not counted and not billed.
UsageUnknown(c) ==
    /\ usagePc[c] = "loaded" /\ ~HasAccount(loadedFile[c][1], usageReq[c][2])
    /\ loadedFile' = [loadedFile EXCEPT ![c] = <<>>]
    /\ usagePc' = [usagePc EXCEPT ![c] = "idle"]
    /\ usageReq' = [usageReq EXCEPT ![c] = <<>>]
    /\ UNCHANGED <<accountFile, ledgerVars, failovers, faults, changes, overlapped, touched>>

Bill(c) ==
    /\ usageRows' = usageRows \cup {[key |-> usageReq[c][1], account |-> usageReq[c][2]]}
    /\ credits' = IF credits > 0 THEN credits - 1 ELSE 0

\* Mutant: the row is inserted without looking for the key.
UsageLedgerUnchecked(c) ==
    /\ usagePc[c] = "saved" /\ Bill(c)
    /\ usagePc' = [usagePc EXCEPT ![c] = "billed"]
    /\ UNCHANGED <<accountFile, failovers, usageReq, loadedFile, faults, changes, overlapped, touched>>

\* record_transaction: one transaction inserts the row and takes the credit,
\* unless the key is there by now.
UsageLedger(c) ==
    /\ usagePc[c] = "saved"
    /\ IF KeyUsed(usageReq[c][1]) THEN UNCHANGED ledgerVars ELSE Bill(c)
    /\ usagePc' = [usagePc EXCEPT ![c] = "billed"]
    /\ UNCHANGED <<accountFile, failovers, usageReq, loadedFile, faults, changes, overlapped, touched>>

UsageRotate(c) ==
    /\ usagePc[c] = "billed"
    /\ LET exceeded == Cardinality(usageRows) >= CostThreshold
       IN  /\ accountFile' = IF exceeded THEN Rotate(accountFile) ELSE accountFile
           /\ overlapped' = (overlapped \/ (exceeded /\ \E d \in Callers \ {c} : usagePc[d] = "loaded"))
    /\ usagePc' = [usagePc EXCEPT ![c] = "idle"]
    /\ usageReq' = [usageReq EXCEPT ![c] = <<>>]
    /\ UNCHANGED <<ledgerVars, failovers, loadedFile, faults, changes, touched>>

\* The process ends, or the database stays locked: the call ends halfway and
\* its client may send the same usage again.
UsageAborts(c) ==
    /\ usagePc[c] \in {"checked", "loaded", "saved", "billed"} /\ faults < MaxFaults
    /\ faults' = faults + 1
    /\ usagePc' = [usagePc EXCEPT ![c] = "idle"]
    /\ usageReq' = [usageReq EXCEPT ![c] = <<>>]
    /\ loadedFile' = [loadedFile EXCEPT ![c] = <<>>]
    /\ UNCHANGED <<accountFile, ledgerVars, failovers, changes, overlapped, touched>>

AcctNext ==
    \/ \E id \in AccountIds, b \in {Unlimited, TokenBudget}, f \in BOOLEAN : AddAccount(id, b, f)
    \/ \E id \in AccountIds : DeleteAccount(id) \/ SetActiveAccount(id)
    \/ SwapActive
    \/ \E id, g \in AccountIds : RegisterFailover(id, g)
    \/ \E c \in Callers, k \in UsageIds, id \in AccountIds : UsageCheck(c, k, id)
    \/ \E c \in Callers :
          \/ UsageLoad(c) \/ UsageSave(c) \/ UsageUnknown(c)
          \/ UsageLedger(c) \/ UsageRotate(c) \/ UsageAborts(c)
-----------------------------------------------------------------------------
\* Every account on file is a whole record with its tokens in range.
AccountTypeOK == \A i \in DOMAIN accountFile.list : accountFile.list[i] \in AccountRecords

\* active_account_id names an account of the file, or the file has none: after
\* any order of adding, deleting, swapping and rotating, and also when a stale
\* copy of the file is written back.
ActiveAccountExists ==
    IF accountFile.list = <<>> THEN accountFile.active = NoAccount
    ELSE HasAccount(accountFile, accountFile.active)

\* However often a usage is sent again, by whom and after which failure, it is
\* one row and one credit: ledger and credits agree.
BilledOnce ==
    /\ \A r, s \in usageRows : r.key = s.key => r = s
    /\ credits = IF Cardinality(usageRows) < StartCredits
                   THEN StartCredits - Cardinality(usageRows) ELSE 0

\* Tokens are counted before they are billed: as long as no call overwrote the
\* file of another, an account shows at least what the ledger bills for it.
TokensCoverLedger ==
    ~overlapped =>
        \A i \in DOMAIN accountFile.list : LET a == accountFile.list[i] IN
            a.id \notin touched => a.used >= Cardinality({r \in usageRows : r.account = a.id})
=============================================================================
