----------------------------- MODULE TokenVault -----------------------------
(***************************************************************************)
(* The token vault (contracts/token-vault/src): an owner's store of tokens *)
(* with a deposit limit, a delegated operator, a two-step change of owner, *)
(* an emergency halt and a delayed migration of everything to a safe       *)
(* address.                                                                *)
(*                                                                         *)
(* A call is atomic, so it is one action whose guard is the conjunction of *)
(* its checks; a call that returns an error changes nothing and is no      *)
(* step.  The reentrancy lock is taken and released within a call and is   *)
(* no state here.  Time and ledger number advance together.  The lifetimes *)
(* of stored entries, and the list of keys whose lifetime is renewed, are  *)
(* left out.                                                               *)
(***************************************************************************)
EXTENDS EmergencyPause, SequencesExt

CONSTANTS
    Addrs,              \* account addresses
    ZeroAddr,           \* the all-zero address is_zero_address rejects
    None,               \* an absent entry
    Tokens,             \* token contracts
    DefaultToken,       \* DataKey::Token, fixed by initialize
    MaxI128,            \* i128::MAX
    MaxU64,             \* u64::MAX
    MaxVaultDeposit,    \* MAX_VAULT_DEPOSIT
    OwnerProposalTtl,   \* OWNER_PROPOSAL_TTL_SECONDS, 7 days
    MigrationTimelock   \* EMERGENCY_MIGRATION_TIMELOCK_SECONDS, 48 hours

CONSTANTS               \* the inputs of the calls and of the environment
    Owners,             \* owners given to initialize
    Amounts,            \* amounts of single calls
    Splits,             \* sequences of amounts given to batch_deposit and withdraw_batch
    Limits,             \* values of every kind of limit
    Operators,          \* addresses given to set_operator
    Candidates,         \* addresses given to propose_owner
    Ttls,               \* values given to set_owner_proposal_ttl
    Destinations,       \* addresses given to initiate_emergency_migration
    Gifts               \* amounts sent to the vault by direct transfer

CONSTANTS               \* bounds of the model
    MaxTime, MaxCalls, MaxHeld, MaxCredit

ASSUME VaultAddrAssumption ==
    /\ None \notin Addrs /\ ZeroAddr \notin Addrs
    /\ Owners \subseteq Addrs /\ Operators \subseteq Addrs
    /\ Candidates \subseteq Addrs \cup {ZeroAddr}
    /\ Destinations \subseteq Addrs \cup {ZeroAddr}

ASSUME VaultTokenAssumption == DefaultToken \in Tokens

ASSUME VaultNumberAssumption ==
    /\ MaxI128 \in Nat /\ MaxU64 \in Nat /\ MaxVaultDeposit \in Nat
    /\ OwnerProposalTtl \in Nat /\ MigrationTimelock \in Nat
    /\ MaxTime \in Nat /\ MaxCalls \in Nat /\ MaxHeld \in Nat /\ MaxCredit \in Nat

ASSUME VaultInputAssumption ==
    /\ Amounts \subseteq Int /\ Limits \subseteq Int /\ Gifts \subseteq Nat /\ Ttls \subseteq Nat
    /\ Splits \subseteq Seq(Int)

ASSUME VaultNoneAssumption == None \notin Int

VARIABLES
    now,            \* env.ledger().timestamp() and .sequence()
    owner,          \* DataKey::Owner
    operator,       \* DataKey::Operator
    operatorLimit,  \* DataKey::OperatorWithdrawLimit
    maxLimit,       \* DataKey::MaxLimit
    tokenLimit,     \* DataKey::TokenMaxLimit, per token
    approved,       \* tokens whose DataKey::ApprovedToken is true
    snapshot,       \* DataKey::BalanceSnapshot, per token
    accounts,       \* DataKey::TokenAccountBalance, per token and address
    held,           \* the vault's balance of each token
    pauseEntry,     \* DataKey::Paused
    pending,        \* DataKey::PendingOwner, PendingOwnerProposer, PendingOwnerProposedAt
    proposalTtl,    \* DataKey::OwnerProposalTtl
    migration       \* DataKey::EmergencyMigration

VARIABLES           \* history, read by properties and bounds only
    calls,          \* calls and direct transfers so far
    gifted,         \* default tokens sent directly since the balance was checked against max_limit
    sideloaded,     \* default tokens that came by deposit_token since then
    disturbed,      \* tokens whose balance a gift or a migration moved since the last snapshot
    claim,          \* what an address was credited less what it drew as operator, per token
    haltedAt,       \* when the halt under way began, None outside one
    pendingSince,   \* since when the migration has had its present destination
    notice          \* how long the last executed migration's destination had stood

roleVars      == <<owner, operator, operatorLimit>>
limitVars     == <<maxLimit, tokenLimit, approved>>
balanceVars   == <<held, snapshot, disturbed>>
accountVars   == <<accounts, claim>>
exposureVars  == <<gifted, sideloaded>>
pauseVars     == <<pauseEntry, haltedAt>>
proposalVars  == <<pending, proposalTtl>>
migrationVars == <<migration, pendingSince, notice>>
vars == <<now, calls, roleVars, limitVars, balanceVars, accountVars, exposureVars, pauseVars,
          proposalVars, migrationVars>>

SnapshotType  == [ledger : Nat, expected_balance : Nat]
ProposalType  == [to : Addrs, proposer : Addrs, at : Nat]
MigrationType == [destination : Addrs, executable_at : Nat]

VaultTypeOK ==
    /\ now \in Nat /\ calls \in Nat
    /\ owner \in Addrs
    /\ operator \in Addrs \cup {None}
    /\ operatorLimit \in Nat \cup {None}
    /\ maxLimit \in Nat
    /\ tokenLimit \in [Tokens -> Nat \cup {None}]
    /\ approved \subseteq Tokens
    /\ snapshot \in [Tokens -> SnapshotType \cup {None}]
    /\ accounts \in [Tokens -> [Addrs -> Nat]]
    /\ held \in [Tokens -> Nat]
    /\ pauseEntry \in PauseType
    /\ pending \in ProposalType \cup {None}
    /\ proposalTtl \in Nat
    /\ migration \in MigrationType \cup {None}
    /\ gifted \in Nat /\ sideloaded \in Nat
    /\ disturbed \subseteq Tokens
    /\ claim \in [Tokens -> [Addrs -> Int]]
    /\ haltedAt \in Nat \cup {None}
    /\ pendingSince \in Nat
    /\ notice \in Int \cup {None}

-----------------------------------------------------------------------------

(* initialize *)
Init ==
    /\ now = 0 /\ calls = 0
    /\ owner \in Owners
    /\ operator = None /\ operatorLimit = None
    /\ maxLimit \in {l \in Limits : l > 0}
    /\ tokenLimit = [t \in Tokens |-> None]
    /\ approved = {DefaultToken}
    /\ snapshot = [t \in Tokens |-> None]
    /\ accounts = [t \in Tokens |-> [a \in Addrs |-> 0]]
    /\ held = [t \in Tokens |-> 0]
    /\ pauseEntry = NeverPaused
    /\ pending = None /\ proposalTtl = OwnerProposalTtl
    /\ migration = None
    /\ gifted = 0 /\ sideloaded = 0
    /\ disturbed = {}
    /\ claim = [t \in Tokens |-> [a \in Addrs |-> 0]]
    /\ haltedAt = None
    /\ pendingSince = 0 /\ notice = None

(* The next ledger closes. *)
Tick ==
    /\ now < MaxTime
    /\ now' = now + 1
    /\ UNCHANGED <<calls, roleVars, limitVars, balanceVars, accountVars, exposureVars, pauseVars,
                   proposalVars, migrationVars>>

-----------------------------------------------------------------------------
(* The checks the calls share, and the entries they write *)

OneCall == calls < MaxCalls /\ calls' = calls + 1

(* assert_not_paused, and what it leaves of the pause entry *)
Running ==
    /\ ~is_paused(pauseEntry, now)
    /\ pauseEntry' = AfterIsPaused(pauseEntry, now)
    /\ haltedAt' = None

OwnerOrOperator(caller) == caller \in {owner, operator}

(* withdraw_cap: the owner has none, an operator without a limit may not withdraw *)
WithinCap(caller, amount) ==
    caller = owner \/ (operatorLimit # None /\ amount <= operatorLimit)

Total(amounts) == FoldLeft(LAMBDA sum, a : sum + a, 0, amounts)

(* Every amount is positive and checked_add never overflows on their sum *)
Payable(amounts) ==
    /\ amounts # <<>>
    /\ \A i \in DOMAIN amounts : amounts[i] > 0
    /\ Total(amounts) \in 1 .. MaxI128

(* check_vault_balance: within a ledger the balance is the one last recorded *)
check_vault_balance(token) ==
    snapshot[token] # None /\ snapshot[token].ledger = now =>
        snapshot[token].expected_balance = held[token]

(***************************************************************************)
(* The token moves exactly what was asked, or the call fails; then         *)
(* record_vault_balance stores the balance it left.                        *)
(***************************************************************************)
Settle(token, balance) ==
    /\ balance <= MaxHeld
    /\ held' = [held EXCEPT ![token] = balance]
    /\ snapshot' = [snapshot EXCEPT ![token] = [ledger |-> now, expected_balance |-> balance]]
    /\ disturbed' = disturbed \ {token}

(* What every deposit of the default token checks before the transfer *)
AcceptsDeposit(total) ==
    /\ DefaultToken \in approved
    /\ held[DefaultToken] + total <= maxLimit
    /\ check_vault_balance(DefaultToken)

(* set_token_account_balance after a deposit *)
Credit(token, account, amount) ==
    /\ claim[token][account] + amount <= MaxCredit
    /\ accounts' = [accounts EXCEPT ![token][account] = @ + amount]
    /\ claim' = [claim EXCEPT ![token][account] = @ + amount]

(* The balance is within max_limit at this step *)
Checked == gifted' = 0 /\ sideloaded' = 0

-----------------------------------------------------------------------------
(* Deposits *)

(* An account whose balance would overflow is silently not credited *)
deposit(from, amount) ==
    /\ OneCall
    /\ Running
    /\ OwnerOrOperator(from)
    /\ amount \in 1 .. MaxVaultDeposit
    /\ AcceptsDeposit(amount)
    /\ Settle(DefaultToken, held[DefaultToken] + amount)
    /\ IF accounts[DefaultToken][from] + amount <= MaxI128
       THEN Credit(DefaultToken, from, amount)
       ELSE UNCHANGED accountVars
    /\ Checked
    /\ UNCHANGED <<now, roleVars, limitVars, proposalVars, migrationVars>>

(* The fee is reported in an event and moves no token *)
deposit_with_fee(from, gross_amount, fee_amount) ==
    /\ fee_amount >= 0 /\ gross_amount > 0 /\ fee_amount < gross_amount
    /\ gross_amount <= MaxVaultDeposit
    /\ deposit(from, gross_amount - fee_amount)

(***************************************************************************)
(* deposit_with_failure_report: a rejected transfer commits as an event;   *)
(* an overflow of the account's balance is an error                        *)
(***************************************************************************)
deposit_with_failure_report(from, amount) ==
    /\ OneCall
    /\ Running
    /\ OwnerOrOperator(from)
    /\ amount \in 1 .. MaxVaultDeposit
    /\ AcceptsDeposit(amount)
    /\ \/ UNCHANGED <<balanceVars, accountVars, exposureVars>>
       \/ /\ accounts[DefaultToken][from] + amount <= MaxI128
          /\ Settle(DefaultToken, held[DefaultToken] + amount)
          /\ Credit(DefaultToken, from, amount)
          /\ Checked
    /\ UNCHANGED <<now, roleVars, limitVars, proposalVars, migrationVars>>

(* Anybody may deposit who signs, and no account is credited *)
batch_deposit(deposits) ==
    /\ OneCall
    /\ Running
    /\ Payable(deposits)
    /\ \A i \in DOMAIN deposits : deposits[i] <= MaxVaultDeposit
    /\ AcceptsDeposit(Total(deposits))
    /\ Settle(DefaultToken, held[DefaultToken] + Total(deposits))
    /\ Checked
    /\ UNCHANGED <<now, roleVars, limitVars, accountVars, proposalVars, migrationVars>>

(* deposit_token checks the token's own limit, also for the default token *)
deposit_token_Unrecorded(from, token, amount) ==  \* mutant: the snapshot is not written
    /\ OneCall
    /\ Running
    /\ OwnerOrOperator(from)
    /\ amount \in 1 .. MaxVaultDeposit
    /\ token \in approved
    /\ check_vault_balance(token)
    /\ held[token] + amount <= MaxI128
    /\ tokenLimit[token] # None => held[token] + amount <= tokenLimit[token]
    /\ accounts[token][from] + amount <= MaxI128
    /\ held' = [held EXCEPT ![token] = held[token] + amount]
    /\ Credit(token, from, amount)
    /\ sideloaded' = IF token = DefaultToken THEN sideloaded + amount ELSE sideloaded
    /\ UNCHANGED <<now, roleVars, limitVars, snapshot, disturbed, gifted, proposalVars,
                   migrationVars>>
deposit_token(from, token, amount) ==
    /\ OneCall
    /\ Running
    /\ OwnerOrOperator(from)
    /\ amount \in 1 .. MaxVaultDeposit
    /\ token \in approved
    /\ check_vault_balance(token)
    /\ held[token] + amount <= MaxI128
    /\ tokenLimit[token] # None => held[token] + amount <= tokenLimit[token]
    /\ accounts[token][from] + amount <= MaxI128
    /\ Settle(token, held[token] + amount)
    /\ Credit(token, from, amount)
    /\ sideloaded' = IF token = DefaultToken THEN sideloaded + amount ELSE sideloaded
    /\ UNCHANGED <<now, roleVars, limitVars, gifted, proposalVars, migrationVars>>

-----------------------------------------------------------------------------
(* Withdrawals *)

(* withdraw_payouts: no account is debited *)
withdraw_batch(caller, payouts) ==
    /\ OneCall
    /\ Running
    /\ OwnerOrOperator(caller)
    /\ Payable(payouts)
    /\ WithinCap(caller, Total(payouts))
    /\ Total(payouts) <= held[DefaultToken]
    /\ Settle(DefaultToken, held[DefaultToken] - Total(payouts))
    /\ UNCHANGED <<now, roleVars, limitVars, accountVars, exposureVars, proposalVars,
                   migrationVars>>

withdraw(caller, amount) == withdraw_batch(caller, <<amount>>)

(* An operator draws on its own account only; the owner on anything *)
withdraw_token_NoDebit(caller, token, amount) ==  \* mutant: the account is not debited
    /\ OneCall
    /\ Running
    /\ OwnerOrOperator(caller)
    /\ amount > 0 /\ WithinCap(caller, amount) /\ amount <= held[token]
    /\ caller # owner => amount <= accounts[token][caller]
    /\ Settle(token, held[token] - amount)
    /\ accounts' = accounts
    /\ claim' = IF caller = owner THEN claim
                ELSE [claim EXCEPT ![token][caller] = @ - amount]
    /\ UNCHANGED <<now, roleVars, limitVars, exposureVars, proposalVars, migrationVars>>
withdraw_token(caller, token, amount) ==
    /\ OneCall
    /\ Running
    /\ OwnerOrOperator(caller)
    /\ amount > 0 /\ WithinCap(caller, amount) /\ amount <= held[token]
    /\ caller # owner => amount <= accounts[token][caller]
    /\ Settle(token, held[token] - amount)
    /\ accounts' = IF amount <= accounts[token][caller]
                   THEN [accounts EXCEPT ![token][caller] = @ - amount]
                   ELSE accounts
    /\ claim' = IF caller = owner THEN claim
                ELSE [claim EXCEPT ![token][caller] = @ - amount]
    /\ UNCHANGED <<now, roleVars, limitVars, exposureVars, proposalVars, migrationVars>>

-----------------------------------------------------------------------------
(* Limits, tokens and roles; the callers not named are the owner *)

set_operator_withdraw_limit(new_limit) ==
    /\ OneCall
    /\ Running
    /\ new_limit > 0
    /\ operatorLimit' = new_limit
    /\ UNCHANGED <<now, owner, operator, limitVars, balanceVars, accountVars, exposureVars,
                   proposalVars, migrationVars>>

(* Only the owner raises the limit, and nobody sets it below the balance *)
set_limit_BelowBalance(caller, new_limit) ==  \* mutant: the balance is not looked at
    /\ OneCall
    /\ Running
    /\ new_limit > 0
    /\ IF new_limit > maxLimit THEN caller = owner ELSE OwnerOrOperator(caller)
    /\ maxLimit' = new_limit
    /\ Checked
    /\ UNCHANGED <<now, roleVars, tokenLimit, approved, balanceVars, accountVars,
                   proposalVars, migrationVars>>
set_limit(caller, new_limit) ==
    /\ OneCall
    /\ Running
    /\ new_limit > 0 /\ new_limit >= held[DefaultToken]
    /\ IF new_limit > maxLimit THEN caller = owner ELSE OwnerOrOperator(caller)
    /\ maxLimit' = new_limit
    /\ Checked
    /\ UNCHANGED <<now, roleVars, tokenLimit, approved, balanceVars, accountVars,
                   proposalVars, migrationVars>>

set_token_max_limit_Unguarded(caller, token, limit) ==  \* mutant: not refused during a halt
    /\ OneCall
    /\ OwnerOrOperator(caller)
    /\ limit > 0
    /\ tokenLimit' = [tokenLimit EXCEPT ![token] = limit]
    /\ UNCHANGED <<now, roleVars, maxLimit, approved, balanceVars, accountVars, exposureVars,
                   pauseVars, proposalVars, migrationVars>>
set_token_max_limit(caller, token, limit) ==
    /\ OneCall
    /\ Running
    /\ OwnerOrOperator(caller)
    /\ limit > 0
    /\ tokenLimit' = [tokenLimit EXCEPT ![token] = limit]
    /\ UNCHANGED <<now, roleVars, maxLimit, approved, balanceVars, accountVars, exposureVars,
                   proposalVars, migrationVars>>

approve_token(token, allowed) ==
    /\ OneCall
    /\ approved' = IF allowed THEN approved \cup {token} ELSE approved \ {token}
    /\ UNCHANGED <<now, roleVars, maxLimit, tokenLimit, balanceVars, accountVars, exposureVars,
                   pauseVars, proposalVars, migrationVars>>

(* set_operator, and revoke_operator where new is None *)
SetOperator(new) ==
    /\ OneCall
    /\ operator' = new
    /\ UNCHANGED <<now, owner, operatorLimit, limitVars, balanceVars, accountVars, exposureVars,
                   pauseVars, proposalVars, migrationVars>>

propose_owner(new_owner) ==
    /\ OneCall
    /\ new_owner # ZeroAddr
    /\ pending' = [to |-> new_owner, proposer |-> owner, at |-> now]
    /\ UNCHANGED <<now, roleVars, limitVars, balanceVars, accountVars, exposureVars,
                   pauseVars, proposalTtl, migrationVars>>

(* The operator and its limit, and a pending migration, outlast the owner who set them *)
accept_owner_Kept(caller) ==  \* mutant: the proposal is not removed
    /\ OneCall
    /\ pending # None /\ caller = pending.to
    /\ pending.at + proposalTtl <= MaxU64 /\ now < pending.at + proposalTtl
    /\ owner' = caller
    /\ UNCHANGED <<now, operator, operatorLimit, limitVars, balanceVars, accountVars, exposureVars,
                   pauseVars, pending, proposalTtl, migrationVars>>
accept_owner(caller) ==
    /\ OneCall
    /\ pending # None /\ caller = pending.to
    /\ pending.at + proposalTtl <= MaxU64 /\ now < pending.at + proposalTtl
    /\ owner' = caller
    /\ pending' = None
    /\ UNCHANGED <<now, operator, operatorLimit, limitVars, balanceVars, accountVars, exposureVars,
                   pauseVars, proposalTtl, migrationVars>>

(* The new period also applies to the pending proposal, an expired one included *)
set_owner_proposal_ttl(ttl_seconds) ==
    /\ OneCall
    /\ ttl_seconds # 0
    /\ proposalTtl' = ttl_seconds
    /\ UNCHANGED <<now, roleVars, limitVars, balanceVars, accountVars, exposureVars,
                   pauseVars, pending, migrationVars>>

-----------------------------------------------------------------------------
(* The halt *)

pause ==
    /\ OneCall
    /\ ~is_paused(pauseEntry, now)
    /\ SetPausedReadable(AfterIsPaused(pauseEntry, now))
    /\ pauseEntry' = set_paused(TRUE, now)
    /\ haltedAt' = now
    /\ UNCHANGED <<now, roleVars, limitVars, balanceVars, accountVars, exposureVars,
                   proposalVars, migrationVars>>

unpause ==
    /\ OneCall
    /\ is_paused(pauseEntry, now)
    /\ SetPausedReadable(AfterIsPaused(pauseEntry, now))
    /\ pauseEntry' = set_paused(FALSE, now)
    /\ haltedAt' = None
    /\ UNCHANGED <<now, roleVars, limitVars, balanceVars, accountVars, exposureVars,
                   proposalVars, migrationVars>>

(***************************************************************************)
(* is_paused and effective_withdraw_limit submitted as a transaction, and  *)
(* vault_batch_withdraw, which moves tokens of streams only: all they      *)
(* write here is what the shared pause code writes                         *)
(***************************************************************************)
ReadPause ==
    /\ OneCall
    /\ pauseEntry' = AfterIsPaused(pauseEntry, now)
    /\ haltedAt' = IF is_paused(pauseEntry, now) THEN haltedAt ELSE None
    /\ UNCHANGED <<now, roleVars, limitVars, balanceVars, accountVars, exposureVars,
                   proposalVars, migrationVars>>

-----------------------------------------------------------------------------
(* The emergency migration, which the halt does not stop *)

(* A second announcement replaces the first and starts its delay anew *)
initiate_emergency_migration_Kept(destination) ==  \* mutant: the first one's delay is kept
    /\ OneCall
    /\ destination # ZeroAddr
    /\ migration' = [destination |-> destination,
                     executable_at |-> IF migration # None THEN migration.executable_at
                                       ELSE now + MigrationTimelock]
    /\ pendingSince' = IF migration # None /\ migration.destination = destination
                       THEN pendingSince ELSE now
    /\ UNCHANGED <<now, roleVars, limitVars, balanceVars, accountVars, exposureVars,
                   pauseVars, proposalVars, notice>>
initiate_emergency_migration(destination) ==
    /\ OneCall
    /\ destination # ZeroAddr
    /\ now + MigrationTimelock <= MaxU64
    /\ migration' = [destination |-> destination, executable_at |-> now + MigrationTimelock]
    /\ pendingSince' = IF migration # None /\ migration.destination = destination
                       THEN pendingSince ELSE now
    /\ UNCHANGED <<now, roleVars, limitVars, balanceVars, accountVars, exposureVars,
                   pauseVars, proposalVars, notice>>

(* Only the default token is moved, and its snapshot is not written *)
execute_emergency_migration ==
    /\ OneCall
    /\ migration # None
    /\ now >= migration.executable_at
    /\ held' = [held EXCEPT ![DefaultToken] = 0]
    /\ disturbed' = disturbed \cup {DefaultToken}
    /\ migration' = None
    /\ notice' = now - pendingSince
    /\ UNCHANGED <<now, roleVars, limitVars, snapshot, accountVars, exposureVars, pauseVars,
                   proposalVars, pendingSince>>

cancel_emergency_migration ==
    /\ OneCall
    /\ migration # None
    /\ migration' = None
    /\ UNCHANGED <<now, roleVars, limitVars, balanceVars, accountVars, exposureVars, pauseVars,
                   proposalVars, pendingSince, notice>>

(* A token transfer to the vault's address that no vault call makes *)
Gift(token, amount) ==
    /\ OneCall
    /\ held[token] + amount <= MaxHeld
    /\ held' = [held EXCEPT ![token] = @ + amount]
    /\ disturbed' = disturbed \cup {token}
    /\ gifted' = IF token = DefaultToken THEN gifted + amount ELSE gifted
    /\ UNCHANGED <<now, roleVars, limitVars, snapshot, accountVars, sideloaded, pauseVars,
                   proposalVars, migrationVars>>

-----------------------------------------------------------------------------

Next ==
    \/ Tick
    \/ \E a \in Addrs, n \in Amounts : deposit(a, n)
    \/ \E a \in Addrs, gross \in Amounts, fee \in Amounts : deposit_with_fee(a, gross, fee)
    \/ \E a \in Addrs, n \in Amounts : deposit_with_failure_report(a, n)
    \/ \E s \in Splits : batch_deposit(s)
    \/ \E a \in Addrs, t \in Tokens, n \in Amounts : deposit_token(a, t, n)
    \/ \E a \in Addrs, n \in Amounts : withdraw(a, n)
    \/ \E a \in Addrs, s \in Splits : withdraw_batch(a, s)
    \/ \E a \in Addrs, t \in Tokens, n \in Amounts : withdraw_token(a, t, n)
    \/ \E l \in Limits : set_operator_withdraw_limit(l)
    \/ \E a \in Addrs, l \in Limits : set_limit(a, l)
    \/ \E a \in Addrs, t \in Tokens, l \in Limits : set_token_max_limit(a, t, l)
    \/ \E t \in Tokens, b \in BOOLEAN : approve_token(t, b)
    \/ \E a \in Operators \cup {None} : SetOperator(a)
    \/ \E a \in Candidates : propose_owner(a)
    \/ \E a \in Addrs : accept_owner(a)
    \/ \E s \in Ttls : set_owner_proposal_ttl(s)
    \/ pause
    \/ unpause
    \/ ReadPause
    \/ \E a \in Destinations : initiate_emergency_migration(a)
    \/ execute_emergency_migration
    \/ cancel_emergency_migration
    \/ \E t \in Tokens, n \in Gifts : Gift(t, n)

Spec == Init /\ [][Next]_vars

-----------------------------------------------------------------------------

(***************************************************************************)
(* The vault's exposure in its default token stays within max_limit, apart *)
(* from what came by direct transfer or by deposit_token since the balance *)
(* was last compared with the limit: deposits, batches, withdrawals and    *)
(* both ways of moving the limit in any order                              *)
(***************************************************************************)
ExposureBounded == held[DefaultToken] <= maxLimit + gifted + sideloaded

(***************************************************************************)
(* check_vault_balance only fails after a transfer the vault did not       *)
(* record: whichever calls moved a token in this ledger, the snapshot is   *)
(* the balance unless a direct transfer or a migration came after it       *)
(***************************************************************************)
SnapshotCurrent ==
    \A t \in Tokens \ disturbed : check_vault_balance(t)

(***************************************************************************)
(* Over any number of calls, and of changes of the owner and the operator, *)
(* an address takes out through withdraw_token while it is not the owner   *)
(* no more of a token than was credited to its account                     *)
(***************************************************************************)
OperatorTakesOwn == \A t \in Tokens, a \in Addrs : claim[t][a] >= 0

(***************************************************************************)
(* A proposal that can still be accepted was made by the present owner: no *)
(* earlier owner's choice takes the vault away from it                     *)
(***************************************************************************)
PendingFromOwner == pending # None => pending.proposer = owner

(***************************************************************************)
(* The address a migration paid had been announced, and not been replaced, *)
(* for the whole timelock, however often announcements are repeated,       *)
(* replaced and cancelled                                                  *)
(***************************************************************************)
MigrationAnnounced == notice # None => notice >= MigrationTimelock

(***************************************************************************)
(* During a halt, until it is lifted or has lasted fourteen days, only a   *)
(* migration takes tokens out, and no account and no limit changes         *)
(***************************************************************************)
HaltFreezes ==
    [][haltedAt # None /\ now < haltedAt + MaxPauseDuration =>
          /\ UNCHANGED <<accounts, maxLimit, tokenLimit, operatorLimit>>
          /\ \A t \in Tokens : held'[t] < held[t] =>
                t = DefaultToken /\ migration # None /\ migration' = None]_vars
=============================================================================
