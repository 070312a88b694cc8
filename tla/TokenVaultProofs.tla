-------------------------- MODULE TokenVaultProofs --------------------------
(***************************************************************************)
(* Proofs about the token vault: its type invariant, the bound on its      *)
(* exposure, the balance snapshot, the operator's claim, the change of     *)
(* owner, the notice of a migration and the halt.                          *)
(***************************************************************************)
EXTENDS TokenVault, TLAPS

-----------------------------------------------------------------------------
(* What the shared fragments of the actions write *)

LEMMA SettleType ==
    ASSUME VaultTypeOK, NEW token \in Tokens, NEW balance \in Nat, Settle(token, balance)
    PROVE  /\ held' \in [Tokens -> Nat]
           /\ snapshot' \in [Tokens -> SnapshotType \cup {None}]
           /\ disturbed' \subseteq Tokens
<1>1. [ledger |-> now, expected_balance |-> balance] \in SnapshotType
  BY DEF VaultTypeOK, SnapshotType
<1> QED
  BY <1>1 DEF VaultTypeOK, Settle

LEMMA CreditType ==
    ASSUME VaultTypeOK, NEW token \in Tokens, NEW account \in Addrs, NEW amount \in Nat,
           Credit(token, account, amount)
    PROVE  /\ accounts' \in [Tokens -> [Addrs -> Nat]]
           /\ claim' \in [Tokens -> [Addrs -> Int]]
<1>1. [accounts[token] EXCEPT ![account] = @ + amount] \in [Addrs -> Nat]
  BY DEF VaultTypeOK
<1>2. [claim[token] EXCEPT ![account] = @ + amount] \in [Addrs -> Int]
  BY DEF VaultTypeOK
<1> QED
  BY <1>1, <1>2 DEF VaultTypeOK, Credit

LEMMA RunningType ==
    ASSUME VaultTypeOK, Running
    PROVE  pauseEntry' \in PauseType /\ haltedAt' \in Nat \cup {None}
BY DEF VaultTypeOK, Running, AfterIsPaused, PauseType

LEMMA CallType ==
    ASSUME VaultTypeOK, OneCall
    PROVE  calls' \in Nat
BY DEF VaultTypeOK, OneCall

(* A caller that is owner or operator is an address or None, which no input is *)
LEMMA DepositType ==
    ASSUME VaultTypeOK, NEW from \in Addrs, NEW amount \in Int, deposit(from, amount)
    PROVE  VaultTypeOK'
<1>1. amount \in Nat /\ held[DefaultToken] + amount \in Nat
  BY VaultTokenAssumption, VaultNumberAssumption DEF VaultTypeOK, deposit
<1>2. /\ held' \in [Tokens -> Nat] /\ snapshot' \in [Tokens -> SnapshotType \cup {None}]
      /\ disturbed' \subseteq Tokens
  BY <1>1, SettleType, VaultTokenAssumption DEF deposit
<1>3. accounts' \in [Tokens -> [Addrs -> Nat]] /\ claim' \in [Tokens -> [Addrs -> Int]]
  <2>1. CASE Credit(DefaultToken, from, amount)
    BY <1>1, <2>1, CreditType, VaultTokenAssumption
  <2>2. CASE UNCHANGED accountVars
    BY <2>2 DEF accountVars, VaultTypeOK
  <2> QED
    BY <2>1, <2>2 DEF deposit
<1>4. pauseEntry' \in PauseType /\ haltedAt' \in Nat \cup {None} /\ calls' \in Nat
  BY RunningType, CallType DEF deposit
<1> QED
  BY <1>2, <1>3, <1>4
  DEF VaultTypeOK, deposit, Checked, roleVars, limitVars, proposalVars, migrationVars

LEMMA VaultTypeInit == Init => VaultTypeOK
BY VaultAddrAssumption, VaultTokenAssumption, VaultNumberAssumption, VaultInputAssumption
DEF Init, VaultTypeOK, NeverPaused, PauseType

LEMMA ReportType ==
    ASSUME VaultTypeOK, NEW from \in Addrs, NEW amount \in Int,
           deposit_with_failure_report(from, amount)
    PROVE  VaultTypeOK'
<1>1. pauseEntry' \in PauseType /\ haltedAt' \in Nat \cup {None} /\ calls' \in Nat
  BY RunningType, CallType DEF deposit_with_failure_report
<1>2. CASE UNCHANGED <<balanceVars, accountVars, exposureVars>>
  BY <1>1, <1>2
  DEF VaultTypeOK, deposit_with_failure_report, roleVars, limitVars, balanceVars, accountVars,
      exposureVars, proposalVars, migrationVars
<1>3. CASE /\ Settle(DefaultToken, held[DefaultToken] + amount)
           /\ Credit(DefaultToken, from, amount)
           /\ Checked
  <2>1. amount \in Nat /\ held[DefaultToken] + amount \in Nat
    BY VaultTokenAssumption, VaultNumberAssumption DEF VaultTypeOK, deposit_with_failure_report
  <2>2. /\ held' \in [Tokens -> Nat] /\ snapshot' \in [Tokens -> SnapshotType \cup {None}]
        /\ disturbed' \subseteq Tokens
    BY <1>3, <2>1, SettleType, VaultTokenAssumption
  <2>3. accounts' \in [Tokens -> [Addrs -> Nat]] /\ claim' \in [Tokens -> [Addrs -> Int]]
    BY <1>3, <2>1, CreditType, VaultTokenAssumption
  <2> QED
    BY <1>1, <1>3, <2>2, <2>3
    DEF VaultTypeOK, deposit_with_failure_report, Checked, roleVars, limitVars, proposalVars,
        migrationVars
<1> QED
  BY <1>2, <1>3 DEF deposit_with_failure_report

LEMMA BatchDepositType ==
    ASSUME VaultTypeOK, NEW deposits, batch_deposit(deposits)
    PROVE  VaultTypeOK'
<1>1. Total(deposits) \in Nat
  BY VaultNumberAssumption DEF batch_deposit, Payable
<1>2. held[DefaultToken] + Total(deposits) \in Nat
  BY <1>1, VaultTokenAssumption DEF VaultTypeOK
<1>3. /\ held' \in [Tokens -> Nat] /\ snapshot' \in [Tokens -> SnapshotType \cup {None}]
      /\ disturbed' \subseteq Tokens
  BY <1>2, SettleType, VaultTokenAssumption DEF batch_deposit
<1>4. pauseEntry' \in PauseType /\ haltedAt' \in Nat \cup {None} /\ calls' \in Nat
  BY RunningType, CallType DEF batch_deposit
<1> QED
  BY <1>3, <1>4
  DEF VaultTypeOK, batch_deposit, Checked, roleVars, limitVars, accountVars, proposalVars,
      migrationVars

LEMMA DepositTokenType ==
    ASSUME VaultTypeOK, NEW from \in Addrs, NEW token \in Tokens, NEW amount \in Int,
           deposit_token(from, token, amount)
    PROVE  VaultTypeOK'
<1>1. amount \in Nat /\ held[token] + amount \in Nat
  BY VaultNumberAssumption DEF VaultTypeOK, deposit_token
<1>2. /\ held' \in [Tokens -> Nat] /\ snapshot' \in [Tokens -> SnapshotType \cup {None}]
      /\ disturbed' \subseteq Tokens
  BY <1>1, SettleType DEF deposit_token
<1>3. accounts' \in [Tokens -> [Addrs -> Nat]] /\ claim' \in [Tokens -> [Addrs -> Int]]
  BY <1>1, CreditType DEF deposit_token
<1>4. pauseEntry' \in PauseType /\ haltedAt' \in Nat \cup {None} /\ calls' \in Nat
  BY RunningType, CallType DEF deposit_token
<1>5. sideloaded' \in Nat
  BY <1>1 DEF VaultTypeOK, deposit_token
<1> QED
  BY <1>2, <1>3, <1>4, <1>5
  DEF VaultTypeOK, deposit_token, roleVars, limitVars, proposalVars, migrationVars

LEMMA WithdrawType ==
    ASSUME VaultTypeOK, NEW caller, NEW payouts, withdraw_batch(caller, payouts)
    PROVE  VaultTypeOK'
<1>1. Total(payouts) \in Nat /\ Total(payouts) <= held[DefaultToken]
  BY VaultNumberAssumption DEF withdraw_batch, Payable
<1>2. held[DefaultToken] - Total(payouts) \in Nat
  BY <1>1, VaultTokenAssumption DEF VaultTypeOK
<1>3. /\ held' \in [Tokens -> Nat] /\ snapshot' \in [Tokens -> SnapshotType \cup {None}]
      /\ disturbed' \subseteq Tokens
  BY <1>2, SettleType, VaultTokenAssumption DEF withdraw_batch
<1>4. pauseEntry' \in PauseType /\ haltedAt' \in Nat \cup {None} /\ calls' \in Nat
  BY RunningType, CallType DEF withdraw_batch
<1> QED
  BY <1>3, <1>4
  DEF VaultTypeOK, withdraw_batch, roleVars, limitVars, accountVars, exposureVars, proposalVars,
      migrationVars

LEMMA WithdrawTokenType ==
    ASSUME VaultTypeOK, NEW caller \in Addrs, NEW token \in Tokens, NEW amount \in Int,
           withdraw_token(caller, token, amount)
    PROVE  VaultTypeOK'
<1>1. held[token] - amount \in Nat
  BY DEF VaultTypeOK, withdraw_token
<1>2. /\ held' \in [Tokens -> Nat] /\ snapshot' \in [Tokens -> SnapshotType \cup {None}]
      /\ disturbed' \subseteq Tokens
  BY <1>1, SettleType DEF withdraw_token
<1>3. accounts' \in [Tokens -> [Addrs -> Nat]]
  BY DEF VaultTypeOK, withdraw_token
<1>4. claim' \in [Tokens -> [Addrs -> Int]]
  BY DEF VaultTypeOK, withdraw_token
<1>5. pauseEntry' \in PauseType /\ haltedAt' \in Nat \cup {None} /\ calls' \in Nat
  BY RunningType, CallType DEF withdraw_token
<1> QED
  BY <1>2, <1>3, <1>4, <1>5
  DEF VaultTypeOK, withdraw_token, roleVars, limitVars, exposureVars, proposalVars, migrationVars

(* The calls that move no token *)
LEMMA SettingType ==
    ASSUME VaultTypeOK,
           \/ \E l \in Limits : set_operator_withdraw_limit(l)
           \/ \E a \in Addrs, l \in Limits : set_limit(a, l)
           \/ \E a \in Addrs, t \in Tokens, l \in Limits : set_token_max_limit(a, t, l)
           \/ \E t \in Tokens, b \in BOOLEAN : approve_token(t, b)
           \/ \E a \in Operators \cup {None} : SetOperator(a)
           \/ \E s \in Ttls : set_owner_proposal_ttl(s)
    PROVE  VaultTypeOK'
<1> USE DEF roleVars, limitVars, balanceVars, accountVars, exposureVars, pauseVars,
            proposalVars, migrationVars
<1>1. CASE \E l \in Limits : set_operator_withdraw_limit(l)
  <2>1. PICK l \in Limits : set_operator_withdraw_limit(l)
    BY <1>1
  <2>2. l \in Nat
    BY <2>1, VaultInputAssumption DEF set_operator_withdraw_limit
  <2>3. pauseEntry' \in PauseType /\ haltedAt' \in Nat \cup {None} /\ calls' \in Nat
    BY <2>1, RunningType, CallType DEF set_operator_withdraw_limit
  <2> QED
    BY <2>1, <2>2, <2>3 DEF VaultTypeOK, set_operator_withdraw_limit
<1>2. CASE \E a \in Addrs, l \in Limits : set_limit(a, l)
  <2>1. PICK a \in Addrs, l \in Limits : set_limit(a, l)
    BY <1>2
  <2>2. l \in Nat
    BY <2>1, VaultInputAssumption DEF set_limit
  <2>3. pauseEntry' \in PauseType /\ haltedAt' \in Nat \cup {None} /\ calls' \in Nat
    BY <2>1, RunningType, CallType DEF set_limit
  <2> QED
    BY <2>1, <2>2, <2>3 DEF VaultTypeOK, set_limit, Checked
<1>3. CASE \E a \in Addrs, t \in Tokens, l \in Limits : set_token_max_limit(a, t, l)
  <2>1. PICK a \in Addrs, t \in Tokens, l \in Limits : set_token_max_limit(a, t, l)
    BY <1>3
  <2>2. l \in Nat
    BY <2>1, VaultInputAssumption DEF set_token_max_limit
  <2>3. pauseEntry' \in PauseType /\ haltedAt' \in Nat \cup {None} /\ calls' \in Nat
    BY <2>1, RunningType, CallType DEF set_token_max_limit
  <2> QED
    BY <2>1, <2>2, <2>3 DEF VaultTypeOK, set_token_max_limit
<1>4. CASE \E t \in Tokens, b \in BOOLEAN : approve_token(t, b)
  BY <1>4, CallType DEF VaultTypeOK, approve_token
<1>5. CASE \E a \in Operators \cup {None} : SetOperator(a)
  BY <1>5, CallType, VaultAddrAssumption DEF VaultTypeOK, SetOperator
<1>6. CASE \E s \in Ttls : set_owner_proposal_ttl(s)
  BY <1>6, CallType, VaultInputAssumption DEF VaultTypeOK, set_owner_proposal_ttl
<1> QED
  BY <1>1, <1>2, <1>3, <1>4, <1>5, <1>6

(* The change of owner, the halt, the migration and the environment *)
LEMMA OtherType ==
    ASSUME VaultTypeOK,
           \/ Tick
           \/ \E a \in Candidates : propose_owner(a)
           \/ \E a \in Addrs : accept_owner(a)
           \/ pause \/ unpause \/ ReadPause
           \/ \E a \in Destinations : initiate_emergency_migration(a)
           \/ execute_emergency_migration
           \/ cancel_emergency_migration
           \/ \E t \in Tokens, n \in Gifts : Gift(t, n)
    PROVE  VaultTypeOK'
<1> USE DEF roleVars, limitVars, balanceVars, accountVars, exposureVars, pauseVars,
            proposalVars, migrationVars
<1>1. CASE Tick
  BY <1>1 DEF VaultTypeOK, Tick
<1>2. CASE \E a \in Candidates : propose_owner(a)
  <2>1. PICK a \in Candidates : propose_owner(a)
    BY <1>2
  <2>2. [to |-> a, proposer |-> owner, at |-> now] \in ProposalType
    BY <2>1, VaultAddrAssumption DEF VaultTypeOK, ProposalType, propose_owner
  <2> QED
    BY <2>1, <2>2, CallType DEF VaultTypeOK, propose_owner
<1>3. CASE \E a \in Addrs : accept_owner(a)
  BY <1>3, CallType DEF VaultTypeOK, accept_owner
<1>4. CASE pause \/ unpause
  <2>1. \A b \in BOOLEAN, at \in Nat :
            [form |-> "state", paused |-> b, paused_at |-> at] \in PauseType
    BY DEF PauseType
  <2>2. \/ pauseEntry' = [form |-> "state", paused |-> TRUE, paused_at |-> now]
        \/ pauseEntry' = [form |-> "state", paused |-> FALSE, paused_at |-> 0]
    BY <1>4 DEF pause, unpause, set_paused
  <2>3. now \in Nat
    BY DEF VaultTypeOK
  <2>4. pauseEntry' \in PauseType
    BY <2>1, <2>2, <2>3
  <2> QED
    BY <1>4, <2>4, CallType DEF VaultTypeOK, pause, unpause
<1>5. CASE ReadPause
  <2>1. pauseEntry' \in PauseType
    BY <1>5 DEF VaultTypeOK, ReadPause, AfterIsPaused, PauseType
  <2> QED
    BY <1>5, <2>1, CallType DEF VaultTypeOK, ReadPause
<1>6. CASE \E a \in Destinations : initiate_emergency_migration(a)
  <2>1. PICK a \in Destinations : initiate_emergency_migration(a)
    BY <1>6
  <2>2. [destination |-> a, executable_at |-> now + MigrationTimelock] \in MigrationType
    BY <2>1, VaultAddrAssumption, VaultNumberAssumption
    DEF VaultTypeOK, MigrationType, initiate_emergency_migration
  <2>3. pendingSince' \in Nat
    BY <2>1 DEF VaultTypeOK, initiate_emergency_migration
  <2> QED
    BY <2>1, <2>2, <2>3, CallType DEF VaultTypeOK, initiate_emergency_migration
<1>7. CASE cancel_emergency_migration
  BY <1>7, CallType DEF VaultTypeOK, cancel_emergency_migration
<1>8. CASE \E t \in Tokens, n \in Gifts : Gift(t, n)
  BY <1>8, CallType, VaultInputAssumption DEF VaultTypeOK, Gift
<1>9. CASE execute_emergency_migration
  <2>1. held' \in [Tokens -> Nat] /\ disturbed' \subseteq Tokens
    BY <1>9, VaultTokenAssumption DEF VaultTypeOK, execute_emergency_migration
  <2>2. notice' \in Int
    BY <1>9 DEF VaultTypeOK, execute_emergency_migration
  <2> QED
    BY <1>9, <2>1, <2>2, CallType DEF VaultTypeOK, execute_emergency_migration
<1> QED
  BY <1>1, <1>2, <1>3, <1>4, <1>5, <1>6, <1>7, <1>8, <1>9

LEMMA VaultTypeStep == VaultTypeOK /\ [Next]_vars => VaultTypeOK'
<1> SUFFICES ASSUME VaultTypeOK, [Next]_vars PROVE VaultTypeOK'
  OBVIOUS
<1>1. CASE \E a \in Addrs, n \in Amounts : deposit(a, n)
  BY <1>1, DepositType, VaultInputAssumption
<1>2. CASE \E a \in Addrs, gross \in Amounts, fee \in Amounts : deposit_with_fee(a, gross, fee)
  <2>1. PICK a \in Addrs, gross \in Amounts, fee \in Amounts : deposit(a, gross - fee)
    BY <1>2 DEF deposit_with_fee
  <2>2. gross - fee \in Int
    BY VaultInputAssumption
  <2> QED
    BY <2>1, <2>2, DepositType
<1>3. CASE \E a \in Addrs, n \in Amounts : deposit_with_failure_report(a, n)
  BY <1>3, ReportType, VaultInputAssumption
<1>4. CASE \E s \in Splits : batch_deposit(s)
  BY <1>4, BatchDepositType
<1>5. CASE \E a \in Addrs, t \in Tokens, n \in Amounts : deposit_token(a, t, n)
  BY <1>5, DepositTokenType, VaultInputAssumption
<1>6. CASE \/ \E a \in Addrs, n \in Amounts : withdraw(a, n)
           \/ \E a \in Addrs, s \in Splits : withdraw_batch(a, s)
  <2>1. PICK a, s : withdraw_batch(a, s)
    BY <1>6 DEF withdraw
  <2> QED
    BY <2>1, WithdrawType
<1>7. CASE \E a \in Addrs, t \in Tokens, n \in Amounts : withdraw_token(a, t, n)
  BY <1>7, WithdrawTokenType, VaultInputAssumption
<1>8. CASE UNCHANGED vars
  BY <1>8
  DEF VaultTypeOK, vars, roleVars, limitVars, balanceVars, accountVars, exposureVars, pauseVars,
      proposalVars, migrationVars
<1> QED
  BY <1>1, <1>2, <1>3, <1>4, <1>5, <1>6, <1>7, <1>8, SettingType, OtherType DEF Next

(* The entries and balances keep their types, and balances never go below 0. *)
THEOREM VaultTypeInvariance == Spec => []VaultTypeOK
BY VaultTypeInit, VaultTypeStep, PTL DEF Spec

-----------------------------------------------------------------------------
(* The change of owner *)

LEMMA PendingStep == PendingFromOwner /\ [Next]_vars => PendingFromOwner'
<1> SUFFICES ASSUME PendingFromOwner, [Next]_vars PROVE PendingFromOwner'
  OBVIOUS
<1>1. CASE \E a \in Candidates : propose_owner(a)
  BY <1>1 DEF propose_owner, PendingFromOwner, roleVars
<1>2. CASE \E a \in Addrs : accept_owner(a)
  BY <1>2 DEF accept_owner, PendingFromOwner
<1>3. CASE ~(\/ \E a \in Candidates : propose_owner(a)
             \/ \E a \in Addrs : accept_owner(a))
  <2>1. UNCHANGED <<owner, pending>>
    BY <1>3
    DEF Next, vars, roleVars, proposalVars, Tick, deposit, deposit_with_fee,
        deposit_with_failure_report, batch_deposit, deposit_token, withdraw, withdraw_batch,
        withdraw_token, set_operator_withdraw_limit, set_limit, set_token_max_limit,
        approve_token, SetOperator, set_owner_proposal_ttl, pause, unpause, ReadPause,
        initiate_emergency_migration, execute_emergency_migration,
        cancel_emergency_migration, Gift
  <2> QED
    BY <2>1 DEF PendingFromOwner
<1> QED
  BY <1>1, <1>2, <1>3

(***************************************************************************)
(* Nobody becomes owner by a proposal that the present owner did not make, *)
(* however proposals, acceptances and new validity periods follow on each  *)
(* other.                                                                  *)
(***************************************************************************)
THEOREM PendingHolds == Spec => []PendingFromOwner
<1>1. Init => PendingFromOwner
  BY DEF Init, PendingFromOwner
<1> QED
  BY <1>1, PendingStep, PTL DEF Spec

-----------------------------------------------------------------------------
(* The notice of a migration *)

(***************************************************************************)
(* A pending migration can only be executed once its destination has stood *)
(* for the timelock.                                                       *)
(***************************************************************************)
NoticeInv ==
    /\ VaultTypeOK
    /\ MigrationAnnounced
    /\ pendingSince <= now
    /\ migration # None => migration.executable_at >= pendingSince + MigrationTimelock

LEMMA NoticeStep == NoticeInv /\ [Next]_vars => NoticeInv'
<1> SUFFICES ASSUME NoticeInv, [Next]_vars PROVE NoticeInv'
  OBVIOUS
<1>1. VaultTypeOK /\ VaultTypeOK'
  BY VaultTypeStep DEF NoticeInv
<1>2. /\ now \in Nat /\ pendingSince \in Nat /\ MigrationTimelock \in Nat
      /\ migration # None => migration.executable_at \in Nat
  BY <1>1, VaultNumberAssumption DEF VaultTypeOK, MigrationType
<1>3. CASE \E a \in Destinations : initiate_emergency_migration(a)
  <2>1. /\ now' = now /\ notice' = notice
        /\ pendingSince' = pendingSince \/ pendingSince' = now
        /\ migration'.executable_at = now + MigrationTimelock
    BY <1>3 DEF initiate_emergency_migration
  <2>2. pendingSince <= now
    BY DEF NoticeInv
  <2>3. pendingSince' <= now' /\ now + MigrationTimelock >= pendingSince' + MigrationTimelock
    BY <1>2, <2>1, <2>2
  <2>4. MigrationAnnounced'
    BY <2>1 DEF NoticeInv, MigrationAnnounced
  <2> QED
    BY <1>1, <2>1, <2>3, <2>4 DEF NoticeInv
<1>4. CASE execute_emergency_migration
  <2>1. /\ UNCHANGED <<now, pendingSince>> /\ migration' = None
        /\ notice' = now - pendingSince /\ now >= migration.executable_at /\ migration # None
    BY <1>4 DEF execute_emergency_migration
  <2>2. now - pendingSince >= MigrationTimelock
    BY <1>2, <2>1 DEF NoticeInv
  <2> QED
    BY <1>1, <2>1, <2>2 DEF NoticeInv, MigrationAnnounced
<1>5. CASE cancel_emergency_migration
  BY <1>1, <1>5 DEF cancel_emergency_migration, NoticeInv, MigrationAnnounced
<1>6. CASE Tick
  <2>1. UNCHANGED migrationVars /\ now' = now + 1
    BY <1>6 DEF Tick
  <2> QED
    BY <1>1, <1>2, <2>1 DEF NoticeInv, MigrationAnnounced, migrationVars
<1>7. CASE ~(\/ \E a \in Destinations : initiate_emergency_migration(a)
             \/ execute_emergency_migration \/ cancel_emergency_migration \/ Tick)
  <2>1. UNCHANGED <<now, migration, pendingSince, notice>>
    BY <1>7
    DEF Next, vars, migrationVars, deposit, deposit_with_fee, deposit_with_failure_report,
        batch_deposit, deposit_token, withdraw, withdraw_batch, withdraw_token,
        set_operator_withdraw_limit, set_limit, set_token_max_limit, approve_token, SetOperator,
        propose_owner, accept_owner, set_owner_proposal_ttl, pause, unpause, ReadPause, Gift
  <2> QED
    BY <1>1, <2>1 DEF NoticeInv, MigrationAnnounced
<1> QED
  BY <1>3, <1>4, <1>5, <1>6, <1>7

(***************************************************************************)
(* A migration only pays an address that was announced a timelock ago and  *)
(* not replaced since: a second announcement gains no time from the first. *)
(***************************************************************************)
THEOREM NoticeHolds == Spec => []MigrationAnnounced
<1>1. Init => NoticeInv
  BY VaultTypeInit DEF Init, NoticeInv, MigrationAnnounced
<1>2. NoticeInv => MigrationAnnounced
  BY DEF NoticeInv
<1> QED
  BY <1>1, <1>2, NoticeStep, PTL DEF Spec

-----------------------------------------------------------------------------
(* The operator's claim *)

(* No account holds more than its address was credited and has not drawn. *)
ClaimInv ==
    /\ VaultTypeOK
    /\ \A t \in Tokens, a \in Addrs : accounts[t][a] <= claim[t][a]

LEMMA CreditKeepsClaim ==
    ASSUME ClaimInv, NEW token \in Tokens, NEW account \in Addrs, NEW amount \in Nat,
           Credit(token, account, amount)
    PROVE  \A t \in Tokens, a \in Addrs : accounts'[t][a] <= claim'[t][a]
<1> SUFFICES ASSUME NEW t \in Tokens, NEW a \in Addrs
             PROVE  accounts'[t][a] <= claim'[t][a]
  OBVIOUS
<1>1. accounts[t][a] \in Nat /\ claim[t][a] \in Int /\ accounts[t][a] <= claim[t][a]
  BY DEF ClaimInv, VaultTypeOK
<1>2. CASE t = token /\ a = account
  <2>1. accounts'[t][a] = accounts[t][a] + amount /\ claim'[t][a] = claim[t][a] + amount
    BY <1>2 DEF Credit, ClaimInv, VaultTypeOK
  <2> QED
    BY <1>1, <2>1
<1>3. CASE ~(t = token /\ a = account)
  <2>1. accounts'[t][a] = accounts[t][a] /\ claim'[t][a] = claim[t][a]
    BY <1>3 DEF Credit, ClaimInv, VaultTypeOK
  <2> QED
    BY <1>1, <2>1
<1> QED
  BY <1>2, <1>3

LEMMA DrawKeepsClaim ==
    ASSUME ClaimInv, NEW caller \in Addrs, NEW token \in Tokens, NEW amount \in Int,
           withdraw_token(caller, token, amount)
    PROVE  \A t \in Tokens, a \in Addrs : accounts'[t][a] <= claim'[t][a]
<1> SUFFICES ASSUME NEW t \in Tokens, NEW a \in Addrs
             PROVE  accounts'[t][a] <= claim'[t][a]
  OBVIOUS
<1>1. /\ accounts[t][a] \in Nat /\ claim[t][a] \in Int /\ accounts[t][a] <= claim[t][a]
      /\ amount > 0
  BY DEF ClaimInv, VaultTypeOK, withdraw_token
<1>2. CASE t = token /\ a = caller
  <2>1. accounts'[t][a] = IF amount <= accounts[t][a] THEN accounts[t][a] - amount
                          ELSE accounts[t][a]
    BY <1>2 DEF withdraw_token, ClaimInv, VaultTypeOK
  <2>2. claim'[t][a] = IF caller = owner THEN claim[t][a] ELSE claim[t][a] - amount
    BY <1>2 DEF withdraw_token, ClaimInv, VaultTypeOK
  <2>3. caller # owner => amount <= accounts[t][a]
    BY <1>2 DEF withdraw_token
  <2> QED
    BY <1>1, <2>1, <2>2, <2>3
<1>3. CASE ~(t = token /\ a = caller)
  <2>1. accounts'[t][a] = accounts[t][a] /\ claim'[t][a] = claim[t][a]
    BY <1>3 DEF withdraw_token, ClaimInv, VaultTypeOK
  <2> QED
    BY <1>1, <2>1
<1> QED
  BY <1>2, <1>3

LEMMA DepositKeepsClaim ==
    ASSUME ClaimInv, NEW from \in Addrs, NEW amount \in Int, deposit(from, amount)
    PROVE  \A t \in Tokens, a \in Addrs : accounts'[t][a] <= claim'[t][a]
<1>1. amount \in Nat
  BY VaultNumberAssumption DEF deposit
<1>2. CASE Credit(DefaultToken, from, amount)
  BY <1>1, <1>2, CreditKeepsClaim, VaultTokenAssumption
<1>3. CASE UNCHANGED accountVars
  BY <1>3 DEF ClaimInv, accountVars
<1> QED
  BY <1>2, <1>3 DEF deposit

LEMMA ClaimStep == ClaimInv /\ [Next]_vars => ClaimInv'
<1> SUFFICES ASSUME ClaimInv, [Next]_vars
             PROVE  \A t \in Tokens, a \in Addrs : accounts'[t][a] <= claim'[t][a]
  BY VaultTypeStep DEF ClaimInv
<1>1. CASE \E a \in Addrs, n \in Amounts : deposit(a, n)
  BY <1>1, DepositKeepsClaim, VaultInputAssumption
<1>2. CASE \E a \in Addrs, gross \in Amounts, fee \in Amounts : deposit_with_fee(a, gross, fee)
  <2>1. PICK a \in Addrs, gross \in Amounts, fee \in Amounts : deposit(a, gross - fee)
    BY <1>2 DEF deposit_with_fee
  <2>2. gross - fee \in Int
    BY VaultInputAssumption
  <2> QED
    BY <2>1, <2>2, DepositKeepsClaim
<1>3. CASE \E a \in Addrs, n \in Amounts : deposit_with_failure_report(a, n)
  <2>1. PICK a \in Addrs, n \in Amounts : deposit_with_failure_report(a, n)
    BY <1>3
  <2>2. n \in Nat
    BY <2>1, VaultInputAssumption, VaultNumberAssumption DEF deposit_with_failure_report
  <2>3. UNCHANGED accountVars \/ Credit(DefaultToken, a, n)
    BY <2>1 DEF deposit_with_failure_report
  <2> QED
    BY <2>2, <2>3, CreditKeepsClaim, VaultTokenAssumption DEF ClaimInv, accountVars
<1>4. CASE \E a \in Addrs, t \in Tokens, n \in Amounts : deposit_token(a, t, n)
  <2>1. PICK a \in Addrs, t \in Tokens, n \in Amounts : deposit_token(a, t, n)
    BY <1>4
  <2>2. n \in Nat
    BY <2>1, VaultInputAssumption, VaultNumberAssumption DEF deposit_token
  <2> QED
    BY <2>1, <2>2, CreditKeepsClaim DEF deposit_token
<1>5. CASE \E a \in Addrs, t \in Tokens, n \in Amounts : withdraw_token(a, t, n)
  BY <1>5, DrawKeepsClaim, VaultInputAssumption
<1>6. CASE ~(\/ \E a \in Addrs, n \in Amounts : deposit(a, n)
             \/ \E a \in Addrs, gross \in Amounts, fee \in Amounts :
                   deposit_with_fee(a, gross, fee)
             \/ \E a \in Addrs, n \in Amounts : deposit_with_failure_report(a, n)
             \/ \E a \in Addrs, t \in Tokens, n \in Amounts : deposit_token(a, t, n)
             \/ \E a \in Addrs, t \in Tokens, n \in Amounts : withdraw_token(a, t, n))
  <2>1. UNCHANGED <<accounts, claim>>
    BY <1>6
    DEF Next, vars, accountVars, Tick, batch_deposit, withdraw, withdraw_batch,
        set_operator_withdraw_limit, set_limit, set_token_max_limit, approve_token, SetOperator,
        propose_owner, accept_owner, set_owner_proposal_ttl, pause, unpause, ReadPause,
        initiate_emergency_migration, execute_emergency_migration,
        cancel_emergency_migration, Gift
  <2> QED
    BY <2>1 DEF ClaimInv
<1> QED
  BY <1>1, <1>2, <1>3, <1>4, <1>5, <1>6

(***************************************************************************)
(* Through withdraw_token an address that is not the owner never takes out *)
(* more of a token than was credited to it, whoever is owner and operator  *)
(* when.                                                                   *)
(***************************************************************************)
THEOREM OperatorClaimHolds == Spec => []OperatorTakesOwn
<1>1. Init => ClaimInv
  BY VaultTypeInit DEF Init, ClaimInv
<1>2. ClaimInv => OperatorTakesOwn
  <2> SUFFICES ASSUME ClaimInv, NEW t \in Tokens, NEW a \in Addrs PROVE claim[t][a] >= 0
    BY DEF OperatorTakesOwn
  <2>1. accounts[t][a] \in Nat /\ claim[t][a] \in Int /\ accounts[t][a] <= claim[t][a]
    BY DEF ClaimInv, VaultTypeOK
  <2> QED
    BY <2>1
<1> QED
  BY <1>1, <1>2, ClaimStep, PTL DEF Spec

-----------------------------------------------------------------------------
(* The exposure and the snapshots *)

(* No snapshot is of a later ledger, so the next ledger finds none of its own. *)
SnapshotPast == \A t \in Tokens : snapshot[t] # None => snapshot[t].ledger <= now

FundsInv == VaultTypeOK /\ ExposureBounded /\ SnapshotCurrent /\ SnapshotPast

LEMMA SettleKeepsSnapshots ==
    ASSUME FundsInv, NEW token \in Tokens, NEW balance \in Nat, Settle(token, balance), now' = now
    PROVE  /\ SnapshotCurrent' /\ SnapshotPast'
           /\ held'[token] = balance
           /\ \A t \in Tokens : t # token => held'[t] = held[t]
<1>1. now \in Nat
  BY DEF FundsInv, VaultTypeOK
<1>2. /\ held'[token] = balance
      /\ \A t \in Tokens : t # token => held'[t] = held[t]
  BY DEF Settle, FundsInv, VaultTypeOK
<1>3. /\ snapshot'[token] = [ledger |-> now, expected_balance |-> balance]
      /\ \A t \in Tokens : t # token => snapshot'[t] = snapshot[t]
  BY DEF Settle, FundsInv, VaultTypeOK
<1>4. snapshot'[token].ledger = now /\ snapshot'[token].expected_balance = balance
  BY <1>3
<1>5. SnapshotPast'
  BY <1>1, <1>3, <1>4 DEF FundsInv, SnapshotPast
<1>6. ASSUME NEW t \in Tokens, t \notin disturbed'
      PROVE  check_vault_balance(t)'
  <2>1. CASE t = token
    BY <1>2, <1>4, <2>1 DEF check_vault_balance
  <2>2. CASE t # token
    <3>1. check_vault_balance(t)
      BY <1>6, <2>2 DEF FundsInv, SnapshotCurrent, Settle
    <3> QED
      BY <1>2, <1>3, <2>2, <3>1 DEF check_vault_balance
  <2> QED
    BY <2>1, <2>2
<1> QED
  BY <1>2, <1>5, <1>6 DEF SnapshotCurrent

(* A transfer the vault does not record *)
LEMMA DisturbKeepsSnapshots ==
    ASSUME FundsInv, NEW token \in Tokens, now' = now, snapshot' = snapshot,
           \A t \in Tokens : t # token => held'[t] = held[t],
           disturbed' = disturbed \cup {token}
    PROVE  SnapshotCurrent' /\ SnapshotPast'
<1>1. ASSUME NEW t \in Tokens, t \notin disturbed'
      PROVE  check_vault_balance(t)'
  <2>1. check_vault_balance(t) /\ t # token
    BY <1>1 DEF FundsInv, SnapshotCurrent
  <2> QED
    BY <2>1 DEF check_vault_balance
<1> QED
  BY <1>1 DEF SnapshotCurrent, SnapshotPast, FundsInv

LEMMA QuietKeepsSnapshots ==
    ASSUME FundsInv, UNCHANGED <<now, held, snapshot, disturbed>>
    PROVE  SnapshotCurrent' /\ SnapshotPast'
BY DEF FundsInv, SnapshotCurrent, SnapshotPast, check_vault_balance

LEMMA TickKeepsSnapshots ==
    ASSUME FundsInv, Tick
    PROVE  SnapshotCurrent' /\ SnapshotPast'
<1>1. now \in Nat /\ now' = now + 1 /\ snapshot' = snapshot
  BY DEF FundsInv, VaultTypeOK, Tick, balanceVars
<1>2. ASSUME NEW t \in Tokens, snapshot[t] # None
      PROVE  snapshot[t].ledger <= now' /\ snapshot[t].ledger # now'
  <2>1. snapshot[t].ledger \in Nat
    BY <1>2 DEF FundsInv, VaultTypeOK, SnapshotType
  <2>2. snapshot[t].ledger <= now
    BY <1>2 DEF FundsInv, SnapshotPast
  <2> QED
    BY <1>1, <2>1, <2>2
<1> QED
  BY <1>1, <1>2 DEF SnapshotCurrent, SnapshotPast, check_vault_balance

(* A checked deposit of the default token, by any of the calls that make one *)
LEMMA CheckedDepositKeepsFunds ==
    ASSUME FundsInv, NEW total \in Nat, AcceptsDeposit(total), Checked, now' = now,
           Settle(DefaultToken, held[DefaultToken] + total), maxLimit' = maxLimit
    PROVE  ExposureBounded' /\ SnapshotCurrent' /\ SnapshotPast'
<1>1. held[DefaultToken] + total \in Nat /\ maxLimit \in Nat
  BY VaultTokenAssumption DEF FundsInv, VaultTypeOK
<1>2. /\ SnapshotCurrent' /\ SnapshotPast'
      /\ held'[DefaultToken] = held[DefaultToken] + total
  BY <1>1, SettleKeepsSnapshots, VaultTokenAssumption
<1>3. held[DefaultToken] + total <= maxLimit /\ gifted' = 0 /\ sideloaded' = 0
  BY DEF AcceptsDeposit, Checked
<1> QED
  BY <1>1, <1>2, <1>3 DEF ExposureBounded

(* A step that takes tokens out, or moves a token other than the default one *)
LEMMA OutflowKeepsFunds ==
    ASSUME FundsInv, NEW token \in Tokens, NEW balance \in Nat, Settle(token, balance),
           token = DefaultToken => balance <= held[DefaultToken],
           now' = now, UNCHANGED <<maxLimit, gifted, sideloaded>>
    PROVE  ExposureBounded' /\ SnapshotCurrent' /\ SnapshotPast'
<1>1. /\ SnapshotCurrent' /\ SnapshotPast' /\ held'[token] = balance
      /\ \A t \in Tokens : t # token => held'[t] = held[t]
  BY SettleKeepsSnapshots
<1>2. held'[DefaultToken] <= held[DefaultToken] /\ held'[DefaultToken] \in Nat
  BY <1>1, VaultTokenAssumption DEF FundsInv, VaultTypeOK
<1>3. /\ held[DefaultToken] \in Nat /\ maxLimit \in Nat /\ gifted \in Nat /\ sideloaded \in Nat
      /\ held[DefaultToken] <= maxLimit + gifted + sideloaded
  BY VaultTokenAssumption DEF FundsInv, VaultTypeOK, ExposureBounded
<1>4. held'[DefaultToken] <= maxLimit + gifted + sideloaded
  BY <1>2, <1>3
<1> QED
  BY <1>1, <1>4 DEF ExposureBounded

LEMMA DepositTokenKeepsFunds ==
    ASSUME FundsInv, NEW from \in Addrs, NEW token \in Tokens, NEW amount \in Int,
           deposit_token(from, token, amount)
    PROVE  ExposureBounded' /\ SnapshotCurrent' /\ SnapshotPast'
<1>1. amount \in Nat /\ held[token] + amount \in Nat
  BY VaultNumberAssumption DEF FundsInv, VaultTypeOK, deposit_token
<1>2. /\ now' = now /\ maxLimit' = maxLimit /\ gifted' = gifted
      /\ Settle(token, held[token] + amount)
      /\ sideloaded' = IF token = DefaultToken THEN sideloaded + amount ELSE sideloaded
  BY DEF deposit_token, limitVars
<1>3. CASE token = DefaultToken
  <2>1. /\ SnapshotCurrent' /\ SnapshotPast'
        /\ held'[DefaultToken] = held[DefaultToken] + amount
    BY <1>1, <1>2, <1>3, SettleKeepsSnapshots
  <2>2. /\ held[DefaultToken] \in Nat /\ maxLimit \in Nat /\ gifted \in Nat
        /\ sideloaded \in Nat /\ held[DefaultToken] <= maxLimit + gifted + sideloaded
    BY VaultTokenAssumption DEF FundsInv, VaultTypeOK, ExposureBounded
  <2>3. held[DefaultToken] + amount <= maxLimit + gifted + (sideloaded + amount)
    BY <1>1, <2>2
  <2> QED
    BY <1>2, <1>3, <2>1, <2>3 DEF ExposureBounded
<1>4. CASE token # DefaultToken
  BY <1>1, <1>2, <1>4, OutflowKeepsFunds
<1> QED
  BY <1>3, <1>4

LEMMA GiftKeepsFunds ==
    ASSUME FundsInv, NEW token \in Tokens, NEW amount \in Nat, Gift(token, amount)
    PROVE  ExposureBounded' /\ SnapshotCurrent' /\ SnapshotPast'
<1>1. /\ now' = now /\ snapshot' = snapshot /\ maxLimit' = maxLimit
      /\ sideloaded' = sideloaded /\ disturbed' = disturbed \cup {token}
      /\ gifted' = IF token = DefaultToken THEN gifted + amount ELSE gifted
  BY DEF Gift, limitVars
<1>2. /\ held'[token] = held[token] + amount
      /\ \A t \in Tokens : t # token => held'[t] = held[t]
  BY DEF Gift, FundsInv, VaultTypeOK
<1>3. SnapshotCurrent' /\ SnapshotPast'
  BY <1>1, <1>2, DisturbKeepsSnapshots
<1>4. /\ held[DefaultToken] \in Nat /\ maxLimit \in Nat /\ gifted \in Nat
      /\ sideloaded \in Nat /\ held[DefaultToken] <= maxLimit + gifted + sideloaded
  BY VaultTokenAssumption DEF FundsInv, VaultTypeOK, ExposureBounded
<1>5. held[DefaultToken] + amount <= maxLimit + (gifted + amount) + sideloaded
  BY <1>4
<1>6. CASE token = DefaultToken
  BY <1>1, <1>2, <1>3, <1>5, <1>6 DEF ExposureBounded
<1>7. CASE token # DefaultToken
  BY <1>1, <1>2, <1>3, <1>4, <1>7, VaultTokenAssumption DEF ExposureBounded
<1> QED
  BY <1>6, <1>7

LEMMA MigrationKeepsFunds ==
    ASSUME FundsInv, execute_emergency_migration
    PROVE  ExposureBounded' /\ SnapshotCurrent' /\ SnapshotPast'
<1>1. /\ now' = now /\ snapshot' = snapshot /\ maxLimit' = maxLimit /\ gifted' = gifted
      /\ sideloaded' = sideloaded /\ disturbed' = disturbed \cup {DefaultToken}
  BY DEF execute_emergency_migration, limitVars, exposureVars
<1>2. /\ held'[DefaultToken] = 0
      /\ \A t \in Tokens : t # DefaultToken => held'[t] = held[t]
  BY VaultTokenAssumption DEF execute_emergency_migration, FundsInv, VaultTypeOK
<1>3. SnapshotCurrent' /\ SnapshotPast'
  BY <1>1, <1>2, DisturbKeepsSnapshots, VaultTokenAssumption
<1>4. maxLimit \in Nat /\ gifted \in Nat /\ sideloaded \in Nat
  BY DEF FundsInv, VaultTypeOK
<1> QED
  BY <1>1, <1>2, <1>3, <1>4 DEF ExposureBounded

LEMMA DepositKeepsFunds ==
    ASSUME FundsInv, NEW from, NEW amount \in Int, deposit(from, amount)
    PROVE  ExposureBounded' /\ SnapshotCurrent' /\ SnapshotPast'
<1>1. amount \in Nat
  BY VaultNumberAssumption DEF deposit
<1> QED
  BY <1>1, CheckedDepositKeepsFunds DEF deposit, limitVars

LEMMA FundsStep == FundsInv /\ [Next]_vars => FundsInv'
<1> SUFFICES ASSUME FundsInv, [Next]_vars
             PROVE  ExposureBounded' /\ SnapshotCurrent' /\ SnapshotPast'
  BY VaultTypeStep DEF FundsInv
<1>1. CASE \E a \in Addrs, n \in Amounts : deposit(a, n)
  BY <1>1, DepositKeepsFunds, VaultInputAssumption
<1>2. CASE \E a \in Addrs, gross \in Amounts, fee \in Amounts : deposit_with_fee(a, gross, fee)
  <2>1. PICK a \in Addrs, gross \in Amounts, fee \in Amounts : deposit(a, gross - fee)
    BY <1>2 DEF deposit_with_fee
  <2>2. gross - fee \in Int
    BY VaultInputAssumption
  <2> QED
    BY <2>1, <2>2, DepositKeepsFunds
<1>3. CASE \E a \in Addrs, n \in Amounts : deposit_with_failure_report(a, n)
  <2>1. PICK a \in Addrs, n \in Amounts : deposit_with_failure_report(a, n)
    BY <1>3
  <2>2. n \in Nat /\ AcceptsDeposit(n) /\ now' = now /\ maxLimit' = maxLimit
    BY <2>1, VaultInputAssumption, VaultNumberAssumption
    DEF deposit_with_failure_report, limitVars
  <2>3. CASE UNCHANGED <<balanceVars, accountVars, exposureVars>>
    <3>1. UNCHANGED <<now, held, snapshot, disturbed, maxLimit, gifted, sideloaded>>
      BY <2>2, <2>3 DEF balanceVars, exposureVars
    <3> QED
      BY <3>1, QuietKeepsSnapshots DEF FundsInv, ExposureBounded
  <2>4. CASE Settle(DefaultToken, held[DefaultToken] + n) /\ Checked
    BY <2>2, <2>4, CheckedDepositKeepsFunds
  <2> QED
    BY <2>1, <2>3, <2>4 DEF deposit_with_failure_report
<1>4. CASE \E s \in Splits : batch_deposit(s)
  <2>1. PICK s : batch_deposit(s)
    BY <1>4
  <2>2. Total(s) \in Nat
    BY <2>1, VaultNumberAssumption DEF batch_deposit, Payable
  <2> QED
    BY <2>1, <2>2, CheckedDepositKeepsFunds DEF batch_deposit, limitVars
<1>5. CASE \E a \in Addrs, t \in Tokens, n \in Amounts : deposit_token(a, t, n)
  BY <1>5, DepositTokenKeepsFunds, VaultInputAssumption
<1>6. CASE \/ \E a \in Addrs, n \in Amounts : withdraw(a, n)
           \/ \E a \in Addrs, s \in Splits : withdraw_batch(a, s)
  <2>1. PICK a, s : withdraw_batch(a, s)
    BY <1>6 DEF withdraw
  <2>2. Total(s) \in Nat /\ Total(s) <= held[DefaultToken] /\ held[DefaultToken] \in Nat
    BY <2>1, VaultNumberAssumption, VaultTokenAssumption
    DEF withdraw_batch, Payable, FundsInv, VaultTypeOK
  <2>3. /\ held[DefaultToken] - Total(s) \in Nat
        /\ held[DefaultToken] - Total(s) <= held[DefaultToken]
    BY <2>2
  <2> QED
    BY <2>1, <2>3, OutflowKeepsFunds, VaultTokenAssumption
    DEF withdraw_batch, limitVars, exposureVars
<1>7. CASE \E a \in Addrs, t \in Tokens, n \in Amounts : withdraw_token(a, t, n)
  <2>1. PICK a \in Addrs, t \in Tokens, n \in Amounts : withdraw_token(a, t, n)
    BY <1>7
  <2>2. n \in Nat /\ n <= held[t] /\ held[t] \in Nat
    BY <2>1, VaultInputAssumption DEF withdraw_token, FundsInv, VaultTypeOK
  <2>3. held[t] - n \in Nat /\ held[t] - n <= held[t]
    BY <2>2
  <2> QED
    BY <2>1, <2>3, OutflowKeepsFunds DEF withdraw_token, limitVars, exposureVars
<1>8. CASE \E a \in Addrs, l \in Limits : set_limit(a, l)
  <2>1. PICK a \in Addrs, l \in Limits : set_limit(a, l)
    BY <1>8
  <2>2. UNCHANGED <<now, held, snapshot, disturbed>> /\ maxLimit' = l
    BY <2>1 DEF set_limit, balanceVars
  <2>3. l \in Int /\ held'[DefaultToken] <= l /\ gifted' = 0 /\ sideloaded' = 0
    BY <2>1, <2>2, VaultInputAssumption, VaultTokenAssumption
    DEF set_limit, Checked, FundsInv, VaultTypeOK
  <2> QED
    BY <2>2, <2>3, QuietKeepsSnapshots DEF ExposureBounded
<1>9. CASE Tick
  <2>1. UNCHANGED <<held, maxLimit, gifted, sideloaded>>
    BY <1>9 DEF Tick, balanceVars, limitVars, exposureVars
  <2> QED
    BY <1>9, <2>1, TickKeepsSnapshots DEF FundsInv, ExposureBounded
<1>10. CASE \E t \in Tokens, n \in Gifts : Gift(t, n)
  BY <1>10, GiftKeepsFunds, VaultInputAssumption
<1>11. CASE execute_emergency_migration
  BY <1>11, MigrationKeepsFunds
<1>12. CASE ~(\/ \E a \in Addrs, n \in Amounts : deposit(a, n)
              \/ \E a \in Addrs, gross \in Amounts, fee \in Amounts :
                    deposit_with_fee(a, gross, fee)
              \/ \E a \in Addrs, n \in Amounts : deposit_with_failure_report(a, n)
              \/ \E s \in Splits : batch_deposit(s)
              \/ \E a \in Addrs, t \in Tokens, n \in Amounts : deposit_token(a, t, n)
              \/ \E a \in Addrs, n \in Amounts : withdraw(a, n)
              \/ \E a \in Addrs, s \in Splits : withdraw_batch(a, s)
              \/ \E a \in Addrs, t \in Tokens, n \in Amounts : withdraw_token(a, t, n)
              \/ \E a \in Addrs, l \in Limits : set_limit(a, l)
              \/ Tick
              \/ \E t \in Tokens, n \in Gifts : Gift(t, n)
              \/ execute_emergency_migration)
  <2>1. UNCHANGED <<now, held, snapshot, disturbed, maxLimit, gifted, sideloaded>>
    BY <1>12
    DEF Next, vars, balanceVars, limitVars, exposureVars, set_operator_withdraw_limit,
        set_token_max_limit, approve_token, SetOperator, propose_owner, accept_owner,
        set_owner_proposal_ttl, pause, unpause, ReadPause, initiate_emergency_migration,
        cancel_emergency_migration
  <2> QED
    BY <2>1, QuietKeepsSnapshots DEF FundsInv, ExposureBounded
<1> QED
  BY <1>1, <1>2, <1>3, <1>4, <1>5, <1>6, <1>7, <1>8, <1>9, <1>10, <1>11, <1>12

LEMMA FundsInit == Init => FundsInv
<1> SUFFICES ASSUME Init PROVE FundsInv
  OBVIOUS
<1>1. VaultTypeOK
  BY VaultTypeInit
<1>2. held[DefaultToken] = 0 /\ maxLimit \in Nat /\ gifted = 0 /\ sideloaded = 0
  BY <1>1, VaultTokenAssumption DEF Init, VaultTypeOK
<1>3. ExposureBounded
  BY <1>2 DEF ExposureBounded
<1>4. \A t \in Tokens : snapshot[t] = None
  BY DEF Init
<1> QED
  BY <1>1, <1>3, <1>4 DEF FundsInv, SnapshotCurrent, SnapshotPast, check_vault_balance

(***************************************************************************)
(* The inductive invariant of the vault's balances: exposure, snapshots    *)
(* and the age of snapshots together, after any sequence of vault calls.   *)
(***************************************************************************)
THEOREM FundsInvariance == Spec => []FundsInv
BY FundsInit, FundsStep, PTL DEF Spec

(***************************************************************************)
(* The vault holds no more of its default token than max_limit, direct     *)
(* transfers and deposit_token aside, for all amounts and limits.          *)
(***************************************************************************)
THEOREM ExposureHolds == Spec => []ExposureBounded
<1>1. FundsInv => ExposureBounded
  BY DEF FundsInv
<1> QED
  BY <1>1, FundsInvariance, PTL

(***************************************************************************)
(* A deposit is only refused for a changed balance when a direct transfer  *)
(* or a migration changed it: every call that moves a token records it.    *)
(***************************************************************************)
THEOREM SnapshotHolds == Spec => []SnapshotCurrent
<1>1. FundsInv => SnapshotCurrent
  BY DEF FundsInv
<1> QED
  BY <1>1, FundsInvariance, PTL

-----------------------------------------------------------------------------
(* The halt *)

(* While a halt is under way the pause entry says so, and since when. *)
HaltInv ==
    /\ now \in Nat
    /\ haltedAt # None =>
          /\ haltedAt \in Nat /\ pauseEntry.paused /\ pauseEntry.form = "state"
          /\ pauseEntry.paused_at = haltedAt

LEMMA HaltStep == HaltInv /\ [Next]_vars => HaltInv'
<1> SUFFICES ASSUME HaltInv, [Next]_vars PROVE HaltInv'
  OBVIOUS
<1>1. now \in Nat
  BY DEF HaltInv
<1>2. ASSUME now' = now, haltedAt' = None
      PROVE  HaltInv'
  BY <1>1, <1>2 DEF HaltInv
<1>3. ASSUME UNCHANGED <<now, pauseEntry, haltedAt>>
      PROVE  HaltInv'
  BY <1>3 DEF HaltInv
<1>4. CASE Tick
  <2>1. now' = now + 1 /\ UNCHANGED <<pauseEntry, haltedAt>>
    BY <1>4 DEF Tick, pauseVars
  <2> QED
    BY <1>1, <2>1 DEF HaltInv
<1>5. CASE pause
  <2>1. /\ now' = now /\ haltedAt' = now
        /\ pauseEntry' = [form |-> "state", paused |-> TRUE, paused_at |-> now]
    BY <1>5 DEF pause, set_paused
  <2> QED
    BY <1>1, <2>1 DEF HaltInv
<1>6. CASE unpause
  BY <1>2, <1>6 DEF unpause
<1>7. CASE ReadPause
  <2>1. CASE is_paused(pauseEntry, now) /\ haltedAt # None
    <3>1. pauseEntry.form = "state"
      BY <2>1 DEF HaltInv
    <3>2. pauseEntry' = pauseEntry
      BY <1>7, <2>1, <3>1 DEF ReadPause, AfterIsPaused
    <3> QED
      BY <1>3, <1>7, <2>1, <3>2 DEF ReadPause
  <2>2. CASE ~(is_paused(pauseEntry, now) /\ haltedAt # None)
    BY <1>2, <1>7, <2>2 DEF ReadPause
  <2> QED
    BY <2>1, <2>2
<1>8. CASE Running /\ ~Tick
  <2>1. now' = now
    BY <1>8
    DEF Next, vars, deposit, deposit_with_fee, deposit_with_failure_report, batch_deposit,
        deposit_token, withdraw, withdraw_batch, withdraw_token, set_operator_withdraw_limit,
        set_limit, set_token_max_limit, approve_token, SetOperator, propose_owner, accept_owner,
        set_owner_proposal_ttl, pause, unpause, ReadPause, initiate_emergency_migration,
        execute_emergency_migration, cancel_emergency_migration, Gift
  <2> QED
    BY <1>2, <1>8, <2>1 DEF Running
<1>9. CASE ~(Tick \/ pause \/ unpause \/ ReadPause \/ Running)
  <2>1. UNCHANGED <<now, pauseEntry, haltedAt>>
    BY <1>9
    DEF Next, vars, pauseVars, deposit, deposit_with_fee, deposit_with_failure_report,
        batch_deposit, deposit_token, withdraw, withdraw_batch, withdraw_token,
        set_operator_withdraw_limit, set_limit, set_token_max_limit, approve_token, SetOperator,
        propose_owner, accept_owner, set_owner_proposal_ttl, initiate_emergency_migration,
        execute_emergency_migration, cancel_emergency_migration, Gift
  <2> QED
    BY <1>3, <2>1
<1> QED
  BY <1>4, <1>5, <1>6, <1>7, <1>8, <1>9

(* No guarded call runs during a halt. *)
LEMMA HaltStopsCalls ==
    ASSUME HaltInv, haltedAt # None, now < haltedAt + MaxPauseDuration
    PROVE  ~Running
BY DEF HaltInv, Running, is_paused

LEMMA HaltedStep ==
    ASSUME VaultTypeOK, HaltInv, [Next]_vars, haltedAt # None,
           now < haltedAt + MaxPauseDuration
    PROVE  /\ UNCHANGED <<accounts, maxLimit, tokenLimit, operatorLimit>>
           /\ \A t \in Tokens : held'[t] < held[t] =>
                 t = DefaultToken /\ migration # None /\ migration' = None
<1>1. ~Running
  BY HaltStopsCalls
<1>2. UNCHANGED <<accounts, maxLimit, tokenLimit, operatorLimit>>
  BY <1>1
  DEF Next, vars, roleVars, limitVars, accountVars, Tick, deposit, deposit_with_fee,
      deposit_with_failure_report, batch_deposit, deposit_token, withdraw, withdraw_batch,
      withdraw_token, set_operator_withdraw_limit, set_limit, set_token_max_limit,
      approve_token, SetOperator, propose_owner, accept_owner, set_owner_proposal_ttl, pause,
      unpause, ReadPause, initiate_emergency_migration, execute_emergency_migration,
      cancel_emergency_migration, Gift
<1>3. ASSUME NEW t \in Tokens, held'[t] < held[t]
      PROVE  t = DefaultToken /\ migration # None /\ migration' = None
  <2>1. held[t] \in Nat
    BY DEF VaultTypeOK
  <2>2. CASE execute_emergency_migration
    <3>1. migration # None /\ migration' = None
      BY <2>2 DEF execute_emergency_migration
    <3>2. t # DefaultToken => held'[t] = held[t]
      BY <2>2 DEF execute_emergency_migration, VaultTypeOK
    <3> QED
      BY <1>3, <2>1, <3>1, <3>2
  <2>3. CASE \E token \in Tokens, n \in Gifts : Gift(token, n)
    <3>1. PICK token \in Tokens, n \in Gifts : Gift(token, n)
      BY <2>3
    <3>2. n \in Nat /\ held'[t] = IF t = token THEN held[t] + n ELSE held[t]
      BY <3>1, VaultInputAssumption DEF Gift, VaultTypeOK
    <3> QED
      BY <1>3, <2>1, <3>2
  <2>4. CASE ~(\/ execute_emergency_migration
               \/ \E token \in Tokens, n \in Gifts : Gift(token, n))
    <3>1. held' = held
      BY <1>1, <2>4
      DEF Next, vars, balanceVars, Tick, deposit, deposit_with_fee,
          deposit_with_failure_report, batch_deposit, deposit_token, withdraw, withdraw_batch,
          withdraw_token, set_operator_withdraw_limit, set_limit, set_token_max_limit,
          approve_token, SetOperator, propose_owner, accept_owner, set_owner_proposal_ttl,
          pause, unpause, ReadPause, initiate_emergency_migration, cancel_emergency_migration
    <3> QED
      BY <1>3, <2>1, <3>1
  <2> QED
    BY <2>2, <2>3, <2>4
<1> QED
  BY <1>2, <1>3

(***************************************************************************)
(* During a halt no account and no limit of the vault changes, and nothing *)
(* but an announced migration takes tokens out.                            *)
(***************************************************************************)
THEOREM VaultHaltHolds == Spec => HaltFreezes
<1>1. Init => HaltInv
  BY DEF Init, HaltInv
<1>2. Spec => []HaltInv
  BY <1>1, HaltStep, PTL DEF Spec
<1>3. VaultTypeOK /\ HaltInv /\ [Next]_vars =>
        [haltedAt # None /\ now < haltedAt + MaxPauseDuration =>
            /\ UNCHANGED <<accounts, maxLimit, tokenLimit, operatorLimit>>
            /\ \A t \in Tokens : held'[t] < held[t] =>
                  t = DefaultToken /\ migration # None /\ migration' = None]_vars
  BY HaltedStep
<1> QED
  BY <1>2, <1>3, VaultTypeInvariance, PTL DEF Spec, HaltFreezes
=============================================================================
