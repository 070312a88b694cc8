---------------------------- MODULE DripGovernor ----------------------------
(***************************************************************************)
(* The governor (contracts/governor/src): roles and the transfer of the    *)
(* Admin role, the parameters the factory reads, and proposals with their  *)
(* refundable stakes.                                                      *)
(*                                                                         *)
(* A call is atomic, so it is one action whose guard is the conjunction of *)
(* its checks; a call that returns an error changes nothing and is no      *)
(* step.  Left out: code upgrades, the lifetime of entries, the calls that *)
(* only pass a halt on to the factory, and the checkpoints and receipts of *)
(* voters, which only a vote reads.                                        *)
(***************************************************************************)
EXTENDS AccessControl, EmergencyPause, SequencesExt

CONSTANTS
    ZeroAddr,           \* the all-zero address is_zero_address rejects
    None,               \* an absent entry
    MaxI128,            \* i128::MAX
    InitialConfig,      \* what initialize stores
    MinExecutionDelay   \* MIN_EXECUTION_DELAY, 7 days

CONSTANTS               \* the inputs of the calls
    Authorities,        \* the authority given to initialize
    GrantRoles,         \* roles given to the grant and revoke calls
    Candidates,         \* addresses given to the transfer calls
    Expiries,           \* values of expires_at
    Fees, Recipients, Durations, Rates, Quorums, Supplies,
    StakeTokens, Stakes,
    Windows,            \* values of execution_window_secs
    Weights             \* the weight of a vote

CONSTANTS               \* bounds of the model
    MaxTime, MaxCalls, MaxProposals, MaxVotes

ASSUME GovernorAddrAssumption ==
    /\ Authorities \subseteq Accounts /\ ZeroAddr \notin Accounts /\ None \notin Accounts
    /\ Candidates \subseteq Accounts \cup {ZeroAddr}

ASSUME GovernorRoleAssumption ==
    /\ {"FeeManager", "RateManager", "Pauser", "Executor"} \subseteq Roles
    /\ GrantRoles \subseteq Roles

ASSUME GovernorNumberAssumption ==
    /\ MaxI128 \in Nat /\ MinExecutionDelay \in Nat
    /\ MaxTime \in Nat /\ MaxCalls \in Nat /\ MaxProposals \in Nat /\ MaxVotes \in Nat

ASSUME GovernorInputAssumption ==
    /\ Expiries \subseteq Nat /\ Fees \subseteq Nat /\ Durations \subseteq Nat
    /\ Rates \subseteq Int /\ Quorums \subseteq Nat /\ Supplies \subseteq Nat
    /\ Stakes \subseteq Int /\ Windows \subseteq Nat /\ Weights \subseteq Nat

VARIABLES
    now,            \* env.ledger().timestamp()
    book,           \* DataKey::Role, AdminCount and RoleMembers
    pending,        \* DataKey::PendingAuthority and PendingAuthorityProposer
    pauseEntry,     \* DataKey::Paused
    config,         \* the parameters, as config::load returns them
    supply,         \* DataKey::GovernanceSupply
    proposals,      \* DataKey::Proposal by id, with its stake and its archived votes
    byStatus,       \* DataKey::ProposalsByStatus
    stakeHeld       \* the governor's balance of each stake token

VARIABLE calls      \* history, for the bound: calls so far

proposalVars == <<proposals, byStatus, stakeHeld>>
vars == <<now, calls, book, pending, pauseEntry, config, supply, proposalVars>>

Status == {"Pending", "Active", "Executed", "Cancelled"}

ConfigType ==
    [fee_bps : Nat, fee_recipient : Recipients, min_duration_seconds : Nat,
     max_duration_seconds : Nat, max_rate_per_second : Nat, force_cancel_pause_secs : Nat,
     min_quorum_bps : Nat, proposal_stake_token : StakeTokens \cup {None},
     min_proposal_stake : Nat]

(* The defaults of initialize are in order; the checks of the setters build on them *)
ASSUME InitialConfigAssumption ==
    /\ InitialConfig \in ConfigType
    /\ InitialConfig.fee_bps <= 10000 /\ InitialConfig.min_quorum_bps <= 10000
    /\ InitialConfig.min_duration_seconds \in 1 .. InitialConfig.max_duration_seconds
    /\ InitialConfig.force_cancel_pause_secs > 0 /\ InitialConfig.max_rate_per_second > 0
    /\ InitialConfig.max_rate_per_second * InitialConfig.min_duration_seconds <= MaxI128
    /\ InitialConfig.proposal_stake_token = None /\ InitialConfig.min_proposal_stake = 0

ProposalType ==
    [author : Accounts, created_at : Nat, execution_window_secs : Nat, status : Status,
     votes : Nat, total_supply : Int, stake : Nat, stake_token : StakeTokens \cup {None},
     record : Nat \cup {None}]

GovernorTypeOK ==
    /\ now \in Nat /\ calls \in Nat
    /\ book \in RoleBook
    /\ pending \in [to : Accounts \cup {ZeroAddr}, proposer : Accounts] \cup {None}
    /\ pauseEntry \in PauseType
    /\ config \in ConfigType
    /\ supply \in Nat \cup {None}
    /\ proposals \in Seq(ProposalType)
    /\ byStatus \in [Status -> Seq(Nat)]
    /\ stakeHeld \in [StakeTokens -> Nat]

-----------------------------------------------------------------------------

(* initialize: the authority gets every role but Executor *)
Init ==
    /\ now = 0 /\ calls = 0
    /\ \E a \in Authorities :
          book = [entries     |-> [r \in Roles |-> [b \in Accounts |->
                                    IF b = a /\ r # "Executor" THEN Never ELSE Absent]],
                  admin_count |-> 1,
                  listed      |-> [r \in Roles |-> [b \in Accounts |->
                                    IF b = a /\ r # "Executor" THEN 1 ELSE 0]]]
    /\ pending = None
    /\ pauseEntry = NeverPaused
    /\ config = InitialConfig
    /\ supply = None
    /\ proposals = <<>>
    /\ byStatus = [s \in Status |-> <<>>]
    /\ stakeHeld = [t \in StakeTokens |-> 0]

Tick ==
    /\ now < MaxTime
    /\ now' = now + 1
    /\ UNCHANGED <<calls, book, pending, pauseEntry, config, supply, proposalVars>>

-----------------------------------------------------------------------------
(* What the calls share *)

OneCall == calls < MaxCalls /\ calls' = calls + 1

HasRole(account, role) == has_role(book, role, account, now)

(* require_role_or_admin *)
RoleOrAdmin(caller, role) == HasRole(caller, "Admin") \/ HasRole(caller, role)

(* assert_not_paused, and what it leaves of the pause entry *)
Running ==
    /\ ~is_paused(pauseEntry, now)
    /\ pauseEntry' = AfterIsPaused(pauseEntry, now)

-----------------------------------------------------------------------------
(* Roles; the halt does not stop them *)

(* grant_role_with_expiration: an Admin never expires, other roles in the future only *)
grant_role_with_expiration(caller, role, account, expires_at) ==
    /\ OneCall
    /\ HasRole(caller, "Admin")
    /\ role # "Admin" /\ expires_at > now
    /\ book' = Granted(book, role, {account}, expires_at, now)
    /\ UNCHANGED <<now, pending, pauseEntry, config, supply, proposalVars>>

(* grant_role and grant_role_batch, and grant_role_with_expiration without a time *)
grant_role_batch(caller, role, accounts) ==
    /\ OneCall
    /\ HasRole(caller, "Admin")
    /\ book' = Granted(book, role, accounts, Never, now)
    /\ UNCHANGED <<now, pending, pauseEntry, config, supply, proposalVars>>

(* revoke_role and revoke_role_batch *)
revoke_role_batch(caller, role, accounts) ==
    /\ OneCall
    /\ HasRole(caller, "Admin")
    /\ MayRevoke(book, role, accounts, now)
    /\ book' = Revoked(book, role, accounts)
    /\ UNCHANGED <<now, pending, pauseEntry, config, supply, proposalVars>>

(***************************************************************************)
(* The Admin role passes from one account to another: it is granted first, *)
(* so that the guard of the last Admin sees both                           *)
(***************************************************************************)
HandOver(from, to) ==
    LET granted == Granted(book, "Admin", {to}, Never, now) IN
    /\ MayRevoke(granted, "Admin", {from}, now)
    /\ book' = Revoked(granted, "Admin", {from})

transfer_authority(caller, new_authority) ==
    /\ OneCall
    /\ new_authority \notin {caller, ZeroAddr}
    /\ ~HasRole(new_authority, "Admin")
    /\ HasRole(caller, "Admin")
    /\ HandOver(caller, new_authority)
    /\ UNCHANGED <<now, pending, pauseEntry, config, supply, proposalVars>>

(* propose_admin, which takes any address; one slot serves both kinds of proposal *)
propose_admin(caller, new_admin) ==
    /\ OneCall
    /\ HasRole(caller, "Admin")
    /\ pending = None
    /\ new_admin # ZeroAddr => ~HasRole(new_admin, "Admin")
    /\ pending' = [to |-> new_admin, proposer |-> caller]
    /\ UNCHANGED <<now, book, pauseEntry, config, supply, proposalVars>>

propose_authority(caller, new_authority) ==
    new_authority # ZeroAddr /\ propose_admin(caller, new_authority)

(* revoke_propose_authority and revoke_propose_admin *)
revoke_propose_authority(caller) ==
    /\ OneCall
    /\ HasRole(caller, "Admin")
    /\ pending # None
    /\ pending' = None
    /\ UNCHANGED <<now, book, pauseEntry, config, supply, proposalVars>>

(***************************************************************************)
(* accept_authority and claim_admin: the proposer may have lost the role   *)
(* in the meantime, and the accepting account may have got it              *)
(***************************************************************************)
accept_authority(caller) ==
    /\ OneCall
    /\ pending # None /\ caller = pending.to
    /\ HandOver(pending.proposer, caller)
    /\ pending' = None
    /\ UNCHANGED <<now, pauseEntry, config, supply, proposalVars>>

-----------------------------------------------------------------------------
(* The halt *)

governor_pause(caller) ==
    /\ OneCall
    /\ RoleOrAdmin(caller, "Pauser")
    /\ ~is_paused(pauseEntry, now)
    /\ SetPausedReadable(AfterIsPaused(pauseEntry, now))
    /\ pauseEntry' = set_paused(TRUE, now)
    /\ UNCHANGED <<now, book, pending, config, supply, proposalVars>>

governor_unpause(caller) ==
    /\ OneCall
    /\ RoleOrAdmin(caller, "Pauser")
    /\ is_paused(pauseEntry, now)
    /\ SetPausedReadable(AfterIsPaused(pauseEntry, now))
    /\ pauseEntry' = set_paused(FALSE, now)
    /\ UNCHANGED <<now, book, pending, config, supply, proposalVars>>

-----------------------------------------------------------------------------
(* The parameters *)

(* A parameter is written by who has the role for it, outside a halt *)
SetConfig(caller, role, new) ==
    /\ OneCall
    /\ Running
    /\ RoleOrAdmin(caller, role)
    /\ config' = new
    /\ UNCHANGED <<now, book, pending, supply, proposalVars>>

set_fee_bps(caller, fee_bps) ==
    /\ fee_bps <= 10000
    /\ SetConfig(caller, "FeeManager", [config EXCEPT !.fee_bps = fee_bps])

set_fee_recipient(caller, recipient) ==
    /\ recipient # ZeroAddr
    /\ SetConfig(caller, "FeeManager", [config EXCEPT !.fee_recipient = recipient])

set_min_duration(caller, seconds) ==
    /\ seconds # 0 /\ seconds <= config.max_duration_seconds
    /\ config.max_rate_per_second * seconds <= MaxI128
    /\ SetConfig(caller, "RateManager", [config EXCEPT !.min_duration_seconds = seconds])

set_max_rate_Unchecked(caller, max_rate) ==  \* mutant: the product with the minimum is not tried
    /\ max_rate > 0
    /\ SetConfig(caller, "RateManager", [config EXCEPT !.max_rate_per_second = max_rate])
set_max_rate(caller, max_rate) ==
    /\ max_rate > 0 /\ max_rate * config.min_duration_seconds <= MaxI128
    /\ SetConfig(caller, "RateManager", [config EXCEPT !.max_rate_per_second = max_rate])

set_max_duration(caller, seconds) ==
    /\ seconds # 0 /\ seconds >= config.min_duration_seconds
    /\ SetConfig(caller, "RateManager", [config EXCEPT !.max_duration_seconds = seconds])

set_force_cancel_pause_threshold(caller, seconds) ==
    /\ seconds # 0
    /\ SetConfig(caller, "RateManager", [config EXCEPT !.force_cancel_pause_secs = seconds])

set_min_quorum_bps(caller, min_quorum_bps) ==
    /\ min_quorum_bps <= 10000
    /\ SetConfig(caller, "Admin", [config EXCEPT !.min_quorum_bps = min_quorum_bps])

set_proposal_stake_config(caller, token, min_stake) ==
    /\ min_stake > 0 /\ token # ZeroAddr
    /\ SetConfig(caller, "Admin", [config EXCEPT !.proposal_stake_token = token,
                                                 !.min_proposal_stake = min_stake])

set_governance_supply(caller, new_supply) ==
    /\ OneCall
    /\ Running
    /\ HasRole(caller, "Admin")
    /\ new_supply # 0
    /\ supply' = new_supply
    /\ UNCHANGED <<now, book, pending, config, proposalVars>>

(* governance_supply counts the Admins where no figure is set *)
governance_supply == IF supply = None THEN book.admin_count ELSE supply

-----------------------------------------------------------------------------
(* Proposals; the halt does not stop them *)

Open(id) == id \in DOMAIN proposals /\ proposals[id].status \in {"Pending", "Active"}

(* An index lists an id once, in the order of arrival *)
add_proposal_to_status_index(ids, id) ==
    IF \E i \in DOMAIN ids : ids[i] = id THEN ids ELSE Append(ids, id)

remove_proposal_from_status_index(ids, id) ==
    LET updated[i \in 0 .. Len(ids)] ==
            IF i = 0 THEN <<>>
            ELSE IF ids[i] # id THEN Append(updated[i - 1], ids[i])
            ELSE updated[i - 1]
    IN updated[Len(ids)]

(* set_proposal_status: the index moves only with the status *)
Reindexed_Kept(id, status) ==  \* mutant: the old entry of the index stays
    [byStatus EXCEPT ![status] = Append(@, id)]
Reindexed(id, status) ==
    LET old     == proposals[id].status
        removed == [byStatus EXCEPT ![old] = remove_proposal_from_status_index(@, id)] IN
    IF old = status THEN byStatus
    ELSE [removed EXCEPT ![status] = add_proposal_to_status_index(@, id)]

(***************************************************************************)
(* refund_proposal_stake: once, in the token it was paid in.  The token    *)
(* contract refuses to transfer more than is held.                         *)
(***************************************************************************)
Refundable(id) ==
    proposals[id].stake > 0 => stakeHeld[proposals[id].stake_token] >= proposals[id].stake

AfterRefund(id) ==
    IF proposals[id].stake = 0 THEN stakeHeld
    ELSE [stakeHeld EXCEPT ![proposals[id].stake_token] = @ - proposals[id].stake]

WithoutStake(proposal) == [proposal EXCEPT !.stake = 0, !.stake_token = None]

propose(caller, execution_window_secs) ==
    /\ OneCall
    /\ Len(proposals) < MaxProposals
    /\ HasRole(caller, "Admin")
    /\ execution_window_secs # 0
    /\ config.proposal_stake_token # None /\ config.min_proposal_stake > 0
    /\ stakeHeld' = [stakeHeld EXCEPT ![config.proposal_stake_token] =
                        @ + config.min_proposal_stake]
    /\ proposals' = Append(proposals,
          [author |-> caller, created_at |-> now,
           execution_window_secs |-> execution_window_secs, status |-> "Pending",
           votes |-> 0, total_supply |-> governance_supply,
           stake |-> config.min_proposal_stake, stake_token |-> config.proposal_stake_token,
           record |-> None])
    /\ byStatus' = [byStatus EXCEPT !["Pending"] =
                        add_proposal_to_status_index(@, Len(proposals) + 1)]
    /\ UNCHANGED <<now, book, pending, pauseEntry, config, supply>>

(* The votes a proposal needs *)
QuorumThreshold(id) == (proposals[id].total_supply * config.min_quorum_bps) \div 10000

execute_proposal(executor, id) ==
    LET elapsed == now - proposals[id].created_at IN
    /\ OneCall
    /\ HasRole(executor, "Executor")
    /\ Open(id)
    /\ elapsed >= MinExecutionDelay
    /\ elapsed <= proposals[id].execution_window_secs + MinExecutionDelay
    /\ config.min_quorum_bps > 0 => proposals[id].votes >= QuorumThreshold(id)
    /\ Refundable(id)
    /\ stakeHeld' = AfterRefund(id)
    /\ proposals' = [proposals EXCEPT ![id] = [WithoutStake(@) EXCEPT !.status = "Executed"]]
    /\ byStatus' = Reindexed(id, "Executed")
    /\ UNCHANGED <<now, book, pending, pauseEntry, config, supply>>

(* The votes are archived, and the stake is not refunded *)
Cancel(id) ==
    /\ OneCall
    /\ Open(id)
    /\ proposals' = [proposals EXCEPT ![id] = [proposals[id] EXCEPT
                        !.status = "Cancelled", !.record = proposals[id].votes]]
    /\ byStatus' = Reindexed(id, "Cancelled")
    /\ UNCHANGED <<now, book, pending, pauseEntry, config, supply, stakeHeld>>

(* The caller names itself and need not sign, so this is anybody's call *)
cancel_proposal(id) == Cancel(id)

cancel_proposal_by_admin(caller, id) == HasRole(caller, "Admin") /\ Cancel(id)

(***************************************************************************)
(* cast_vote.  cast_ballot, which it calls, is not in the repository; what *)
(* is left of it in lib.rs refunds the stake once the quorum is reached.   *)
(* Here any vote on an open proposal counts and makes it Active.           *)
(***************************************************************************)
cast_ballot(id, weight) ==
    LET votes   == proposals[id].votes + weight
        reached == votes >= QuorumThreshold(id)
        voted   == [proposals[id] EXCEPT !.votes = votes, !.status = "Active"] IN
    /\ OneCall
    /\ Open(id)
    /\ votes <= MaxVotes
    /\ reached => Refundable(id)
    /\ stakeHeld' = IF reached THEN AfterRefund(id) ELSE stakeHeld
    /\ proposals' = [proposals EXCEPT ![id] = IF reached THEN WithoutStake(voted) ELSE voted]
    /\ byStatus' = Reindexed(id, "Active")
    /\ UNCHANGED <<now, book, pending, pauseEntry, config, supply>>

-----------------------------------------------------------------------------

Batches == (SUBSET Accounts) \ {{}}

RoleCall(caller) ==
    \/ \E r \in GrantRoles, a \in Accounts, t \in Expiries :
          grant_role_with_expiration(caller, r, a, t)
    \/ \E r \in GrantRoles, s \in Batches : grant_role_batch(caller, r, s)
    \/ \E r \in GrantRoles, s \in Batches : revoke_role_batch(caller, r, s)
    \/ \E a \in Candidates : transfer_authority(caller, a)
    \/ \E a \in Candidates : propose_authority(caller, a)
    \/ \E a \in Candidates : propose_admin(caller, a)
    \/ revoke_propose_authority(caller)
    \/ accept_authority(caller)
    \/ governor_pause(caller)
    \/ governor_unpause(caller)

ConfigCall(caller) ==
    \/ \E n \in Fees : set_fee_bps(caller, n)
    \/ \E a \in Recipients \cup {ZeroAddr} : set_fee_recipient(caller, a)
    \/ \E n \in Durations : set_min_duration(caller, n)
    \/ \E n \in Durations : set_max_duration(caller, n)
    \/ \E n \in Durations : set_force_cancel_pause_threshold(caller, n)
    \/ \E n \in Rates : set_max_rate(caller, n)
    \/ \E n \in Quorums : set_min_quorum_bps(caller, n)
    \/ \E n \in Supplies : set_governance_supply(caller, n)
    \/ \E t \in StakeTokens \cup {ZeroAddr}, n \in Stakes : set_proposal_stake_config(caller, t, n)

ProposalCall(caller) ==
    \/ \E n \in Windows : propose(caller, n)
    \/ \E id \in DOMAIN proposals : execute_proposal(caller, id)
    \/ \E id \in DOMAIN proposals : cancel_proposal_by_admin(caller, id)

Next ==
    \/ Tick
    \/ \E a \in Accounts : RoleCall(a)
    \/ \E a \in Accounts : ConfigCall(a)
    \/ \E a \in Accounts : ProposalCall(a)
    \/ \E id \in DOMAIN proposals : cancel_proposal(id)
    \/ \E id \in DOMAIN proposals, w \in Weights : cast_ballot(id, w)

Spec == Init /\ [][Next]_vars

-----------------------------------------------------------------------------

(***************************************************************************)
(* What the role book derives agrees with its assignments through grants,  *)
(* renewals, expiries, revocations, batches and transfers: the Admins are  *)
(* counted exactly, and an account is in the index of a role once if it is *)
(* assigned the role and not at all if it is not                           *)
(***************************************************************************)
RoleBookExact ==
    /\ book.admin_count = Cardinality(Assigned(book, "Admin", Accounts))
    /\ \A r \in Roles, a \in Accounts :
          book.listed[r][a] = IF book.entries[r][a] = Absent THEN 0 ELSE 1

(***************************************************************************)
(* Some account has the Admin role, now and at any later time: no order of *)
(* revocations and of the three ways to transfer it freezes the governor   *)
(***************************************************************************)
AlwaysAnAdmin == \E a \in Accounts : book.entries["Admin"][a] = Never

(***************************************************************************)
(* The bounds the factory reads admit a stream, whichever of them moved    *)
(* last: the shortest stream is not longer than the longest, and at the    *)
(* highest rate its total fits an i128                                     *)
(***************************************************************************)
ConfigConsistent ==
    /\ config.min_duration_seconds \in 1 .. config.max_duration_seconds
    /\ config.max_rate_per_second > 0
    /\ config.max_rate_per_second * config.min_duration_seconds <= MaxI128

(* The stakes recorded in a token *)
StakeIn(list, token) ==
    [id \in DOMAIN list |-> IF list[id].stake_token = token THEN list[id].stake ELSE 0]
Staked(list, token) == MapThenSumSet(LAMBDA id : StakeIn(list, token)[id], DOMAIN list)

(***************************************************************************)
(* The records about proposals agree with them: the governor holds exactly *)
(* the stakes not yet refunded, none is refunded twice by a vote and by    *)
(* the execution, and every proposal is listed once, under its status, in  *)
(* states of the right type.                                               *)
(***************************************************************************)
ProposalBooksExact ==
    /\ GovernorTypeOK
    /\ \A t \in StakeTokens : stakeHeld[t] = Staked(proposals, t)
    /\ \A s \in Status :
          /\ IsInjective(byStatus[s])
          /\ ToSet(byStatus[s]) = {id \in DOMAIN proposals : proposals[id].status = s}
=============================================================================
