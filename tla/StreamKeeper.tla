--------------------------- MODULE StreamKeeper ---------------------------
(***************************************************************************)
(* The keeper reward pool of a stream (contracts/stream/src/lib.rs,        *)
(* configure/fund/withdraw_keeper_reward_pool and keeper_ping), composed   *)
(* with the stream.  The pool is a figure in the stream's storage; the     *)
(* tokens behind it sit at the stream's address in a second token          *)
(* contract, which anybody may also send tokens to.  A ledger closes at    *)
(* every tick, so now is also env.ledger().sequence().                     *)
(***************************************************************************)
EXTENDS DripStream, FiniteSetsExt

CONSTANTS
    RewardTokens,   \* tokens given to configure_keeper_reward_pool
    StreamToken,    \* info.token, which the pool must not use
    Rewards,        \* values of reward_per_ping
    PoolAmounts,    \* amounts of fund_ and withdraw_keeper_reward_pool
    RewardGifts,    \* direct transfers of the reward token
    Keepers,        \* callers of keeper_ping
    MinTtlLedgers,  \* drip_common::ttl::MIN_TTL_LEDGERS
    MaxHeld         \* bound: reward tokens at the stream's address

ASSUME KeeperAssumption ==
    /\ Rewards \subseteq Int /\ PoolAmounts \subseteq Int /\ RewardGifts \subseteq Nat
    /\ Keepers \subseteq Addrs \ {StreamAddr}
    /\ IsFiniteSet(Addrs)
    /\ {MinTtlLedgers, MaxHeld} \subseteq Nat
    /\ None \notin [token : RewardTokens, reward_per_ping : Nat, balance : Int]

VARIABLES
    pool,           \* DataKey::KeeperRewardPool
    lastPing,       \* DataKey::LastKeeperPingLedger
    rewardHeld,     \* the stream's balance of each reward token
    donated         \* history: tokens that arrived without fund_keeper_reward_pool

poolVars == <<pool, lastPing, rewardHeld, donated>>

KeeperTypeOK ==
    /\ TypeOK
    /\ pool \in [token : RewardTokens, reward_per_ping : Nat, balance : Int] \cup {None}
    /\ lastPing \in Nat \cup {None}
    /\ rewardHeld \in [RewardTokens -> Nat]
    /\ donated \in [RewardTokens -> Nat]

KeeperInit ==
    /\ Init
    /\ pool = None
    /\ lastPing = None
    /\ rewardHeld = [t \in RewardTokens |-> 0]
    /\ donated = [t \in RewardTokens |-> 0]

-----------------------------------------------------------------------------

(* Every keeper call publishes one event and leaves the rest of the stream alone. *)
KeeperCall ==
    /\ RoomFor(1)
    /\ Save(info, 1)
    /\ UNCHANGED <<now, checkpoint, emergencyAt, cumulative, configVars, milestones, tokenVars>>

(* The checks on the arguments *)
ValidReward(token, reward) == reward > 0 /\ token \notin {ZeroAddr, StreamToken}

(* A pool keeps its token and its balance when it is configured again. *)
configure_keeper_reward_pool(caller, token, reward) ==
    /\ SenderOrOperator(caller)
    /\ ~info.cancelled
    /\ ValidReward(token, reward)
    /\ pool # None => pool.token = token
    /\ pool' = [token           |-> token,
                reward_per_ping |-> reward,
                balance         |-> IF pool = None THEN 0 ELSE pool.balance]
    /\ KeeperCall
    /\ UNCHANGED <<lastPing, rewardHeld, donated>>

fund_keeper_reward_pool(caller, amount) ==
    /\ SenderOrOperator(caller)
    /\ ~info.cancelled
    /\ amount > 0
    /\ pool # None
    /\ pool.balance + amount <= MaxI128
    /\ rewardHeld[pool.token] + amount <= MaxHeld
    /\ pool' = [pool EXCEPT !.balance = @ + amount]
    /\ rewardHeld' = [rewardHeld EXCEPT ![pool.token] = @ + amount]
    /\ KeeperCall
    /\ UNCHANGED <<lastPing, donated>>

(* The pool's checked_sub only fails below i128::MIN; what stops the call  *)
(* is the token contract, which refuses to transfer more than is held.     *)
withdraw_keeper_reward_pool(caller, amount) ==
    /\ SenderOrOperator(caller)
    /\ amount > 0
    /\ pool # None
    /\ amount <= rewardHeld[pool.token]
    /\ pool' = [pool EXCEPT !.balance = @ - amount]
    /\ rewardHeld' = [rewardHeld EXCEPT ![pool.token] = @ - amount]
    /\ KeeperCall
    /\ UNCHANGED <<lastPing, donated>>

(* The pool after a bounty is paid; the mutant forgets to debit it. *)
PoolAfterPing_Undebited == pool
PoolAfterPing == [pool EXCEPT !.balance = @ - pool.reward_per_ping]

keeper_ping(keeper) ==
    /\ ~info.cancelled
    /\ pool # None
    /\ pool.balance >= pool.reward_per_ping
    /\ lastPing # None => now >= lastPing + MinTtlLedgers
    /\ pool.reward_per_ping <= rewardHeld[pool.token]
    /\ pool' = PoolAfterPing
    /\ lastPing' = now
    /\ rewardHeld' = [rewardHeld EXCEPT ![pool.token] = @ - pool.reward_per_ping]
    /\ KeeperCall
    /\ UNCHANGED donated

(* A transfer of a reward token straight to the stream's address *)
RewardGift(token, amount) ==
    /\ rewardHeld[token] + amount <= MaxHeld
    /\ rewardHeld' = [rewardHeld EXCEPT ![token] = @ + amount]
    /\ donated' = [donated EXCEPT ![token] = @ + amount]
    /\ UNCHANGED <<vars, pool, lastPing>>

KeeperNext ==
    \/ Next /\ UNCHANGED poolVars
    \/ \E c \in Addrs, t \in RewardTokens \cup {StreamToken, ZeroAddr}, r \in Rewards :
          configure_keeper_reward_pool(c, t, r)
    \/ \E c \in Addrs, a \in PoolAmounts : fund_keeper_reward_pool(c, a)
    \/ \E c \in Addrs, a \in PoolAmounts : withdraw_keeper_reward_pool(c, a)
    \/ \E k \in Keepers : keeper_ping(k)
    \/ \E t \in RewardTokens, a \in RewardGifts : RewardGift(t, a)

KeeperSpec == KeeperInit /\ [][KeeperNext]_<<vars, poolVars>>

-----------------------------------------------------------------------------

(* The pool's figure in storage follows the tokens behind it through every *)
(* reconfiguration, funding, bounty and withdrawal: they differ by exactly *)
(* what was donated past fund_keeper_reward_pool, and no entry leaves its  *)
(* type.  So withdraw_keeper_reward_pool, whose checked_sub is signed,     *)
(* takes the figure below zero by donated tokens at most.                  *)
PoolMatchesHoldings ==
    /\ KeeperTypeOK
    /\ pool # None => pool.balance + donated[pool.token] = rewardHeld[pool.token]

(* The amounts paid to all addresses together *)
TotalOf(amounts) == MapThenSumSet(LAMBDA a : amounts[a], Addrs)

(* Every token booked as withdrawn reached the payout address or the       *)
(* secondary recipient: the two transfers of a split add up to the amount  *)
(* that withdraw, cancel and force_cancel book.                            *)
PayoutsReachPayees == TotalOf(credit) = info.withdrawn

=============================================================================
