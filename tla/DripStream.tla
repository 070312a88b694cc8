---------------------------- MODULE DripStream ----------------------------
(***************************************************************************)
(* One deployed payment stream (contracts/stream/src/lib.rs).              *)
(*                                                                         *)
(* A contract call is atomic: it either commits everything it did or, on   *)
(* any error, is rolled back by the host.  So every entry point is one     *)
(* action whose guard is the conjunction of the checks the call makes, and *)
(* a rejected call is a stuttering step.  The re-entrancy guard is taken   *)
(* and released inside the call and is 0 between calls, so it is no state  *)
(* here.  The record info is the Config entry, its flag bits as Booleans;  *)
(* the other variables are the contract's optional storage keys, None      *)
(* where the key is absent.                                                *)
(***************************************************************************)
EXTENDS StreamMath

CONSTANTS
    Addrs,              \* account and contract addresses
    ZeroAddr,           \* the all-zero address is_zero_address rejects
    Sender,             \* the sender given to initialize; it never changes
    StreamAddr,         \* the stream's own address, env.current_contract_address()
    MinStreamDuration,  \* MIN_STREAM_DURATION, 60 s
    MaxStreamDuration,  \* MAX_STREAM_DURATION, 100 years
    MaxPauseSecs,       \* ttl::MAX_PAUSE_SECS, 30 days
    ForceCancelPauseSecs, \* ForceCancelPauseThresholdSecs, fixed at initialize
    EmergencyMaxPause   \* pause::DEFAULT_MAX_PAUSE_DURATION, 14 days

CONSTANTS               \* the inputs of the calls
    InitArgs,           \* arguments of initialize and the balance held then
    Amounts,            \* amounts of withdraw, top_up, top_up_and_extend
    Gifts,              \* amounts of direct token transfers
    Rates,              \* rates of change_rate
    Extensions,         \* extra_time_seconds
    Cliffs,             \* CliffConfig records of set_cliff
    Splits,             \* SplitConfig records of set_split_recipient
    Intervals,          \* interval_seconds
    Delegates,          \* addresses given to set_operator
    Payees,             \* addresses given to transfer_recipient and set_auto_forward_address
    Cancelable,         \* values of is_cancelable given to set_stream_config
    EmergencyCallers    \* callers of emergency_pause and emergency_unpause

CONSTANTS               \* bounds of the model
    MaxTime,            \* the last ledger timestamp
    MaxEvents,          \* events emitted before settlement
    MaxFunded           \* tokens ever sent to the stream

InitArgType ==
    [recipient : Addrs, rate_per_second : Int, start_time : Nat, end_time : Nat,
     clawback_enabled : BOOLEAN, balance : Nat]

ASSUME StreamAssumption ==
    /\ Sender \in Addrs /\ StreamAddr \in Addrs /\ Sender # StreamAddr
    /\ None \notin Addrs
    /\ {MinStreamDuration, MaxStreamDuration, MaxPauseSecs, EmergencyMaxPause} \subseteq Nat
    /\ ForceCancelPauseSecs \in Nat \ {0}
    /\ InitArgs \subseteq InitArgType
    /\ Amounts \subseteq Int /\ Rates \subseteq Int /\ Gifts \subseteq Nat
    /\ Extensions \subseteq Nat /\ Intervals \subseteq Nat
    /\ Cliffs \subseteq [cliff_time : Nat, cliff_unlock_amount : Int]
    /\ Splits \subseteq [secondary_recipient : Addrs, split_bps : Nat]
    /\ Delegates \subseteq Addrs /\ Payees \subseteq Addrs
    /\ EmergencyCallers \subseteq Addrs \ {StreamAddr}
    /\ Cancelable \subseteq BOOLEAN
    /\ {MaxTime, MaxEvents, MaxFunded} \subseteq Nat
    /\ None \notin [cliff_time : Nat, cliff_unlock_amount : Nat]
    /\ None \notin [secondary_recipient : Addrs, split_bps : Nat]
    /\ None \notin Nat

VARIABLES
    now,            \* env.ledger().timestamp()
    info,           \* DataKey::Config
    operator,       \* DataKey::Operator
    split,          \* DataKey::SplitConfig
    cliff,          \* DataKey::CliffConfig
    checkpoint,     \* DataKey::RateCheckpoint
    minInterval,    \* DataKey::MinWithdrawalInterval
    lastWithdrawal, \* DataKey::LastWithdrawalTime
    cancelable,     \* DataKey::StreamConfig
    forward,        \* DataKey::AutoForwardAddress
    cliffReached,   \* DataKey::CliffReached
    completed,      \* DataKey::StreamCompleted
    emergencyAt,    \* DataKey::EmergencyPaused: when the halt began, or None
    cumulative,     \* DataKey::CumulativeDeposited
    escrow          \* the stream's balance of its token

VARIABLES           \* history of the token contract, read by properties only
    funded,         \* tokens ever received by the stream, its payouts to itself included
    refunded,       \* tokens ever returned to the sender
    credit,         \* tokens paid to each address as the recipient's share
    forwardBy       \* who configured the current forwarding address

configVars  == <<operator, split, cliff, minInterval, cancelable, forward, forwardBy>>
milestones  == <<lastWithdrawal, cliffReached, completed>>
tokenVars   == <<escrow, funded, refunded, credit>>
vars == <<now, info, checkpoint, emergencyAt, cumulative, configVars, milestones, tokenVars>>

-----------------------------------------------------------------------------

InfoType ==
    [recipient : Addrs, rate_per_second : Nat, start_time : Nat, end_time : Nat,
     withdrawn : Nat, paused_at : Nat, paused : BOOLEAN,
     clawback_enabled : BOOLEAN, cancelled : BOOLEAN, event_sequence : Nat]

TypeOK ==
    /\ now \in Nat
    /\ info \in InfoType
    /\ operator \in Addrs \cup {None}
    /\ split \in [secondary_recipient : Addrs, split_bps : Bps] \cup {None}
    /\ cliff \in [cliff_time : Nat, cliff_unlock_amount : Nat] \cup {None}
    /\ checkpoint \in [accrued : Nat, at : Nat] \cup {None}
    /\ minInterval \in Nat /\ lastWithdrawal \in Nat
    /\ cancelable \in BOOLEAN
    /\ forward \in Addrs \cup {None} /\ forwardBy \in Addrs \cup {None}
    /\ cliffReached \in BOOLEAN /\ completed \in BOOLEAN
    /\ emergencyAt \in Nat \cup {None}
    /\ cumulative \in Nat
    /\ escrow \in Nat /\ funded \in Nat /\ refunded \in Nat
    /\ credit \in [Addrs -> Nat]

-----------------------------------------------------------------------------

(* math::streamed_amount and math::withdrawable on the stored state *)
Streamed == streamed_amount(info, checkpoint, cliff, now)
Withdrawable == Owed(Streamed, info.withdrawn)

Ended == info.end_time > 0 /\ now >= info.end_time

(***************************************************************************)
(* require_auth: nobody signs for the stream's own address, which the code *)
(* accepts as operator, recipient, forwarding address and second payee.    *)
(***************************************************************************)
Signs(caller) == caller # StreamAddr

(* require_sender_or_operator *)
SenderOrOperator(caller) ==
    /\ caller = Sender \/ (operator # None /\ caller = operator)
    /\ Signs(caller)

(* The caller check of set_ and remove_split_recipient *)
PartyOrOperator(caller) ==
    /\ caller \in {Sender, info.recipient} \/ (operator # None /\ caller = operator)
    /\ Signs(caller)

(* auto_forward_address *)
PayoutAddr == IF forward = None THEN info.recipient ELSE forward

(***************************************************************************)
(* The transfers that pay the recipient's side: the split's share to the   *)
(* secondary recipient, the rest to the payout address.                    *)
(***************************************************************************)
PrimaryShare_Whole(amount) == amount  \* mutant: the split is paid on top
PrimaryShare(amount) == amount - SplitShare(amount, split)

CreditPayout(amount) ==
    credit' = [a \in Addrs |->
        credit[a] + (IF a = PayoutAddr THEN PrimaryShare(amount) ELSE 0)
                  + (IF split # None /\ a = split.secondary_recipient
                     THEN SplitShare(amount, split) ELSE 0)]

TransferredOut(amount) == PrimaryShare(amount) + SplitShare(amount, split)

(* The part of a payout that the stream transfers to itself *)
ToItself(amount) ==
    (IF PayoutAddr = StreamAddr THEN PrimaryShare(amount) ELSE 0)
    + (IF split # None /\ split.secondary_recipient = StreamAddr
       THEN SplitShare(amount, split) ELSE 0)

(***************************************************************************)
(* events::next_sequence: every event published by the call advances the   *)
(* sequence stored in Config, after the call has saved it.                 *)
(***************************************************************************)
Save_LosesSequence(updated, events) == info' = updated  \* mutant
Save(updated, events) == info' = [updated EXCEPT !.event_sequence = @ + events]

RoomFor(events) == info.event_sequence + events <= MaxEvents

-----------------------------------------------------------------------------

(* The checks of initialize *)
ValidInit(args, t) ==
    /\ args.rate_per_second > 0
    /\ args.recipient # ZeroAddr /\ args.recipient # Sender
    /\ args.end_time > 0 =>
         LET duration == args.end_time - args.start_time
         IN  /\ duration > 0
             /\ MinStreamDuration <= duration /\ duration <= MaxStreamDuration
             /\ Representable(args.rate_per_second * duration)
    /\ args.start_time >= t

(* initialize; args.balance is what the address holds when it is called *)
Init ==
    \E args \in InitArgs :
        /\ now = 0
        /\ ValidInit(args, now)
        /\ args.balance <= MaxFunded
        /\ info = [recipient        |-> args.recipient,
                   rate_per_second  |-> args.rate_per_second,
                   start_time       |-> args.start_time,
                   end_time         |-> args.end_time,
                   withdrawn        |-> 0,
                   paused_at        |-> 0,
                   paused           |-> FALSE,
                   clawback_enabled |-> args.clawback_enabled,
                   cancelled        |-> FALSE,
                   event_sequence   |-> 1]
        /\ cumulative = IF args.end_time > 0
                        THEN args.rate_per_second * (args.end_time - args.start_time)
                        ELSE args.balance
        /\ escrow = args.balance /\ funded = args.balance
        /\ operator = None /\ split = None /\ cliff = None /\ checkpoint = None
        /\ minInterval = 0 /\ lastWithdrawal = 0
        /\ cancelable = TRUE
        /\ forward = None /\ forwardBy = None
        /\ cliffReached = FALSE /\ completed = FALSE
        /\ emergencyAt = None
        /\ refunded = 0
        /\ credit = [a \in Addrs |-> 0]

(* The next ledger closes. *)
Tick ==
    /\ now < MaxTime
    /\ now' = now + 1
    /\ UNCHANGED <<info, checkpoint, emergencyAt, cumulative, configVars, milestones, tokenVars>>

(* A SEP-41 transfer to the stream's address: the factory's deposit, or a gift. *)
DirectTransfer(amount) ==
    /\ funded + amount <= MaxFunded
    /\ escrow' = escrow + amount
    /\ funded' = funded + amount
    /\ UNCHANGED <<now, info, checkpoint, emergencyAt, cumulative, configVars, milestones,
                   refunded, credit>>

IntervalElapsed ==
    (minInterval > 0 /\ lastWithdrawal > 0) =>
        now >= SaturatingAdd(lastWithdrawal, minInterval)

ToSend(amount) == Least(Least(amount, Withdrawable), escrow)

withdraw(amount) ==
    LET to_send     == ToSend(amount)
        reachCliff  == cliff # None /\ ~cliffReached /\ now >= cliff.cliff_time
        complete    == ~completed /\ escrow - to_send = 0
        events      == 1 + (IF reachCliff THEN 1 ELSE 0) + (IF complete THEN 1 ELSE 0)
    IN  /\ amount > 0
        /\ ~info.cancelled
        /\ Signs(info.recipient)
        /\ IntervalElapsed
        /\ Representable(Streamed)
        /\ to_send > 0
        /\ Representable(info.withdrawn + to_send)
        /\ RoomFor(events)
        /\ Save([info EXCEPT !.withdrawn = @ + to_send], events)
        /\ CreditPayout(to_send)
        /\ escrow' = escrow - TransferredOut(to_send) + ToItself(to_send)
        /\ funded' = funded + ToItself(to_send)
        /\ lastWithdrawal' = now
        /\ cliffReached' = (cliffReached \/ reachCliff)
        /\ completed' = (completed \/ complete)
        /\ UNCHANGED <<now, checkpoint, emergencyAt, cumulative, configVars, refunded>>

(* cancelled_info; the mutant forgets that the settlement paid the recipient *)
SettledInfo_ForgetsPayout(owed) == [info EXCEPT !.cancelled = TRUE]
SettledInfo(owed) == [info EXCEPT !.cancelled = TRUE, !.withdrawn = @ + owed]

(* The settlement that _cancel and _force_cancel share *)
Settle ==
    LET owed   == Least(Withdrawable, escrow)
        refund == escrow - owed
    IN  /\ Representable(Streamed)
        /\ Representable(info.withdrawn + owed)
        /\ Save(SettledInfo(owed), 1)
        /\ CreditPayout(owed)
        /\ escrow' = escrow - TransferredOut(owed) + ToItself(owed) - refund
        /\ funded' = funded + ToItself(owed)
        /\ refunded' = refunded + refund
        /\ UNCHANGED <<now, checkpoint, emergencyAt, cumulative, configVars, milestones>>

cancel(caller) ==
    /\ ~info.cancelled
    /\ cancelable
    /\ SenderOrOperator(caller)
    /\ Settle

(* The grace period; the mutant also applies the upper bound of resume. *)
PauseThresholdMet_Window == now - info.paused_at \in {ForceCancelPauseSecs}
PauseThresholdMet == now - info.paused_at >= ForceCancelPauseSecs

force_cancel_Twice == info.paused /\ PauseThresholdMet /\ Settle  \* mutant
force_cancel ==
    /\ ~info.cancelled
    /\ Signs(info.recipient)
    /\ info.paused
    /\ PauseThresholdMet
    /\ Settle

pause(caller) ==
    /\ ~info.cancelled
    /\ ~info.paused
    /\ SenderOrOperator(caller)
    /\ now >= info.start_time
    /\ info.end_time > 0 => now <= info.end_time
    /\ Representable(Streamed)
    /\ RoomFor(1)
    /\ Save([info EXCEPT !.paused = TRUE, !.paused_at = now], 1)
    /\ UNCHANGED <<now, checkpoint, emergencyAt, cumulative, configVars, milestones, tokenVars>>

(* The shifted end of a bounded stream; the mutant keeps the old end. *)
ResumedEnd_Unshifted(paused_duration) == info.end_time
ResumedEnd(paused_duration) ==
    IF info.end_time > 0 THEN info.end_time + paused_duration ELSE 0

resume(caller) ==
    LET paused_duration == now - info.paused_at
        new_end         == ResumedEnd(paused_duration)
    IN  /\ ~info.cancelled
        /\ info.paused
        /\ SenderOrOperator(caller)
        /\ paused_duration <= MaxPauseSecs
        /\ info.start_time + paused_duration <= MaxU64
        /\ new_end <= MaxU64
        /\ RoomFor(1)
        /\ checkpoint' = IF checkpoint # None /\ checkpoint.at <= info.paused_at
                         THEN [checkpoint EXCEPT !.at = @ + paused_duration]
                         ELSE checkpoint
        /\ Save([info EXCEPT !.start_time = @ + paused_duration,
                             !.end_time = new_end,
                             !.paused = FALSE,
                             !.paused_at = 0], 1)
        /\ UNCHANGED <<now, emergencyAt, cumulative, configVars, milestones, tokenVars>>

(* Where change_rate puts its checkpoint, and the value it freezes there *)
RateChangeCheckpoint_DropsAccrued ==  \* mutant
    [accrued |-> 0, at |-> IF info.paused THEN info.paused_at ELSE now]
RateChangeCheckpoint ==
    LET changeTime == IF info.paused THEN info.paused_at ELSE now
    IN  IF cliff # None /\ changeTime < cliff.cliff_time
        THEN [accrued |-> cliff.cliff_unlock_amount, at |-> cliff.cliff_time]
        ELSE IF cliff = None /\ changeTime < info.start_time
        THEN [accrued |-> 0, at |-> info.start_time]
        ELSE [accrued |-> Streamed, at |-> changeTime]

change_rate(caller, new_rate) ==
    /\ new_rate > 0
    /\ ~info.cancelled
    /\ SenderOrOperator(caller)
    /\ ~Ended
    /\ Representable(Streamed)
    /\ LET cp == RateChangeCheckpoint
       IN  /\ (info.end_time > 0 /\ cp.at < info.end_time) =>
                 Representable(cp.accrued + new_rate * (info.end_time - cp.at))
           /\ checkpoint' = cp
    /\ RoomFor(1)
    /\ Save([info EXCEPT !.rate_per_second = new_rate], 1)
    /\ UNCHANGED <<now, emergencyAt, cumulative, configVars, milestones, tokenVars>>

(* add_cumulative_deposit and the transfer from the caller *)
Deposit(amount) ==
    /\ Representable(cumulative + amount)
    /\ cumulative' = cumulative + amount
    /\ funded + amount <= MaxFunded
    /\ funded' = funded + amount
    /\ escrow' = escrow + amount

top_up(amount) ==
    /\ amount > 0
    /\ ~info.cancelled
    /\ ~Ended
    /\ Deposit(amount)
    /\ RoomFor(1)
    /\ Save(info, 1)
    /\ UNCHANGED <<now, checkpoint, emergencyAt, configVars, milestones, refunded, credit>>

(* The part extend_duration and top_up_and_extend have in common *)
ExtendWith(caller, amount, extra) ==
    /\ extra > 0
    /\ ~info.cancelled
    /\ SenderOrOperator(caller)
    /\ info.end_time > 0
    /\ Deposit(amount)
    /\ info.end_time + extra <= MaxU64
    /\ RoomFor(1)
    /\ Save([info EXCEPT !.end_time = @ + extra], 1)
    /\ UNCHANGED <<now, checkpoint, emergencyAt, configVars, milestones, refunded, credit>>

extend_duration(caller, extra) ==
    /\ Representable(extra * info.rate_per_second)
    /\ ExtendWith(caller, extra * info.rate_per_second, extra)

top_up_and_extend(caller, amount, extra) ==
    /\ amount > 0
    /\ ExtendWith(caller, amount, extra)

(* What clawback returns; the mutant takes the earned part too. *)
ClawbackAmount_All == escrow
ClawbackAmount == Greatest(escrow - Withdrawable, 0)

clawback(caller) ==
    LET amount == ClawbackAmount
    IN  /\ ~info.cancelled
        /\ ~info.paused
        /\ info.clawback_enabled
        /\ SenderOrOperator(caller)
        /\ Representable(Streamed)
        /\ RoomFor(1)
        /\ escrow' = escrow - amount
        /\ refunded' = refunded + amount
        /\ Save(info, 1)
        /\ UNCHANGED <<now, checkpoint, emergencyAt, cumulative, configVars, milestones,
                       funded, credit>>

-----------------------------------------------------------------------------

(* Steps that change nothing but configuration keys *)
ConfigStep(events) ==
    /\ ~info.cancelled
    /\ RoomFor(events)
    /\ UNCHANGED <<now, checkpoint, emergencyAt, cumulative, milestones, tokenVars>>

DropForwarding_Not == UNCHANGED <<forward, forwardBy>>  \* mutant
DropForwarding == forward' = None /\ forwardBy' = None

transfer_recipient(new_recipient) ==
    /\ ConfigStep(1)
    /\ Signs(info.recipient)
    /\ new_recipient # ZeroAddr /\ new_recipient # info.recipient
    /\ ~Ended
    /\ Save([info EXCEPT !.recipient = new_recipient], 1)
    /\ DropForwarding
    /\ UNCHANGED <<operator, split, cliff, minInterval, cancelable>>

set_auto_forward_address(address) ==
    /\ ConfigStep(0)
    /\ Signs(info.recipient)
    /\ address # ZeroAddr
    /\ forward'   = IF address = info.recipient THEN None ELSE address
    /\ forwardBy' = IF address = info.recipient THEN None ELSE info.recipient
    /\ UNCHANGED <<info, operator, split, cliff, minInterval, cancelable>>

(* Replacing an operator emits a revocation and a designation. *)
set_operator(delegate) ==
    LET events == IF operator = None THEN 1 ELSE 2
    IN  /\ ConfigStep(events)
        /\ operator # delegate
        /\ operator' = delegate
        /\ Save(info, events)
        /\ UNCHANGED <<split, cliff, minInterval, cancelable, forward, forwardBy>>

revoke_operator ==
    /\ ConfigStep(1)
    /\ operator' = None
    /\ Save(info, 1)
    /\ UNCHANGED <<split, cliff, minInterval, cancelable, forward, forwardBy>>

set_split_recipient(caller, config) ==
    /\ ConfigStep(1)
    /\ PartyOrOperator(caller)
    /\ config.split_bps \in Bps
    /\ config.secondary_recipient \notin {ZeroAddr, Sender, info.recipient}
    /\ split' = config
    /\ Save(info, 1)
    /\ UNCHANGED <<operator, cliff, minInterval, cancelable, forward, forwardBy>>

remove_split_recipient(caller) ==
    /\ ConfigStep(1)
    /\ PartyOrOperator(caller)
    /\ split' = None
    /\ Save(info, 1)
    /\ UNCHANGED <<operator, cliff, minInterval, cancelable, forward, forwardBy>>

set_cliff(caller, config) ==
    /\ ConfigStep(1)
    /\ SenderOrOperator(caller)
    /\ config.cliff_unlock_amount >= 0
    /\ config.cliff_time >= info.start_time
    /\ info.end_time > 0 => config.cliff_time <= info.end_time
    /\ cliff' = config
    /\ Save(info, 1)
    /\ UNCHANGED <<operator, split, minInterval, cancelable, forward, forwardBy>>

set_min_withdrawal_interval(caller, interval) ==
    /\ ConfigStep(1)
    /\ SenderOrOperator(caller)
    /\ minInterval' = interval
    /\ Save(info, 1)
    /\ UNCHANGED <<operator, split, cliff, cancelable, forward, forwardBy>>

set_stream_config(caller, is_cancelable) ==
    /\ ConfigStep(0)
    /\ SenderOrOperator(caller)
    /\ cancelable' = is_cancelable
    /\ UNCHANGED <<info, operator, split, cliff, minInterval, forward, forwardBy>>

(* drip_common::pause::is_paused: the halt lapses after its maximum duration *)
EmergencyPaused ==
    emergencyAt # None /\ now < SaturatingAdd(emergencyAt, EmergencyMaxPause)

emergency_pause(caller) ==
    /\ ~EmergencyPaused
    /\ RoomFor(1)
    /\ emergencyAt' = now
    /\ Save(info, 1)
    /\ UNCHANGED <<now, checkpoint, cumulative, configVars, milestones, tokenVars>>

emergency_unpause(caller) ==
    /\ EmergencyPaused
    /\ RoomFor(1)
    /\ emergencyAt' = None
    /\ Save(info, 1)
    /\ UNCHANGED <<now, checkpoint, cumulative, configVars, milestones, tokenVars>>

-----------------------------------------------------------------------------

SenderCall(caller) ==
    \/ cancel(caller)
    \/ pause(caller)
    \/ resume(caller)
    \/ clawback(caller)
    \/ \E r \in Rates : change_rate(caller, r)
    \/ \E e \in Extensions : extend_duration(caller, e)
    \/ \E a \in Amounts, e \in Extensions : top_up_and_extend(caller, a, e)
    \/ \E c \in Cliffs : set_cliff(caller, c)
    \/ \E i \in Intervals : set_min_withdrawal_interval(caller, i)
    \/ \E b \in Cancelable : set_stream_config(caller, b)

RecipientCall ==
    \/ \E a \in Amounts : withdraw(a)
    \/ force_cancel
    \/ \E p \in Payees : transfer_recipient(p)
    \/ \E p \in Payees : set_auto_forward_address(p)

OtherCall ==
    \/ \E a \in Amounts : top_up(a)
    \/ \E d \in Delegates : set_operator(d)
    \/ \E d \in Delegates : revoke_operator
    \/ \E c \in Addrs, s \in Splits : set_split_recipient(c, s)
    \/ \E c \in Addrs, s \in Splits : remove_split_recipient(c)
    \/ \E c \in EmergencyCallers : emergency_pause(c)
    \/ \E c \in EmergencyCallers : emergency_unpause(c)

Next ==
    \/ Tick
    \/ \E a \in Gifts : DirectTransfer(a)
    \/ \E caller \in Addrs : SenderCall(caller)
    \/ RecipientCall
    \/ OtherCall

Spec == Init /\ [][Next]_vars

-----------------------------------------------------------------------------
(***************************************************************************)
(* Properties                                                              *)
(***************************************************************************)

(* The amount booked in Config matches the token movements: every token    *)
(* the stream received is still held, was paid out (withdraw, cancel,      *)
(* force_cancel book it in info.withdrawn) or was refunded to the sender   *)
(* (cancel, force_cancel, clawback).  A payout to the stream's own address *)
(* is booked, and received again.                                          *)
Accounting == escrow + info.withdrawn + refunded = funded

(* The schedule stays well formed through pause, resume and extension, so  *)
(* effective_now - start_time in streamed_amount never underflows; such an *)
(* underflow would make withdraw, cancel and clawback all fail for good    *)
(* (the comment on initialize, lib.rs:175-186).                            *)
ScheduleOK ==
    /\ info.rate_per_second > 0
    /\ info.end_time > 0 => info.start_time < info.end_time
    /\ info.paused =>
         /\ info.start_time <= info.paused_at /\ info.paused_at <= now
         /\ info.end_time > 0 => info.paused_at <= info.end_time

(* A stream without a cliff never pays the recipient more than it streamed *)
(* so far, whatever was paused, repriced, extended or clawed back before   *)
(* (withdraw, cancel and force_cancel against streamed_amount).            *)
NeverOverpaid == cliff = None => info.withdrawn <= Streamed

(* Payouts only follow a forwarding address that the current recipient     *)
(* chose: transfer_recipient drops the one of the former recipient.        *)
ForwardOfRecipient == forward # None => forwardBy = info.recipient

(* What the recipient has received and could still collect now *)
Claim == info.withdrawn + (IF info.cancelled THEN 0 ELSE Least(Withdrawable, escrow))

(* Nobody's call takes earned and funded tokens away from the recipient of *)
(* a stream without a cliff: not pausing, repricing, extending, clawing    *)
(* back or cancelling.                                                     *)
ClaimNeverShrinks == [][cliff' = None => Claim' >= Claim]_vars

(* The stream is running: one second earns one second's rate *)
Running ==
    /\ ~info.paused
    /\ now >= info.start_time
    /\ info.end_time > 0 => now < info.end_time

(* The closed formula of streamed_amount, with its shifted origins and its *)
(* checkpoint, agrees with counting second by second: a step of the clock  *)
(* earns the current rate exactly while the stream runs, and no call earns *)
(* or loses anything.  The one exception is an extension of a stream past  *)
(* its end, which also pays for the seconds since that end.                *)
AccruesBySecond ==
    [][cliff' = None =>
        \/ /\ now' = now + 1
           /\ Streamed' = Streamed + (IF Running THEN info.rate_per_second ELSE 0)
        \/ now' = now /\ Streamed' = Streamed
        \/ /\ now' = now /\ Ended /\ info'.end_time > info.end_time
           /\ Streamed' >= Streamed]_vars

(* One of the payees is the stream's own address *)
PaysItself ==
    PayoutAddr = StreamAddr \/ (split # None /\ split.secondary_recipient = StreamAddr)

(* The stream keeps the promise of an escrow that pays only what has been  *)
(* earned, returns only what has not, and settles everything once: the     *)
(* detailed specification implements EarnedEscrow, with withdrawable as    *)
(* its meter.  No call after cancel or force_cancel pays, refunds or       *)
(* revives the stream, and only a stream that pays itself keeps anything.  *)
Promise == INSTANCE EarnedEscrow WITH
    held     <- escrow,
    due      <- IF info.cancelled THEN 0 ELSE Withdrawable,
    paid     <- info.withdrawn,
    returned <- refunded,
    open     <- ~info.cancelled,
    loops    <- PaysItself
KeepsPromise == Promise!EscrowSpec

(* A consumer that compares event sequences sees every change of the       *)
(* schedule, of the parties, of the halt and of the amounts booked: none   *)
(* is committed without a new sequence number, and the sequence never goes *)
(* back.  Two keys do change without one, whether the stream is cancelable *)
(* (set_stream_config) and where payouts are forwarded                     *)
(* (set_auto_forward_address): such a call changes one of them only, and   *)
(* the forwarding address only on behalf of the recipient of the events    *)
(* seen so far.                                                            *)
SequenceTracksTerms ==
    [][/\ info'.event_sequence >= info.event_sequence
       /\ info'.event_sequence = info.event_sequence =>
            /\ info' = info
            /\ UNCHANGED <<checkpoint, cliff, split, operator, minInterval, milestones,
                           emergencyAt, cumulative, refunded, credit>>
            /\ cancelable' = cancelable \/ forward' = forward
            /\ forward' \in {forward, None} \/ forwardBy' = info.recipient]_vars

-----------------------------------------------------------------------------
(***************************************************************************)
(* Liveness.  Ledgers keep closing, and a recipient who wants the money    *)
(* keeps calling: both are assumed weakly fair.  Nothing is assumed of the *)
(* sender.                                                                 *)
(***************************************************************************)
Fairness == WF_vars(Tick) /\ WF_vars(force_cancel) /\ WF_vars(\E a \in Amounts : withdraw(a))

LiveSpec == Spec /\ Fairness

(* A sender cannot hold the stream paused for ever: within the horizon of  *)
(* the model every pause ends, by resume or by settlement (force_cancel),  *)
(* unless the recipient handed the stream to its own address, for which    *)
(* nobody can sign.                                                        *)
PauseEnds ==
    (info.paused /\ ~info.cancelled /\ info.paused_at + ForceCancelPauseSecs <= MaxTime)
        ~> (info.cancelled \/ ~info.paused \/ info.recipient = StreamAddr)

-----------------------------------------------------------------------------
(***************************************************************************)
(* What comments and documents say and the code does not do; each of these *)
(* is violated.                                                            *)
(***************************************************************************)

(* math.rs says streamed_amount excludes any paused time: then resuming a  *)
(* stream whose cliff had passed when it was paused, as a withdrawal had   *)
(* recorded before the pause, does not change what has been streamed.      *)
PausedTimeExcluded ==
    [][/\ info.paused /\ ~info'.paused
       /\ cliff # None /\ cliff.cliff_time <= info.paused_at
       /\ cliffReached /\ lastWithdrawal < info.paused_at
       => Streamed' = Streamed]_vars

(* The comment on change_rate: already-earned value is never retroactively *)
(* repriced.                                                               *)
RateChangeIsProspective ==
    [][info'.rate_per_second # info.rate_per_second => Streamed' >= Streamed]_vars

=============================================================================
