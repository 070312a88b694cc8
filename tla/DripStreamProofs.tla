------------------------- MODULE DripStreamProofs -------------------------
(***************************************************************************)
(* Proofs about DripStream and, at the end, about the stream composed with *)
(* its keeper reward pool (StreamKeeper), for every value of their         *)
(* constants.                                                              *)
(***************************************************************************)
EXTENDS StreamKeeper, FoldLemmas, TLAPS

-----------------------------------------------------------------------------
(***************************************************************************)
(* Arithmetic                                                              *)
(***************************************************************************)

(* A longer time at the same rate accrues at least as much. *)
LEMMA RateMonotone ==
    ASSUME NEW r \in Nat, NEW x \in Int, NEW y \in Int, x <= y
    PROVE  r * x <= r * y
<1>1. y - x \in Nat
  OBVIOUS
<1>2. r * (y - x) \in Nat
  BY <1>1
<1>3. r * y = r * x + r * (y - x)
  OBVIOUS
<1> QED
  BY <1>2, <1>3

(* Basis points of an amount, rounded down, are part of the amount. *)
LEMMA BasisPoints ==
    ASSUME NEW amount \in Nat, NEW bps \in Bps
    PROVE  /\ (amount * bps) \div 10000 \in Nat
           /\ (amount * bps) \div 10000 <= amount
<1>1. PICK product \in Nat : product = amount * bps
  BY DEF Bps
<1>2. product <= amount * 10000
  BY <1>1, RateMonotone DEF Bps
<1>3. /\ product \div 10000 \in Nat
      /\ 10000 * (product \div 10000) <= product
  BY SMT
<1>4. product \div 10000 <= amount
  BY <1>2, <1>3
<1> QED
  BY <1>1, <1>3, <1>4

(* The share mul_div computes lies between nothing and the whole amount. *)
LEMMA SplitShareBounds ==
    ASSUME NEW amount \in Nat,
           NEW s \in [secondary_recipient : Addrs, split_bps : Bps] \cup {None}
    PROVE  /\ SplitShare(amount, s) \in Nat
           /\ SplitShare(amount, s) <= amount
<1>1. CASE s = None
  BY <1>1 DEF SplitShare
<1>2. CASE s # None
  BY <1>2, BasisPoints DEF SplitShare
<1> QED
  BY <1>1, <1>2

-----------------------------------------------------------------------------
(***************************************************************************)
(* Type correctness.  It needs ScheduleOK: resume adds now - paused_at to  *)
(* its timestamps, which is a u64 only because a pause lies in the past.   *)
(***************************************************************************)

(* streamed_amount returns an integer. *)
LEMMA StreamedAmountType ==
    ASSUME NEW i \in InfoType, NEW cp \in [accrued : Nat, at : Nat] \cup {None},
           NEW k \in [cliff_time : Nat, cliff_unlock_amount : Nat] \cup {None}, NEW t \in Nat
    PROVE  streamed_amount(i, cp, k, t) \in Int
<1>1. EffectiveNow(i, t) \in Nat
  BY DEF InfoType, EffectiveNow
<1> QED
  BY <1>1 DEF InfoType, streamed_amount, AccruedSince

(* What is streamed is an integer and what is withdrawable not negative. *)
LEMMA StreamedType ==
    ASSUME TypeOK
    PROVE  Streamed \in Int /\ Withdrawable \in Nat
<1>1. Streamed \in Int
  BY StreamedAmountType DEF TypeOK, Streamed
<1> QED
  BY <1>1 DEF TypeOK, InfoType, Withdrawable, Owed, Greatest

(* Whatever part of the escrow is paid out, the two transfers of the split *)
(* sum to it and every payee's credit stays a natural number.              *)
LEMMA PayoutType ==
    ASSUME TypeOK, NEW amount \in Nat
    PROVE  /\ TransferredOut(amount) = amount
           /\ ToItself(amount) \in Nat /\ ToItself(amount) <= amount
           /\ ~PaysItself => ToItself(amount) = 0
           /\ CreditPayout(amount) => credit' \in [Addrs -> Nat]
<1>1. SplitShare(amount, split) \in Nat /\ SplitShare(amount, split) <= amount
  BY SplitShareBounds DEF TypeOK
<1>2. /\ PrimaryShare(amount) \in Nat /\ TransferredOut(amount) = amount
      /\ PrimaryShare(amount) + SplitShare(amount, split) = amount
  BY <1>1 DEF PrimaryShare, TransferredOut
<1>3. ToItself(amount) \in Nat /\ ToItself(amount) <= amount
  BY <1>1, <1>2 DEF ToItself
<1>4. ~PaysItself => ToItself(amount) = 0
  BY <1>1, <1>2 DEF ToItself, PaysItself
<1> QED
  BY <1>1, <1>2, <1>3, <1>4 DEF CreditPayout, TypeOK

(* What withdraw sends is covered by the escrow and by what is owed. *)
LEMMA ToSendBounds ==
    ASSUME TypeOK, NEW amount \in Int, amount > 0
    PROVE  /\ ToSend(amount) \in Nat
           /\ ToSend(amount) <= escrow
           /\ ToSend(amount) <= Withdrawable
  BY StreamedType DEF TypeOK, ToSend, Least

(* initialize establishes every part of the invariant that is about types  *)
(* and about the schedule.                                                 *)
LEMMA InitType == Init => TypeOK /\ ScheduleOK
<1> SUFFICES ASSUME NEW args \in InitArgs, Init!(args) PROVE TypeOK /\ ScheduleOK
  BY DEF Init
<1>1. args \in InitArgType
  BY StreamAssumption
<1>2. args.rate_per_second \in Nat /\ args.rate_per_second > 0
  BY <1>1 DEF InitArgType, ValidInit
<1>3. args.end_time > 0 => args.start_time < args.end_time
  BY <1>1 DEF InitArgType, ValidInit
<1>4. args.end_time > 0 =>
        args.rate_per_second * (args.end_time - args.start_time) \in Nat
  BY <1>1, <1>2, <1>3 DEF InitArgType
<1>5. info \in InfoType
  BY <1>1, <1>2 DEF InitArgType, InfoType
<1>6. cumulative \in Nat
  BY <1>1, <1>4 DEF InitArgType
<1> QED
  BY <1>1, <1>2, <1>3, <1>5, <1>6 DEF InitArgType, TypeOK, ScheduleOK

(* Saving a well-typed record and publishing events keeps Config well typed. *)
LEMMA SaveType ==
    ASSUME NEW updated \in InfoType, NEW n \in Nat, Save(updated, n)
    PROVE  info' \in InfoType
  BY DEF Save, InfoType

(* Every call whose arguments are of the right type keeps the state of the *)
(* right type.                                                             *)
LEMMA TypeStep ==
    ASSUME TypeOK, ScheduleOK, [Next]_vars
    PROVE  TypeOK'
<1> USE StreamAssumption DEF ConfigStep, configVars, milestones, tokenVars
<1>1. CASE Tick
  BY <1>1 DEF TypeOK, Tick
<1>2. ASSUME NEW a \in Gifts, DirectTransfer(a) PROVE TypeOK'
  BY <1>2 DEF TypeOK, DirectTransfer
<1>3. ASSUME NEW a \in Amounts, withdraw(a) PROVE TypeOK'
  <2>1. a \in Int /\ a > 0
    BY <1>3 DEF withdraw
  <2>2. ToSend(a) \in Nat /\ ToSend(a) <= escrow
    BY <2>1, ToSendBounds
  <2>3. escrow' \in Nat /\ funded' \in Nat /\ credit' \in [Addrs -> Nat]
    BY <1>3, <2>2, PayoutType DEF withdraw, TypeOK
  <2>4. [info EXCEPT !.withdrawn = @ + ToSend(a)] \in InfoType
    BY <2>2 DEF TypeOK, InfoType
  <2>5. info' \in InfoType
    <3>1. PICK n \in Nat : Save([info EXCEPT !.withdrawn = @ + ToSend(a)], n)
      BY <1>3 DEF withdraw
    <3> QED
      BY <2>4, <3>1, SaveType
  <2> QED
    BY <1>3, <2>3, <2>5 DEF withdraw, TypeOK
<1>4. CASE Settle
  <2> DEFINE owed == Least(Withdrawable, escrow)
  <2>1. owed \in Nat /\ owed <= escrow
    BY StreamedType DEF TypeOK, Least
  <2>2. /\ TransferredOut(owed) = owed /\ credit' \in [Addrs -> Nat]
        /\ ToItself(owed) \in Nat
    BY <1>4, <2>1, PayoutType DEF Settle
  <2>3. escrow' \in Nat /\ refunded' \in Nat /\ funded' \in Nat
    BY <1>4, <2>1, <2>2 DEF Settle, TypeOK
  <2>4. SettledInfo(owed) \in InfoType
    <3>1. info.withdrawn + owed \in Nat
      BY <2>1 DEF TypeOK, InfoType
    <3> QED
      BY <3>1, Zenon DEF SettledInfo, TypeOK, InfoType
  <2>5. info' \in InfoType
    BY <1>4, <2>4, SaveType DEF Settle
  <2> QED
    BY <1>4, <2>2, <2>3, <2>5 DEF Settle, TypeOK
<1>5. ASSUME NEW c \in Addrs, pause(c) PROVE TypeOK'
  <2>1. [info EXCEPT !.paused = TRUE, !.paused_at = now] \in InfoType
    BY DEF TypeOK, InfoType
  <2>2. info' \in InfoType
    BY <1>5, <2>1, SaveType DEF pause
  <2> QED
    BY <1>5, <2>2 DEF TypeOK, pause
<1>6. ASSUME NEW c \in Addrs, resume(c) PROVE TypeOK'
  <2>1. now - info.paused_at \in Nat
    BY <1>6 DEF resume, ScheduleOK, TypeOK, InfoType
  <2>2. info' \in InfoType
    <3> DEFINE d == now - info.paused_at
               resumed == [info EXCEPT !.start_time = @ + d, !.end_time = ResumedEnd(d),
                                       !.paused = FALSE, !.paused_at = 0]
    <3>1. resumed \in InfoType
      <4>1. info.start_time + d \in Nat /\ ResumedEnd(d) \in Nat /\ 0 \in Nat
        BY <2>1 DEF ResumedEnd, TypeOK, InfoType
      <4> QED
        BY <4>1, Zenon DEF TypeOK, InfoType
    <3>2. Save(resumed, 1)
      BY <1>6 DEF resume
    <3> QED
      BY <3>1, <3>2, SaveType
  <2>3. checkpoint' \in [accrued : Nat, at : Nat] \cup {None}
    BY <1>6, <2>1 DEF resume, TypeOK
  <2> QED
    BY <1>6, <2>2, <2>3 DEF resume, TypeOK
<1>7. ASSUME NEW c \in Addrs, NEW r \in Rates, change_rate(c, r) PROVE TypeOK'
  <2>1. RateChangeCheckpoint \in [accrued : Nat, at : Nat]
    BY <1>7, StreamedType
    DEF change_rate, RateChangeCheckpoint, Representable, TypeOK, InfoType
  <2>2. info' \in InfoType
    <3>1. [info EXCEPT !.rate_per_second = r] \in InfoType
      BY <1>7 DEF change_rate, TypeOK, InfoType
    <3> QED
      BY <1>7, <3>1, SaveType DEF change_rate
  <2> QED
    BY <1>7, <2>1, <2>2 DEF change_rate, TypeOK
<1>8. ASSUME NEW a \in Amounts, top_up(a) PROVE TypeOK'
  BY <1>8 DEF TypeOK, InfoType, Save, top_up, Deposit
<1>9. ASSUME NEW c \in Addrs, NEW a \in Nat, NEW e \in Extensions, ExtendWith(c, a, e)
      PROVE  TypeOK'
  <2>1. info' \in InfoType
    <3>1. [info EXCEPT !.end_time = @ + e] \in InfoType
      BY DEF TypeOK, InfoType
    <3> QED
      BY <1>9, <3>1, SaveType DEF ExtendWith
  <2> QED
    BY <1>9, <2>1 DEF ExtendWith, Deposit, TypeOK
<1>10. ASSUME NEW c \in Addrs, NEW e \in Extensions, extend_duration(c, e) PROVE TypeOK'
  <2>1. e * info.rate_per_second \in Nat
    BY <1>10 DEF TypeOK, InfoType
  <2> QED
    BY <1>9, <1>10, <2>1 DEF extend_duration
<1>11. ASSUME NEW c \in Addrs, NEW a \in Amounts, NEW e \in Extensions,
              top_up_and_extend(c, a, e)
       PROVE  TypeOK'
  <2>1. a \in Nat
    BY <1>11 DEF top_up_and_extend
  <2> QED
    BY <1>9, <1>11, <2>1 DEF top_up_and_extend
<1>12. ASSUME NEW c \in Addrs, clawback(c) PROVE TypeOK'
  <2>1. ClawbackAmount \in Nat /\ ClawbackAmount <= escrow
    BY StreamedType DEF ClawbackAmount, Greatest, TypeOK
  <2> QED
    BY <1>12, <2>1 DEF clawback, TypeOK, InfoType, Save
<1>13. ASSUME NEW p \in Payees, transfer_recipient(p) PROVE TypeOK'
  <2>1. [info EXCEPT !.recipient = p] \in InfoType
    BY DEF TypeOK, InfoType
  <2>2. info' \in InfoType
    BY <1>13, <2>1, SaveType DEF transfer_recipient
  <2> QED
    BY <1>13, <2>2 DEF TypeOK, transfer_recipient, DropForwarding
<1>14. ASSUME NEW p \in Payees, set_auto_forward_address(p) PROVE TypeOK'
  BY <1>14 DEF TypeOK, InfoType, Save, set_auto_forward_address
<1>15. ASSUME NEW d \in Delegates, set_operator(d) PROVE TypeOK'
  BY <1>15 DEF TypeOK, InfoType, Save, set_operator
<1>16. CASE revoke_operator
  BY <1>16 DEF TypeOK, InfoType, Save, revoke_operator
<1>17. ASSUME NEW c \in Addrs, NEW s \in Splits, set_split_recipient(c, s) PROVE TypeOK'
  <2>1. s \in [secondary_recipient : Addrs, split_bps : Bps]
    BY <1>17 DEF set_split_recipient
  <2> QED
    BY <1>17, <2>1 DEF TypeOK, InfoType, Save, set_split_recipient
<1>18. ASSUME NEW c \in Addrs, remove_split_recipient(c) PROVE TypeOK'
  BY <1>18 DEF TypeOK, InfoType, Save, remove_split_recipient
<1>19. ASSUME NEW c \in Addrs, NEW k \in Cliffs, set_cliff(c, k) PROVE TypeOK'
  <2>1. k \in [cliff_time : Nat, cliff_unlock_amount : Nat]
    BY <1>19 DEF set_cliff
  <2> QED
    BY <1>19, <2>1 DEF TypeOK, InfoType, Save, set_cliff
<1>20. ASSUME NEW c \in Addrs, NEW i \in Intervals, set_min_withdrawal_interval(c, i)
       PROVE  TypeOK'
  BY <1>20 DEF TypeOK, InfoType, Save, set_min_withdrawal_interval
<1>21. ASSUME NEW c \in Addrs, NEW b \in Cancelable, set_stream_config(c, b) PROVE TypeOK'
  BY <1>21 DEF TypeOK, InfoType, Save, set_stream_config
<1>22. ASSUME NEW c \in EmergencyCallers, emergency_pause(c) PROVE TypeOK'
  BY <1>22 DEF TypeOK, InfoType, Save, emergency_pause
<1>23. ASSUME NEW c \in EmergencyCallers, emergency_unpause(c) PROVE TypeOK'
  BY <1>23 DEF TypeOK, InfoType, Save, emergency_unpause
<1>24. CASE UNCHANGED vars
  BY <1>24 DEF TypeOK, vars
<1>25. ASSUME NEW c \in Addrs, SenderCall(c) PROVE TypeOK'
  BY <1>4, <1>5, <1>6, <1>7, <1>10, <1>11, <1>12, <1>19, <1>20, <1>21, <1>25
  DEF SenderCall, cancel
<1>26. CASE RecipientCall
  BY <1>3, <1>4, <1>13, <1>14, <1>26 DEF RecipientCall, force_cancel
<1>27. CASE OtherCall
  BY <1>8, <1>15, <1>16, <1>17, <1>18, <1>22, <1>23, <1>27 DEF OtherCall
<1> QED
  BY <1>1, <1>2, <1>24, <1>25, <1>26, <1>27 DEF Next

-----------------------------------------------------------------------------
(***************************************************************************)
(* The inductive invariant.  NeverOverpaid is not inductive: resume and    *)
(* change_rate move the origin of accrual, and they keep what was streamed *)
(* only because the origin is never ahead of the accrual frontier, where   *)
(* the clock stands or was paused, and never past the end.                 *)
(***************************************************************************)

(* ScheduleOK of a Config record at a time *)
ScheduleOf(i, t) ==
    /\ i.rate_per_second > 0
    /\ i.end_time > 0 => i.start_time < i.end_time
    /\ i.paused =>
         /\ i.start_time <= i.paused_at /\ i.paused_at <= t
         /\ i.end_time > 0 => i.paused_at <= i.end_time

(* The checkpoint of a stream without a cliff: before the start it is an   *)
(* empty one at the start, later it is not ahead of the accrual frontier.  *)
CheckpointOf(i, cp, t) ==
    cp # None =>
        /\ t < i.start_time => cp.at = i.start_time /\ cp.accrued = 0
        /\ t >= i.start_time => cp.at <= (IF i.paused THEN i.paused_at ELSE t)
        /\ i.end_time > 0 => cp.at <= i.end_time

CheckpointOK == cliff = None => CheckpointOf(info, checkpoint, now)

IInv == TypeOK /\ ScheduleOK /\ Accounting /\ CheckpointOK /\ NeverOverpaid

(* A call that changes neither the clock, the accrual, the cancellation    *)
(* nor the money, and removes no cliff                                     *)
Quiet ==
    /\ UNCHANGED <<now, checkpoint, escrow, funded, refunded, credit>>
    /\ cliff' = None => cliff = None
    /\ info'.rate_per_second = info.rate_per_second
    /\ info'.start_time = info.start_time
    /\ info'.end_time = info.end_time
    /\ info'.withdrawn = info.withdrawn
    /\ info'.paused_at = info.paused_at
    /\ info'.paused = info.paused
    /\ info'.cancelled = info.cancelled
    /\ info.cancelled => UNCHANGED <<forward, split>> /\ info'.recipient = info.recipient

(* Every step is a clock tick, a movement of money, a change of the        *)
(* schedule, or quiet.                                                     *)
LEMMA StepCases ==
    ASSUME TypeOK, [Next]_vars
    PROVE  \/ Tick
           \/ \E a \in Gifts : DirectTransfer(a)
           \/ \E a \in Amounts : withdraw(a)
           \/ ~info.cancelled /\ Settle
           \/ \E c \in Addrs : pause(c)
           \/ \E c \in Addrs : resume(c)
           \/ \E c \in Addrs : clawback(c)
           \/ \E c \in Addrs, r \in Rates : change_rate(c, r)
           \/ \E a \in Amounts : top_up(a)
           \/ \E c \in Addrs, a \in Nat, e \in Extensions : ExtendWith(c, a, e)
           \/ Quiet
<1> USE StreamAssumption DEF ConfigStep, configVars, milestones, tokenVars
<1> USE DEF Save, TypeOK, InfoType, Quiet
<1>1. ASSUME NEW p \in Payees, transfer_recipient(p) PROVE Quiet
  BY <1>1 DEF transfer_recipient
<1>2. ASSUME NEW p \in Payees, set_auto_forward_address(p) PROVE Quiet
  BY <1>2 DEF set_auto_forward_address
<1>3. ASSUME NEW d \in Delegates, set_operator(d) PROVE Quiet
  BY <1>3 DEF set_operator
<1>4. CASE revoke_operator
  BY <1>4 DEF revoke_operator
<1>5. ASSUME NEW c \in Addrs, NEW s \in Splits, set_split_recipient(c, s) PROVE Quiet
  BY <1>5 DEF set_split_recipient
<1>6. ASSUME NEW c \in Addrs, remove_split_recipient(c) PROVE Quiet
  BY <1>6 DEF remove_split_recipient
<1>7. ASSUME NEW c \in Addrs, NEW k \in Cliffs, set_cliff(c, k) PROVE Quiet
  <2>1. k \in [cliff_time : Nat, cliff_unlock_amount : Nat] /\ k # None
    BY <1>7 DEF set_cliff
  <2> QED
    BY <1>7, <2>1 DEF set_cliff
<1>8. ASSUME NEW c \in Addrs, NEW i \in Intervals, set_min_withdrawal_interval(c, i)
      PROVE  Quiet
  BY <1>8 DEF set_min_withdrawal_interval
<1>9. ASSUME NEW c \in Addrs, NEW b \in Cancelable, set_stream_config(c, b) PROVE Quiet
  BY <1>9 DEF set_stream_config
<1>10. ASSUME NEW c \in EmergencyCallers, emergency_pause(c) \/ emergency_unpause(c)
       PROVE  Quiet
  BY <1>10 DEF emergency_pause, emergency_unpause
<1>11. CASE UNCHANGED vars
  BY <1>11 DEF vars
<1>12. ASSUME NEW c \in Addrs, NEW e \in Extensions, extend_duration(c, e)
       PROVE  \E a \in Nat : ExtendWith(c, a, e)
  <2>0. e \in Nat /\ info.rate_per_second \in Nat
    OBVIOUS
  <2>1. e * info.rate_per_second \in Nat
    <3> HIDE StreamAssumption DEF TypeOK, InfoType, Quiet, Save
    <3> QED
      BY <2>0
  <2> QED
    BY <1>12, <2>1 DEF extend_duration
<1>13. ASSUME NEW c \in Addrs, NEW a \in Amounts, NEW e \in Extensions,
              top_up_and_extend(c, a, e)
       PROVE  a \in Nat /\ ExtendWith(c, a, e)
  BY <1>13 DEF top_up_and_extend
<1> USE DEF cancel, force_cancel
<1> HIDE DEF Save, TypeOK, InfoType, Quiet, ConfigStep
<1>14. CASE \E c \in Addrs : SenderCall(c)
  BY <1>7, <1>8, <1>9, <1>12, <1>13, <1>14 DEF SenderCall
<1>15. CASE RecipientCall
  BY <1>1, <1>2, <1>15 DEF RecipientCall
<1>16. CASE OtherCall
  BY <1>3, <1>4, <1>5, <1>6, <1>10, <1>16 DEF OtherCall
<1> QED
  BY <1>11, <1>14, <1>15, <1>16 DEF Next

(* pause, resume, extensions and rate changes keep the schedule well formed. *)
LEMMA ScheduleStep ==
    ASSUME TypeOK, ScheduleOK, [Next]_vars
    PROVE  ScheduleOK'
<1> USE StreamAssumption DEF ScheduleOK, TypeOK, InfoType, Save
<1>1. CASE Tick
  BY <1>1 DEF Tick
<1>2. ASSUME NEW a \in Gifts, DirectTransfer(a) PROVE ScheduleOK'
  BY <1>2 DEF DirectTransfer
<1>3. ASSUME NEW a \in Amounts, withdraw(a) PROVE ScheduleOK'
  BY <1>3 DEF withdraw
<1>4. CASE Settle
  BY <1>4 DEF Settle, SettledInfo
<1>5. ASSUME NEW c \in Addrs, pause(c) PROVE ScheduleOK'
  BY <1>5 DEF pause
<1>6. ASSUME NEW c \in Addrs, resume(c) PROVE ScheduleOK'
  BY <1>6 DEF resume, ResumedEnd
<1>7. ASSUME NEW c \in Addrs, clawback(c) PROVE ScheduleOK'
  BY <1>7 DEF clawback
<1>8. ASSUME NEW c \in Addrs, NEW r \in Rates, change_rate(c, r) PROVE ScheduleOK'
  BY <1>8 DEF change_rate
<1>9. ASSUME NEW a \in Amounts, top_up(a) PROVE ScheduleOK'
  BY <1>9 DEF top_up
<1>10. ASSUME NEW c \in Addrs, NEW a \in Nat, NEW e \in Extensions, ExtendWith(c, a, e)
       PROVE  ScheduleOK'
  BY <1>10 DEF ExtendWith
<1>11. CASE Quiet
  BY <1>11 DEF Quiet
<1> HIDE DEF ScheduleOK, TypeOK, InfoType
<1> QED
  BY <1>1, <1>2, <1>3, <1>4, <1>5, <1>6, <1>7, <1>8, <1>9, <1>10, <1>11, StepCases

(* Every movement of tokens is booked: withdraw and the settlements in     *)
(* withdrawn, clawback and the settlements as a refund.                    *)
LEMMA AccountingStep ==
    ASSUME TypeOK, Accounting, [Next]_vars
    PROVE  Accounting'
<1> USE StreamAssumption DEF Accounting, TypeOK, InfoType, Save, tokenVars
<1>1. CASE Tick
  BY <1>1 DEF Tick
<1>2. ASSUME NEW a \in Gifts, DirectTransfer(a) PROVE Accounting'
  BY <1>2 DEF DirectTransfer
<1>3. ASSUME NEW a \in Amounts, withdraw(a) PROVE Accounting'
  <2>1. /\ TransferredOut(ToSend(a)) = ToSend(a) /\ ToSend(a) \in Nat
        /\ ToItself(ToSend(a)) \in Nat
    BY <1>3, ToSendBounds, PayoutType DEF withdraw
  <2> QED
    BY <1>3, <2>1 DEF withdraw
<1>4. CASE Settle
  <2> DEFINE owed == Least(Withdrawable, escrow)
  <2>1. owed \in Nat
    BY StreamedType DEF Least
  <2>2. TransferredOut(owed) = owed /\ ToItself(owed) \in Nat
    BY <2>1, PayoutType
  <2>3. info'.withdrawn = info.withdrawn + owed
    BY <1>4 DEF Settle, SettledInfo
  <2>4. /\ escrow' = escrow - TransferredOut(owed) + ToItself(owed) - (escrow - owed)
        /\ refunded' = refunded + (escrow - owed) /\ funded' = funded + ToItself(owed)
    BY <1>4 DEF Settle
  <2> HIDE DEF owed
  <2> QED
    BY <2>1, <2>2, <2>3, <2>4
<1>5. ASSUME NEW c \in Addrs, pause(c) PROVE Accounting'
  BY <1>5 DEF pause
<1>6. ASSUME NEW c \in Addrs, resume(c) PROVE Accounting'
  BY <1>6 DEF resume
<1>7. ASSUME NEW c \in Addrs, clawback(c) PROVE Accounting'
  <2>1. ClawbackAmount \in Nat
    BY StreamedType DEF ClawbackAmount, Greatest
  <2> QED
    BY <1>7, <2>1 DEF clawback
<1>8. ASSUME NEW c \in Addrs, NEW r \in Rates, change_rate(c, r) PROVE Accounting'
  BY <1>8 DEF change_rate
<1>9. ASSUME NEW a \in Amounts, top_up(a) PROVE Accounting'
  BY <1>9 DEF top_up, Deposit
<1>10. ASSUME NEW c \in Addrs, NEW a \in Nat, NEW e \in Extensions, ExtendWith(c, a, e)
       PROVE  Accounting'
  BY <1>10 DEF ExtendWith, Deposit
<1>11. CASE Quiet
  BY <1>11 DEF Quiet
<1> HIDE DEF Accounting, TypeOK, InfoType
<1> QED
  BY <1>1, <1>2, <1>3, <1>4, <1>5, <1>6, <1>7, <1>8, <1>9, <1>10, <1>11, StepCases

(* change_rate puts its checkpoint on the accrual frontier, and the clock, *)
(* pauses and extensions never leave it ahead of the frontier.             *)
LEMMA CheckpointStep ==
    ASSUME TypeOK, ScheduleOK, CheckpointOK, [Next]_vars
    PROVE  CheckpointOK'
<1> SUFFICES ASSUME cliff' = None PROVE CheckpointOf(info', checkpoint', now')
  BY DEF CheckpointOK
<1> USE StreamAssumption
    DEF CheckpointOK, CheckpointOf, ScheduleOK, TypeOK, InfoType, Save, configVars
<1> DEFINE Goal == CheckpointOf(info', checkpoint', now')
<1>1. CASE Tick
  BY <1>1 DEF Tick
<1>2. ASSUME NEW a \in Gifts, DirectTransfer(a) PROVE Goal
  BY <1>2 DEF DirectTransfer
<1>3. ASSUME NEW a \in Amounts, withdraw(a) PROVE Goal
  BY <1>3 DEF withdraw
<1>4. CASE Settle
  BY <1>4 DEF Settle, SettledInfo
<1>5. ASSUME NEW c \in Addrs, pause(c) PROVE Goal
  BY <1>5 DEF pause
<1>6. ASSUME NEW c \in Addrs, resume(c) PROVE Goal
  BY <1>6 DEF resume, ResumedEnd
<1>7. ASSUME NEW c \in Addrs, clawback(c) PROVE Goal
  BY <1>7 DEF clawback
<1>8. ASSUME NEW c \in Addrs, NEW r \in Rates, change_rate(c, r) PROVE Goal
  BY <1>8 DEF change_rate, RateChangeCheckpoint, Ended
<1>9. ASSUME NEW a \in Amounts, top_up(a) PROVE Goal
  BY <1>9 DEF top_up
<1>10. ASSUME NEW c \in Addrs, NEW a \in Nat, NEW e \in Extensions, ExtendWith(c, a, e)
       PROVE  Goal
  BY <1>10 DEF ExtendWith
<1>11. CASE Quiet
  BY <1>11 DEF Quiet
<1> HIDE DEF CheckpointOf, TypeOK, InfoType
<1> QED
  BY <1>1, <1>2, <1>3, <1>4, <1>5, <1>6, <1>7, <1>8, <1>9, <1>10, <1>11, StepCases

-----------------------------------------------------------------------------
(***************************************************************************)
(* Accrual                                                                 *)
(***************************************************************************)

Origin(i, cp) == IF cp # None THEN cp.at ELSE i.start_time
Base(cp) == IF cp # None THEN cp.accrued ELSE 0

(* Without a cliff the three branches of streamed_amount are one formula,  *)
(* whose subtraction never underflows.                                     *)
LEMMA ClosedForm ==
    ASSUME NEW i \in InfoType, NEW cp \in [accrued : Nat, at : Nat] \cup {None},
           NEW t \in Nat, ScheduleOf(i, t), CheckpointOf(i, cp, t), t >= i.start_time
    PROVE  /\ Origin(i, cp) \in Nat /\ Base(cp) \in Nat /\ EffectiveNow(i, t) \in Nat
           /\ Origin(i, cp) <= EffectiveNow(i, t)
           /\ streamed_amount(i, cp, None, t) =
                Base(cp) + i.rate_per_second * (EffectiveNow(i, t) - Origin(i, cp))
<1>1. /\ Origin(i, cp) \in Nat /\ Base(cp) \in Nat /\ EffectiveNow(i, t) \in Nat
      /\ Origin(i, cp) <= EffectiveNow(i, t)
  BY DEF Origin, Base, EffectiveNow, InfoType, ScheduleOf, CheckpointOf
<1>2. CASE cp = None
  BY <1>1, <1>2 DEF streamed_amount, Origin, Base, InfoType
<1>3. CASE cp # None
  BY <1>1, <1>3 DEF streamed_amount, AccruedSince, Origin, Base, InfoType
<1> QED
  BY <1>1, <1>2, <1>3

(* streamed_amount depends on nothing else in Config. *)
LEMMA SameAccrual ==
    ASSUME NEW i, NEW j, NEW cp, NEW k, NEW t,
           j.rate_per_second = i.rate_per_second, j.start_time = i.start_time,
           j.end_time = i.end_time, j.paused = i.paused, j.paused_at = i.paused_at
    PROVE  streamed_amount(j, cp, k, t) = streamed_amount(i, cp, k, t)
  BY DEF streamed_amount, AccruedSince, EffectiveNow

(* The body of AccruesBySecond *)
OneSecond ==
    /\ now' = now + 1
    /\ Streamed' = Streamed + (IF Running THEN info.rate_per_second ELSE 0)
NoAccrual == now' = now /\ Streamed' = Streamed
Reopened ==
    /\ now' = now /\ Ended /\ info'.end_time > info.end_time
    /\ Streamed' >= Streamed

(* A call that leaves the inputs of streamed_amount alone accrues nothing. *)
LEMMA NoAccrualStep ==
    ASSUME TypeOK, now' = now, checkpoint' = checkpoint, cliff' = cliff,
           info'.rate_per_second = info.rate_per_second,
           info'.start_time = info.start_time, info'.end_time = info.end_time,
           info'.paused = info.paused, info'.paused_at = info.paused_at
    PROVE  NoAccrual
  BY SameAccrual DEF NoAccrual, Streamed

(* Every step of a stream without a cliff accrues second by second.        *)
LEMMA AccrualStep ==
    ASSUME TypeOK, ScheduleOK, CheckpointOK, TypeOK', ScheduleOK', CheckpointOK',
           [Next]_vars, cliff' = None
    PROVE  cliff = None /\ (OneSecond \/ NoAccrual \/ Reopened)
<1> USE StreamAssumption DEF Save, configVars
<1> DEFINE Goal == cliff = None /\ (OneSecond \/ NoAccrual \/ Reopened)
<1>a. ScheduleOf(info, now) /\ ScheduleOf(info', now')
  BY DEF ScheduleOK, ScheduleOf
<1>b. CheckpointOf(info', checkpoint', now')
  BY DEF CheckpointOK
<1>c. cliff = None => CheckpointOf(info, checkpoint, now)
  BY DEF CheckpointOK
<1>d. /\ info \in InfoType /\ info' \in InfoType /\ now \in Nat /\ now' \in Nat
      /\ checkpoint \in [accrued : Nat, at : Nat] \cup {None}
      /\ checkpoint' \in [accrued : Nat, at : Nat] \cup {None}
  BY DEF TypeOK
<1> DEFINE eff == EffectiveNow(info, now)
           org == Origin(info, checkpoint)
           eff1 == EffectiveNow(info', now')
           org1 == Origin(info', checkpoint')
<1>e. ASSUME cliff = None, now >= info.start_time
      PROVE  /\ eff \in Nat /\ org \in Nat /\ org <= eff /\ Base(checkpoint) \in Nat
             /\ Streamed = Base(checkpoint) + info.rate_per_second * (eff - org)
  BY <1>a, <1>c, <1>d, <1>e, ClosedForm DEF Streamed
<1>f. ASSUME now' >= info'.start_time
      PROVE  /\ eff1 \in Nat /\ org1 \in Nat /\ org1 <= eff1 /\ Base(checkpoint') \in Nat
             /\ Streamed' = Base(checkpoint') + info'.rate_per_second * (eff1 - org1)
  BY <1>a, <1>b, <1>d, <1>f, ClosedForm DEF Streamed
<1>1. CASE Tick
  <2>1. /\ cliff = None /\ now' = now + 1
        /\ UNCHANGED <<info, checkpoint>>
    BY <1>1 DEF Tick
  <2>2. CASE now' < info.start_time
    BY <1>d, <2>1, <2>2 DEF OneSecond, Streamed, streamed_amount, Running, InfoType
  <2>3. CASE now < info.start_time /\ now' = info.start_time
    <3>1. Streamed = 0 /\ ~Running
      BY <1>d, <2>3 DEF Streamed, streamed_amount, Running, InfoType
    <3>2. eff1 = org1 /\ Base(checkpoint') = 0
      BY <1>a, <1>c, <1>d, <2>1, <2>3
      DEF EffectiveNow, Origin, Base, InfoType, ScheduleOf, CheckpointOf
    <3>3. Streamed' = 0
      BY <1>d, <1>f, <2>1, <2>3, <3>2 DEF InfoType
    <3> QED
      BY <2>1, <3>1, <3>3 DEF OneSecond
  <2>4. CASE now >= info.start_time
    <3>1. org1 = org /\ Base(checkpoint') = Base(checkpoint)
      BY <2>1
    <3>2. eff1 = IF Running THEN eff + 1 ELSE eff
      BY <1>a, <1>d, <2>1, <2>4 DEF EffectiveNow, Running, InfoType, ScheduleOf
    <3>3. now' >= info'.start_time
      BY <1>d, <2>1, <2>4 DEF InfoType
    <3>4. info.rate_per_second \in Nat
      BY <1>d DEF InfoType
    <3> HIDE DEF eff, org, eff1, org1
    <3>5. CASE Running
      <4>1. info.rate_per_second * ((eff + 1) - org)
              = info.rate_per_second * (eff - org) + info.rate_per_second
        BY <1>e, <2>1, <2>4, <3>4
      <4>2. Streamed' = Base(checkpoint) + info.rate_per_second * ((eff + 1) - org)
        BY <1>f, <2>1, <3>1, <3>2, <3>3, <3>5
      <4>3. Streamed = Base(checkpoint) + info.rate_per_second * (eff - org)
        BY <1>e, <2>1, <2>4
      <4>4. Streamed' = Streamed + info.rate_per_second
        BY <1>e, <2>1, <2>4, <3>4, <4>1, <4>2, <4>3
      <4> QED
        BY <2>1, <3>5, <4>4 DEF OneSecond
    <3>6. CASE ~Running
      BY <1>e, <1>f, <2>1, <2>4, <3>1, <3>2, <3>3, <3>4, <3>6 DEF OneSecond
    <3> QED
      BY <3>5, <3>6
  <2> QED
    BY <1>d, <2>1, <2>2, <2>3, <2>4 DEF InfoType
<1>2. ASSUME NEW a \in Gifts, DirectTransfer(a) PROVE Goal
  BY <1>2, NoAccrualStep DEF DirectTransfer
<1>3. ASSUME NEW a \in Amounts, withdraw(a) PROVE Goal
  BY <1>3, <1>d, NoAccrualStep DEF withdraw, InfoType
<1>4. CASE Settle
  BY <1>4, <1>d, NoAccrualStep DEF Settle, SettledInfo, InfoType
<1>5. ASSUME NEW c \in Addrs, pause(c) PROVE Goal
  <2>1. /\ cliff = None /\ now' = now /\ checkpoint' = checkpoint
        /\ now >= info.start_time /\ info'.start_time = info.start_time
        /\ info'.rate_per_second = info.rate_per_second
    BY <1>5, <1>d DEF pause, InfoType
  <2>2. eff1 = eff
    BY <1>5, <1>d DEF pause, EffectiveNow, InfoType
  <2>3. org1 = org
    BY <2>1 DEF Origin
  <2> HIDE DEF eff, org, eff1, org1
  <2> QED
    BY <1>e, <1>f, <2>1, <2>2, <2>3 DEF NoAccrual
<1>6. ASSUME NEW c \in Addrs, resume(c) PROVE Goal
  <2>1. /\ cliff = None /\ now' = now /\ now >= info.start_time
        /\ info'.rate_per_second = info.rate_per_second
        /\ now' >= info'.start_time
    BY <1>6, <1>a, <1>d DEF resume, InfoType, ScheduleOf
  <2> DEFINE d == now - info.paused_at
  <2>2. /\ info.paused /\ ~info'.paused
        /\ info'.start_time = info.start_time + d
        /\ info'.end_time = IF info.end_time > 0 THEN info.end_time + d ELSE 0
    BY <1>6, <1>d DEF resume, ResumedEnd, InfoType
  <2>3. eff = info.paused_at /\ eff1 = now
    BY <1>a, <1>d, <2>1, <2>2 DEF EffectiveNow, ScheduleOf, InfoType
  <2>4. Base(checkpoint') = Base(checkpoint) /\ eff1 - org1 = eff - org
    <3>1. CASE checkpoint = None
      <4>1. checkpoint' = None
        BY <1>6, <3>1 DEF resume
      <4> QED
        BY <1>d, <2>2, <2>3, <3>1, <4>1 DEF Base, Origin, InfoType
    <3>2. CASE checkpoint # None
      <4>1. checkpoint.at <= info.paused_at
        BY <1>c, <2>1, <2>2, <3>2 DEF CheckpointOf
      <4>2. checkpoint' = [checkpoint EXCEPT !.at = @ + d]
        BY <1>6, <3>2, <4>1 DEF resume
      <4>3. /\ checkpoint'.accrued = checkpoint.accrued
            /\ checkpoint'.at = checkpoint.at + d
        BY <1>d, <3>2, <4>2
      <4>4. checkpoint' # None
        <5>1. checkpoint.at + d \in Nat
          BY <1>a, <1>d, <2>2, <3>2 DEF ScheduleOf, InfoType
        <5>2. [checkpoint EXCEPT !.at = @ + d] \in [accrued : Nat, at : Nat]
          BY <1>d, <3>2, <5>1, Zenon
        <5> QED
          BY <4>2, <5>2, NoneAssumption
      <4> QED
        BY <1>d, <2>3, <3>2, <4>3, <4>4 DEF Base, Origin, InfoType
    <3> QED
      BY <3>1, <3>2
  <2> HIDE DEF eff, org, eff1, org1
  <2> QED
    BY <1>e, <1>f, <2>1, <2>4 DEF NoAccrual
<1>7. ASSUME NEW c \in Addrs, clawback(c) PROVE Goal
  BY <1>7, <1>d, NoAccrualStep DEF clawback, InfoType
<1>8. ASSUME NEW c \in Addrs, NEW r \in Rates, change_rate(c, r) PROVE Goal
  <2>1. /\ cliff = None /\ now' = now /\ info'.rate_per_second = r /\ r \in Nat
        /\ info'.start_time = info.start_time /\ info'.end_time = info.end_time
        /\ info'.paused = info.paused /\ info'.paused_at = info.paused_at
        /\ checkpoint' = RateChangeCheckpoint /\ ~Ended
        /\ Streamed \in Nat
    BY <1>8, <1>d, StreamedType DEF change_rate, Representable, InfoType
  <2>2. CASE now < info.start_time
    BY <1>d, <2>1, <2>2 DEF NoAccrual, Streamed, streamed_amount
  <2>3. CASE now >= info.start_time
    <3> DEFINE at == IF info.paused THEN info.paused_at ELSE now
    <3>0. at \in Nat /\ ~(at < info.start_time)
      BY <1>a, <1>d, <2>3 DEF ScheduleOf, InfoType
    <3>1. checkpoint' = [accrued |-> Streamed, at |-> at] /\ checkpoint' # None
      BY <2>1, <3>0, NoneAssumption DEF RateChangeCheckpoint
    <3>2. eff1 = org1 /\ Base(checkpoint') = Streamed
      BY <1>a, <1>d, <2>1, <3>1 DEF EffectiveNow, Origin, Base, Ended, ScheduleOf, InfoType
    <3> HIDE DEF eff1, org1
    <3> QED
      BY <1>d, <1>f, <2>1, <2>3, <3>2 DEF NoAccrual
  <2> QED
    BY <1>d, <2>2, <2>3 DEF InfoType
<1>9. ASSUME NEW a \in Amounts, top_up(a) PROVE Goal
  BY <1>9, <1>d, NoAccrualStep DEF top_up, InfoType
<1>10. ASSUME NEW c \in Addrs, NEW a \in Nat, NEW e \in Extensions, ExtendWith(c, a, e)
       PROVE  Goal
  <2>1. /\ cliff = None /\ now' = now /\ checkpoint' = checkpoint
        /\ info'.start_time = info.start_time /\ info'.end_time = info.end_time + e
        /\ info'.rate_per_second = info.rate_per_second
        /\ info'.paused = info.paused /\ info'.paused_at = info.paused_at
        /\ info.end_time > 0 /\ e > 0 /\ e \in Nat
    BY <1>10, <1>d DEF ExtendWith, InfoType
  <2>2. CASE now < info.start_time
    BY <2>1, <2>2 DEF NoAccrual, Streamed, streamed_amount
  <2>3. CASE now >= info.start_time
    <3>1. org1 = org
      BY <2>1 DEF Origin
    <3>2. eff1 >= eff /\ (eff1 = eff \/ Ended)
      BY <1>a, <1>d, <2>1 DEF EffectiveNow, Ended, ScheduleOf, InfoType
    <3>3. info.rate_per_second \in Nat /\ info.end_time \in Nat
      BY <1>d DEF InfoType
    <3> HIDE DEF eff, org, eff1, org1
    <3>4. info.rate_per_second * (eff - org) <= info.rate_per_second * (eff1 - org1)
      BY <1>e, <1>f, <2>1, <2>3, <3>1, <3>2, <3>3, RateMonotone
    <3>5. CASE eff1 = eff
      BY <1>e, <1>f, <2>1, <2>3, <3>1, <3>5 DEF NoAccrual
    <3>6. CASE Ended
      BY <1>e, <1>f, <2>1, <2>3, <3>3, <3>4, <3>6 DEF Reopened
    <3> QED
      BY <3>2, <3>5, <3>6
  <2> QED
    BY <1>d, <2>2, <2>3 DEF InfoType
<1>11. CASE Quiet
  BY <1>11, NoAccrualStep DEF Quiet
<1> HIDE DEF Goal
<1> QED
  BY <1>1, <1>2, <1>3, <1>4, <1>5, <1>6, <1>7, <1>8, <1>9, <1>10, <1>11, StepCases DEF Goal

-----------------------------------------------------------------------------
(***************************************************************************)
(* Money                                                                   *)
(***************************************************************************)

(* Who is paid how much: only withdraw and the settlements pay, at most    *)
(* what is owed and held; nothing but a settlement or a clawback takes     *)
(* tokens away, and a clawback leaves what is owed.                        *)
LEMMA MoneyStep ==
    ASSUME TypeOK, [Next]_vars
    PROVE  \/ /\ info'.withdrawn = info.withdrawn
              /\ info'.cancelled = info.cancelled
              /\ escrow' >= escrow \/ escrow' = Least(Withdrawable, escrow)
              /\ info.cancelled => refunded' = refunded
           \/ /\ ~info.cancelled /\ ~info'.cancelled
              /\ \E x \in Nat : /\ info'.withdrawn = info.withdrawn + x
                                /\ escrow' >= escrow - x
                                /\ x <= Least(Withdrawable, escrow)
           \/ /\ ~info.cancelled /\ info'.cancelled
              /\ info'.withdrawn = info.withdrawn + Least(Withdrawable, escrow)
<1> DEFINE Kept == /\ info'.withdrawn = info.withdrawn
                   /\ info'.cancelled = info.cancelled
                   /\ escrow' >= escrow \/ escrow' = Least(Withdrawable, escrow)
                   /\ info.cancelled => refunded' = refunded
<1> USE StreamAssumption DEF TypeOK, InfoType, Save, tokenVars
<1>1. CASE Tick
  BY <1>1 DEF Tick
<1>2. ASSUME NEW a \in Gifts, DirectTransfer(a) PROVE Kept
  BY <1>2 DEF DirectTransfer
<1>3. ASSUME NEW a \in Amounts, withdraw(a)
      PROVE  /\ ~info.cancelled /\ ~info'.cancelled
             /\ \E x \in Nat : /\ info'.withdrawn = info.withdrawn + x
                               /\ escrow' >= escrow - x
                               /\ x <= Least(Withdrawable, escrow)
  <2>1. /\ ToSend(a) \in Nat
        /\ ToSend(a) <= escrow
        /\ ToSend(a) <= Withdrawable
    BY <1>3, ToSendBounds DEF withdraw
  <2>2. TransferredOut(ToSend(a)) = ToSend(a) /\ ToItself(ToSend(a)) \in Nat
    BY <2>1, PayoutType
  <2>3. ToSend(a) <= Least(Withdrawable, escrow)
    BY <2>1 DEF Least
  <2> QED
    BY <1>3, <2>1, <2>2, <2>3 DEF withdraw
<1>4. CASE ~info.cancelled /\ Settle
  <2>1. info'.withdrawn = info.withdrawn + Least(Withdrawable, escrow) /\ info'.cancelled
    BY <1>4 DEF Settle, SettledInfo
  <2> QED
    BY <1>4, <2>1
<1>5. ASSUME NEW c \in Addrs, pause(c) PROVE Kept
  BY <1>5 DEF pause
<1>6. ASSUME NEW c \in Addrs, resume(c) PROVE Kept
  BY <1>6 DEF resume
<1>7. ASSUME NEW c \in Addrs, clawback(c) PROVE Kept
  <2>1. Withdrawable \in Nat
    BY StreamedType
  <2>2. escrow' = Least(Withdrawable, escrow)
    BY <1>7, <2>1 DEF clawback, ClawbackAmount, Greatest, Least
  <2> QED
    BY <1>7, <2>2 DEF clawback
<1>8. ASSUME NEW c \in Addrs, NEW r \in Rates, change_rate(c, r) PROVE Kept
  BY <1>8 DEF change_rate
<1>9. ASSUME NEW a \in Amounts, top_up(a) PROVE Kept
  BY <1>9 DEF top_up, Deposit
<1>10. ASSUME NEW c \in Addrs, NEW a \in Nat, NEW e \in Extensions, ExtendWith(c, a, e)
       PROVE  Kept
  BY <1>10 DEF ExtendWith, Deposit
<1>11. CASE Quiet
  BY <1>11 DEF Quiet
<1> HIDE DEF TypeOK, InfoType
<1> QED
  BY <1>1, <1>2, <1>3, <1>4, <1>5, <1>6, <1>7, <1>8, <1>9, <1>10, <1>11, StepCases

(* Accrual never goes back, so a step that pays at most what is owed       *)
(* leaves the recipient paid at most what is streamed.                     *)
LEMMA NeverOverpaidStep ==
    ASSUME IInv, TypeOK', ScheduleOK', CheckpointOK', [Next]_vars
    PROVE  NeverOverpaid'
<1> SUFFICES ASSUME cliff' = None PROVE info'.withdrawn <= Streamed'
  BY DEF NeverOverpaid
<1>1. cliff = None /\ (OneSecond \/ NoAccrual \/ Reopened)
  BY AccrualStep DEF IInv
<1>2. Streamed \in Int /\ Withdrawable \in Nat /\ info.rate_per_second \in Nat
      /\ info.withdrawn \in Nat /\ escrow \in Nat
  BY StreamedType DEF IInv, TypeOK, InfoType
<1>3. Streamed' \in Int /\ Streamed' >= Streamed
  <2>1. Streamed' \in Int
    BY StreamedAmountType DEF TypeOK, Streamed
  <2> QED
    BY <1>1, <1>2, <2>1 DEF OneSecond, NoAccrual, Reopened
<1>4. info.withdrawn <= Streamed /\ Withdrawable = Streamed - info.withdrawn
  BY <1>1, <1>2 DEF IInv, NeverOverpaid, Withdrawable, Owed, Greatest
<1>5. info'.withdrawn \in Nat /\ info'.withdrawn <= info.withdrawn + Withdrawable
  <2>1. info'.withdrawn \in Nat
    BY DEF TypeOK, InfoType
  <2> QED
    BY <1>2, <2>1, MoneyStep DEF IInv, Least
<1> QED
  BY <1>2, <1>3, <1>4, <1>5

(* Every step preserves the inductive invariant. *)
LEMMA IInvStep ==
    ASSUME IInv, [Next]_vars
    PROVE  IInv'
<1>1. TypeOK' /\ ScheduleOK' /\ Accounting' /\ CheckpointOK'
  BY TypeStep, ScheduleStep, AccountingStep, CheckpointStep DEF IInv
<1>2. NeverOverpaid'
  BY <1>1, NeverOverpaidStep
<1> QED
  BY <1>1, <1>2 DEF IInv

(* initialize establishes the inductive invariant. *)
LEMMA IInvInit == Init => IInv
<1> SUFFICES ASSUME Init PROVE IInv
  OBVIOUS
<1>1. TypeOK /\ ScheduleOK
  BY InitType
<1>2. Accounting /\ CheckpointOK
  BY <1>1 DEF Init, Accounting, CheckpointOK, CheckpointOf, TypeOK, InfoType
<1>3. now <= info.start_time /\ info.withdrawn = 0 /\ checkpoint = None /\ ~info.paused
  BY StreamAssumption DEF Init, ValidInit, InitArgType
<1>4. Streamed = 0 \/ cliff # None
  <2>1. CASE now < info.start_time
    BY <2>1 DEF Streamed, streamed_amount
  <2>2. CASE now = info.start_time
    <3>1. EffectiveNow(info, now) = info.start_time
      BY <1>1, <1>3, <2>2 DEF EffectiveNow, ScheduleOK, TypeOK, InfoType
    <3> QED
      BY <1>1, <1>3, <2>2, <3>1 DEF Streamed, streamed_amount, TypeOK, InfoType
  <2> QED
    BY <1>1, <1>3, <2>1, <2>2 DEF TypeOK, InfoType
<1>5. NeverOverpaid
  BY <1>3, <1>4 DEF NeverOverpaid
<1> QED
  BY <1>1, <1>2, <1>5 DEF IInv

(* The inductive invariant holds in every behaviour of a stream. *)
THEOREM Invariance == Spec => []IInv
<1>1. IInv /\ [Next]_vars => IInv'
  BY IInvStep
<1> QED
  BY <1>1, IInvInit, PTL DEF Spec

(* The state of a stream is well typed: no balance, timestamp or amount    *)
(* booked by any sequence of calls is ever negative.                       *)
THEOREM TypeCorrect == Spec => []TypeOK
<1>1. IInv => TypeOK
  BY DEF IInv
<1> QED
  BY <1>1, Invariance, PTL

(* No token is lost or counted twice: what the stream received is held,    *)
(* booked as withdrawn or refunded, after any sequence of calls.           *)
THEOREM AccountingHolds == Spec => []Accounting
<1>1. IInv => Accounting
  BY DEF IInv
<1> QED
  BY <1>1, Invariance, PTL

(* pause, resume, extensions and rate changes keep the schedule well       *)
(* formed, so the unguarded subtractions of streamed_amount and resume     *)
(* never underflow.                                                        *)
THEOREM ScheduleHolds == Spec => []ScheduleOK
<1>1. IInv => ScheduleOK
  BY DEF IInv
<1> QED
  BY <1>1, Invariance, PTL

(* A stream without a cliff never pays out more than it has streamed.      *)
THEOREM NeverOverpaidHolds == Spec => []NeverOverpaid
<1>1. IInv => NeverOverpaid
  BY DEF IInv
<1> QED
  BY <1>1, Invariance, PTL

(* Accrual is second by second at the rate in force, whatever pauses,      *)
(* resumptions and rate changes move the origin of streamed_amount.        *)
THEOREM AccrualHolds == Spec => AccruesBySecond
<1>1. ASSUME IInv, IInv', [Next]_vars
      PROVE  cliff' = None =>
        \/ /\ now' = now + 1
           /\ Streamed' = Streamed + (IF Running THEN info.rate_per_second ELSE 0)
        \/ now' = now /\ Streamed' = Streamed
        \/ /\ now' = now /\ Ended /\ info'.end_time > info.end_time
           /\ Streamed' >= Streamed
  BY <1>1, AccrualStep DEF IInv, OneSecond, NoAccrual, Reopened
<1> QED
  BY <1>1, Invariance, PTL DEF Spec, AccruesBySecond

(* No call takes earned and funded tokens away from the recipient.         *)
THEOREM ClaimHolds == Spec => ClaimNeverShrinks
<1>1. ASSUME IInv, IInv', [Next]_vars, cliff' = None
      PROVE  Claim' >= Claim
  <2>1. cliff = None /\ (OneSecond \/ NoAccrual \/ Reopened)
    BY <1>1, AccrualStep DEF IInv
  <2>2. /\ Streamed \in Int /\ Streamed' \in Int /\ info.rate_per_second \in Nat
        /\ info.withdrawn \in Nat /\ info'.withdrawn \in Nat
        /\ escrow \in Nat /\ escrow' \in Nat
    BY <1>1, StreamedAmountType DEF IInv, TypeOK, InfoType, Streamed
  <2>3. Streamed' >= Streamed
    BY <2>1, <2>2 DEF OneSecond, NoAccrual, Reopened
  <2>4. Withdrawable = Streamed - info.withdrawn /\ info.withdrawn <= Streamed
    BY <1>1, <2>1, <2>2 DEF IInv, NeverOverpaid, Withdrawable, Owed, Greatest
  <2>5. Withdrawable' = Streamed' - info'.withdrawn /\ info'.withdrawn <= Streamed'
    BY <1>1, <2>2 DEF IInv, NeverOverpaid, Withdrawable, Owed, Greatest
  <2> HIDE DEF IInv
  <2>6. TypeOK
    BY <1>1 DEF IInv
  <2> QED
    BY <1>1, <2>2, <2>3, <2>4, <2>5, <2>6, MoneyStep DEF Claim, Least
<1>2. ASSUME IInv, IInv', [Next]_vars
      PROVE  cliff' = None => Claim' >= Claim
  BY <1>1, <1>2
<1> QED
  BY <1>2, Invariance, PTL DEF Spec, ClaimNeverShrinks

-----------------------------------------------------------------------------
(***************************************************************************)
(* Refinement: a stream implements the escrow of EarnedEscrow              *)
(***************************************************************************)

(* Accrual since one instant does not go down with the time. *)
LEMMA AccruedMonotone ==
    ASSUME NEW base \in Nat, NEW at \in Nat, NEW r \in Nat,
           NEW x \in Nat, NEW y \in Nat, x <= y
    PROVE  AccruedSince(base, at, r, x) <= AccruedSince(base, at, r, y)
<1>1. CASE y < at
  BY <1>1 DEF AccruedSince
<1>2. CASE x < at /\ at <= y
  <2>1. r * (y - at) \in Nat
    BY <1>2
  <2> QED
    BY <1>2, <2>1 DEF AccruedSince
<1>3. CASE at <= x
  <2>1. r * (x - at) <= r * (y - at)
    BY <1>3, RateMonotone
  <2>2. r * (x - at) \in Nat /\ r * (y - at) \in Nat
    BY <1>3
  <2>3. /\ AccruedSince(base, at, r, x) = base + r * (x - at)
        /\ AccruedSince(base, at, r, y) = base + r * (y - at)
    BY <1>3 DEF AccruedSince
  <2> QED
    BY <2>1, <2>2, <2>3
<1> QED
  BY <1>1, <1>2, <1>3

(* An extension, with or without a cliff, lowers nothing that was streamed. *)
LEMMA ExtensionKeepsStreamed ==
    ASSUME TypeOK, ScheduleOK, TypeOK',
           NEW c \in Addrs, NEW a \in Nat, NEW e \in Extensions, ExtendWith(c, a, e)
    PROVE  Streamed' >= Streamed
<1> DEFINE eff == EffectiveNow(info, now)
           eff1 == EffectiveNow(info', now')
<1>1. /\ cliff' = cliff /\ now' = now /\ checkpoint' = checkpoint
      /\ info'.start_time = info.start_time /\ info'.end_time = info.end_time + e
      /\ info'.rate_per_second = info.rate_per_second
      /\ info'.paused = info.paused /\ info'.paused_at = info.paused_at
      /\ info.end_time > 0 /\ e > 0 /\ e \in Nat
  BY StreamAssumption DEF ExtendWith, Save, configVars, TypeOK, InfoType
<1>2. /\ now \in Nat /\ info.start_time \in Nat /\ info.rate_per_second \in Nat
      /\ checkpoint \in [accrued : Nat, at : Nat] \cup {None}
      /\ cliff \in [cliff_time : Nat, cliff_unlock_amount : Nat] \cup {None}
  BY DEF TypeOK, InfoType
<1>3. eff \in Nat /\ eff1 \in Nat /\ eff <= eff1
  BY <1>1 DEF EffectiveNow, ScheduleOK, TypeOK, InfoType
<1>4. CASE now < info.start_time
  BY <1>1, <1>4 DEF Streamed, streamed_amount
<1>5. CASE now >= info.start_time /\ checkpoint # None
  <2>1. checkpoint.accrued \in Nat /\ checkpoint.at \in Nat
    BY <1>2, <1>5
  <2>2. /\ Streamed = AccruedSince(checkpoint.accrued, checkpoint.at, info.rate_per_second, eff)
        /\ Streamed' = AccruedSince(checkpoint.accrued, checkpoint.at, info.rate_per_second, eff1)
    BY <1>1, <1>2, <1>5 DEF Streamed, streamed_amount
  <2> HIDE DEF eff, eff1
  <2>3. /\ Streamed \in Int /\ Streamed' \in Int
        /\ Streamed <= Streamed'
    <3>1. AccruedSince(checkpoint.accrued, checkpoint.at, info.rate_per_second, eff) \in Int
          /\ AccruedSince(checkpoint.accrued, checkpoint.at, info.rate_per_second, eff1) \in Int
      BY <1>2, <1>3, <2>1 DEF AccruedSince
    <3> QED
      BY <1>2, <1>3, <2>1, <2>2, <3>1, AccruedMonotone
  <2> QED
    BY <2>3
<1>6. CASE now >= info.start_time /\ checkpoint = None /\ cliff # None
  <2>1. cliff.cliff_unlock_amount \in Nat /\ cliff.cliff_time \in Nat
    BY <1>2, <1>6
  <2>2. /\ Streamed = AccruedSince(cliff.cliff_unlock_amount, cliff.cliff_time, info.rate_per_second, eff)
        /\ Streamed' = AccruedSince(cliff.cliff_unlock_amount, cliff.cliff_time, info.rate_per_second, eff1)
    BY <1>1, <1>2, <1>6 DEF Streamed, streamed_amount
  <2> HIDE DEF eff, eff1
  <2>3. AccruedSince(cliff.cliff_unlock_amount, cliff.cliff_time, info.rate_per_second, eff) \in Int
        /\ AccruedSince(cliff.cliff_unlock_amount, cliff.cliff_time, info.rate_per_second, eff1) \in Int
    BY <1>2, <1>3, <2>1 DEF AccruedSince
  <2> QED
    BY <1>2, <1>3, <2>1, <2>2, <2>3, AccruedMonotone
<1>7. CASE now >= info.start_time /\ checkpoint = None /\ cliff = None
  <2>1. /\ Streamed = info.rate_per_second * (eff - info.start_time)
        /\ Streamed' = info.rate_per_second * (eff1 - info.start_time)
    BY <1>1, <1>2, <1>7 DEF Streamed, streamed_amount
  <2> HIDE DEF eff, eff1
  <2>2. info.rate_per_second * (eff - info.start_time)
            <= info.rate_per_second * (eff1 - info.start_time)
    BY <1>2, <1>3, RateMonotone
  <2> QED
    BY <1>2, <1>3, <2>1, <2>2
<1> QED
  BY <1>2, <1>4, <1>5, <1>6, <1>7

EscrowStep == [Promise!EscrowNext]_(Promise!escrowVars)

(* A step that moves no token and settles nothing is a step of the meter.  *)
LEMMA MeterStep ==
    ASSUME TypeOK, TypeOK', escrow' = escrow, refunded' = refunded,
           info'.withdrawn = info.withdrawn, info'.cancelled = info.cancelled,
           info.cancelled => PaysItself' = PaysItself
    PROVE  EscrowStep
<1>1. Withdrawable' \in Nat
  <2>1. Streamed' \in Int /\ info'.withdrawn \in Int
    BY StreamedAmountType DEF TypeOK, InfoType, Streamed
  <2> QED
    BY <2>1 DEF Withdrawable, Owed, Greatest
<1>2. CASE info.cancelled
  BY <1>2 DEF EscrowStep, Promise!escrowVars
<1>3. CASE ~info.cancelled
  <2>1. PaysItself' \in BOOLEAN
    BY DEF PaysItself
  <2> QED
    BY <1>1, <1>3, <2>1 DEF EscrowStep, Promise!EscrowNext, Promise!Meter
<1> QED
  BY <1>2, <1>3

(* Whether a stream pays itself depends on its payees alone. *)
LEMMA SamePayees ==
    ASSUME UNCHANGED <<forward, split>>, info'.recipient = info.recipient
    PROVE  PaysItself' = PaysItself
  BY DEF PaysItself, PayoutAddr

(* Each step of a stream is a step of the escrow, or leaves it alone.      *)
LEMMA PromiseStep ==
    ASSUME TypeOK, ScheduleOK, TypeOK', [Next]_vars
    PROVE  EscrowStep
<1> USE StreamAssumption
<1>0. /\ escrow \in Nat /\ escrow' \in Nat /\ refunded \in Nat /\ info.withdrawn \in Nat
      /\ info'.withdrawn \in Nat /\ info.cancelled \in BOOLEAN /\ info'.cancelled \in BOOLEAN
  BY DEF TypeOK, InfoType
<1>w. Streamed \in Int /\ Withdrawable \in Nat /\ Streamed' \in Int /\ Withdrawable' \in Nat
  <2>1. Streamed \in Int /\ Streamed' \in Int
    BY StreamedAmountType DEF TypeOK, Streamed
  <2> QED
    BY <1>0, <2>1 DEF Withdrawable, Owed, Greatest
<1>1. CASE Tick
  <2>1. PaysItself' = PaysItself
    BY <1>1, SamePayees DEF Tick, configVars
  <2> QED
    BY <1>1, <2>1, MeterStep DEF Tick, tokenVars
<1>2. ASSUME NEW a \in Gifts, DirectTransfer(a) PROVE EscrowStep
  <2>1. info' = info /\ refunded' = refunded /\ escrow' = escrow + a /\ a \in Nat
    BY <1>2 DEF DirectTransfer
  <2>2. Withdrawable' = Withdrawable
    <3>1. NoAccrual
      BY <1>2, NoAccrualStep DEF DirectTransfer, configVars
    <3> QED
      BY <2>1, <3>1 DEF NoAccrual, Withdrawable
  <2>3. PaysItself' = PaysItself
    BY <1>2, SamePayees DEF DirectTransfer, configVars
  <2>4. CASE a = 0
    BY <1>0, <2>1, <2>2, <2>3, <2>4, MeterStep
  <2>5. CASE a > 0
    <3>1. escrow' > escrow
      BY <1>0, <2>1, <2>5
    <3> QED
      BY <1>0, <1>w, <2>1, <2>2, <2>3, <3>1
      DEF EscrowStep, Promise!EscrowNext, Promise!Receive
  <2> QED
    BY <2>1, <2>4, <2>5
<1>3. ASSUME NEW a \in Amounts, withdraw(a) PROVE EscrowStep
  <2> DEFINE x == ToSend(a)
  <2>1. /\ x \in Nat /\ x <= escrow /\ x <= Withdrawable /\ x > 0
    BY <1>3, ToSendBounds DEF withdraw
  <2> DEFINE back == ToItself(x)
  <2>2. /\ TransferredOut(x) = x /\ back \in Nat /\ back <= x
        /\ ~PaysItself => back = 0
    BY <2>1, PayoutType
  <2>3. /\ info'.withdrawn = info.withdrawn + x /\ info'.cancelled = info.cancelled
        /\ ~info.cancelled /\ escrow' = escrow - x + back /\ refunded' = refunded
    BY <1>3, <2>2 DEF withdraw, Save, TypeOK, InfoType
  <2>p. PaysItself' = PaysItself
    BY <1>3, SamePayees DEF withdraw, Save, configVars, TypeOK, InfoType
  <2>4. Streamed' = Streamed
    <3>1. NoAccrual
      BY <1>3, NoAccrualStep DEF withdraw, Save, configVars, TypeOK, InfoType
    <3> QED
      BY <3>1 DEF NoAccrual
  <2> HIDE DEF x, back
  <2>5. Withdrawable' = Withdrawable - x
    BY <1>0, <1>w, <2>1, <2>3, <2>4 DEF Withdrawable, Owed, Greatest
  <2>6. Promise!Pay
    <3>1. x \in 1 .. Promise!Reserved
      BY <1>0, <1>w, <2>1, <2>3 DEF Promise!Reserved
    <3>2. back \in Promise!Back(x)
      BY <2>1, <2>2 DEF Promise!Back
    <3> QED
      BY <2>3, <2>5, <2>p, <3>1, <3>2 DEF Promise!Pay
  <2> QED
    BY <2>6 DEF EscrowStep, Promise!EscrowNext
<1>4. CASE ~info.cancelled /\ Settle
  <2> DEFINE owed == Least(Withdrawable, escrow)
  <2>1. owed \in Nat
    BY <1>0, <1>w DEF Least
  <2> DEFINE back == ToItself(owed)
  <2>2. /\ TransferredOut(owed) = owed /\ back \in Nat /\ back <= owed
        /\ ~PaysItself => back = 0
    BY <2>1, PayoutType
  <2>3. info'.withdrawn = info.withdrawn + owed /\ info'.cancelled
    BY <1>4 DEF Settle, SettledInfo, Save, TypeOK, InfoType
  <2>4. /\ escrow' = escrow - TransferredOut(owed) + back - (escrow - owed)
        /\ refunded' = refunded + (escrow - owed)
    BY <1>4 DEF Settle
  <2>p. PaysItself' = PaysItself
    BY <1>4, SamePayees DEF Settle, SettledInfo, Save, configVars, TypeOK, InfoType
  <2>b. back \in Promise!Back(owed)
    BY <2>1, <2>2 DEF Promise!Back
  <2>5. escrow' = back
    BY <1>0, <2>1, <2>2, <2>4
  <2>6. owed = Promise!Reserved
    BY <1>0, <1>w, <1>4 DEF Promise!Reserved, Least
  <2> HIDE DEF owed, back
  <2>7. refunded' = refunded + escrow - owed
    BY <1>0, <2>1, <2>4
  <2> QED
    BY <1>4, <2>3, <2>5, <2>6, <2>7, <2>b, <2>p
    DEF EscrowStep, Promise!EscrowNext, Promise!Settle
<1>5. ASSUME NEW c \in Addrs, pause(c) PROVE EscrowStep
  BY <1>5, MeterStep DEF pause, Save, tokenVars, TypeOK, InfoType
<1>6. ASSUME NEW c \in Addrs, resume(c) PROVE EscrowStep
  BY <1>6, MeterStep DEF resume, Save, tokenVars, TypeOK, InfoType
<1>7. ASSUME NEW c \in Addrs, clawback(c) PROVE EscrowStep
  <2>1. /\ info'.withdrawn = info.withdrawn /\ ~info.cancelled /\ ~info'.cancelled
        /\ escrow' = escrow - ClawbackAmount /\ refunded' = refunded + ClawbackAmount
    BY <1>7 DEF clawback, Save, TypeOK, InfoType
  <2>2. Withdrawable' = Withdrawable
    <3>1. NoAccrual
      BY <1>7, NoAccrualStep DEF clawback, Save, configVars, TypeOK, InfoType
    <3> QED
      BY <2>1, <3>1 DEF NoAccrual, Withdrawable
  <2>3. ClawbackAmount = escrow - Promise!Reserved /\ Promise!Reserved \in Nat
    BY <1>0, <1>w, <2>1 DEF ClawbackAmount, Greatest, Promise!Reserved
  <2>4. /\ escrow' = Promise!Reserved
        /\ refunded' = refunded + escrow - Promise!Reserved
    BY <1>0, <2>1, <2>3
  <2>5. PaysItself' = PaysItself
    BY <1>7, SamePayees DEF clawback, Save, configVars, TypeOK, InfoType
  <2> QED
    BY <2>1, <2>2, <2>4, <2>5 DEF EscrowStep, Promise!EscrowNext, Promise!Return
<1>8. ASSUME NEW c \in Addrs, NEW r \in Rates, change_rate(c, r) PROVE EscrowStep
  BY <1>8, MeterStep DEF change_rate, Save, tokenVars, TypeOK, InfoType
<1>d. ASSUME NEW a \in Nat, Deposit(a), refunded' = refunded, ~info.cancelled,
             info'.withdrawn = info.withdrawn, info'.cancelled = info.cancelled,
             Streamed' >= Streamed, PaysItself' = PaysItself
      PROVE  EscrowStep
  <2>1. escrow' = escrow + a
    BY <1>d DEF Deposit
  <2>2. Withdrawable' >= Withdrawable
    BY <1>0, <1>w, <1>d DEF Withdrawable, Owed, Greatest
  <2>3. CASE a = 0
    BY <1>0, <1>d, <2>1, <2>3, MeterStep
  <2>4. CASE a > 0
    <3>1. escrow' > escrow
      BY <1>0, <2>1, <2>4
    <3> QED
      BY <1>0, <1>w, <1>d, <2>2, <3>1 DEF EscrowStep, Promise!EscrowNext, Promise!Receive
  <2> QED
    BY <1>d, <2>3, <2>4
<1>9. ASSUME NEW a \in Amounts, top_up(a) PROVE EscrowStep
  <2>1. NoAccrual
    BY <1>9, NoAccrualStep DEF top_up, Save, configVars, TypeOK, InfoType
  <2>2. /\ info'.withdrawn = info.withdrawn /\ info'.cancelled = info.cancelled
        /\ a \in Nat /\ ~info.cancelled /\ Deposit(a) /\ refunded' = refunded
    BY <1>9 DEF top_up, Save, TypeOK, InfoType
  <2>3. Streamed' >= Streamed
    BY <1>w, <2>1 DEF NoAccrual
  <2>4. PaysItself' = PaysItself
    BY <1>9, SamePayees DEF top_up, Save, configVars, TypeOK, InfoType
  <2> QED
    BY <1>d, <2>2, <2>3, <2>4
<1>10. ASSUME NEW c \in Addrs, NEW a \in Nat, NEW e \in Extensions, ExtendWith(c, a, e)
       PROVE  EscrowStep
  <2>1. Streamed' >= Streamed
    BY <1>10, ExtensionKeepsStreamed
  <2>2. /\ info'.withdrawn = info.withdrawn /\ info'.cancelled = info.cancelled
        /\ ~info.cancelled /\ Deposit(a) /\ refunded' = refunded
    BY <1>10 DEF ExtendWith, Save, TypeOK, InfoType
  <2>3. PaysItself' = PaysItself
    BY <1>10, SamePayees DEF ExtendWith, Save, configVars, TypeOK, InfoType
  <2> QED
    BY <1>d, <2>1, <2>2, <2>3
<1>11. CASE Quiet
  BY <1>11, MeterStep, SamePayees DEF Quiet
<1> HIDE DEF EscrowStep
<1> QED
  BY <1>1, <1>2, <1>3, <1>4, <1>5, <1>6, <1>7, <1>8, <1>9, <1>10, <1>11, StepCases

(* initialize opens the escrow with whatever the address already holds.    *)
LEMMA PromiseInit == Init => Promise!EscrowInit
<1> SUFFICES ASSUME Init PROVE Promise!EscrowInit
  OBVIOUS
<1>1. TypeOK
  BY InitType
<1>2. Withdrawable \in Nat /\ escrow \in Nat
  BY <1>1, StreamedType DEF TypeOK
<1>3. info.withdrawn = 0 /\ ~info.cancelled /\ refunded = 0
  BY DEF Init
<1>4. PaysItself \in BOOLEAN
  BY DEF PaysItself
<1> QED
  BY <1>2, <1>3, <1>4 DEF Promise!EscrowInit

(* A stream keeps the promise of its escrow: it pays only what has been    *)
(* earned, gives back only what has not, and settles everything once, for  *)
(* all schedules, rates, splits, pauses and extensions.                    *)
THEOREM StreamKeepsPromise == Spec => KeepsPromise
<1>1. IInv /\ IInv' /\ [Next]_vars => EscrowStep
  BY PromiseStep DEF IInv
<1> QED
  BY <1>1, PromiseInit, Invariance, PTL DEF Spec, KeepsPromise, Promise!EscrowSpec, EscrowStep

-----------------------------------------------------------------------------
(***************************************************************************)
(* The stream composed with its keeper pool.  PoolMatchesHoldings is not   *)
(* inductive: what a token holds when the pool is configured with it comes *)
(* from donations alone, so the invariant speaks of every reward token,    *)
(* whether or not the pool uses it.                                        *)
(***************************************************************************)
PoolBooks ==
    \A t \in RewardTokens :
        rewardHeld[t] = donated[t] + (IF pool # None /\ pool.token = t THEN pool.balance ELSE 0)

KeeperInv ==
    /\ KeeperTypeOK /\ ScheduleOK /\ PoolBooks
    /\ PayoutsReachPayees /\ ForwardOfRecipient

keeperVars == <<vars, poolVars>>

(* A payout adds to the credits exactly what is booked. *)
LEMMA PayoutCredited ==
    ASSUME TypeOK, NEW amount \in Nat, CreditPayout(amount)
    PROVE  SumOf(credit', Addrs) = SumOf(credit, Addrs) + amount
<1> DEFINE share == SplitShare(amount, split)
           first == PrimaryShare(amount)
           second == IF split = None THEN info.recipient ELSE split.secondary_recipient
           mid == [a \in Addrs |-> credit[a] + (IF a = PayoutAddr THEN first ELSE 0)]
<1>1. share \in Nat /\ first \in Nat /\ first + share = amount
  <2>1. split \in [secondary_recipient : Addrs, split_bps : Bps] \cup {None}
    BY DEF TypeOK
  <2>2. share \in Nat /\ share <= amount
    BY <2>1, SplitShareBounds
  <2>3. first = amount - share
    BY DEF PrimaryShare
  <2> HIDE DEF share, first
  <2> QED
    BY <2>2, <2>3
<1>2. PayoutAddr \in Addrs /\ second \in Addrs
  BY DEF TypeOK, InfoType, PayoutAddr
<1>3. \A a \in Addrs : credit[a] \in Nat
  BY DEF TypeOK
<1>4. split = None => share = 0
  BY DEF SplitShare
<1>5. credit' = [a \in Addrs |-> mid[a] + (IF a = second THEN share ELSE 0)]
  BY <1>1, <1>3, <1>4 DEF CreditPayout
<1> HIDE DEF share, first, second
<1>6. /\ \A a \in Addrs : mid[a] \in Int
      /\ \A a \in Addrs : mid[a] = credit[a] + (IF a = PayoutAddr THEN first ELSE 0)
  BY <1>1, <1>2, <1>3
<1>7. \A a \in Addrs : credit'[a] = mid[a] + (IF a = second THEN share ELSE 0)
  BY <1>5
<1> HIDE DEF mid
<1>8. Raised(credit, mid, Addrs, PayoutAddr, first)
  BY <1>1, <1>2, <1>3, <1>6, KeeperAssumption DEF Raised
<1>9. Raised(mid, credit', Addrs, second, share)
  BY <1>1, <1>2, <1>6, <1>7, KeeperAssumption DEF Raised
<1>10. SumRaised(credit, mid, Addrs, first) /\ SumRaised(mid, credit', Addrs, share)
  BY <1>8, <1>9, SumUpdate
<1> QED
  BY <1>1, <1>10 DEF SumRaised

(* No step of the stream pays without booking, or books without paying. *)
LEMMA PayoutsStep ==
    ASSUME TypeOK, PayoutsReachPayees, [Next]_vars
    PROVE  PayoutsReachPayees'
<1>0. \A c : TotalOf(c) = SumOf(c, Addrs)
  BY DEF TotalOf, SumOf
<1>1. PayoutsReachPayees <=> SumOf(credit, Addrs) = info.withdrawn
  BY <1>0 DEF PayoutsReachPayees
<1>2. PayoutsReachPayees' <=> SumOf(credit', Addrs) = info'.withdrawn
  BY <1>0 DEF PayoutsReachPayees
<1>3. ASSUME credit' = credit, info'.withdrawn = info.withdrawn
      PROVE  PayoutsReachPayees'
  BY <1>1, <1>2, <1>3
<1> USE StreamAssumption DEF TypeOK, InfoType, Save, tokenVars
<1>4. CASE Tick
  BY <1>3, <1>4 DEF Tick
<1>5. ASSUME NEW a \in Gifts, DirectTransfer(a) PROVE PayoutsReachPayees'
  BY <1>3, <1>5 DEF DirectTransfer
<1>6. ASSUME NEW a \in Amounts, withdraw(a) PROVE PayoutsReachPayees'
  <2>1. ToSend(a) \in Nat /\ CreditPayout(ToSend(a))
    BY <1>6, ToSendBounds DEF withdraw
  <2>2. info'.withdrawn = info.withdrawn + ToSend(a)
    BY <1>6 DEF withdraw
  <2> QED
    BY <1>1, <1>2, <2>1, <2>2, PayoutCredited
<1>7. CASE Settle
  <2> DEFINE owed == Least(Withdrawable, escrow)
  <2>1. owed \in Nat
    BY StreamedType DEF Least
  <2>2. CreditPayout(owed) /\ info'.withdrawn = info.withdrawn + owed
    BY <1>7 DEF Settle, SettledInfo
  <2> HIDE DEF owed
  <2> QED
    BY <1>1, <1>2, <2>1, <2>2, PayoutCredited
<1>8. ASSUME NEW c \in Addrs, pause(c) \/ resume(c) PROVE PayoutsReachPayees'
  BY <1>3, <1>8 DEF pause, resume
<1>9. ASSUME NEW c \in Addrs, clawback(c) PROVE PayoutsReachPayees'
  BY <1>3, <1>9 DEF clawback
<1>10. ASSUME NEW c \in Addrs, NEW r \in Rates, change_rate(c, r) PROVE PayoutsReachPayees'
  BY <1>3, <1>10 DEF change_rate
<1>11. ASSUME NEW a \in Amounts, top_up(a) PROVE PayoutsReachPayees'
  BY <1>3, <1>11 DEF top_up
<1>12. ASSUME NEW c \in Addrs, NEW a \in Nat, NEW e \in Extensions, ExtendWith(c, a, e)
       PROVE  PayoutsReachPayees'
  BY <1>3, <1>12 DEF ExtendWith
<1>13. CASE Quiet
  BY <1>3, <1>13 DEF Quiet
<1> HIDE DEF TypeOK, InfoType
<1> QED
  BY <1>4, <1>5, <1>6, <1>7, <1>8, <1>9, <1>10, <1>11, <1>12, <1>13, StepCases

(* A forwarding address is set by the current recipient, and dropped with  *)
(* it: only set_auto_forward_address and transfer_recipient touch either.  *)
LEMMA ForwardStep ==
    ASSUME TypeOK, ForwardOfRecipient, [Next]_vars
    PROVE  ForwardOfRecipient'
<1>1. ASSUME UNCHANGED <<forward, forwardBy>>, info'.recipient = info.recipient
      PROVE  ForwardOfRecipient'
  BY <1>1 DEF ForwardOfRecipient
<1> USE DEF TypeOK, InfoType, Save, configVars
<1>2. ASSUME NEW c \in Addrs, SenderCall(c) PROVE ForwardOfRecipient'
  <2>1. cancel(c) \/ pause(c) \/ resume(c) \/ clawback(c) => ForwardOfRecipient'
    BY <1>1 DEF cancel, Settle, SettledInfo, pause, resume, clawback
  <2>2. ASSUME NEW r \in Rates, change_rate(c, r) PROVE ForwardOfRecipient'
    BY <1>1, <2>2 DEF change_rate
  <2>3. ASSUME NEW e \in Extensions, NEW a, ExtendWith(c, a, e) PROVE ForwardOfRecipient'
    BY <1>1, <2>3 DEF ExtendWith
  <2>4. ASSUME NEW k \in Cliffs, set_cliff(c, k) PROVE ForwardOfRecipient'
    BY <1>1, <2>4 DEF set_cliff
  <2>5. ASSUME NEW i \in Intervals, set_min_withdrawal_interval(c, i) PROVE ForwardOfRecipient'
    BY <1>1, <2>5 DEF set_min_withdrawal_interval
  <2>6. ASSUME NEW b \in Cancelable, set_stream_config(c, b) PROVE ForwardOfRecipient'
    BY <1>1, <2>6 DEF set_stream_config
  <2> QED
    BY <1>2, <2>1, <2>2, <2>3, <2>4, <2>5, <2>6
       DEF SenderCall, extend_duration, top_up_and_extend
<1>3. CASE RecipientCall
  <2>1. ASSUME NEW a \in Amounts, withdraw(a) PROVE ForwardOfRecipient'
    BY <1>1, <2>1 DEF withdraw
  <2>2. force_cancel => ForwardOfRecipient'
    BY <1>1 DEF force_cancel, Settle, SettledInfo
  <2>3. ASSUME NEW p \in Payees, transfer_recipient(p) PROVE ForwardOfRecipient'
    BY <2>3 DEF transfer_recipient, DropForwarding, ForwardOfRecipient
  <2>4. ASSUME NEW p \in Payees, set_auto_forward_address(p) PROVE ForwardOfRecipient'
    BY <2>4 DEF set_auto_forward_address, ForwardOfRecipient
  <2> QED
    BY <1>3, <2>1, <2>2, <2>3, <2>4 DEF RecipientCall
<1>4. CASE OtherCall
  <2>1. ASSUME NEW a \in Amounts, top_up(a) PROVE ForwardOfRecipient'
    BY <1>1, <2>1 DEF top_up
  <2>2. ASSUME NEW d \in Delegates, set_operator(d) \/ revoke_operator PROVE ForwardOfRecipient'
    BY <1>1, <2>2 DEF set_operator, revoke_operator
  <2>3. ASSUME NEW c \in Addrs, NEW k \in Splits,
               set_split_recipient(c, k) \/ remove_split_recipient(c)
        PROVE  ForwardOfRecipient'
    BY <1>1, <2>3 DEF set_split_recipient, remove_split_recipient
  <2>4. ASSUME NEW c \in EmergencyCallers, emergency_pause(c) \/ emergency_unpause(c)
        PROVE  ForwardOfRecipient'
    BY <1>1, <2>4 DEF emergency_pause, emergency_unpause
  <2> QED
    BY <1>4, <2>1, <2>2, <2>3, <2>4 DEF OtherCall
<1>5. CASE Tick
  BY <1>1, <1>5 DEF Tick
<1>6. ASSUME NEW a \in Gifts, DirectTransfer(a) PROVE ForwardOfRecipient'
  BY <1>1, <1>6 DEF DirectTransfer
<1>7. CASE UNCHANGED vars
  BY <1>1, <1>7 DEF vars
<1> QED
  BY <1>2, <1>3, <1>4, <1>5, <1>6, <1>7 DEF Next

(* What SequenceTracksTerms asks of one step *)
Tracked ==
    /\ info'.event_sequence >= info.event_sequence
    /\ info'.event_sequence = info.event_sequence =>
         /\ info' = info
         /\ UNCHANGED <<checkpoint, cliff, split, operator, minInterval, milestones,
                        emergencyAt, cumulative, refunded, credit>>
         /\ cancelable' = cancelable \/ forward' = forward
         /\ forward' \in {forward, None} \/ forwardBy' = info.recipient

(* A call that publishes an event moves the sequence on; one that does not *)
(* changes at most the cancelability or the forwarding address.            *)
LEMMA SequenceStep ==
    ASSUME TypeOK, [Next]_vars
    PROVE  Tracked
<1>1. ASSUME info'.event_sequence \in Nat, info'.event_sequence > info.event_sequence
      PROVE  Tracked
  BY <1>1 DEF Tracked, TypeOK, InfoType
<1>2. ASSUME UNCHANGED <<info, checkpoint, cliff, split, operator, minInterval, milestones,
                         emergencyAt, cumulative, refunded, credit>>,
             cancelable' = cancelable \/ forward' = forward,
             forward' \in {forward, None} \/ forwardBy' = info.recipient
      PROVE  Tracked
  BY <1>2 DEF Tracked, TypeOK, InfoType
<1>3. ASSUME NEW upd \in InfoType, upd.event_sequence = info.event_sequence,
             NEW n \in Nat \ {0}, Save(upd, n)
      PROVE  Tracked
  BY <1>1, <1>3 DEF Save, TypeOK, InfoType
<1>4. ASSUME Save(info, 1) \/ Save(info, 2)
      PROVE  Tracked
  BY <1>3, <1>4 DEF TypeOK
<1> USE DEF configVars, tokenVars
<1>5. ASSUME NEW c \in Addrs, SenderCall(c) PROVE Tracked
  <2>1. ASSUME Settle PROVE Tracked
    BY <1>1, <2>1 DEF Settle, SettledInfo, Save, TypeOK, InfoType
  <2>2. ASSUME pause(c) PROVE Tracked
    BY <1>1, <2>2 DEF pause, Save, TypeOK, InfoType
  <2>3. ASSUME clawback(c) PROVE Tracked
    BY <1>4, <2>3 DEF clawback
  <2>4. ASSUME resume(c) PROVE Tracked
    BY <1>1, <2>4 DEF resume, Save, TypeOK, InfoType
  <2>5. ASSUME NEW r \in Rates, change_rate(c, r) PROVE Tracked
    BY <1>1, <2>5 DEF change_rate, Save, TypeOK, InfoType
  <2>6. ASSUME NEW e \in Extensions, NEW a, ExtendWith(c, a, e) PROVE Tracked
    BY <1>1, <2>6 DEF ExtendWith, Save, TypeOK, InfoType
  <2>7. ASSUME NEW k \in Cliffs, set_cliff(c, k) PROVE Tracked
    BY <1>4, <2>7 DEF set_cliff
  <2>8. ASSUME NEW i \in Intervals, set_min_withdrawal_interval(c, i) PROVE Tracked
    BY <1>4, <2>8 DEF set_min_withdrawal_interval
  <2>9. ASSUME NEW b \in Cancelable, set_stream_config(c, b) PROVE Tracked
    BY <1>2, <2>9 DEF set_stream_config, ConfigStep
  <2> QED
    BY <1>5, <2>1, <2>2, <2>3, <2>4, <2>5, <2>6, <2>7, <2>8, <2>9
       DEF SenderCall, cancel, extend_duration, top_up_and_extend
<1>6. CASE RecipientCall
  <2>1. ASSUME NEW a \in Amounts, withdraw(a) PROVE Tracked
    BY <1>1, <2>1 DEF withdraw, Save, TypeOK, InfoType
  <2>2. ASSUME Settle PROVE Tracked
    BY <1>1, <2>2 DEF Settle, SettledInfo, Save, TypeOK, InfoType
  <2>3. ASSUME NEW p \in Payees, transfer_recipient(p) PROVE Tracked
    BY <1>1, <2>3 DEF transfer_recipient, Save, TypeOK, InfoType
  <2>4. ASSUME NEW p \in Payees, set_auto_forward_address(p) PROVE Tracked
    BY <1>2, <2>4 DEF set_auto_forward_address, ConfigStep
  <2> QED
    BY <1>6, <2>1, <2>2, <2>3, <2>4 DEF RecipientCall, force_cancel
<1>7. CASE OtherCall
  <2>1. ASSUME NEW a \in Amounts, top_up(a) PROVE Tracked
    BY <1>4, <2>1 DEF top_up
  <2>2. ASSUME NEW d \in Delegates, set_operator(d) \/ revoke_operator PROVE Tracked
    BY <1>4, <2>2 DEF set_operator, revoke_operator
  <2>3. ASSUME NEW c \in Addrs, NEW k \in Splits,
               set_split_recipient(c, k) \/ remove_split_recipient(c)
        PROVE  Tracked
    BY <1>4, <2>3 DEF set_split_recipient, remove_split_recipient
  <2>4. ASSUME NEW c \in EmergencyCallers, emergency_pause(c) \/ emergency_unpause(c)
        PROVE  Tracked
    BY <1>4, <2>4 DEF emergency_pause, emergency_unpause
  <2> QED
    BY <1>7, <2>1, <2>2, <2>3, <2>4 DEF OtherCall
<1>8. CASE Tick
  BY <1>2, <1>8 DEF Tick
<1>9. ASSUME NEW a \in Gifts, DirectTransfer(a) PROVE Tracked
  BY <1>2, <1>9 DEF DirectTransfer
<1>10. CASE UNCHANGED vars
  BY <1>2, <1>10 DEF vars
<1> QED
  BY <1>5, <1>6, <1>7, <1>8, <1>9, <1>10 DEF Next

-----------------------------------------------------------------------------
(***************************************************************************)
(* The composition                                                         *)
(***************************************************************************)

PoolInv == KeeperTypeOK /\ PoolBooks

(* A call of the pool leaves the money, the clock and the terms alone. *)
LEMMA PoolCallStep ==
    ASSUME KeeperInv, KeeperCall
    PROVE  TypeOK' /\ ScheduleOK' /\ PayoutsReachPayees' /\ ForwardOfRecipient' /\ Tracked
<1> USE DEF KeeperInv, KeeperCall, Save, configVars, milestones, tokenVars
<1>1. TypeOK'
  BY DEF KeeperTypeOK, TypeOK, InfoType
<1>2. ScheduleOK'
  BY DEF KeeperTypeOK, TypeOK, InfoType, ScheduleOK
<1>3. credit' = credit /\ info'.withdrawn = info.withdrawn
  BY DEF KeeperTypeOK, TypeOK, InfoType
<1>4. PayoutsReachPayees'
  BY <1>3 DEF PayoutsReachPayees
<1>5. ForwardOfRecipient'
  BY DEF KeeperTypeOK, TypeOK, InfoType, ForwardOfRecipient
<1>6. Tracked
  BY DEF KeeperTypeOK, TypeOK, InfoType, Tracked
<1> QED
  BY <1>1, <1>2, <1>4, <1>5, <1>6

(* The pool's own entries through each of its operations *)
LEMMA PoolStep ==
    ASSUME PoolInv, TypeOK', [KeeperNext]_keeperVars
    PROVE  PoolInv'
<1> USE KeeperAssumption DEF PoolInv, KeeperTypeOK, PoolBooks
<1>1. CASE UNCHANGED poolVars
  BY <1>1 DEF poolVars
<1>2. ASSUME NEW c \in Addrs, NEW t \in RewardTokens \cup {StreamToken, ZeroAddr}, NEW r \in Rewards,
             configure_keeper_reward_pool(c, t, r)
      PROVE  PoolInv'
  <2>1. r \in Int /\ r > 0 /\ t \notin {ZeroAddr, StreamToken}
    BY <1>2 DEF configure_keeper_reward_pool, ValidReward
  <2>2. t \in RewardTokens /\ r \in Nat
    BY <2>1
  <2> QED
    BY <1>2, <2>2 DEF configure_keeper_reward_pool
<1>3. ASSUME NEW c \in Addrs, NEW a \in PoolAmounts, fund_keeper_reward_pool(c, a)
      PROVE  PoolInv'
  BY <1>3 DEF fund_keeper_reward_pool
<1>4. ASSUME NEW c \in Addrs, NEW a \in PoolAmounts, withdraw_keeper_reward_pool(c, a)
      PROVE  PoolInv'
  BY <1>4 DEF withdraw_keeper_reward_pool
<1>5. ASSUME NEW k \in Keepers, keeper_ping(k)
      PROVE  PoolInv'
  <2>1. now \in Nat
    BY DEF TypeOK
  <2> QED
    BY <1>5, <2>1 DEF keeper_ping, PoolAfterPing
<1>6. ASSUME NEW t \in RewardTokens, NEW a \in RewardGifts, RewardGift(t, a)
      PROVE  PoolInv'
  BY <1>6 DEF RewardGift
<1> HIDE KeeperAssumption DEF PoolInv, KeeperTypeOK, PoolBooks
<1>7. CASE UNCHANGED keeperVars
  BY <1>1, <1>7 DEF keeperVars
<1>8. CASE KeeperNext
  BY <1>1, <1>2, <1>3, <1>4, <1>5, <1>6, <1>8, Zenon DEF KeeperNext
<1> QED
  BY <1>7, <1>8

(* Every step of the composition is a step of the stream, a call of the    *)
(* pool, or leaves the stream alone.                                       *)
LEMMA KeeperStep ==
    ASSUME KeeperInv, [KeeperNext]_keeperVars
    PROVE  KeeperInv' /\ [Tracked]_vars
<1>1. TypeOK' /\ ScheduleOK' /\ PayoutsReachPayees' /\ ForwardOfRecipient' /\ [Tracked]_vars
  <2>1. CASE [Next]_vars
    BY <2>1, TypeStep, ScheduleStep, PayoutsStep, ForwardStep, SequenceStep
       DEF KeeperInv, KeeperTypeOK
  <2>2. CASE KeeperCall
    BY <2>2, PoolCallStep
  <2>3. [Next]_vars \/ KeeperCall
    BY DEF KeeperNext, keeperVars, configure_keeper_reward_pool, fund_keeper_reward_pool,
           withdraw_keeper_reward_pool, keeper_ping, RewardGift
  <2> QED
    BY <2>1, <2>2, <2>3
<1>2. PoolInv'
  BY <1>1, PoolStep DEF KeeperInv, PoolInv
<1> QED
  BY <1>1, <1>2 DEF KeeperInv, PoolInv

LEMMA KeeperStart == KeeperInit => KeeperInv
<1> SUFFICES ASSUME KeeperInit PROVE KeeperInv
  OBVIOUS
<1>1. TypeOK /\ ScheduleOK
  BY InitType DEF KeeperInit
<1>2. KeeperTypeOK /\ PoolBooks
  BY <1>1, KeeperAssumption DEF KeeperInit, KeeperTypeOK, PoolBooks
<1>3. PayoutsReachPayees
  <2>1. (\A a \in Addrs : credit[a] = 0) /\ info.withdrawn = 0
    BY DEF KeeperInit, Init
  <2>2. SumOf(credit, Addrs) = 0
    BY <2>1, SumZero, KeeperAssumption
  <2> QED
    BY <2>1, <2>2 DEF PayoutsReachPayees, TotalOf, SumOf
<1>4. ForwardOfRecipient
  BY DEF KeeperInit, Init, ForwardOfRecipient
<1> QED
  BY <1>1, <1>2, <1>3, <1>4 DEF KeeperInv

(* The keeper's inductive invariant holds in every reachable state. *)
THEOREM KeeperInvariance == KeeperSpec => []KeeperInv
<1>1. KeeperInv /\ [KeeperNext]_keeperVars => KeeperInv'
  BY KeeperStep
<1> QED
  BY <1>1, KeeperStart, PTL DEF KeeperSpec, keeperVars

(* The pool's figure never drifts from the tokens behind it, whoever       *)
(* configures, funds, pings, drains or donates to it, in any order.        *)
THEOREM PoolMatches == KeeperSpec => []PoolMatchesHoldings
<1>1. KeeperInv => PoolMatchesHoldings
  BY DEF KeeperInv, KeeperTypeOK, PoolBooks, PoolMatchesHoldings
<1> QED
  BY <1>1, KeeperInvariance, PTL

(* The payees of a stream together receive exactly what it books as        *)
(* withdrawn, for any number of addresses, splits and forwards.            *)
THEOREM PayoutsReach == KeeperSpec => []PayoutsReachPayees
<1>1. KeeperInv => PayoutsReachPayees
  BY DEF KeeperInv
<1> QED
  BY <1>1, KeeperInvariance, PTL

(* No payout follows an address chosen by a former recipient. *)
THEOREM ForwardHolds == KeeperSpec => []ForwardOfRecipient
<1>1. KeeperInv => ForwardOfRecipient
  BY DEF KeeperInv
<1> QED
  BY <1>1, KeeperInvariance, PTL

(* No call commits a change of the schedule, the parties, the halt or the  *)
(* amounts booked under an event sequence a consumer has already seen;     *)
(* what does change under one is the cancelability or the forwarding       *)
(* address, never both, and the latter for the recipient only.             *)
THEOREM SequenceHolds == KeeperSpec => SequenceTracksTerms
<1>1. KeeperInv /\ [KeeperNext]_keeperVars => [Tracked]_vars
  BY KeeperStep
<1> QED
  BY <1>1, KeeperInvariance, PTL DEF KeeperSpec, keeperVars, SequenceTracksTerms, Tracked

=============================================================================
