---------------------------- MODULE StreamMath ----------------------------
(***************************************************************************)
(* The accrual arithmetic of DripStream (contracts/stream/src/math.rs) and *)
(* the clamps the settlement paths put around it.                          *)
(*                                                                         *)
(* Amounts are the contract's i128 values and times its u64 values.  The   *)
(* operators compute the mathematical value; Representable says whether    *)
(* the contract's checked arithmetic can return it, and a call whose value *)
(* is not representable fails with ArithmeticOverflow and is rolled back.  *)
(***************************************************************************)
EXTENDS Integers

CONSTANTS
    None,       \* an absent storage key
    MaxI128,    \* i128::MAX
    MaxU64      \* u64::MAX

ASSUME WidthAssumption ==
    /\ MaxI128 \in Nat
    /\ MaxU64 \in Nat

ASSUME NoneAssumption == None \notin [accrued : Nat, at : Nat]

Least(a, b) == IF a <= b THEN a ELSE b
Greatest(a, b) == IF a >= b THEN a ELSE b

(* Result of a checked i128 operation on non-negative operands. *)
Representable(amount) == 0 <= amount /\ amount <= MaxI128

(* u64::saturating_add *)
SaturatingAdd(a, b) == Least(a + b, MaxU64)

(***************************************************************************)
(* "effective now": the pause freezes accrual, otherwise end_time does.    *)
(***************************************************************************)
EffectiveNow_EndFirst(info, now) ==  \* mutant: the end clamp before the pause
    IF info.end_time > 0 /\ now > info.end_time THEN info.end_time
    ELSE IF info.paused THEN info.paused_at ELSE now
EffectiveNow(info, now) ==
    IF info.paused
    THEN IF info.end_time > 0 /\ info.paused_at > info.end_time
         THEN info.end_time
         ELSE info.paused_at
    ELSE IF info.end_time > 0 /\ now > info.end_time
         THEN info.end_time
         ELSE now

(* Value unlocked at one instant plus linear accrual since that instant. *)
AccruedSince(base, at, rate, effective) ==
    IF effective < at THEN 0 ELSE base + rate * (effective - at)

(***************************************************************************)
(* streamed_amount: a rate checkpoint takes precedence over a cliff, a     *)
(* cliff over the plain start_time origin.  Only the last case subtracts   *)
(* without a comparison first; an underflow there shows as a negative      *)
(* value, which is not Representable.                                      *)
(***************************************************************************)
streamed_amount(info, checkpoint, cliff, now) ==
    LET effective == EffectiveNow(info, now)
        rate      == info.rate_per_second
    IN  IF now < info.start_time THEN 0
        ELSE IF checkpoint # None
             THEN AccruedSince(checkpoint.accrued, checkpoint.at, rate, effective)
        ELSE IF cliff # None
             THEN AccruedSince(cliff.cliff_unlock_amount, cliff.cliff_time, rate, effective)
        ELSE rate * (effective - info.start_time)

(* streamed - withdrawn, clamped at zero *)
Owed(streamed, withdrawn) == Greatest(streamed - withdrawn, 0)

(* The basis points set_split_recipient accepts *)
Bps == {b \in Nat : 0 < b /\ b < 10000}

(* mul_div(amount, split_bps, 10_000): the secondary recipient's share *)
SplitShare(amount, split) ==
    IF split = None THEN 0 ELSE (amount * split.split_bps) \div 10000

=============================================================================
