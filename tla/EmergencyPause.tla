--------------------------- MODULE EmergencyPause ---------------------------
(***************************************************************************)
(* The emergency halt every contract shares (contracts/common/src/pause.rs)*)
(* as operators on the stored entry.  An entry is absent, a plain flag     *)
(* written by an older build, or a PauseState.  No contract passes a       *)
(* duration or a cooldown, so max_duration is the default while paused and *)
(* unpaused_at is never read.                                              *)
(***************************************************************************)
EXTENDS Integers

CONSTANT MaxPauseDuration   \* DEFAULT_MAX_PAUSE_DURATION, 14 days

ASSUME PauseAssumption == MaxPauseDuration \in Nat \ {0}

PauseType == [form : {"absent", "flag", "state"}, paused : BOOLEAN, paused_at : Nat]

NeverPaused   == [form |-> "absent", paused |-> FALSE, paused_at |-> 0]
LegacyFlag(b) == [form |-> "flag", paused |-> b, paused_at |-> 0]

(* is_paused: the answer, and the entry it leaves if the call commits *)
is_paused(entry, now) ==
    entry.paused /\ (entry.form = "state" => now < entry.paused_at + MaxPauseDuration)

AfterIsPaused(entry, now) ==
    IF entry.form = "flag" /\ entry.paused
    THEN [form |-> "state", paused |-> TRUE, paused_at |-> now]
    ELSE IF entry.paused /\ ~is_paused(entry, now)
    THEN [form |-> "state", paused |-> FALSE, paused_at |-> 0]
    ELSE entry

(***************************************************************************)
(* set_paused reads the entry as a PauseState first, and the host aborts   *)
(* the call when it is still a plain flag.                                 *)
(***************************************************************************)
SetPausedReadable(entry) == entry.form # "flag"

set_paused_NoStart(paused, now) ==  \* mutant: paused_at is left at its default
    [form |-> "state", paused |-> paused, paused_at |-> 0]
set_paused(paused, now) ==
    [form |-> "state", paused |-> paused, paused_at |-> IF paused THEN now ELSE 0]
=============================================================================
