--------------------------- MODULE MCDripGovernor ---------------------------
(***************************************************************************)
(* A small instance of DripGovernor for TLC.                               *)
(***************************************************************************)
EXTENDS DripGovernor

CONSTANTS alice, bob

GovernorRoles == {"Admin", "FeeManager", "RateManager", "Pauser", "Executor"}

MCInitialConfig ==
    [fee_bps |-> 30, fee_recipient |-> alice, min_duration_seconds |-> 1,
     max_duration_seconds |-> 2, max_rate_per_second |-> 2, force_cancel_pause_secs |-> 2,
     min_quorum_bps |-> 0, proposal_stake_token |-> None, min_proposal_stake |-> 0]

MCRates == {-1, 3}
=============================================================================
