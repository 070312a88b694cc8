-------------------------- MODULE MCStreamKeeper --------------------------
(***************************************************************************)
(* Small instances of StreamKeeper for TLC: a stream with every kind of    *)
(* party, and its keeper pool.                                             *)
(***************************************************************************)
EXTENDS StreamKeeper

CONSTANTS sender, alice, bob, carol, zero, self, gold, silver, euro

MCAddrs == {sender, alice, bob, carol, zero, self}

MCRewards == {-1, 1}

MCInitArgs ==
    [recipient : {alice}, rate_per_second : {2}, start_time : {1}, end_time : {4},
     clawback_enabled : {TRUE}, balance : {6}]

CliffChoices == [cliff_time : {2}, cliff_unlock_amount : {0, 1}]
SplitChoices == [secondary_recipient : {bob, self}, split_bps : {5000}]

=============================================================================
