--------------------------- MODULE MCDripStream ---------------------------
(***************************************************************************)
(* Small instances of DripStream for TLC.                                  *)
(***************************************************************************)
EXTENDS DripStream

CONSTANTS sender, alice, bob, carol, zero, self

MCAddrs == {sender, alice, bob, carol, zero, self}

Args(rates, ends, clawbacks, balances) ==
    [recipient : {alice}, rate_per_second : rates, start_time : {1}, end_time : ends,
     clawback_enabled : clawbacks, balance : balances]

BothArgs == Args({1}, {0, 4}, {TRUE}, {3})

CliffChoices == [cliff_time : {2, 3}, cliff_unlock_amount : {0, 1}]

=============================================================================
