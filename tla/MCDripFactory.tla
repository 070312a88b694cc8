--------------------------- MODULE MCDripFactory ---------------------------
(* Instances of DripFactory for TLC *)
EXTENDS DripFactory

CONSTANTS alice, bob, carol

Request(from, to, amount, rate, start, end) ==
    [sender |-> from, recipient |-> to, token |-> carol, deposit |-> amount,
     rate_per_sec |-> rate, start_time |-> start, end_time |-> end]

History(pairs) == [i \in 1 .. Len(pairs) |-> [sender |-> pairs[i][1], recipient |-> pairs[i][2]]]

GovernorConfig == [fee_bps |-> 2500, min_duration_seconds |-> 2, max_duration_seconds |-> 4,
                   max_rate_per_second |-> 2]
FreeConfig == [GovernorConfig EXCEPT !.fee_bps = 0]

(***************************************************************************)
(* Index: lists of one entry, a page and a half, two pages, two and a half *)
(***************************************************************************)
IndexHistories == {History([i \in 1 .. n |-> <<alice, bob>>]) : n \in {0, 1, 3, 4, 5}}
IndexRequests == {Request(alice, bob, 4, 1, 9, 0), Request(bob, alice, 4, 1, 9, 0)}
IndexBatches == {<<r, q>> : r, q \in IndexRequests}

(***************************************************************************)
(* Counts: one open-ended, one bounded and two malformed requests; a       *)
(* stream contract of alice's that this factory did not deploy             *)
(***************************************************************************)
CountHistories == {History(<<>>), History(<<<<alice, bob>>>>)}
CountRequests ==
    {Request(alice, bob, 4, 1, 2, 0), Request(alice, bob, 4, 2, 2, 4),
     Request(alice, bob, 3, 2, 2, 4), Request(alice, alice, 4, 2, 2, 4)}
CountBatches == {<<Request(alice, bob, 4, 2, 2, 4), Request(alice, bob, 4, 2, 1, 3)>>, <<>>}
OneForeign == [s \in {-1} |-> alice]
NoForeign == [s \in {} |-> alice]
LegacyFlags == {LegacyFlag(TRUE), LegacyFlag(FALSE)}
WideConfigs == {[FreeConfig EXCEPT !.max_duration_seconds = 9]}
CountConfigs == {GovernorConfig, None}
=============================================================================
