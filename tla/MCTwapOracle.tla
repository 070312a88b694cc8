---------------------------- MODULE MCTwapOracle ----------------------------
(***************************************************************************)
(* A small instance of TwapOracle for TLC.                                 *)
(***************************************************************************)
EXTENDS TwapOracle

CONSTANTS admin, ann, ben, feed, xlm, usd, btc, eur

OracleRoles == {"Admin", "PriceFeeder", "Pauser"}

BaseConfig ==
    [decimals |-> 1, asset_peg |-> 1, max_staleness |-> 1, max_price |-> 0,
     min_submit_interval |-> 0, min_submitters |-> 1]

MCInitialConfigs == {None, [BaseConfig EXCEPT !.min_submitters = 2]}
MCConfigs == {BaseConfig, [BaseConfig EXCEPT !.min_submitters = 4]}
MCUpdates == {[asset_peg |-> 2], [max_price |-> 5, max_deviation_bps |-> 2500],
              [min_submit_interval |-> 2, max_staleness |-> 2], [decimals |-> 20]}

Reply(form, value, age) == [f \in External |-> [form |-> form, price |-> value, age |-> age]]

(* An average, a price of a clock one second ahead, an old price, no answer *)
MCReplies == {Reply("twap", 8, 0), Reply("latest", 8, -1), Reply("latest", 8, 3),
              Reply("none", 0, 0)}
MCFeedPairs == {<<ann, feed>>, <<feed, None>>}
MCBudgets == {[admin |-> 2, feeder |-> 3, reporter |-> 0, reader |-> 1],
              [admin |-> 2, feeder |-> 0, reporter |-> 1, reader |-> 0],
              [admin |-> 1, feeder |-> 0, reporter |-> 3, reader |-> 0]}
MCAddressPairs == {<<xlm, usd>>}
MCSymbolPairs == {<<btc, eur>>}
=============================================================================
