----------------------------- MODULE TwapOracle -----------------------------
(***************************************************************************)
(* The price oracle (contracts/oracle/src/lib.rs): feeders submit prices,  *)
(* the median of the fresh submissions is sampled into a bounded list of   *)
(* observations, and readers get its time-weighted average, or the answer  *)
(* of a primary or fallback feed.  Prices of asset pairs are reported and  *)
(* aggregated on their own.                                                *)
(*                                                                         *)
(* A call is atomic; a call that returns an error changes nothing and is   *)
(* no step.  A read is an operator, and an action where it records what a  *)
(* feed answered.  The order of the lists of submitters and of reporters   *)
(* decides only which of several submissions of one second is taken as the *)
(* latest, so the lists are sets and any of these is taken.  The           *)
(* re-entrancy lock is 0 between calls and is left out, as are the quote   *)
(* currency, code upgrades and the lifetime of entries.  Sums and products *)
(* of u64 prices are taken in u128 and never overflow.                     *)
(***************************************************************************)
EXTENDS AccessControl, EmergencyPause, SequencesExt

CONSTANTS
    None,                   \* an absent entry
    External,               \* feeds that are other contracts
    AddressPairs,           \* pairs of token addresses <<base, quote>>
    SymbolPairs,            \* pairs of symbols
    MaxSubmitters,          \* MAX_SUBMITTERS, 32
    MaxTwapObservations,    \* MAX_TWAP_OBSERVATIONS, 32
    MaxPairReporters,       \* MAX_PAIR_REPORTERS, 5
    PairReportFreshness,    \* PAIR_REPORT_FRESHNESS_SECS, 15 minutes
    HardDeviationBps        \* the fixed limit of a move, 5000 basis points

CONSTANTS                   \* how the oracle was set up, and the inputs of the calls
    Admins,                 \* the admin given to initialize
    InitialFeeders,         \* sets of accounts granted PriceFeeder at deployment
    InitialConfigs,         \* configurations stored at deployment, or None
    LegacyScalars,          \* pair prices an older build left, or None
    GrantRoles, Expiries,
    Configs,                \* arguments of configure_oracle
    Updates,                \* arguments of update_oracle_config
    Prices, PairQuotes,     \* prices given to submit_price and to set_price
    Stalenesses, Deviations, Heartbeats,
    FeedChoices,            \* addresses given as a feed
    FeedPairs,              \* primary and fallback, which may be None
    Replies                 \* what the external feeds may answer to one call

CONSTANTS MaxTime, Budgets  \* bounds of the model: the time, and mixes of calls of each kind

CallKinds == {"admin", "feeder", "reporter", "reader"}
Pairs == AddressPairs \cup SymbolPairs
Assets == {p[1] : p \in AddressPairs}

ASSUME OracleRoleAssumption ==
    /\ Roles = {"Admin", "PriceFeeder", "Pauser"}
    /\ Admins \subseteq Accounts /\ GrantRoles \subseteq Roles

ASSUME OracleNumberAssumption ==
    /\ MaxSubmitters \in Nat \ {0} /\ MaxTwapObservations \in Nat \ {0}
    /\ MaxPairReporters \in Nat \ {0} /\ PairReportFreshness \in Nat
    /\ HardDeviationBps \in Nat /\ MaxTime \in Nat
    /\ Budgets \subseteq [CallKinds -> Nat]

VARIABLES
    now,            \* env.ledger().timestamp()
    book,           \* DataKey::Role, AdminCount and RoleMembers
    pauseEntry,     \* DataKey::Paused
    config,         \* DataKey::Config
    globalStale,    \* DataKey::MaxStalenessSeconds
    maxDeviation,   \* DataKey::MaxDeviationBps
    price,          \* DataKey::Price
    submissions,    \* DataKey::Submission by feeder
    submitters,     \* DataKey::Submitters
    observations,   \* DataKey::PriceObservations
    feeds,          \* DataKey::PrimaryOracle and FallbackOracle
    heartbeats,     \* DataKey::AssetOracleConfig by asset
    pairs           \* PairPrice, PairReporters and PairSubmission by pair, and by symbols

VARIABLE left       \* for the bound: calls of each kind still to come

priceVars  == <<price, submissions, submitters, observations>>
limitVars  == <<config, globalStale, maxDeviation>>
vars == <<now, left, book, pauseEntry, limitVars, priceVars, feeds, heartbeats, pairs>>

ConfigType ==
    [decimals : Nat, asset_peg : Nat, max_staleness : Nat, max_price : Nat,
     min_submit_interval : Nat, min_submitters : Nat]

(* scale is history: the decimals and the peg in force when the price was stored *)
Scales == (Nat \X Nat) \cup {None}
PriceData == [price : Nat, updated_at : Int, scale : Scales]
PairType == [scalar : Nat \cup {None}, reporters : SUBSET Accounts,
             reports : [Accounts -> [price : Nat, updated_at : Nat] \cup {None}]]

(* The errors a read may return *)
ReadErrors == {"OracleNotConfigured", "NoPriceAvailable", "OracleStalePrice",
               "InsufficientQuorum", "PriceNotFound"}

ASSUME OracleNoneAssumption ==
    /\ None \notin Nat /\ None \notin ConfigType /\ None \notin PriceData
    /\ None \notin ReadErrors /\ None \notin [price : Nat, updated_at : Nat]

ASSUME OraclePriceAssumption ==
    /\ Prices \subseteq Nat /\ PairQuotes \subseteq Nat /\ LegacyScalars \subseteq Nat \cup {None}

ASSUME OracleConfigAssumption ==
    /\ Configs \subseteq ConfigType /\ InitialConfigs \subseteq ConfigType \cup {None}
    /\ \A u \in Updates : \A f \in DOMAIN u : u[f] \in Nat
    /\ Stalenesses \subseteq Nat /\ Deviations \subseteq Nat /\ Heartbeats \subseteq Nat

ASSUME OracleRoleInputAssumption ==
    /\ InitialFeeders \subseteq SUBSET Accounts /\ Expiries \subseteq Nat

ASSUME OracleFeedAssumption ==
    /\ FeedChoices \subseteq Accounts \cup External
    /\ FeedPairs \subseteq (Accounts \cup External) \X (Accounts \cup External \cup {None})
    /\ Replies \subseteq
         [External -> [form : {"twap", "latest", "none"}, price : Nat, age : Int]]

-----------------------------------------------------------------------------
(* What the calls share *)

(* A call of this kind, within the bounds of the model *)
OneCall(kind) == left[kind] > 0 /\ left' = [left EXCEPT ![kind] = @ - 1]

HasRole(account, role) == has_role(book, role, account, now)

RoleOrAdmin(caller, role) == HasRole(caller, "Admin") \/ HasRole(caller, role)

(* require_not_paused, and what it leaves of the pause entry *)
Running_Always == pauseEntry' = AfterIsPaused(pauseEntry, now)  \* mutant: the halt is not asked for
Running ==
    /\ ~is_paused(pauseEntry, now)
    /\ pauseEntry' = AfterIsPaused(pauseEntry, now)

CurrentScale == IF config = None THEN None ELSE <<config.decimals, config.asset_peg>>

(* median: the middle of the values of f, or the floored mean of the middle two *)
KthSmallest(f, k) ==
    CHOOSE v \in Range(f) : /\ Cardinality({a \in DOMAIN f : f[a] < v}) < k
                            /\ Cardinality({a \in DOMAIN f : f[a] <= v}) >= k

median(f) ==
    LET n == Cardinality(DOMAIN f) IN
    IF n % 2 = 1 THEN KthSmallest(f, n \div 2 + 1)
    ELSE (KthSmallest(f, n \div 2) + KthSmallest(f, n \div 2 + 1)) \div 2

-----------------------------------------------------------------------------
(* Submissions *)

IsFresh(data, window) == now - data.updated_at <= window

(* The submitters among these whose submission is fresh *)
FreshSubmitters(subs, among) ==
    {a \in among : subs[a] # None /\ IsFresh(subs[a], config.max_staleness)}

MedianOf(subs, among) == median([a \in among |-> subs[a].price])

(* current_submission_median *)
Aggregate(subs, among, fallback_price) ==
    IF config = None \/ FreshSubmitters(subs, among) = {} THEN fallback_price
    ELSE MedianOf(subs, FreshSubmitters(subs, among))

(* The observation record_price_observation may not overtake *)
Recordable(obs, timestamp) == obs # <<>> => timestamp >= Last(obs).timestamp

Recorded(obs, value, timestamp) ==
    LET entry == [price |-> value, timestamp |-> timestamp, scale |-> CurrentScale] IN
    IF obs # <<>> /\ Last(obs).timestamp = timestamp
    THEN [obs EXCEPT ![Len(obs)] = entry]
    ELSE Append(IF Len(obs) = MaxTwapObservations THEN Tail(obs) ELSE obs, entry)

(* A move in basis points of the last price, rounded down *)
Deviation(new, last) == ((IF new > last THEN new - last ELSE last - new) * 10000) \div last

(* The checks of submit_price on the value and on the time *)
WithinBand(value) ==
    price # None /\ price.price > 0 =>
        /\ Deviation(value, price.price) <= HardDeviationBps
        /\ config # None /\ maxDeviation > 0 => Deviation(value, price.price) <= maxDeviation

BelowCeiling(value) == config # None /\ config.max_price # 0 => value <= config.max_price

IntervalPassed(caller) ==
    config # None /\ config.min_submit_interval > 0 /\ submissions[caller] # None
        => now - submissions[caller].updated_at >= config.min_submit_interval

submit_price(caller, value) ==
    LET data   == [price |-> value, updated_at |-> now, scale |-> CurrentScale]
        subs   == [submissions EXCEPT ![caller] = data]
        listed == submitters \cup {caller} IN
    /\ OneCall("feeder") /\ Running
    /\ HasRole(caller, "PriceFeeder")
    /\ value > 0 /\ WithinBand(value) /\ BelowCeiling(value) /\ IntervalPassed(caller)
    /\ Cardinality(listed) <= MaxSubmitters
    /\ Recordable(observations, now)
    /\ price' = data
    /\ submissions' = subs
    /\ submitters' = listed
    /\ observations' = Recorded(observations, Aggregate(subs, listed, value), now)
    /\ UNCHANGED <<now, book, limitVars, feeds, heartbeats, pairs>>

(* The latest submissions of these accounts, or None *)
LatestOf(among) ==
    LET have == {a \in among : submissions[a] # None} IN
    IF have = {} THEN {None}
    ELSE {submissions[a] : a \in {b \in have :
            \A c \in have : submissions[c].updated_at <= submissions[b].updated_at}}

remove_submitter_KeepsPrice(account) ==  \* mutant: the latest price stays when its feeder goes
    /\ submissions' = [submissions EXCEPT ![account] = None]
    /\ submitters' = submitters \ {account}
    /\ UNCHANGED <<price, observations>>
remove_submitter(account) ==
    /\ submissions' = [submissions EXCEPT ![account] = None]
    /\ submitters' = submitters \ {account}
    /\ price' \in IF account \in submitters THEN LatestOf(submitters \ {account}) ELSE {price}
    /\ UNCHANGED observations

purge_submitter(caller, feeder) ==
    /\ OneCall("admin")
    /\ HasRole(caller, "Admin")
    /\ remove_submitter(feeder)
    /\ UNCHANGED <<now, book, pauseEntry, limitVars, feeds, heartbeats, pairs>>

-----------------------------------------------------------------------------
(* Roles; the halt does not stop them *)

grant_role_with_expiration(caller, role, account, expires_at) ==
    /\ OneCall("admin")
    /\ HasRole(caller, "Admin")
    /\ role # "Admin" /\ expires_at > now
    /\ book' = Granted(book, role, {account}, expires_at, now)
    /\ UNCHANGED <<now, pauseEntry, limitVars, priceVars, feeds, heartbeats, pairs>>

(* grant_role, and grant_role_with_expiration without a time *)
grant_role(caller, role, account) ==
    /\ OneCall("admin")
    /\ HasRole(caller, "Admin")
    /\ book' = Granted(book, role, {account}, Never, now)
    /\ UNCHANGED <<now, pauseEntry, limitVars, priceVars, feeds, heartbeats, pairs>>

(* revoke_role: a PriceFeeder that had an assignment, expired or not, is also purged *)
revoke_role(caller, role, account) ==
    /\ OneCall("admin")
    /\ HasRole(caller, "Admin")
    /\ MayRevoke(book, role, {account}, now)
    /\ book' = Revoked(book, role, {account})
    /\ \/ role = "PriceFeeder" /\ account \in Assigned(book, role, {account})
          /\ remove_submitter(account)
       \/ ~(role = "PriceFeeder" /\ account \in Assigned(book, role, {account}))
          /\ UNCHANGED priceVars
    /\ UNCHANGED <<now, pauseEntry, limitVars, feeds, heartbeats, pairs>>

(* transfer_admin: the caller may name itself, and then gives the role up *)
transfer_admin(caller, new_admin) ==
    LET granted == Granted(book, "Admin", {new_admin}, Never, now) IN
    /\ OneCall("admin")
    /\ HasRole(caller, "Admin")
    /\ MayRevoke(granted, "Admin", {caller}, now)
    /\ book' = Revoked(granted, "Admin", {caller})
    /\ UNCHANGED <<now, pauseEntry, limitVars, priceVars, feeds, heartbeats, pairs>>

oracle_pause(caller) ==
    /\ OneCall("admin")
    /\ RoleOrAdmin(caller, "Pauser")
    /\ ~is_paused(pauseEntry, now)
    /\ SetPausedReadable(AfterIsPaused(pauseEntry, now))
    /\ pauseEntry' = set_paused(TRUE, now)
    /\ UNCHANGED <<now, book, limitVars, priceVars, feeds, heartbeats, pairs>>

oracle_unpause(caller) ==
    /\ OneCall("admin")
    /\ RoleOrAdmin(caller, "Pauser")
    /\ is_paused(pauseEntry, now)
    /\ SetPausedReadable(AfterIsPaused(pauseEntry, now))
    /\ pauseEntry' = set_paused(FALSE, now)
    /\ UNCHANGED <<now, book, limitVars, priceVars, feeds, heartbeats, pairs>>

-----------------------------------------------------------------------------
(* Configuration; configure_oracle and update_oracle_config run also while halted *)

ValidConfig(new) ==
    /\ new.decimals <= 19 /\ new.max_staleness # 0
    /\ new.min_submitters \in 1 .. MaxSubmitters

ASSUME OracleInitialAssumption == \A c \in InitialConfigs : c # None => ValidConfig(c)

(* A change of the decimals or of the peg gives the stored prices another meaning *)
Rescaled_DecimalsOnly(new) ==  \* mutant: a change of the peg keeps the prices
    config # None /\ new.decimals # config.decimals
Rescaled(new) ==
    config # None /\ (new.decimals # config.decimals \/ new.asset_peg # config.asset_peg)

store_oracle_config(new) ==
    /\ ValidConfig(new)
    /\ config' = new
    /\ price' = IF Rescaled(new) THEN None ELSE price
    /\ submissions' = [a \in Accounts |->
            IF Rescaled(new) /\ a \in submitters THEN None ELSE submissions[a]]
    /\ submitters' = IF Rescaled(new) THEN {} ELSE submitters
    /\ observations' = IF Rescaled(new) THEN <<>> ELSE observations

configure_oracle(caller, new) ==
    /\ OneCall("admin")
    /\ HasRole(caller, "Admin")
    /\ store_oracle_config(new)
    /\ UNCHANGED <<now, book, pauseEntry, globalStale, maxDeviation, feeds, heartbeats, pairs>>

(* update_oracle_config: update has some of the fields, the others keep their values *)
update_oracle_config(caller, update) ==
    /\ OneCall("admin")
    /\ HasRole(caller, "Admin")
    /\ config # None
    /\ store_oracle_config([f \in DOMAIN config |->
            IF f \in DOMAIN update THEN update[f] ELSE config[f]])
    /\ maxDeviation' = IF "max_deviation_bps" \in DOMAIN update
                       THEN update["max_deviation_bps"] ELSE maxDeviation
    /\ UNCHANGED <<now, book, pauseEntry, globalStale, feeds, heartbeats, pairs>>

set_max_staleness_seconds(caller, seconds) ==
    /\ OneCall("admin") /\ Running
    /\ HasRole(caller, "Admin")
    /\ seconds # 0
    /\ globalStale' = seconds
    /\ config' = IF config = None THEN None ELSE [config EXCEPT !.max_staleness = seconds]
    /\ UNCHANGED <<now, book, maxDeviation, priceVars, feeds, heartbeats, pairs>>

set_max_deviation_bps(caller, bps) ==
    /\ OneCall("admin") /\ Running
    /\ HasRole(caller, "Admin")
    /\ maxDeviation' = bps
    /\ UNCHANGED <<now, book, config, globalStale, priceVars, feeds, heartbeats, pairs>>

set_asset_oracle_config(caller, asset, heartbeat) ==
    /\ OneCall("admin") /\ Running
    /\ HasRole(caller, "Admin")
    /\ heartbeat # 0
    /\ heartbeats' = [heartbeats EXCEPT ![asset] = heartbeat]
    /\ UNCHANGED <<now, book, limitVars, priceVars, feeds, pairs>>

(* max_staleness_seconds *)
GlobalStaleness ==
    IF config # None THEN config.max_staleness
    ELSE IF globalStale = None THEN 0 ELSE globalStale

-----------------------------------------------------------------------------
(* Feeds.  A reply is what an external contract answers within one call:   *)
(* a get_twap_price, a latest_price, or nothing that can be used.          *)

(* set_oracle_feeds; set_primary_oracle and set_fallback_oracle replace one of the two *)
set_oracle_feeds(caller, primary, fallback) ==
    /\ OneCall("admin") /\ Running
    /\ HasRole(caller, "Admin")
    /\ feeds' = [primary |-> primary, fallback |-> fallback]
    /\ UNCHANGED <<now, book, limitVars, priceVars, heartbeats, pairs>>

set_primary_oracle(caller, primary) ==
    /\ OneCall("admin") /\ Running
    /\ HasRole(caller, "Admin")
    /\ feeds' = [feeds EXCEPT !.primary = primary]
    /\ UNCHANGED <<now, book, limitVars, priceVars, heartbeats, pairs>>

set_fallback_oracle(caller, fallback) ==
    /\ OneCall("admin") /\ Running
    /\ HasRole(caller, "Admin")
    /\ feeds' = [feeds EXCEPT !.fallback = fallback]
    /\ UNCHANGED <<now, book, limitVars, priceVars, heartbeats, pairs>>

FeedsSet == feeds.primary # None \/ feeds.fallback # None

Usable(data, window) == data.price > 0 /\ (window = 0 \/ IsFresh(data, window))

(***************************************************************************)
(* query_oracle_feed: a submission of the feed's address comes first, and  *)
(* when it is stale the feed is not asked                                  *)
(***************************************************************************)
query_oracle_feed(feed, window, reply) ==
    IF feed \in Accounts /\ submissions[feed] # None
    THEN IF Usable(submissions[feed], window) THEN submissions[feed] ELSE None
    ELSE IF feed \notin External THEN None
    ELSE IF reply[feed].form = "twap" /\ reply[feed].price > 0
    THEN [price |-> reply[feed].price, updated_at |-> now]
    ELSE IF reply[feed].form = "latest"
    THEN LET data == [price |-> reply[feed].price, updated_at |-> Max({0, now - reply[feed].age})] IN
         IF Usable(data, window) THEN data ELSE None
    ELSE None

resolve_oracle_with_failover(window, reply) ==
    LET first == IF feeds.primary = None THEN None
                 ELSE query_oracle_feed(feeds.primary, window, reply) IN
    IF first # None THEN first
    ELSE IF feeds.fallback = None THEN None
    ELSE query_oracle_feed(feeds.fallback, window, reply)

-----------------------------------------------------------------------------
(* Reads of the average.  An answer has no error and a price. *)

Answer(p) == [error |-> None, price |-> p]
Failure(e) == [error |-> e, price |-> None]

(* How long observation i counts: to the next one, to now, or until it is stale *)
Weight_NeverStale(obs, i, window) ==  \* mutant: an old observation counts until the next
    LET next == IF i < Len(obs) THEN obs[i + 1].timestamp ELSE now IN
    Max({0, Min({next, now}) - obs[i].timestamp})
Weight(obs, i, window) ==
    LET next == IF i < Len(obs) THEN obs[i + 1].timestamp ELSE now IN
    Max({0, Min({next, now, obs[i].timestamp + window}) - obs[i].timestamp})

SumOver(f) == MapThenSumSet(LAMBDA i : f[i], DOMAIN f)

(* calculate_twap over the last n observations; None is NoPriceAvailable *)
calculate_twap(obs, n, window) ==
    LET used    == Max({0, Len(obs) - n}) + 1 .. Len(obs)
        weights == [i \in used |-> Weight(obs, i, window)]
        values  == [i \in used |-> obs[i].price * weights[i]] IN
    IF SumOver(weights) = 0 THEN None
    ELSE SumOver(values) \div SumOver(weights)

(* get_twap_price_inner once no feed has answered *)
LocalRead_NoQuorum(n) ==  \* mutant: the quorum is not asked for
    LET fresh == FreshSubmitters(submissions, submitters)
        twap  == calculate_twap(observations, n, config.max_staleness) IN
    IF fresh = {}
    THEN Failure(IF \E a \in submitters : submissions[a] # None
                 THEN "OracleStalePrice" ELSE "NoPriceAvailable")
    ELSE Answer(IF twap = None THEN MedianOf(submissions, fresh) ELSE twap)
LocalRead(n) ==
    LET fresh == FreshSubmitters(submissions, submitters)
        twap  == calculate_twap(observations, n, config.max_staleness) IN
    IF fresh = {}
    THEN Failure(IF \E a \in submitters : submissions[a] # None
                 THEN "OracleStalePrice" ELSE "NoPriceAvailable")
    ELSE IF Cardinality(fresh) < config.min_submitters THEN Failure("InsufficientQuorum")
    ELSE Answer(IF twap = None THEN MedianOf(submissions, fresh) ELSE twap)

(***************************************************************************)
(* get_twap_price, get_twap_price_for_observations and                     *)
(* calculate_fiat_stream_payout: what a feed answers is recorded, whatever *)
(* the halt, and the call fails when it is older than the last observation *)
(***************************************************************************)
get_twap_price(reply) ==
    LET data == resolve_oracle_with_failover(config.max_staleness, reply) IN
    /\ OneCall("reader")
    /\ config # None /\ FeedsSet
    /\ data # None
    /\ Recordable(observations, data.updated_at)
    /\ observations' = Recorded(observations, data.price, data.updated_at)
    /\ UNCHANGED <<now, book, pauseEntry, limitVars, price, submissions, submitters,
                   feeds, heartbeats, pairs>>

(* load_price_status: the same submissions as counted for whoever asks first *)
load_price_status ==
    LET have  == {a \in submitters : submissions[a] # None}
        fresh == {a \in have : now - submissions[a].updated_at <= config.max_staleness} IN
    IF config = None THEN Failure("OracleNotConfigured")
    ELSE IF have = {} THEN Failure("NoPriceAvailable")
    ELSE [error |-> None, fresh_submitter_count |-> Cardinality(fresh), stale |-> fresh = {}]

-----------------------------------------------------------------------------
(* Prices of pairs *)

(* is_authorized_pair_reporter *)
Authorized(a) == HasRole(a, "PriceFeeder") \/ HasRole(a, "Admin")

(* set_price and set_price_symbol: reporters without a role leave the list *)
set_price(caller, pair, value) ==
    LET active == {a \in pairs[pair].reporters : Authorized(a)} \cup {caller} IN
    /\ OneCall("reporter") /\ Running
    /\ RoleOrAdmin(caller, "PriceFeeder")
    /\ value > 0
    /\ Cardinality(active) <= MaxPairReporters
    /\ pairs' = [pairs EXCEPT ![pair] =
            [scalar    |-> value,
             reporters |-> active,
             reports   |-> [pairs[pair].reports EXCEPT
                              ![caller] = [price |-> value, updated_at |-> now]]]]
    /\ UNCHANGED <<now, book, limitVars, priceVars, feeds, heartbeats>>

(* asset_heartbeat_secs; pairs of symbols have a fixed window *)
Window(pair) ==
    IF pair \in SymbolPairs THEN PairReportFreshness
    ELSE IF heartbeats[pair[1]] # None THEN heartbeats[pair[1]]
    ELSE IF GlobalStaleness > 0 THEN GlobalStaleness
    ELSE PairReportFreshness

(* aggregate_pair_price and aggregate_symbol_pair_price *)
FreshReporters_Anyone(pair) ==  \* mutant: the role is not asked for again
    {a \in pairs[pair].reporters : /\ pairs[pair].reports[a] # None
                                   /\ now - pairs[pair].reports[a].updated_at <= Window(pair)}
FreshReporters(pair) ==
    {a \in pairs[pair].reporters : /\ Authorized(a) /\ pairs[pair].reports[a] # None
                                   /\ now - pairs[pair].reports[a].updated_at <= Window(pair)}

aggregate_pair_price(pair) ==
    IF pairs[pair].reporters = {}
    THEN IF pairs[pair].scalar = None THEN Failure("PriceNotFound")
         ELSE Answer(pairs[pair].scalar)
    ELSE IF FreshReporters(pair) = {}
    THEN Failure(IF \E a \in pairs[pair].reporters :
                        Authorized(a) /\ pairs[pair].reports[a] # None
                 THEN "OracleStalePrice" ELSE "PriceNotFound")
    ELSE Answer(median([a \in FreshReporters(pair) |-> pairs[pair].reports[a].price]))

-----------------------------------------------------------------------------

(* initialize by an admin, the first grants and the first configuration *)
Init ==
    /\ now = 0 /\ left \in Budgets
    /\ \E admin \in Admins, feeders \in InitialFeeders :
          book = [entries     |-> [r \in Roles |-> [a \in Accounts |->
                                    IF \/ r = "Admin" /\ a = admin
                                       \/ r = "PriceFeeder" /\ a \in feeders
                                    THEN Never ELSE Absent]],
                  admin_count |-> 1,
                  listed      |-> [r \in Roles |-> [a \in Accounts |->
                                    IF \/ r = "Admin" /\ a = admin
                                       \/ r = "PriceFeeder" /\ a \in feeders
                                    THEN 1 ELSE 0]]]
    /\ pauseEntry = NeverPaused
    /\ config \in InitialConfigs
    /\ globalStale = None /\ maxDeviation = 0
    /\ price = None
    /\ submissions = [a \in Accounts |-> None]
    /\ submitters = {}
    /\ observations = <<>>
    /\ feeds = [primary |-> None, fallback |-> None]
    /\ heartbeats = [a \in Assets |-> None]
    /\ \E s \in LegacyScalars :
          pairs = [p \in Pairs |-> [scalar |-> s, reporters |-> {},
                                    reports |-> [a \in Accounts |-> None]]]

Tick ==
    /\ now < MaxTime
    /\ now' = now + 1
    /\ UNCHANGED <<left, book, pauseEntry, limitVars, priceVars, feeds, heartbeats, pairs>>

RoleCall(c) ==
    \/ \E r \in GrantRoles, a \in Accounts : grant_role(c, r, a) \/ revoke_role(c, r, a)
    \/ \E r \in GrantRoles, a \in Accounts, e \in Expiries :
          grant_role_with_expiration(c, r, a, e)
    \/ \E a \in Accounts : transfer_admin(c, a) \/ purge_submitter(c, a)
    \/ oracle_pause(c) \/ oracle_unpause(c)

LimitCall(c) ==
    \/ \E new \in Configs : configure_oracle(c, new)
    \/ \E u \in Updates : update_oracle_config(c, u)
    \/ \E s \in Stalenesses : set_max_staleness_seconds(c, s)
    \/ \E d \in Deviations : set_max_deviation_bps(c, d)
    \/ \E a \in Assets, h \in Heartbeats : set_asset_oracle_config(c, a, h)
    \/ \E p \in FeedPairs : set_oracle_feeds(c, p[1], p[2])
    \/ \E f \in FeedChoices : set_primary_oracle(c, f) \/ set_fallback_oracle(c, f)

PriceCall(c) ==
    \/ \E v \in Prices : submit_price(c, v)
    \/ \E p \in Pairs, v \in PairQuotes : set_price(c, p, v)

Next ==
    \/ Tick
    \/ \E c \in Accounts : RoleCall(c) \/ LimitCall(c) \/ PriceCall(c)
    \/ \E r \in Replies : get_twap_price(r)

Spec == Init /\ [][Next]_vars

-----------------------------------------------------------------------------
(* Properties *)

(* Submitters lists exactly the feeders with a stored submission, at most the cap *)
SubmittersExact ==
    /\ submitters = {a \in Accounts : submissions[a] # None}
    /\ Cardinality(submitters) <= MaxSubmitters

(* The single price is a latest one of the submissions that are left *)
PriceBacked == price \in LatestOf(submitters)

(* Observations are in the order of their times, no two of one second, at most the cap *)
ObservationsOrdered ==
    /\ Len(observations) <= MaxTwapObservations
    /\ \A i, j \in DOMAIN observations : i < j =>
            observations[i].timestamp < observations[j].timestamp

(* The three records submit_price writes stay in step through revocations, *)
(* purges, expired roles, changes of scale and recorded feed answers: the  *)
(* list names exactly the stored submissions, the price that the deviation *)
(* check compares with is one of them (remove_submitter goes back to an    *)
(* older one), and the observations stay ordered and bounded.              *)
OracleBooksExact == SubmittersExact /\ PriceBacked /\ ObservationsOrdered

(* No price stored under one scale is read under another: a change of the  *)
(* decimals or of the peg leaves no price, submission or observation       *)
(* behind (store_oracle_config).  Prices submitted before the first        *)
(* configuration have no scale and stay.                                   *)
OneScale ==
    LET current(data) == data.scale \in {None, CurrentScale} IN
    /\ price # None => current(price)
    /\ \A a \in Accounts : submissions[a] # None => current(submissions[a])
    /\ \A i \in DOMAIN observations : current(observations[i])

(* While no feed is set, the published status says what a read will do:    *)
(* stale is exactly OracleStalePrice, both report the missing price alike, *)
(* and a read of any length answers, with a price above zero, exactly when *)
(* the reported number of fresh submitters reaches the quorum.             *)
StatusPredictsRead ==
    config # None /\ ~FeedsSet =>
        \A n \in 1 .. MaxTwapObservations :
            LET status == load_price_status
                read   == LocalRead(n) IN
            IF status.error # None THEN read.error = status.error
            ELSE /\ status.stale <=> read.error = "OracleStalePrice"
                 /\ status.fresh_submitter_count >= config.min_submitters <=> read.error = None
                 /\ read.error = None => read.price > 0

(* The second s counts for the last of the used observations at that time, *)
(* unless that observation was stale by then                               *)
InForce(first, s, window) ==
    {i \in first .. Len(observations) :
        /\ observations[i].timestamp <= s /\ s < observations[i].timestamp + window
        /\ \A j \in i + 1 .. Len(observations) : observations[j].timestamp > s}

(* calculate_twap is the floored mean, second by second up to now, of the  *)
(* price in force, over the seconds that have one; the sum over the list   *)
(* with its clamps never counts a second twice or after its observation    *)
(* went stale, also when a feed has put an observation into the future.    *)
TwapAveragesSeconds ==
    config # None =>
        \A n \in 1 .. MaxTwapObservations :
            LET first   == Max({0, Len(observations) - n}) + 1
                inForce(s) == InForce(first, s, config.max_staleness)
                covered == {s \in 0 .. now - 1 : inForce(s) # {}}
                prices  == [s \in covered |->
                              observations[CHOOSE i \in inForce(s) : TRUE].price] IN
            calculate_twap(observations, n, config.max_staleness) =
                IF covered = {} THEN None ELSE SumOver(prices) \div Cardinality(covered)

(* Once a pair has been reported on, what a reader gets lies between two   *)
(* fresh reports of accounts that hold their role now: neither the price   *)
(* an older build left nor the report of a revoked or expired reporter     *)
(* comes back (add_pair_reporter, aggregate_pair_price).                   *)
PairAnswersBacked ==
    \A p \in Pairs :
        LET reports == pairs[p].reports
            good == {a \in Accounts : /\ Authorized(a) /\ reports[a] # None
                                      /\ now - reports[a].updated_at <= Window(p)}
            read == aggregate_pair_price(p) IN
        /\ Cardinality(pairs[p].reporters) <= MaxPairReporters
        /\ read.error = None /\ (\E a \in Accounts : reports[a] # None) =>
              \E a, b \in good : reports[a].price <= read.price /\ read.price <= reports[b].price

(* While the oracle is halted nobody's price gets in: a submission can     *)
(* only go, pair prices stand still, and observations come from a set feed *)
(* only.                                                                   *)
HaltFreezesPrices ==
    [][is_paused(pauseEntry, now) =>
          /\ \A a \in Accounts : submissions'[a] \in {submissions[a], None}
          /\ pairs' = pairs
          /\ FeedsSet \/ observations' \in {observations, <<>>}]_vars
=============================================================================
