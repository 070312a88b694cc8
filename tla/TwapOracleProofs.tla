-------------------------- MODULE TwapOracleProofs --------------------------
(***************************************************************************)
(* Proofs about the oracle: the records of submissions, the price and the  *)
(* observations stay in step, no price outlives its scale, a halt keeps    *)
(* prices out, pair prices lie between reports of accounts in office, the  *)
(* status predicts the read, and the average is the one over seconds, for  *)
(* all accounts, feeds, inputs and bounds.                                 *)
(***************************************************************************)
EXTENDS TwapOracle, FoldLemmas, FiniteSetTheorems, SequenceTheorems, TLAPS

-----------------------------------------------------------------------------
(***************************************************************************)
(* The inductive invariant, in parts that speak of one record each.  The   *)
(* price that is stored last is the latest one only because no submission  *)
(* bears a later time, and a change of scale clears every submission only  *)
(* because the list names them all.                                        *)
(***************************************************************************)

(* What is known of the submissions, their list and the price, at a time *)
Backed(subs, listed, p, t) ==
    /\ subs \in [Accounts -> PriceData \cup {None}]
    /\ listed = {a \in Accounts : subs[a] # None}
    /\ Cardinality(listed) <= MaxSubmitters
    /\ \A a \in Accounts : subs[a] # None => subs[a].updated_at <= t
    /\ \/ listed = {} /\ p = None
       \/ \E b \in listed : /\ p = subs[b]
                            /\ \A c \in listed : subs[c].updated_at <= subs[b].updated_at

(* What is known of a list of observations *)
Ordered(obs) ==
    /\ \E S : obs \in Seq(S)
    /\ Len(obs) <= MaxTwapObservations
    /\ \A i \in DOMAIN obs : obs[i].timestamp \in Int
    /\ \A i, j \in DOMAIN obs : i < j => obs[i].timestamp < obs[j].timestamp

(* Everything was stored without a scale or under this one *)
Scaled(subs, obs, scale) ==
    /\ \A a \in Accounts : subs[a] # None => subs[a].scale \in {None, scale}
    /\ \A i \in DOMAIN obs : obs[i].scale \in {None, scale}

PricesInv ==
    /\ now \in Nat
    /\ config \in ConfigType \cup {None}
    /\ Backed(submissions, submitters, price, now)
    /\ Ordered(observations)
    /\ Scaled(submissions, observations, CurrentScale)

LEMMA ScaleType == ASSUME PricesInv PROVE CurrentScale \in Scales
<1>1. CASE config = None
  BY <1>1 DEF CurrentScale, Scales
<1>2. CASE config # None
  <2>1. config.decimals \in Nat /\ config.asset_peg \in Nat
    BY <1>2 DEF PricesInv, ConfigType
  <2> QED
    BY <1>2, <2>1 DEF CurrentScale, Scales
<1> QED
  BY <1>1, <1>2

-----------------------------------------------------------------------------
(* Observations *)

(* record_price_observation replaces the last observation or appends one,  *)
(* dropping the first of a full list: the order and the bound stay, and    *)
(* every observation is an old one or the new one.                         *)
LEMMA RecordedOrdered ==
    ASSUME NEW obs, Ordered(obs), NEW value, NEW t \in Int, Recordable(obs, t)
    PROVE  /\ Ordered(Recorded(obs, value, t))
           /\ \A i \in DOMAIN Recorded(obs, value, t) :
                 \/ Recorded(obs, value, t)[i] =
                       [price |-> value, timestamp |-> t, scale |-> CurrentScale]
                 \/ \E j \in DOMAIN obs : Recorded(obs, value, t)[i] = obs[j]
<1> DEFINE entry == [price |-> value, timestamp |-> t, scale |-> CurrentScale]
<1>e. entry.timestamp = t /\ entry.scale = CurrentScale
  OBVIOUS
<1> HIDE DEF entry
<1>n. MaxTwapObservations \in Nat \ {0}
  BY OracleNumberAssumption
<1>s. PICK S : obs \in Seq(S)
  BY DEF Ordered
<1>o. /\ Len(obs) \in Nat /\ Len(obs) <= MaxTwapObservations /\ DOMAIN obs = 1 .. Len(obs)
      /\ \A i \in 1 .. Len(obs) : obs[i].timestamp \in Int
      /\ \A i, j \in 1 .. Len(obs) : i < j => obs[i].timestamp < obs[j].timestamp
  BY <1>s DEF Ordered
<1>l. obs # <<>> => Len(obs) > 0 /\ Last(obs) = obs[Len(obs)]
  BY <1>s, <1>o DEF Last
<1>1. CASE obs # <<>> /\ Last(obs).timestamp = t
  <2> DEFINE new == [obs EXCEPT ![Len(obs)] = entry]
  <2>1. Recorded(obs, value, t) = new
    BY <1>1 DEF Recorded, entry
  <2>2. new \in Seq(S \cup {entry}) /\ Len(new) = Len(obs) /\ DOMAIN new = 1 .. Len(obs)
    <3>1. obs \in Seq(S \cup {entry}) /\ Len(obs) \in 1 .. Len(obs)
      BY <1>s, <1>o, <1>l, <1>1
    <3> QED
      BY <3>1, ExceptSeq
  <2>3. \A i \in 1 .. Len(obs) : new[i] = IF i = Len(obs) THEN entry ELSE obs[i]
    BY <1>s
  <2>4. obs[Len(obs)].timestamp = t /\ Len(obs) > 0
    BY <1>1, <1>l
  <2> HIDE DEF new
  <2>5. \A i \in 1 .. Len(obs) : new[i].timestamp = obs[i].timestamp
    BY <1>e, <1>o, <2>3, <2>4
  <2>6. Ordered(new)
    BY <1>o, <2>2, <2>5 DEF Ordered
  <2>7. \A i \in DOMAIN new : new[i] = entry \/ \E j \in DOMAIN obs : new[i] = obs[j]
    BY <1>e, <1>o, <2>2, <2>3
  <2> QED
    BY <2>1, <2>6, <2>7 DEF entry
<1>2. CASE ~(obs # <<>> /\ Last(obs).timestamp = t)
  <2> DEFINE kept == IF Len(obs) = MaxTwapObservations THEN Tail(obs) ELSE obs
             d == IF Len(obs) = MaxTwapObservations THEN 1 ELSE 0
             new == Append(kept, entry)
  <2>1. Recorded(obs, value, t) = new
    BY <1>2 DEF Recorded, entry
  <2>2. /\ kept \in Seq(S) /\ Len(kept) = Len(obs) - d /\ d \in {0, 1}
        /\ \A i \in 1 .. Len(kept) : kept[i] = obs[i + d]
    <3>1. CASE Len(obs) = MaxTwapObservations
      <4>1. obs # <<>>
        BY <1>n, <1>s, <3>1
      <4>2. Tail(obs) \in Seq(S) /\ Len(Tail(obs)) = Len(obs) - 1
        BY <1>s, <4>1
      <4>3. \A i \in 1 .. Len(Tail(obs)) : Tail(obs)[i] = obs[i + 1]
        BY <1>s, <4>1, <4>2
      <4> QED
        BY <3>1, <4>2, <4>3
    <3>2. CASE Len(obs) # MaxTwapObservations
      BY <1>s, <1>o, <3>2
    <3> QED
      BY <3>1, <3>2
  <2>3. Len(obs) - d < MaxTwapObservations
    <3>1. \/ Len(obs) = MaxTwapObservations /\ d = 1
          \/ Len(obs) # MaxTwapObservations /\ d = 0
      OBVIOUS
    <3> HIDE DEF d
    <3>2. Len(obs) \in Nat /\ Len(obs) <= MaxTwapObservations
      BY <1>o
    <3> QED
      BY <1>n, <3>1, <3>2
  <2>4. obs # <<>> => t > obs[Len(obs)].timestamp
    <3>1. obs # <<>> => t >= obs[Len(obs)].timestamp /\ t # obs[Len(obs)].timestamp
      BY <1>2, <1>l DEF Recordable
    <3> QED
      BY <1>l, <1>o, <3>1
  <2> HIDE DEF kept, d
  <2>5. /\ new \in Seq(S \cup {entry}) /\ Len(new) = Len(kept) + 1
        /\ DOMAIN new = 1 .. Len(kept) + 1
    <3>1. kept \in Seq(S \cup {entry})
      BY <2>2
    <3> QED
      BY <3>1
  <2>6. /\ \A i \in 1 .. Len(kept) : new[i] = kept[i]
        /\ new[Len(kept) + 1] = entry
    BY <2>2
  <2> HIDE DEF new
  <2>k. Len(kept) \in Nat
    BY <2>2
  <2>7. Len(new) <= MaxTwapObservations
    BY <1>n, <1>o, <2>2, <2>3, <2>5, <2>k
  <2>8. \A i \in 1 .. Len(kept) :
          new[i] = obs[i + d] /\ i + d \in 1 .. Len(obs) /\ new[i].timestamp \in Int
    BY <1>o, <2>2, <2>6, <2>k
  <2>9. \A i \in DOMAIN new : new[i].timestamp \in Int
    BY <1>e, <2>5, <2>6, <2>8, <2>k
  <2>10. \A i \in 1 .. Len(kept) : new[i].timestamp < t
    <3> SUFFICES ASSUME NEW i \in 1 .. Len(kept) PROVE new[i].timestamp < t
      OBVIOUS
    <3>1. i + d \in 1 .. Len(obs) /\ new[i].timestamp = obs[i + d].timestamp /\ obs # <<>>
      BY <1>s, <2>8
    <3>2. obs[i + d].timestamp <= obs[Len(obs)].timestamp /\ Len(obs) \in 1 .. Len(obs)
      BY <1>o, <3>1
    <3> QED
      BY <1>o, <2>4, <3>1, <3>2
  <2>11. \A i, j \in DOMAIN new : i < j => new[i].timestamp < new[j].timestamp
    <3> SUFFICES ASSUME NEW i \in DOMAIN new, NEW j \in DOMAIN new, i < j
                 PROVE  new[i].timestamp < new[j].timestamp
      OBVIOUS
    <3>1. i \in 1 .. Len(kept) /\ j \in 1 .. Len(kept) + 1
      BY <2>5, <2>k
    <3>2. CASE j = Len(kept) + 1
      BY <1>e, <2>6, <2>10, <3>1, <3>2
    <3>3. CASE j \in 1 .. Len(kept)
      <4>1. i + d < j + d
        BY <2>2, <2>k, <3>1, <3>3
      <4> QED
        BY <1>o, <2>8, <3>1, <3>3, <4>1
    <3> QED
      BY <2>k, <3>1, <3>2, <3>3
  <2>12. Ordered(new)
    BY <2>5, <2>7, <2>9, <2>11 DEF Ordered
  <2>13. \A i \in DOMAIN new : new[i] = entry \/ \E j \in DOMAIN obs : new[i] = obs[j]
    <3> SUFFICES ASSUME NEW i \in DOMAIN new
                 PROVE  new[i] = entry \/ \E j \in DOMAIN obs : new[i] = obs[j]
      OBVIOUS
    <3>1. CASE i \in 1 .. Len(kept)
      BY <1>o, <2>8, <3>1
    <3>2. CASE i = Len(kept) + 1
      BY <1>e, <2>6, <3>2
    <3> QED
      BY <2>5, <2>k, <3>1, <3>2
  <2> QED
    BY <2>1, <2>12, <2>13 DEF entry
<1> QED
  BY <1>1, <1>2

-----------------------------------------------------------------------------
(* Submissions *)

(* The invariant implies the two properties. *)
LEMMA InvariantImplies == ASSUME PricesInv PROVE OracleBooksExact /\ OneScale
<1>1. {a \in submitters : submissions[a] # None} = submitters
  BY DEF PricesInv, Backed
<1>2. price \in LatestOf(submitters)
  <2>1. CASE submitters = {}
    BY <1>1, <2>1 DEF LatestOf, PricesInv, Backed
  <2>2. CASE submitters # {}
    <3>1. LatestOf(submitters) =
            {submissions[a] : a \in {b \in submitters :
                \A c \in submitters : submissions[c].updated_at <= submissions[b].updated_at}}
      BY <1>1, <2>2 DEF LatestOf
    <3> QED
      BY <2>2, <3>1 DEF PricesInv, Backed
  <2> QED
    BY <2>1, <2>2
<1>3. OracleBooksExact
  BY <1>2 DEF PricesInv, Backed, Ordered, OracleBooksExact, SubmittersExact, PriceBacked,
              ObservationsOrdered
<1>4. price # None => \E b \in Accounts : price = submissions[b] /\ submissions[b] # None
  BY DEF PricesInv, Backed
<1>5. OneScale
  BY <1>4 DEF OneScale, PricesInv, Scaled
<1> QED
  BY <1>3, <1>5

(* A submission puts its feeder on the list and becomes the price.         *)
LEMMA BackedSubmit ==
    ASSUME NEW subs, NEW listed, NEW p, NEW t \in Nat, Backed(subs, listed, p, t),
           NEW caller \in Accounts, NEW data \in PriceData, data.updated_at = t,
           Cardinality(listed \cup {caller}) <= MaxSubmitters
    PROVE  Backed([subs EXCEPT ![caller] = data], listed \cup {caller}, data, t)
<1> DEFINE new == [subs EXCEPT ![caller] = data]
<1>1. data # None
  BY OracleNoneAssumption
<1>2. new \in [Accounts -> PriceData \cup {None}]
  BY DEF Backed
<1>3. \A a \in Accounts : new[a] = IF a = caller THEN data ELSE subs[a]
  BY DEF Backed
<1> HIDE DEF new
<1>4. listed \cup {caller} = {a \in Accounts : new[a] # None}
  BY <1>1, <1>3 DEF Backed
<1>5. \A a \in Accounts : new[a] # None => new[a].updated_at <= t
  BY <1>3 DEF Backed
<1>6. new[caller] = data /\ \A c \in listed \cup {caller} : new[c].updated_at <= data.updated_at
  BY <1>3, <1>4, <1>5
<1> QED
  BY <1>2, <1>4, <1>5, <1>6 DEF Backed, new

(* A purge takes the feeder off the list, and the price goes back to a     *)
(* latest one of the submissions that are left.                            *)
LEMMA BackedRemove ==
    ASSUME now \in Nat, Backed(submissions, submitters, price, now),
           NEW account \in Accounts, remove_submitter(account)
    PROVE  Backed(submissions', submitters', price', now)
<1> DEFINE left1 == submitters \ {account}
<1>1. /\ submissions' = [submissions EXCEPT ![account] = None]
      /\ submitters' = left1
      /\ submissions' \in [Accounts -> PriceData \cup {None}]
      /\ \A a \in Accounts : submissions'[a] = IF a = account THEN None ELSE submissions[a]
  BY DEF remove_submitter, Backed
<1>2. submitters' = {a \in Accounts : submissions'[a] # None}
  BY <1>1 DEF Backed
<1>3. Cardinality(submitters') <= MaxSubmitters
  <2>1. IsFiniteSet(submitters)
    BY AccountsAssumption, FS_Subset DEF Backed
  <2>2. IsFiniteSet(left1) /\ Cardinality(left1) <= Cardinality(submitters)
    BY <2>1, FS_Subset
  <2>3. Cardinality(left1) \in Nat /\ Cardinality(submitters) \in Nat /\ MaxSubmitters \in Nat
    BY <2>1, <2>2, FS_CardinalityType, OracleNumberAssumption
  <2> QED
    BY <1>1, <2>2, <2>3 DEF Backed
<1>4. \A a \in Accounts : submissions'[a] # None => submissions'[a].updated_at <= now
  BY <1>1 DEF Backed
<1>5. \A a \in left1 : submissions'[a] = submissions[a] /\ submissions[a] # None
  BY <1>1 DEF Backed
<1>6. \/ left1 = {} /\ price' = None
      \/ \E b \in left1 :
            /\ price' = submissions[b]
            /\ \A c \in left1 : submissions[c].updated_at <= submissions[b].updated_at
  <2>1. CASE account \in submitters
    <3>1. price' \in LatestOf(left1)
      BY <2>1 DEF remove_submitter
    <3>2. {a \in left1 : submissions[a] # None} = left1
      BY <1>5
    <3>3. CASE left1 = {}
      BY <3>1, <3>2, <3>3 DEF LatestOf
    <3>4. CASE left1 # {}
      <4>1. LatestOf(left1) =
              {submissions[a] : a \in {b \in left1 :
                  \A c \in left1 : submissions[c].updated_at <= submissions[b].updated_at}}
        BY <3>2, <3>4 DEF LatestOf
      <4> QED
        BY <3>1, <4>1
    <3> QED
      BY <3>3, <3>4
  <2>2. CASE account \notin submitters
    <3>1. left1 = submitters /\ price' = price
      BY <2>2 DEF remove_submitter
    <3> QED
      BY <3>1 DEF Backed
  <2> QED
    BY <2>1, <2>2
<1> QED
  BY <1>1, <1>2, <1>3, <1>4, <1>5, <1>6 DEF Backed

-----------------------------------------------------------------------------
(* The steps *)

(* Steps that leave the prices and the scale alone *)
Aside ==
    /\ now' \in {now, now + 1}
    /\ UNCHANGED priceVars
    /\ \/ config' = config
       \/ /\ config # None /\ config' \in ConfigType
          /\ config'.decimals = config.decimals /\ config'.asset_peg = config.asset_peg
          /\ config'.min_submitters = config.min_submitters

(* Every step is a submission, a purge, a new configuration, a recorded    *)
(* answer of a feed, or leaves the prices alone.                           *)
LEMMA OracleCases ==
    ASSUME PricesInv, [Next]_vars
    PROVE  \/ \E c \in Accounts, v \in Prices : submit_price(c, v)
           \/ \E a \in Accounts : remove_submitter(a) /\ UNCHANGED <<now, config>>
           \/ \E new \in ConfigType : store_oracle_config(new) /\ now' = now
           \/ \E r \in Replies : get_twap_price(r)
           \/ Aside
<1> USE DEF vars, priceVars, limitVars
<1>1. CASE UNCHANGED vars
  BY <1>1 DEF Aside
<1>2. CASE Tick
  BY <1>2 DEF Tick, Aside
<1>3. ASSUME NEW c \in Accounts, RoleCall(c)
      PROVE  Aside \/ \E a \in Accounts : remove_submitter(a) /\ UNCHANGED <<now, config>>
  <2>1. ASSUME NEW r \in GrantRoles, NEW a \in Accounts, grant_role(c, r, a) PROVE Aside
    BY <2>1 DEF grant_role, Aside
  <2>2. ASSUME NEW r \in GrantRoles, NEW a \in Accounts, revoke_role(c, r, a)
        PROVE  Aside \/ (remove_submitter(a) /\ UNCHANGED <<now, config>>)
    BY <2>2 DEF revoke_role, Aside
  <2>3. ASSUME NEW r \in GrantRoles, NEW a \in Accounts, NEW e \in Expiries,
               grant_role_with_expiration(c, r, a, e)
        PROVE  Aside
    BY <2>3 DEF grant_role_with_expiration, Aside
  <2>4. ASSUME NEW a \in Accounts, transfer_admin(c, a) PROVE Aside
    BY <2>4 DEF transfer_admin, Aside
  <2>5. ASSUME NEW a \in Accounts, purge_submitter(c, a)
        PROVE  remove_submitter(a) /\ UNCHANGED <<now, config>>
    BY <2>5 DEF purge_submitter
  <2>6. CASE oracle_pause(c)
    BY <2>6 DEF oracle_pause, Aside
  <2>7. CASE oracle_unpause(c)
    BY <2>7 DEF oracle_unpause, Aside
  <2> QED
    BY <1>3, <2>1, <2>2, <2>3, <2>4, <2>5, <2>6, <2>7 DEF RoleCall
<1>4. ASSUME NEW c \in Accounts, LimitCall(c)
      PROVE  Aside \/ \E new \in ConfigType : store_oracle_config(new) /\ now' = now
  <2>1. ASSUME NEW new \in Configs, configure_oracle(c, new)
        PROVE  new \in ConfigType /\ store_oracle_config(new) /\ now' = now
    BY <2>1, OracleConfigAssumption DEF configure_oracle
  <2>2. ASSUME NEW u \in Updates, update_oracle_config(c, u)
        PROVE  \E new \in ConfigType : store_oracle_config(new) /\ now' = now
    <3> DEFINE new == [f \in DOMAIN config |-> IF f \in DOMAIN u THEN u[f] ELSE config[f]]
    <3>1. store_oracle_config(new) /\ now' = now /\ config # None
      BY <2>2 DEF update_oracle_config
    <3>2. config \in ConfigType
      BY <3>1 DEF PricesInv
    <3>3. \A f \in DOMAIN config : config[f] \in Nat
      BY <3>2 DEF ConfigType
    <3>4. \A f \in DOMAIN u : u[f] \in Nat
      BY OracleConfigAssumption
    <3>5. new \in [DOMAIN config -> Nat]
      BY <3>3, <3>4
    <3>6. DOMAIN config = {"decimals", "asset_peg", "max_staleness", "max_price",
                           "min_submit_interval", "min_submitters"}
      BY <3>2 DEF ConfigType
    <3>7. new \in ConfigType
      BY <3>5, <3>6 DEF ConfigType
    <3> QED
      BY <3>1, <3>7
  <2>3. ASSUME NEW s \in Stalenesses, set_max_staleness_seconds(c, s) PROVE Aside
    <3>1. CASE config = None
      BY <2>3, <3>1 DEF set_max_staleness_seconds, Aside
    <3>2. CASE config # None
      <4>1. config \in ConfigType /\ s \in Nat
        BY <3>2, OracleConfigAssumption DEF PricesInv
      <4>2. config' = [config EXCEPT !.max_staleness = s]
        BY <2>3, <3>2 DEF set_max_staleness_seconds
      <4>3. /\ config' \in ConfigType /\ config'.decimals = config.decimals
            /\ config'.asset_peg = config.asset_peg
            /\ config'.min_submitters = config.min_submitters
        BY <4>1, <4>2 DEF ConfigType
      <4> QED
        BY <2>3, <3>2, <4>3 DEF set_max_staleness_seconds, Aside
    <3> QED
      BY <3>1, <3>2
  <2>4. ASSUME NEW d \in Deviations, set_max_deviation_bps(c, d) PROVE Aside
    BY <2>4 DEF set_max_deviation_bps, Aside
  <2>5. ASSUME NEW a \in Assets, NEW h \in Heartbeats, set_asset_oracle_config(c, a, h)
        PROVE  Aside
    BY <2>5 DEF set_asset_oracle_config, Aside
  <2>6. ASSUME NEW p \in FeedPairs, set_oracle_feeds(c, p[1], p[2]) PROVE Aside
    BY <2>6 DEF set_oracle_feeds, Aside
  <2>7. ASSUME NEW f \in FeedChoices, set_primary_oracle(c, f) PROVE Aside
    BY <2>7 DEF set_primary_oracle, Aside
  <2>8. ASSUME NEW f \in FeedChoices, set_fallback_oracle(c, f) PROVE Aside
    BY <2>8 DEF set_fallback_oracle, Aside
  <2> QED
    BY <1>4, <2>1, <2>2, <2>3, <2>4, <2>5, <2>6, <2>7, <2>8 DEF LimitCall
<1>5. ASSUME NEW c \in Accounts, PriceCall(c)
      PROVE  Aside \/ \E v \in Prices : submit_price(c, v)
  <2>1. ASSUME NEW p \in Pairs, NEW v \in PairQuotes, set_price(c, p, v) PROVE Aside
    BY <2>1 DEF set_price, Aside
  <2> QED
    BY <1>5, <2>1 DEF PriceCall
<1> QED
  BY <1>1, <1>2, <1>3, <1>4, <1>5 DEF Next

(* The configuration keeps its scale, or has it replaced *)
LEMMA ScaleKept ==
    ASSUME PricesInv, config' \in ConfigType \cup {None},
           \/ config' = config
           \/ /\ config # None /\ config' \in ConfigType
              /\ config'.decimals = config.decimals /\ config'.asset_peg = config.asset_peg
    PROVE  CurrentScale' = CurrentScale
  BY OracleNoneAssumption DEF CurrentScale

(* Entries without a scale fit any scale *)
LEMMA UnscaledFits ==
    ASSUME NEW subs, NEW obs, Scaled(subs, obs, None), NEW scale
    PROVE  Scaled(subs, obs, scale)
  BY DEF Scaled

LEMMA StepSubmit ==
    ASSUME PricesInv, NEW c \in Accounts, NEW v \in Prices, submit_price(c, v)
    PROVE  PricesInv'
<1> DEFINE data == [price |-> v, updated_at |-> now, scale |-> CurrentScale]
           agg == Aggregate([submissions EXCEPT ![c] = data], submitters \cup {c}, v)
<1>1. /\ now' = now /\ config' = config
      /\ price' = data
      /\ submissions' = [submissions EXCEPT ![c] = data]
      /\ submitters' = submitters \cup {c}
      /\ Cardinality(submitters \cup {c}) <= MaxSubmitters
      /\ Recordable(observations, now)
      /\ observations' = Recorded(observations, agg, now)
  BY DEF submit_price, limitVars
<1>2. now \in Nat /\ v \in Nat
  BY OraclePriceAssumption DEF PricesInv
<1>3. data \in PriceData /\ data.updated_at = now /\ data.scale = CurrentScale
  BY <1>2, ScaleType DEF PriceData
<1> HIDE DEF data, agg
<1>4. Backed(submissions', submitters', price', now')
  BY <1>1, <1>2, <1>3, BackedSubmit DEF PricesInv
<1>5. /\ Ordered(observations')
      /\ \A i \in DOMAIN observations' :
            \/ observations'[i].scale = CurrentScale
            \/ \E j \in DOMAIN observations : observations'[i] = observations[j]
  BY <1>1, <1>2, RecordedOrdered DEF PricesInv
<1>6. CurrentScale' = CurrentScale
  BY <1>1 DEF CurrentScale
<1>7. \A a \in Accounts : submissions'[a] = IF a = c THEN data ELSE submissions[a]
  BY <1>1 DEF PricesInv, Backed
<1>8. Scaled(submissions', observations', CurrentScale)
  BY <1>3, <1>5, <1>7 DEF PricesInv, Scaled
<1> QED
  BY <1>1, <1>4, <1>5, <1>6, <1>8 DEF PricesInv

LEMMA StepRemove ==
    ASSUME PricesInv, NEW a \in Accounts, remove_submitter(a), UNCHANGED <<now, config>>
    PROVE  PricesInv'
<1>1. Backed(submissions', submitters', price', now)
  BY BackedRemove DEF PricesInv
<1>2. observations' = observations /\ submissions' = [submissions EXCEPT ![a] = None]
  BY DEF remove_submitter
<1>3. \A b \in Accounts : submissions'[b] \in {submissions[b], None}
  BY <1>2 DEF PricesInv, Backed
<1>4. CurrentScale' = CurrentScale
  BY DEF CurrentScale
<1>5. Scaled(submissions', observations', CurrentScale)
  BY <1>2, <1>3 DEF PricesInv, Scaled
<1> QED
  BY <1>1, <1>2, <1>4, <1>5 DEF PricesInv

LEMMA StepConfigure ==
    ASSUME PricesInv, NEW new \in ConfigType, store_oracle_config(new), now' = now
    PROVE  PricesInv'
<1>1. config' = new /\ new # None
  BY OracleNoneAssumption DEF store_oracle_config
<1>2. CASE Rescaled(new)
  <2>1. /\ price' = None /\ submitters' = {} /\ observations' = <<>>
        /\ submissions' = [a \in Accounts |->
              IF a \in submitters THEN None ELSE submissions[a]]
    BY <1>2 DEF store_oracle_config
  <2>2. \A a \in Accounts : submissions'[a] = None
    BY <2>1 DEF PricesInv, Backed
  <2>3. submissions' \in [Accounts -> PriceData \cup {None}]
    BY <2>1 DEF PricesInv, Backed
  <2>4. Cardinality({}) = 0 /\ 0 <= MaxSubmitters /\ 0 <= MaxTwapObservations
    BY FS_EmptySet, OracleNumberAssumption
  <2>5. Backed(submissions', submitters', price', now')
    BY <2>1, <2>2, <2>3, <2>4 DEF Backed
  <2>6. observations' \in Seq({}) /\ Len(observations') = 0 /\ DOMAIN observations' = {}
    BY <2>1
  <2>7. Ordered(observations')
    BY <2>4, <2>6 DEF Ordered
  <2>8. Scaled(submissions', observations', CurrentScale')
    BY <2>2, <2>6 DEF Scaled
  <2> QED
    BY <1>1, <2>5, <2>7, <2>8 DEF PricesInv
<1>3. CASE ~Rescaled(new)
  <2>1. /\ price' = price /\ submitters' = submitters /\ observations' = observations
        /\ submissions' = [a \in Accounts |-> submissions[a]]
    BY <1>3 DEF store_oracle_config
  <2>2. submissions' = submissions
    BY <2>1 DEF PricesInv, Backed
  <2>3. Scaled(submissions, observations, CurrentScale')
    <3>1. CASE config = None
      BY <3>1, UnscaledFits DEF PricesInv, CurrentScale
    <3>2. CASE config # None
      <4>1. CurrentScale' = CurrentScale
        BY <1>1, <1>3, <3>2 DEF Rescaled, CurrentScale
      <4> QED
        BY <4>1 DEF PricesInv
    <3> QED
      BY <3>1, <3>2
  <2> QED
    BY <1>1, <2>1, <2>2, <2>3 DEF PricesInv
<1> QED
  BY <1>2, <1>3

(* What a feed answers bears a time. *)
LEMMA AnswerType ==
    ASSUME PricesInv, NEW feed, NEW window, NEW r \in Replies,
           query_oracle_feed(feed, window, r) # None
    PROVE  query_oracle_feed(feed, window, r).updated_at \in Int
<1>1. now \in Nat
  BY DEF PricesInv
<1>2. CASE feed \in Accounts /\ submissions[feed] # None
  <2>1. query_oracle_feed(feed, window, r) = submissions[feed]
    BY <1>2 DEF query_oracle_feed
  <2> QED
    BY <1>2, <2>1 DEF PricesInv, Backed, PriceData
<1>3. CASE ~(feed \in Accounts /\ submissions[feed] # None)
  <2>1. feed \in External
    BY <1>3 DEF query_oracle_feed
  <2>2. r[feed] \in [form : {"twap", "latest", "none"}, price : Nat, age : Int]
    BY <2>1, OracleFeedAssumption
  <2>3. r[feed].age \in Int
    BY <2>2
  <2> DEFINE at == Max({0, now - r[feed].age})
             twap == [price |-> r[feed].price, updated_at |-> now]
             latest == [price |-> r[feed].price, updated_at |-> at]
  <2>4. at \in Int
    <3>1. \A x \in Int : Max({0, x}) \in Int
      <4> SUFFICES ASSUME NEW x \in Int PROVE Max({0, x}) \in Int
        OBVIOUS
      <4>1. \E y \in {0, x} : \A z \in {0, x} : y >= z
        OBVIOUS
      <4>2. Max({0, x}) \in {0, x}
        BY <4>1 DEF Max
      <4> QED
        BY <4>2
    <3>2. now - r[feed].age \in Int
      BY <1>1, <2>3
    <3> QED
      BY <3>1, <3>2
  <2>5. query_oracle_feed(feed, window, r) \in {twap, latest}
    BY <1>3, <2>1 DEF query_oracle_feed
  <2> HIDE DEF at
  <2>6. twap.updated_at \in Int /\ latest.updated_at \in Int
    BY <1>1, <2>4
  <2> QED
    BY <2>5, <2>6
<1> QED
  BY <1>2, <1>3

LEMMA StepRead ==
    ASSUME PricesInv, NEW r \in Replies, get_twap_price(r)
    PROVE  PricesInv'
<1> DEFINE data == resolve_oracle_with_failover(config.max_staleness, r)
<1>1. /\ now' = now /\ config' = config /\ price' = price
      /\ submissions' = submissions /\ submitters' = submitters
      /\ data # None
      /\ Recordable(observations, data.updated_at)
      /\ observations' = Recorded(observations, data.price, data.updated_at)
  BY DEF get_twap_price, limitVars
<1>2. data.updated_at \in Int
  <2>1. \E feed : data = query_oracle_feed(feed, config.max_staleness, r)
    BY <1>1 DEF resolve_oracle_with_failover
  <2> QED
    BY <1>1, <2>1, AnswerType
<1> HIDE DEF data
<1>3. /\ Ordered(observations')
      /\ \A i \in DOMAIN observations' :
            \/ observations'[i].scale = CurrentScale
            \/ \E j \in DOMAIN observations : observations'[i] = observations[j]
  BY <1>1, <1>2, RecordedOrdered DEF PricesInv
<1>4. CurrentScale' = CurrentScale
  BY <1>1 DEF CurrentScale
<1>5. Scaled(submissions', observations', CurrentScale)
  BY <1>1, <1>3 DEF PricesInv, Scaled
<1> QED
  BY <1>1, <1>3, <1>4, <1>5 DEF PricesInv

LEMMA StepAside == ASSUME PricesInv, Aside PROVE PricesInv'
<1>1. /\ now' \in Nat /\ now <= now' /\ now \in Nat
      /\ config' \in ConfigType \cup {None}
      /\ submissions' = submissions /\ submitters' = submitters /\ price' = price
      /\ observations' = observations
  BY DEF PricesInv, Aside, priceVars
<1>2. CurrentScale' = CurrentScale
  BY <1>1, ScaleKept DEF Aside
<1>3. \A a \in Accounts : submissions[a] # None => submissions[a].updated_at \in Int
  BY DEF PricesInv, Backed, PriceData
<1>4. Backed(submissions, submitters, price, now')
  BY <1>1, <1>3 DEF PricesInv, Backed
<1> QED
  BY <1>1, <1>2, <1>4 DEF PricesInv

LEMMA PricesInit == Init => PricesInv
<1> SUFFICES ASSUME Init PROVE PricesInv
  OBVIOUS
<1>1. /\ now = 0 /\ config \in ConfigType \cup {None} /\ price = None
      /\ submissions = [a \in Accounts |-> None] /\ submitters = {}
      /\ observations = <<>>
  BY OracleConfigAssumption DEF Init
<1>2. Cardinality({}) = 0 /\ 0 <= MaxSubmitters /\ 0 <= MaxTwapObservations
  BY FS_EmptySet, OracleNumberAssumption
<1>3. observations \in Seq({}) /\ Len(observations) = 0 /\ DOMAIN observations = {}
  BY <1>1
<1>4. Backed(submissions, submitters, price, now)
  BY <1>1, <1>2 DEF Backed
<1>5. Ordered(observations) /\ Scaled(submissions, observations, CurrentScale)
  BY <1>1, <1>2, <1>3 DEF Ordered, Scaled
<1> QED
  BY <1>1, <1>4, <1>5 DEF PricesInv

LEMMA PricesStep == PricesInv /\ [Next]_vars => PricesInv'
  BY OracleCases, StepSubmit, StepRemove, StepConfigure, StepRead, StepAside

(***************************************************************************)
(* The invariant holds in every reachable state.                           *)
(***************************************************************************)
LEMMA PricesAlways == Spec => []PricesInv
  BY PricesInit, PricesStep, PTL DEF Spec

-----------------------------------------------------------------------------
(* The list of submitters names exactly the stored submissions, the price  *)
(* is a latest one of them, and the observations are ordered and bounded,  *)
(* through every revocation, purge, change of scale and recorded answer    *)
(* (submit_price, remove_submitter, record_price_observation).             *)
THEOREM OracleBooksHold == Spec => []OracleBooksExact
  BY PricesAlways, InvariantImplies, PTL

(* A price that is read was stored under the scale in force, or before the *)
(* first configuration (store_oracle_config clears the others).            *)
THEOREM OneScaleHolds == Spec => []OneScale
  BY PricesAlways, InvariantImplies, PTL
-----------------------------------------------------------------------------
(* The halt *)

(* Only set_price writes what pairs hold, and it asks for the halt. *)
LEMMA PairsNeedRunning ==
    ASSUME [Next]_vars
    PROVE  pairs' = pairs \/ ~is_paused(pauseEntry, now)
<1>1. CASE UNCHANGED vars
  BY <1>1 DEF vars
<1>2. CASE Tick
  BY <1>2 DEF Tick
<1>3. ASSUME NEW c \in Accounts, RoleCall(c) PROVE pairs' = pairs
  BY <1>3 DEF RoleCall, grant_role, revoke_role, grant_role_with_expiration, transfer_admin,
              purge_submitter, oracle_pause, oracle_unpause
<1>4. ASSUME NEW c \in Accounts, LimitCall(c) PROVE pairs' = pairs
  BY <1>4 DEF LimitCall, configure_oracle, update_oracle_config, set_max_staleness_seconds,
              set_max_deviation_bps, set_asset_oracle_config, set_oracle_feeds,
              set_primary_oracle, set_fallback_oracle
<1>5. ASSUME NEW c \in Accounts, PriceCall(c) PROVE ~is_paused(pauseEntry, now)
  BY <1>5 DEF PriceCall, submit_price, set_price, Running
<1>6. ASSUME NEW r \in Replies, get_twap_price(r) PROVE pairs' = pairs
  BY <1>6 DEF get_twap_price
<1> QED
  BY <1>1, <1>2, <1>3, <1>4, <1>5, <1>6 DEF Next

(* What a halt lets through, step by step. *)
LEMMA HaltedStep ==
    ASSUME PricesInv, [Next]_vars, is_paused(pauseEntry, now)
    PROVE  /\ \A a \in Accounts : submissions'[a] \in {submissions[a], None}
           /\ pairs' = pairs
           /\ FeedsSet \/ observations' \in {observations, <<>>}
<1>1. pairs' = pairs
  BY PairsNeedRunning
<1>2. ASSUME NEW c \in Accounts, NEW v \in Prices, submit_price(c, v) PROVE FALSE
  BY <1>2 DEF submit_price, Running
<1>3. ASSUME NEW b \in Accounts, remove_submitter(b)
      PROVE  /\ \A a \in Accounts : submissions'[a] \in {submissions[a], None}
             /\ observations' = observations
  BY <1>3 DEF remove_submitter, PricesInv, Backed
<1>4. ASSUME NEW new \in ConfigType, store_oracle_config(new)
      PROVE  /\ \A a \in Accounts : submissions'[a] \in {submissions[a], None}
             /\ observations' \in {observations, <<>>}
  BY <1>4 DEF store_oracle_config
<1>5. ASSUME NEW r \in Replies, get_twap_price(r)
      PROVE  FeedsSet /\ submissions' = submissions
  BY <1>5 DEF get_twap_price
<1>6. Aside => submissions' = submissions /\ observations' = observations
  BY DEF Aside, priceVars
<1>7. /\ \A a \in Accounts : submissions'[a] \in {submissions[a], None}
      /\ FeedsSet \/ observations' \in {observations, <<>>}
  <2>1. CASE \E b \in Accounts : remove_submitter(b)
    BY <1>3, <2>1
  <2>2. CASE \E new \in ConfigType : store_oracle_config(new)
    BY <1>4, <2>2
  <2>3. CASE \E r \in Replies : get_twap_price(r)
    BY <1>5, <2>3
  <2>4. CASE Aside
    BY <1>6, <2>4
  <2>5. \/ \E b \in Accounts : remove_submitter(b)
        \/ \E new \in ConfigType : store_oracle_config(new)
        \/ \E r \in Replies : get_twap_price(r)
        \/ Aside
    BY <1>2, OracleCases
  <2> QED
    BY <2>1, <2>2, <2>3, <2>4, <2>5
<1> QED
  BY <1>1, <1>7

(* While the oracle is halted no price of a feeder or reporter gets in and *)
(* observations come from a set feed only (require_not_paused in           *)
(* submit_price and set_price; reads and configuration run on).            *)
THEOREM OracleHaltHolds == Spec => HaltFreezesPrices
<1>1. PricesInv /\ [Next]_vars =>
        [is_paused(pauseEntry, now) =>
            /\ \A a \in Accounts : submissions'[a] \in {submissions[a], None}
            /\ pairs' = pairs
            /\ FeedsSet \/ observations' \in {observations, <<>>}]_vars
  BY HaltedStep
<1> QED
  BY <1>1, PricesAlways, PTL DEF Spec, HaltFreezesPrices

-----------------------------------------------------------------------------
(* Medians *)

(* A function with finitely many integer values *)
Values(f) == IsFiniteSet(DOMAIN f) /\ \A a \in DOMAIN f : f[a] \in Int

(* The value of rank k exists: the least value that k places do not exceed. *)
LEMMA KthAttained ==
    ASSUME NEW f, Values(f), NEW k \in 1 .. Cardinality(DOMAIN f)
    PROVE  \E a \in DOMAIN f : KthSmallest(f, k) = f[a]
<1> DEFINE D == DOMAIN f
           Upto(v) == {a \in D : f[a] <= v}
           Under(v) == {a \in D : f[a] < v}
           E == {a \in D : Cardinality(Upto(f[a])) >= k}
<1>1. IsFiniteSet(D) /\ Cardinality(D) \in Nat /\ k \in Nat /\ k >= 1 /\ k <= Cardinality(D)
      /\ \A a \in D : f[a] \in Int
  BY FS_CardinalityType DEF Values
<1>2. D # {}
  BY <1>1, FS_EmptySet
<1>3. PICK m \in D : \A x \in D : f[x] <= f[m]
  BY <1>1, <1>2, ArgMax
<1>4. m \in E
  <2>1. Upto(f[m]) = D
    BY <1>3
  <2> QED
    BY <1>1, <2>1
<1>5. IsFiniteSet(E) /\ E # {} /\ E \subseteq D
  <2>1. E \subseteq D
    OBVIOUS
  <2> QED
    BY <1>1, <1>4, <2>1, FS_Subset
<1> HIDE DEF E
<1>6. PICK e \in E : \A x \in E : f[e] <= f[x]
  <2>1. \A x \in E : f[x] \in Int
    BY <1>1, <1>5
  <2> QED
    BY <1>5, <2>1, ArgMin
<1>7. Cardinality(Under(f[e])) < k
  <2> DEFINE L == Under(f[e])
  <2>1. CASE L = {}
    <3>1. Cardinality(L) = 0
      BY <2>1, FS_EmptySet
    <3> QED
      BY <1>1, <3>1
  <2>2. CASE L # {}
    <3>1. L \subseteq D /\ IsFiniteSet(L) /\ \A x \in L : f[x] \in Int
      BY <1>1, FS_Subset
    <3> HIDE DEF L
    <3>2. PICK u \in L : \A x \in L : f[x] <= f[u]
      BY <2>2, <3>1, ArgMax
    <3>3. u \in D /\ f[u] < f[e] /\ e \in D /\ f[e] \in Int /\ f[u] \in Int
      BY <1>1, <1>5, <3>1 DEF L
    <3>4. u \notin E
      BY <1>6, <3>3
    <3>5. Upto(f[u]) = L
      BY <1>1, <3>2, <3>3 DEF L
    <3>6. ~(Cardinality(L) >= k)
      BY <3>3, <3>4, <3>5 DEF E
    <3>7. Cardinality(L) \in Nat
      BY <3>1, FS_CardinalityType
    <3> QED
      BY <1>1, <3>6, <3>7 DEF L
  <2> QED
    BY <2>1, <2>2
<1>8. Cardinality(Upto(f[e])) >= k /\ e \in D
  BY DEF E
<1>9. \E v \in Range(f) : /\ Cardinality({a \in DOMAIN f : f[a] < v}) < k
                          /\ Cardinality({a \in DOMAIN f : f[a] <= v}) >= k
  BY <1>7, <1>8 DEF Range
<1>10. KthSmallest(f, k) \in Range(f)
  BY <1>9 DEF KthSmallest
<1> QED
  BY <1>10 DEF Range

(* The median lies between two of the values. *)
LEMMA MedianBetween ==
    ASSUME NEW f, Values(f), DOMAIN f # {}
    PROVE  /\ median(f) \in Int
           /\ \E a, b \in DOMAIN f : f[a] <= median(f) /\ median(f) <= f[b]
<1> DEFINE n == Cardinality(DOMAIN f)
           h == n \div 2
<1>1. n \in Nat /\ n # 0
  BY FS_CardinalityType, FS_EmptySet DEF Values
<1>2. median(f) = IF n % 2 = 1 THEN KthSmallest(f, h + 1)
                  ELSE (KthSmallest(f, h) + KthSmallest(f, h + 1)) \div 2
  BY DEF median
<1> HIDE DEF n
<1>3. CASE n % 2 = 1
  <2>1. h + 1 \in 1 .. n
    BY <1>1, <1>3
  <2>2. PICK a \in DOMAIN f : KthSmallest(f, h + 1) = f[a]
    BY <2>1, KthAttained DEF n
  <2>3. median(f) = f[a] /\ f[a] \in Int
    BY <1>2, <1>3, <2>2 DEF Values
  <2> QED
    BY <2>3
<1>4. CASE n % 2 # 1
  <2>1. h \in 1 .. n /\ h + 1 \in 1 .. n
    BY <1>1, <1>4
  <2>2. PICK a \in DOMAIN f : KthSmallest(f, h) = f[a]
    BY <2>1, KthAttained DEF n
  <2>3. PICK b \in DOMAIN f : KthSmallest(f, h + 1) = f[b]
    BY <2>1, KthAttained DEF n
  <2>4. median(f) = (f[a] + f[b]) \div 2 /\ f[a] \in Int /\ f[b] \in Int
    BY <1>2, <1>4, <2>2, <2>3 DEF Values
  <2>5. CASE f[a] <= f[b]
    <3>1. f[a] <= median(f) /\ median(f) <= f[b] /\ median(f) \in Int
      BY <2>4, <2>5
    <3> QED
      BY <3>1
  <2>6. CASE ~(f[a] <= f[b])
    <3>1. f[b] <= median(f) /\ median(f) <= f[a] /\ median(f) \in Int
      BY <2>4, <2>6
    <3> QED
      BY <3>1
  <2> QED
    BY <2>5, <2>6
<1> QED
  BY <1>3, <1>4

-----------------------------------------------------------------------------
(* Prices of pairs *)

(* A pair that was reported on keeps a reporter. *)
PairsInv ==
    /\ pairs \in [Pairs -> PairType]
    /\ \A p \in Pairs :
          /\ Cardinality(pairs[p].reporters) <= MaxPairReporters
          /\ (\E a \in Accounts : pairs[p].reports[a] # None) => pairs[p].reporters # {}

LEMMA PairsCases ==
    ASSUME [Next]_vars
    PROVE  \/ pairs' = pairs
           \/ \E c \in Accounts, p \in Pairs, v \in PairQuotes : set_price(c, p, v)
<1>1. CASE UNCHANGED vars
  BY <1>1 DEF vars
<1>2. CASE Tick
  BY <1>2 DEF Tick
<1>3. ASSUME NEW c \in Accounts, RoleCall(c) PROVE pairs' = pairs
  BY <1>3 DEF RoleCall, grant_role, revoke_role, grant_role_with_expiration, transfer_admin,
              purge_submitter, oracle_pause, oracle_unpause
<1>4. ASSUME NEW c \in Accounts, LimitCall(c) PROVE pairs' = pairs
  BY <1>4 DEF LimitCall, configure_oracle, update_oracle_config, set_max_staleness_seconds,
              set_max_deviation_bps, set_asset_oracle_config, set_oracle_feeds,
              set_primary_oracle, set_fallback_oracle
<1>5. ASSUME NEW c \in Accounts, NEW v \in Prices, submit_price(c, v) PROVE pairs' = pairs
  BY <1>5 DEF submit_price
<1>6. ASSUME NEW r \in Replies, get_twap_price(r) PROVE pairs' = pairs
  BY <1>6 DEF get_twap_price
<1> QED
  BY <1>1, <1>2, <1>3, <1>4, <1>5, <1>6 DEF Next, PriceCall

LEMMA PairsStep ==
    ASSUME now \in Nat, PairsInv, [Next]_vars
    PROVE  PairsInv'
<1>1. CASE pairs' = pairs
  BY <1>1 DEF PairsInv
<1>2. ASSUME NEW c \in Accounts, NEW p \in Pairs, NEW v \in PairQuotes, set_price(c, p, v)
      PROVE  PairsInv'
  <2> DEFINE active == {a \in pairs[p].reporters : Authorized(a)} \cup {c}
             report == [price |-> v, updated_at |-> now]
             reps == [pairs[p].reports EXCEPT ![c] = report]
             new == [scalar |-> v, reporters |-> active, reports |-> reps]
  <2>1. /\ pairs' = [pairs EXCEPT ![p] = new]
        /\ Cardinality(active) <= MaxPairReporters
    BY <1>2 DEF set_price
  <2>2. v \in Nat /\ report \in [price : Nat, updated_at : Nat]
    BY OraclePriceAssumption
  <2>3. pairs[p] \in PairType
    BY DEF PairsInv
  <2>4. active \in SUBSET Accounts /\ active # {}
    BY <2>3 DEF PairType
  <2> HIDE DEF report
  <2>5. reps \in [Accounts -> [price : Nat, updated_at : Nat] \cup {None}]
    <3>1. pairs[p].reports \in [Accounts -> [price : Nat, updated_at : Nat] \cup {None}]
      BY <2>3 DEF PairType
    <3> QED
      BY <2>2, <3>1
  <2> HIDE DEF active, reps
  <2>6. new \in PairType /\ new.reporters = active
    BY <2>2, <2>4, <2>5 DEF PairType
  <2> HIDE DEF new
  <2>7. \A q \in Pairs : pairs'[q] = IF q = p THEN new ELSE pairs[q]
    BY <2>1 DEF PairsInv
  <2>8. pairs' \in [Pairs -> PairType]
    BY <2>1, <2>6 DEF PairsInv
  <2> QED
    BY <2>1, <2>4, <2>6, <2>7, <2>8 DEF PairsInv
<1> QED
  BY <1>1, <1>2, PairsCases

LEMMA PairsInit == Init => PairsInv
<1> SUFFICES ASSUME Init PROVE PairsInv
  OBVIOUS
<1>1. PICK s \in LegacyScalars :
        pairs = [p \in Pairs |-> [scalar |-> s, reporters |-> {},
                                  reports |-> [a \in Accounts |-> None]]]
  BY DEF Init
<1>2. s \in Nat \cup {None} /\ Cardinality({}) = 0 /\ 0 <= MaxPairReporters
  BY OraclePriceAssumption, OracleNumberAssumption, FS_EmptySet
<1>3. pairs \in [Pairs -> PairType]
  BY <1>1, <1>2 DEF PairType
<1> QED
  BY <1>1, <1>2, <1>3 DEF PairsInv

LEMMA PairsAlways == Spec => [](PricesInv /\ PairsInv)
<1>1. PricesInv /\ PairsInv /\ [Next]_vars => (PricesInv /\ PairsInv)'
  <2> SUFFICES ASSUME PricesInv, PairsInv, [Next]_vars PROVE PricesInv' /\ PairsInv'
    OBVIOUS
  <2>1. now \in Nat
    BY DEF PricesInv
  <2> QED
    BY <2>1, PricesStep, PairsStep
<1> QED
  BY <1>1, PricesInit, PairsInit, PTL DEF Spec

LEMMA PairsBacked == ASSUME PairsInv PROVE PairAnswersBacked
<1> SUFFICES ASSUME NEW p \in Pairs
    PROVE LET reports == pairs[p].reports
              good == {a \in Accounts : /\ Authorized(a) /\ reports[a] # None
                                        /\ now - reports[a].updated_at <= Window(p)}
              read == aggregate_pair_price(p) IN
          /\ Cardinality(pairs[p].reporters) <= MaxPairReporters
          /\ read.error = None /\ (\E a \in Accounts : reports[a] # None) =>
                \E a, b \in good :
                    reports[a].price <= read.price /\ read.price <= reports[b].price
  BY DEF PairAnswersBacked
<1> DEFINE reports == pairs[p].reports
           good == {a \in Accounts : /\ Authorized(a) /\ reports[a] # None
                                     /\ now - reports[a].updated_at <= Window(p)}
           read == aggregate_pair_price(p)
           fresh == FreshReporters(p)
           f == [a \in fresh |-> reports[a].price]
<1>1. pairs[p] \in PairType /\ Cardinality(pairs[p].reporters) <= MaxPairReporters
  BY DEF PairsInv
<1>2. ASSUME read.error = None, \E a \in Accounts : reports[a] # None
      PROVE  \E a, b \in good :
                reports[a].price <= read.price /\ read.price <= reports[b].price
  <2>1. pairs[p].reporters # {} /\ pairs[p].reporters \subseteq Accounts
    BY <1>1, <1>2 DEF PairsInv, PairType
  <2>2. fresh # {}
    <3> SUFFICES ASSUME fresh = {} PROVE FALSE
      OBVIOUS
    <3>1. read = Failure("OracleStalePrice") \/ read = Failure("PriceNotFound")
      BY <2>1 DEF aggregate_pair_price
    <3>2. read.error \in ReadErrors
      BY <3>1 DEF Failure, ReadErrors
    <3> QED
      BY <1>2, <3>2, OracleNoneAssumption
  <2>3. read = Answer(median(f))
    BY <2>1, <2>2 DEF aggregate_pair_price
  <2>4. fresh \subseteq good
    BY <2>1 DEF FreshReporters
  <2>5. IsFiniteSet(fresh)
    BY <2>4, AccountsAssumption, FS_Subset
  <2>6. \A a \in fresh : reports[a].price \in Nat
    <3>1. reports \in [Accounts -> [price : Nat, updated_at : Nat] \cup {None}]
      BY <1>1 DEF PairType
    <3> HIDE DEF reports
    <3>2. \A a \in good : reports[a] \in [price : Nat, updated_at : Nat]
      BY <3>1
    <3> QED
      BY <2>4, <3>2
  <2> HIDE DEF fresh, reports
  <2>7. DOMAIN f = fresh /\ \A a \in fresh : f[a] = reports[a].price
    OBVIOUS
  <2>8. Values(f)
    BY <2>5, <2>6, <2>7 DEF Values
  <2> HIDE DEF f
  <2>9. PICK a \in fresh, b \in fresh : f[a] <= median(f) /\ median(f) <= f[b]
    BY <2>2, <2>7, <2>8, MedianBetween
  <2>10. read.price = median(f)
    BY <2>3 DEF Answer
  <2> HIDE DEF read, good
  <2> QED
    BY <2>4, <2>7, <2>9, <2>10
<1> QED
  BY <1>1, <1>2

(* For any accounts, roles, windows and reports, what a reader gets of a   *)
(* pair that was reported on lies between two fresh reports of accounts    *)
(* that hold their role now (set_price, aggregate_pair_price).             *)
THEOREM PairsHold == Spec => []PairAnswersBacked
<1>1. PricesInv /\ PairsInv => PairAnswersBacked
  BY PairsBacked
<1> QED
  BY <1>1, PairsAlways, PTL

-----------------------------------------------------------------------------
(* Quotes: what is stored as a price is above zero and bears a time *)

QuotesInv ==
    /\ config # None => config.min_submitters \in Nat \ {0} /\ config.max_staleness \in Nat
    /\ \A a \in Accounts : submissions[a] # None =>
          submissions[a].price \in Nat \ {0} /\ submissions[a].updated_at \in Nat
    /\ \A i \in DOMAIN observations :
          observations[i].price \in Nat \ {0} /\ observations[i].timestamp \in Nat

LEMMA MaxZero ==
    ASSUME NEW x \in Int
    PROVE  Max({0, x}) \in Nat /\ Max({0, x}) = IF x > 0 THEN x ELSE 0
<1>1. \E y \in {0, x} : \A z \in {0, x} : y >= z
  OBVIOUS
<1>2. Max({0, x}) \in {0, x} /\ \A z \in {0, x} : Max({0, x}) >= z
  BY <1>1 DEF Max
<1> QED
  BY <1>2

(* The median of prices above zero is above zero. *)
LEMMA MedianPositive ==
    ASSUME NEW subs, NEW among, IsFiniteSet(among), among # {},
           \A a \in among : subs[a].price \in Nat \ {0}
    PROVE  MedianOf(subs, among) \in Nat \ {0}
<1> DEFINE f == [a \in among |-> subs[a].price]
<1>1. Values(f) /\ DOMAIN f = among /\ \A a \in among : f[a] \in Nat \ {0}
  BY DEF Values
<1>2. MedianOf(subs, among) = median(f)
  BY DEF MedianOf
<1> HIDE DEF f
<1>3. PICK a \in among : median(f) \in Int /\ f[a] <= median(f)
  BY <1>1, MedianBetween
<1> QED
  BY <1>1, <1>2, <1>3

LEMMA AggregatePositive ==
    ASSUME NEW subs, NEW among, among \subseteq Accounts, NEW v \in Nat \ {0},
           \A a \in among : subs[a] # None => subs[a].price \in Nat \ {0}
    PROVE  Aggregate(subs, among, v) \in Nat \ {0}
<1> DEFINE fresh == FreshSubmitters(subs, among)
<1>1. fresh \subseteq among /\ \A a \in fresh : subs[a] # None
  BY DEF FreshSubmitters
<1>2. IsFiniteSet(fresh) /\ \A a \in fresh : subs[a].price \in Nat \ {0}
  BY <1>1, AccountsAssumption, FS_Subset
<1>3. CASE config = None \/ fresh = {}
  BY <1>3 DEF Aggregate
<1>4. CASE ~(config = None \/ fresh = {})
  <2>1. Aggregate(subs, among, v) = MedianOf(subs, fresh)
    BY <1>4 DEF Aggregate
  <2> HIDE DEF fresh
  <2> QED
    BY <1>2, <1>4, <2>1, MedianPositive
<1> QED
  BY <1>3, <1>4

(* What a feed answers is a price above zero that bears a time. *)
LEMMA AnswerQuoted ==
    ASSUME PricesInv, QuotesInv, NEW feed, NEW window, NEW r \in Replies,
           query_oracle_feed(feed, window, r) # None
    PROVE  /\ query_oracle_feed(feed, window, r).price \in Nat \ {0}
           /\ query_oracle_feed(feed, window, r).updated_at \in Nat
<1>1. now \in Nat
  BY DEF PricesInv
<1>2. CASE feed \in Accounts /\ submissions[feed] # None
  <2>1. query_oracle_feed(feed, window, r) = submissions[feed]
    BY <1>2 DEF query_oracle_feed
  <2> QED
    BY <1>2, <2>1 DEF QuotesInv
<1>3. CASE ~(feed \in Accounts /\ submissions[feed] # None)
  <2>1. feed \in External
    BY <1>3 DEF query_oracle_feed
  <2>2. r[feed] \in [form : {"twap", "latest", "none"}, price : Nat, age : Int]
    BY <2>1, OracleFeedAssumption
  <2>3. r[feed].age \in Int /\ r[feed].price \in Nat
    BY <2>2
  <2> DEFINE at == Max({0, now - r[feed].age})
             twap == [price |-> r[feed].price, updated_at |-> now]
             latest == [price |-> r[feed].price, updated_at |-> at]
  <2>4. at \in Nat
    <3>1. now - r[feed].age \in Int
      BY <1>1, <2>3
    <3> QED
      BY <3>1, MaxZero
  <2> HIDE DEF at
  <2>5. /\ query_oracle_feed(feed, window, r) \in {twap, latest}
        /\ r[feed].price > 0
    BY <1>3, <2>1 DEF query_oracle_feed, Usable, at
  <2>6. /\ twap.updated_at \in Nat /\ latest.updated_at \in Nat
        /\ twap.price = r[feed].price /\ latest.price = r[feed].price
    BY <1>1, <2>4
  <2> QED
    BY <2>3, <2>5, <2>6
<1> QED
  BY <1>2, <1>3

(* A recorded price above zero at a time keeps the observations in order. *)
LEMMA RecordedQuoted ==
    ASSUME PricesInv, QuotesInv, NEW v \in Nat \ {0}, NEW t \in Nat,
           Recordable(observations, t), observations' = Recorded(observations, v, t)
    PROVE  \A i \in DOMAIN observations' :
              observations'[i].price \in Nat \ {0} /\ observations'[i].timestamp \in Nat
<1> DEFINE entry == [price |-> v, timestamp |-> t, scale |-> CurrentScale]
<1>1. Ordered(observations) /\ t \in Int
  BY DEF PricesInv
<1>2. \A i \in DOMAIN observations' :
          observations'[i] = entry \/ \E j \in DOMAIN observations : observations'[i] = observations[j]
  BY <1>1, RecordedOrdered
<1>3. entry.price = v /\ entry.timestamp = t
  OBVIOUS
<1> HIDE DEF entry
<1> QED
  BY <1>2, <1>3 DEF QuotesInv

LEMMA QuotesStep ==
    ASSUME PricesInv, QuotesInv, [Next]_vars
    PROVE  QuotesInv'
<1>0. /\ now \in Nat /\ config \in ConfigType \cup {None}
      /\ submissions \in [Accounts -> PriceData \cup {None}] /\ submitters \subseteq Accounts
      /\ \A a \in Accounts : submissions[a] # None =>
            submissions[a].price \in Nat \ {0} /\ submissions[a].updated_at \in Nat
      /\ \A i \in DOMAIN observations :
            observations[i].price \in Nat \ {0} /\ observations[i].timestamp \in Nat
  BY DEF PricesInv, Backed, QuotesInv
<1>1. ASSUME NEW c \in Accounts, NEW v \in Prices, submit_price(c, v)
      PROVE  QuotesInv'
  <2> DEFINE data == [price |-> v, updated_at |-> now, scale |-> CurrentScale]
             subs == [submissions EXCEPT ![c] = data]
             agg == Aggregate(subs, submitters \cup {c}, v)
  <2>1. /\ config' = config /\ submissions' = subs
        /\ Recordable(observations, now)
        /\ observations' = Recorded(observations, agg, now)
        /\ v > 0
    BY <1>1 DEF submit_price, limitVars
  <2>2. v \in Nat \ {0}
    BY <2>1, OraclePriceAssumption
  <2>3. data.price = v /\ data.updated_at = now
    OBVIOUS
  <2> HIDE DEF data
  <2>4. \A a \in Accounts : subs[a] = IF a = c THEN data ELSE submissions[a]
    BY <1>0
  <2> HIDE DEF subs
  <2>5. \A a \in Accounts : subs[a] # None =>
            subs[a].price \in Nat \ {0} /\ subs[a].updated_at \in Nat
    BY <1>0, <2>2, <2>3, <2>4
  <2>6. agg \in Nat \ {0}
    <3>1. submitters \cup {c} \subseteq Accounts
      BY <1>0
    <3> QED
      BY <2>2, <2>5, <3>1, AggregatePositive
  <2> HIDE DEF agg
  <2>7. \A i \in DOMAIN observations' :
            observations'[i].price \in Nat \ {0} /\ observations'[i].timestamp \in Nat
    BY <1>0, <2>1, <2>6, RecordedQuoted
  <2> QED
    BY <2>1, <2>5, <2>7 DEF QuotesInv
<1>2. ASSUME NEW b \in Accounts, remove_submitter(b), UNCHANGED <<now, config>>
      PROVE  QuotesInv'
  <2>1. observations' = observations /\ submissions' = [submissions EXCEPT ![b] = None]
    BY <1>2 DEF remove_submitter
  <2>2. \A a \in Accounts : submissions'[a] \in {submissions[a], None}
    BY <1>0, <2>1
  <2> QED
    BY <1>2, <2>1, <2>2 DEF QuotesInv
<1>3. ASSUME NEW new \in ConfigType, store_oracle_config(new)
      PROVE  QuotesInv'
  <2>1. /\ config' = new /\ new.min_submitters \in 1 .. MaxSubmitters
        /\ observations' \in {observations, <<>>}
        /\ \A a \in Accounts : submissions'[a] \in {submissions[a], None}
    BY <1>3 DEF store_oracle_config, ValidConfig
  <2>2. new.min_submitters \in Nat \ {0} /\ new.max_staleness \in Nat
    BY <2>1 DEF ConfigType
  <2>3. \A i \in DOMAIN observations' :
            observations'[i].price \in Nat \ {0} /\ observations'[i].timestamp \in Nat
    BY <1>0, <2>1
  <2> QED
    BY <1>0, <2>1, <2>2, <2>3 DEF QuotesInv
<1>4. ASSUME NEW r \in Replies, get_twap_price(r)
      PROVE  QuotesInv'
  <2> DEFINE data == resolve_oracle_with_failover(config.max_staleness, r)
  <2>1. /\ config' = config /\ submissions' = submissions /\ data # None
        /\ Recordable(observations, data.updated_at)
        /\ observations' = Recorded(observations, data.price, data.updated_at)
    BY <1>4 DEF get_twap_price, limitVars
  <2>2. \E feed : data = query_oracle_feed(feed, config.max_staleness, r)
    BY <2>1 DEF resolve_oracle_with_failover
  <2>3. data.price \in Nat \ {0} /\ data.updated_at \in Nat
    BY <2>1, <2>2, AnswerQuoted
  <2> HIDE DEF data
  <2>4. \A i \in DOMAIN observations' :
            observations'[i].price \in Nat \ {0} /\ observations'[i].timestamp \in Nat
    BY <2>1, <2>3, RecordedQuoted
  <2> QED
    BY <2>1, <2>4 DEF QuotesInv
<1>5. CASE Aside
  <2>1. UNCHANGED priceVars
    BY <1>5 DEF Aside
  <2>2. config' # None => /\ config # None /\ config'.min_submitters = config.min_submitters
                          /\ config' \in ConfigType
    BY <1>0, <1>5 DEF Aside
  <2>3. config' # None => config'.min_submitters \in Nat \ {0} /\ config'.max_staleness \in Nat
    BY <2>2 DEF QuotesInv, ConfigType
  <2> QED
    BY <1>0, <2>1, <2>3 DEF QuotesInv, priceVars
<1> QED
  BY <1>1, <1>2, <1>3, <1>4, <1>5, OracleCases

LEMMA QuotesInit == Init => QuotesInv
<1> SUFFICES ASSUME Init PROVE QuotesInv
  OBVIOUS
<1>1. /\ config \in InitialConfigs
      /\ submissions = [a \in Accounts |-> None] /\ observations = <<>>
  BY DEF Init
<1>2. config # None => config.min_submitters \in Nat \ {0} /\ config.max_staleness \in Nat
  <2> SUFFICES ASSUME config # None
               PROVE  config.min_submitters \in Nat \ {0} /\ config.max_staleness \in Nat
    OBVIOUS
  <2>1. config \in ConfigType /\ config.min_submitters \in 1 .. MaxSubmitters
    BY <1>1, OracleConfigAssumption, OracleInitialAssumption DEF ValidConfig
  <2> QED
    BY <2>1 DEF ConfigType
<1> QED
  BY <1>1, <1>2 DEF QuotesInv

LEMMA QuotesAlways == Spec => [](PricesInv /\ QuotesInv)
<1>1. PricesInv /\ QuotesInv /\ [Next]_vars => (PricesInv /\ QuotesInv)'
  BY PricesStep, QuotesStep
<1> QED
  BY <1>1, PricesInit, QuotesInit, PTL DEF Spec

-----------------------------------------------------------------------------
(* The average *)

LEMMA MinThree ==
    ASSUME NEW a \in Int, NEW b \in Int, NEW c \in Int
    PROVE  /\ Min({a, b, c}) \in {a, b, c}
           /\ Min({a, b, c}) <= a /\ Min({a, b, c}) <= b /\ Min({a, b, c}) <= c
<1>1. \E x \in {a, b, c} : \A y \in {a, b, c} : x <= y
  OBVIOUS
<1>2. Min({a, b, c}) \in {a, b, c} /\ \A y \in {a, b, c} : Min({a, b, c}) <= y
  BY <1>1 DEF Min
<1> QED
  BY <1>2

(* When observation i stops counting *)
EndOf(i, window) ==
    Min({IF i < Len(observations) THEN observations[i + 1].timestamp ELSE now,
         now, observations[i].timestamp + window})

FirstUsed(n) == Max({0, Len(observations) - n}) + 1
UsedOf(n) == FirstUsed(n) .. Len(observations)
WeightsOf(n, window) == [i \in UsedOf(n) |-> Weight(observations, i, window)]
ValuesOf(n, window) == [i \in UsedOf(n) |-> observations[i].price * WeightsOf(n, window)[i]]

LEMMA UsedFinite ==
    ASSUME PricesInv, NEW n \in Nat
    PROVE  /\ FirstUsed(n) \in Nat \ {0} /\ Len(observations) \in Nat
           /\ UsedOf(n) \subseteq DOMAIN observations /\ IsFiniteSet(UsedOf(n))
           /\ DOMAIN observations = 1 .. Len(observations)
<1>1. Len(observations) \in Nat /\ DOMAIN observations = 1 .. Len(observations)
  BY DEF PricesInv, Ordered
<1>2. FirstUsed(n) \in Nat \ {0}
  <2>1. Len(observations) - n \in Int
    BY <1>1
  <2>2. Max({0, Len(observations) - n}) \in Nat
    BY <2>1, MaxZero
  <2> QED
    BY <2>2 DEF FirstUsed
<1>3. UsedOf(n) \subseteq DOMAIN observations
  BY <1>1, <1>2 DEF UsedOf
<1>4. IsFiniteSet(UsedOf(n))
  BY <1>1, <1>2, FS_Interval DEF UsedOf
<1> QED
  BY <1>1, <1>2, <1>3, <1>4

LEMMA WeightIs ==
    ASSUME PricesInv, QuotesInv, NEW window \in Nat, NEW i \in DOMAIN observations
    PROVE  /\ EndOf(i, window) \in Nat /\ Weight(observations, i, window) \in Nat
           /\ Weight(observations, i, window) =
                IF EndOf(i, window) > observations[i].timestamp
                THEN EndOf(i, window) - observations[i].timestamp ELSE 0
           /\ EndOf(i, window) <= now /\ EndOf(i, window) <= observations[i].timestamp + window
           /\ i < Len(observations) => EndOf(i, window) <= observations[i + 1].timestamp
           /\ \/ EndOf(i, window) = now \/ EndOf(i, window) = observations[i].timestamp + window
              \/ i < Len(observations) /\ EndOf(i, window) = observations[i + 1].timestamp
<1> DEFINE ts == observations[i].timestamp
           next == IF i < Len(observations) THEN observations[i + 1].timestamp ELSE now
           end == Min({next, now, ts + window})
<1>1. /\ now \in Nat /\ ts \in Nat /\ next \in Nat
      /\ i < Len(observations) => next = observations[i + 1].timestamp
      /\ ~(i < Len(observations)) => next = now
  <2>1. now \in Nat /\ DOMAIN observations = 1 .. Len(observations) /\ Len(observations) \in Nat
    BY DEF PricesInv, Ordered
  <2>2. i < Len(observations) => i + 1 \in DOMAIN observations
    BY <2>1
  <2> QED
    BY <2>1, <2>2 DEF QuotesInv
<1>2. EndOf(i, window) = end /\ Weight(observations, i, window) = Max({0, end - ts})
  BY DEF EndOf, Weight
<1> HIDE DEF ts, next
<1>3. ts + window \in Nat /\ ts + window \in Int /\ next \in Int /\ now \in Int
  BY <1>1
<1>4. end \in {next, now, ts + window} /\ end <= next /\ end <= now /\ end <= ts + window
  <2> DEFINE third == ts + window
  <2>1. third \in Int
    BY <1>3
  <2> HIDE DEF third
  <2>2. /\ Min({next, now, third}) \in {next, now, third}
        /\ Min({next, now, third}) <= next /\ Min({next, now, third}) <= now
        /\ Min({next, now, third}) <= third
    BY <1>3, <2>1, MinThree
  <2> QED
    BY <2>2 DEF third
<1> HIDE DEF end
<1>5. end \in Nat /\ end - ts \in Int
  BY <1>1, <1>3, <1>4
<1>6. Max({0, end - ts}) \in Nat /\ Max({0, end - ts}) = IF end - ts > 0 THEN end - ts ELSE 0
  BY <1>5, MaxZero
<1>7. /\ end \in Nat /\ Weight(observations, i, window) \in Nat
      /\ Weight(observations, i, window) = IF end > ts THEN end - ts ELSE 0
      /\ end <= now /\ end <= ts + window
      /\ i < Len(observations) => end <= observations[i + 1].timestamp
      /\ \/ end = now \/ end = ts + window
         \/ i < Len(observations) /\ end = observations[i + 1].timestamp
  <2>1. end - ts > 0 <=> end > ts
    BY <1>1, <1>5
  <2> QED
    BY <1>1, <1>2, <1>4, <1>5, <1>6, <2>1
<1> QED
  BY <1>2, <1>7 DEF ts

LEMMA TwapIs ==
    ASSUME NEW n, NEW window
    PROVE  /\ calculate_twap(observations, n, window) =
                IF SumOf(WeightsOf(n, window), UsedOf(n)) = 0 THEN None
                ELSE SumOf(ValuesOf(n, window), UsedOf(n))
                       \div SumOf(WeightsOf(n, window), UsedOf(n))
<1>1. DOMAIN WeightsOf(n, window) = UsedOf(n) /\ DOMAIN ValuesOf(n, window) = UsedOf(n)
  BY DEF WeightsOf, ValuesOf
<1>2. calculate_twap(observations, n, window) =
        IF SumOver(WeightsOf(n, window)) = 0 THEN None
        ELSE SumOver(ValuesOf(n, window)) \div SumOver(WeightsOf(n, window))
  BY DEF calculate_twap, WeightsOf, ValuesOf, UsedOf, FirstUsed
<1>3. /\ SumOver(WeightsOf(n, window)) = SumOf(WeightsOf(n, window), UsedOf(n))
      /\ SumOver(ValuesOf(n, window)) = SumOf(ValuesOf(n, window), UsedOf(n))
  BY <1>1 DEF SumOver, SumOf
<1> QED
  BY <1>2, <1>3

LEMMA QuotientPositive ==
    ASSUME NEW a \in Nat, NEW b \in Nat \ {0}, a >= b
    PROVE  a \div b \in Nat \ {0}
<1> DEFINE q == a \div b
<1>1. q \in Int /\ a % b \in 0 .. (b - 1) /\ a = q * b + (a % b)
  OBVIOUS
<1> HIDE DEF q
<1>2. CASE q <= 0
  <2>1. PICK d \in Nat : q = -d
    <3>1. -q \in Nat /\ q = -(-q)
      BY <1>1, <1>2
    <3> QED
      BY <3>1
  <2>2. d * b \in Nat /\ q * b = -(d * b)
    BY <2>1
  <2> QED
    BY <1>1, <2>2
<1>3. CASE q > 0
  BY <1>1, <1>3 DEF q
<1> QED
  BY <1>1, <1>2, <1>3

(* The average of prices above zero is above zero. *)
LEMMA TwapPositive ==
    ASSUME PricesInv, QuotesInv, NEW n \in Nat, NEW window \in Nat,
           calculate_twap(observations, n, window) # None
    PROVE  calculate_twap(observations, n, window) \in Nat \ {0}
<1> DEFINE w == WeightsOf(n, window)
           v == ValuesOf(n, window)
           U == UsedOf(n)
<1>1. IsFiniteSet(U) /\ U \subseteq DOMAIN observations
  BY UsedFinite
<1>2. \A i \in U : w[i] = Weight(observations, i, window) /\ v[i] = observations[i].price * w[i]
  BY DEF WeightsOf, ValuesOf
<1>3. calculate_twap(observations, n, window) =
        IF SumOf(w, U) = 0 THEN None ELSE SumOf(v, U) \div SumOf(w, U)
  BY TwapIs
<1> HIDE DEF w, v, U
<1>4. \A i \in U : w[i] \in Nat /\ v[i] \in Nat /\ w[i] <= v[i]
  <2> SUFFICES ASSUME NEW i \in U PROVE w[i] \in Nat /\ v[i] \in Nat /\ w[i] <= v[i]
    OBVIOUS
  <2>1. w[i] \in Nat
    BY <1>1, <1>2, WeightIs
  <2>2. PICK d \in Nat : observations[i].price = d + 1
    <3>1. observations[i].price \in Nat \ {0}
      BY <1>1 DEF QuotesInv
    <3>2. observations[i].price - 1 \in Nat /\ observations[i].price = (observations[i].price - 1) + 1
      BY <3>1
    <3> QED
      BY <3>2
  <2>3. v[i] = d * w[i] + w[i] /\ d * w[i] \in Nat
    BY <1>2, <2>1, <2>2
  <2> QED
    BY <2>1, <2>3
<1>5. Below(w, v, U)
  BY <1>1, <1>4 DEF Below
<1>6. SumOf(w, U) \in Nat /\ SumOf(v, U) \in Nat /\ SumOf(w, U) <= SumOf(v, U)
  BY <1>5, SumMono DEF SumBelow
<1>7. SumOf(w, U) # 0
  BY <1>3
<1> QED
  BY <1>3, <1>6, <1>7, QuotientPositive

LEMMA StatusOfRead ==
    ASSUME PricesInv, QuotesInv
    PROVE  StatusPredictsRead
<1> SUFFICES ASSUME config # None, NEW n \in 1 .. MaxTwapObservations
             PROVE  IF load_price_status.error # None
                    THEN LocalRead(n).error = load_price_status.error
                    ELSE /\ load_price_status.stale <=> LocalRead(n).error = "OracleStalePrice"
                         /\ load_price_status.fresh_submitter_count >= config.min_submitters
                              <=> LocalRead(n).error = None
                         /\ LocalRead(n).error = None => LocalRead(n).price > 0
  BY DEF StatusPredictsRead
<1> DEFINE have == {a \in submitters : submissions[a] # None}
           fresh == FreshSubmitters(submissions, submitters)
           twap == calculate_twap(observations, n, config.max_staleness)
           status == load_price_status
           read == LocalRead(n)
<1>1. /\ now \in Nat /\ submitters \subseteq Accounts /\ n \in Nat
      /\ config.min_submitters \in Nat \ {0} /\ config.max_staleness \in Nat
  BY OracleNumberAssumption DEF PricesInv, Backed, QuotesInv
<1>2. fresh = {a \in have : now - submissions[a].updated_at <= config.max_staleness}
  BY DEF FreshSubmitters, IsFresh
<1>3. /\ IsFiniteSet(fresh) /\ Cardinality(fresh) \in Nat /\ fresh \subseteq have
      /\ Cardinality(fresh) = 0 <=> fresh = {}
  <2>1. fresh \subseteq Accounts /\ fresh \subseteq have
    BY <1>1, <1>2
  <2>2. IsFiniteSet(fresh)
    BY <2>1, AccountsAssumption, FS_Subset
  <2> QED
    BY <2>1, <2>2, FS_CardinalityType, FS_EmptySet
<1>4. \A a \in fresh : submissions[a].price \in Nat \ {0}
  BY <1>1, <1>3 DEF QuotesInv
<1>5. status = IF have = {} THEN Failure("NoPriceAvailable")
               ELSE [error |-> None, fresh_submitter_count |-> Cardinality(fresh),
                     stale |-> fresh = {}]
  BY <1>2 DEF load_price_status
<1>6. read = IF fresh = {}
             THEN Failure(IF have # {} THEN "OracleStalePrice" ELSE "NoPriceAvailable")
             ELSE IF Cardinality(fresh) < config.min_submitters THEN Failure("InsufficientQuorum")
             ELSE Answer(IF twap = None THEN MedianOf(submissions, fresh) ELSE twap)
  BY DEF LocalRead
<1>7. None \notin {"OracleStalePrice", "NoPriceAvailable", "InsufficientQuorum"}
  BY OracleNoneAssumption DEF ReadErrors
<1>8. twap # None => twap \in Nat \ {0}
  BY <1>1, TwapPositive
<1>9. fresh # {} => MedianOf(submissions, fresh) \in Nat \ {0}
  <2> HIDE DEF fresh
  <2> QED
    BY <1>3, <1>4, MedianPositive
<1> HIDE DEF status, read, twap, fresh, have
<1>10. CASE have = {}
  <2>1. status.error = "NoPriceAvailable" /\ read.error = "NoPriceAvailable"
    BY <1>3, <1>5, <1>6, <1>10 DEF Failure
  <2> QED
    BY <1>7, <2>1 DEF status, read
<1>11. CASE have # {}
  <2>1. /\ status.error = None /\ status.fresh_submitter_count = Cardinality(fresh)
        /\ status.stale = (fresh = {})
    BY <1>5, <1>11
  <2>2. CASE fresh = {}
    <3>1. read.error = "OracleStalePrice"
      BY <1>6, <1>11, <2>2 DEF Failure
    <3>2. Cardinality(fresh) = 0
      BY <1>3, <2>2
    <3>3. status.stale <=> read.error = "OracleStalePrice"
      BY <2>1, <2>2, <3>1, Zenon
    <3>4. ~(status.fresh_submitter_count >= config.min_submitters) /\ read.error # None
      BY <1>1, <1>7, <2>1, <3>1, <3>2
    <3> QED
      BY <2>1, <3>3, <3>4, Zenon DEF status, read
  <2>3. CASE fresh # {} /\ Cardinality(fresh) < config.min_submitters
    <3>1. read.error = "InsufficientQuorum"
      BY <1>6, <2>3 DEF Failure
    <3>2. read.error # "OracleStalePrice"
      BY <3>1
    <3>3. status.stale <=> read.error = "OracleStalePrice"
      BY <2>1, <2>3, <3>2, Zenon
    <3>4. ~(status.fresh_submitter_count >= config.min_submitters) /\ read.error # None
      BY <1>1, <1>3, <1>7, <2>1, <2>3, <3>1
    <3> QED
      BY <2>1, <3>3, <3>4, Zenon DEF status, read
  <2>4. CASE fresh # {} /\ ~(Cardinality(fresh) < config.min_submitters)
    <3>1. /\ read.error = None
          /\ read.price = IF twap = None THEN MedianOf(submissions, fresh) ELSE twap
      BY <1>6, <2>4 DEF Answer
    <3>2. read.price \in Nat \ {0}
      BY <1>8, <1>9, <2>4, <3>1
    <3>3. read.error # "OracleStalePrice"
      BY <1>7, <3>1
    <3>4. status.stale <=> read.error = "OracleStalePrice"
      BY <2>1, <2>4, <3>3, Zenon
    <3>5. status.fresh_submitter_count >= config.min_submitters /\ read.price > 0
      BY <1>1, <1>3, <2>1, <2>4, <3>2
    <3> QED
      BY <2>1, <3>1, <3>4, <3>5, Zenon DEF status, read
  <2> QED
    BY <2>2, <2>3, <2>4
<1> QED
  BY <1>10, <1>11

(* For any submissions, configuration and times: while no feed is set, the *)
(* published status says what a read of any length will do, and a read     *)
(* that answers gives a price above zero (load_price_status against        *)
(* get_twap_price_inner).                                                  *)
THEOREM StatusHolds == Spec => []StatusPredictsRead
<1>1. PricesInv /\ QuotesInv => StatusPredictsRead
  BY StatusOfRead
<1> QED
  BY <1>1, QuotesAlways, PTL

(* The seconds for which observation i counts *)
SpanOf(i, window) == observations[i].timestamp .. (EndOf(i, window) - 1)

LEMMA SpanIs ==
    ASSUME PricesInv, QuotesInv, NEW n \in Nat, NEW window \in Nat, NEW i \in UsedOf(n), NEW s
    PROVE  s \in SpanOf(i, window) <=> s \in 0 .. now - 1 /\ i \in InForce(FirstUsed(n), s, window)
<1> DEFINE ts == observations[i].timestamp
           end == EndOf(i, window)
<1>1. /\ DOMAIN observations = 1 .. Len(observations) /\ Len(observations) \in Nat
      /\ FirstUsed(n) \in Nat \ {0} /\ i \in FirstUsed(n) .. Len(observations)
      /\ i \in DOMAIN observations /\ i \in Nat /\ now \in Nat
  <2>1. /\ DOMAIN observations = 1 .. Len(observations) /\ Len(observations) \in Nat
        /\ FirstUsed(n) \in Nat \ {0} /\ UsedOf(n) \subseteq DOMAIN observations
    BY UsedFinite
  <2> QED
    BY <2>1 DEF UsedOf, PricesInv
<1>2. /\ end \in Nat /\ end <= now /\ end <= ts + window
      /\ i < Len(observations) => end <= observations[i + 1].timestamp
      /\ \/ end = now \/ end = ts + window
         \/ i < Len(observations) /\ end = observations[i + 1].timestamp
  BY <1>1, WeightIs
<1>3. /\ \A j \in DOMAIN observations : observations[j].timestamp \in Nat
      /\ \A j, k \in DOMAIN observations :
            j < k => observations[j].timestamp < observations[k].timestamp
  BY DEF PricesInv, Ordered, QuotesInv
<1>4. ts \in Nat
  BY <1>1, <1>3
<1>5. i \in InForce(FirstUsed(n), s, window) <=>
        /\ ts <= s /\ s < ts + window
        /\ \A j \in i + 1 .. Len(observations) : observations[j].timestamp > s
  BY <1>1 DEF InForce
<1>6. s \in SpanOf(i, window) <=> s \in Int /\ ts <= s /\ s <= end - 1
  BY <1>2, <1>4 DEF SpanOf
<1> HIDE DEF ts, end
<1>7. ASSUME s \in SpanOf(i, window)
      PROVE  s \in 0 .. now - 1 /\ i \in InForce(FirstUsed(n), s, window)
  <2>1. s \in Int /\ ts <= s /\ s < end
    BY <1>2, <1>6, <1>7
  <2>2. s \in 0 .. now - 1 /\ s < ts + window
    BY <1>1, <1>2, <1>4, <2>1
  <2>3. ASSUME NEW j \in i + 1 .. Len(observations)
        PROVE  observations[j].timestamp > s
    <3>1. /\ i < Len(observations) /\ i + 1 \in DOMAIN observations /\ j \in DOMAIN observations
          /\ i + 1 < j \/ i + 1 = j
      BY <1>1
    <3>2. observations[i + 1].timestamp <= observations[j].timestamp
      BY <1>3, <3>1
    <3>3. observations[i + 1].timestamp \in Nat /\ observations[j].timestamp \in Nat
      BY <1>3, <3>1
    <3> QED
      BY <1>2, <2>1, <3>1, <3>2, <3>3
  <2> QED
    BY <1>5, <2>1, <2>2, <2>3
<1>8. ASSUME s \in 0 .. now - 1, i \in InForce(FirstUsed(n), s, window)
      PROVE  s \in SpanOf(i, window)
  <2>1. s \in Nat /\ s < now /\ ts <= s /\ s < ts + window
    BY <1>1, <1>5, <1>8
  <2>2. i < Len(observations) => s < observations[i + 1].timestamp
    <3> SUFFICES ASSUME i < Len(observations) PROVE s < observations[i + 1].timestamp
      OBVIOUS
    <3>1. i + 1 \in i + 1 .. Len(observations) /\ i + 1 \in DOMAIN observations
      BY <1>1
    <3> QED
      BY <1>3, <1>5, <1>8, <2>1, <3>1
  <2>3. s < end
    BY <1>2, <2>1, <2>2
  <2> QED
    BY <1>2, <1>6, <2>1, <2>3
<1> QED
  BY <1>7, <1>8

LEMMA SpanSize ==
    ASSUME PricesInv, QuotesInv, NEW window \in Nat, NEW i \in DOMAIN observations
    PROVE  /\ IsFiniteSet(SpanOf(i, window))
           /\ Cardinality(SpanOf(i, window)) = Weight(observations, i, window)
<1> DEFINE ts == observations[i].timestamp
           end == EndOf(i, window)
           last == end - 1
<1>1. /\ end \in Nat /\ ts \in Nat
      /\ Weight(observations, i, window) = IF end > ts THEN end - ts ELSE 0
  BY WeightIs DEF QuotesInv
<1>2. SpanOf(i, window) = ts .. last
  BY DEF SpanOf
<1> HIDE DEF ts, end
<1>3. last \in Int /\ ts \in Int /\ (ts > last <=> ~(end > ts)) /\ last - ts + 1 = end - ts
  BY <1>1
<1> HIDE DEF last
<1>4. IsFiniteSet(ts .. last) /\ Cardinality(ts .. last) = IF ts > last THEN 0 ELSE last - ts + 1
  BY <1>3, FS_Interval
<1> QED
  BY <1>1, <1>2, <1>3, <1>4

(* No second counts for two observations. *)
LEMMA SpanUnique ==
    ASSUME PricesInv, QuotesInv, NEW n \in Nat, NEW window \in Nat,
           NEW i \in UsedOf(n), NEW j \in UsedOf(n), NEW s,
           s \in SpanOf(i, window), s \in SpanOf(j, window)
    PROVE  i = j
<1>1. /\ FirstUsed(n) \in Nat \ {0} /\ Len(observations) \in Nat
      /\ i \in FirstUsed(n) .. Len(observations) /\ j \in FirstUsed(n) .. Len(observations)
  BY UsedFinite DEF UsedOf
<1>2. /\ i \in InForce(FirstUsed(n), s, window) /\ j \in InForce(FirstUsed(n), s, window)
      /\ s \in 0 .. now - 1
  BY SpanIs
<1>3. /\ observations[i].timestamp <= s /\ observations[j].timestamp <= s /\ s \in Int
      /\ \A k \in i + 1 .. Len(observations) : observations[k].timestamp > s
      /\ \A k \in j + 1 .. Len(observations) : observations[k].timestamp > s
  <2>1. s \in Int
    BY <1>2 DEF PricesInv
  <2>2. /\ observations[i].timestamp <= s
        /\ \A k \in i + 1 .. Len(observations) : observations[k].timestamp > s
    BY <1>2 DEF InForce
  <2>3. /\ observations[j].timestamp <= s
        /\ \A k \in j + 1 .. Len(observations) : observations[k].timestamp > s
    BY <1>2 DEF InForce
  <2> QED
    BY <2>1, <2>2, <2>3
<1>4. observations[i].timestamp \in Nat /\ observations[j].timestamp \in Nat
  BY UsedFinite DEF QuotesInv
<1>5. CASE i < j
  <2>1. j \in i + 1 .. Len(observations)
    BY <1>1, <1>5
  <2> QED
    BY <1>3, <1>4, <2>1
<1>6. CASE j < i
  <2>1. i \in j + 1 .. Len(observations)
    BY <1>1, <1>6
  <2>2. observations[i].timestamp > s /\ observations[i].timestamp <= s
    BY <1>3, <2>1
  <2> QED
    BY <1>3, <1>4, <2>2
<1> QED
  BY <1>1, <1>5, <1>6

(* The seconds that count, and the price in force at each *)
CoveredBy(n, window) == {s \in 0 .. now - 1 : InForce(FirstUsed(n), s, window) # {}}
PricesBy(n, window) ==
    [s \in CoveredBy(n, window) |->
        observations[CHOOSE i \in InForce(FirstUsed(n), s, window) : TRUE].price]

(* The sum over the list is the sum over the seconds it covers. *)
LEMMA TwapBySeconds ==
    ASSUME PricesInv, QuotesInv, NEW n \in Nat, NEW window \in Nat
    PROVE  /\ SumOver(PricesBy(n, window)) = SumOf(ValuesOf(n, window), UsedOf(n))
           /\ Cardinality(CoveredBy(n, window)) = SumOf(WeightsOf(n, window), UsedOf(n))
           /\ Cardinality(CoveredBy(n, window)) = 0 <=> CoveredBy(n, window) = {}
<1> DEFINE covered == CoveredBy(n, window)
           prices == PricesBy(n, window)
           U == UsedOf(n)
           A == [i \in U |-> SpanOf(i, window)]
           c == [i \in U |-> observations[i].price]
           one == [i \in U |-> 1]
           ones == [s \in covered |-> 1]
           w == WeightsOf(n, window)
           v == ValuesOf(n, window)
<1>1. IsFiniteSet(U) /\ U \subseteq DOMAIN observations
  BY UsedFinite
<1>2. \A i \in U : /\ w[i] = Weight(observations, i, window)
                   /\ v[i] = observations[i].price * w[i]
                   /\ c[i] = observations[i].price /\ c[i] \in Int
                   /\ one[i] = 1 /\ A[i] = SpanOf(i, window)
  BY <1>1 DEF WeightsOf, ValuesOf, QuotesInv
<1>3. \A i \in U : IsFiniteSet(A[i]) /\ Cardinality(A[i]) = w[i] /\ w[i] \in Nat
  BY <1>1, <1>2, SpanSize, WeightIs
<1>4. \A i, j \in U : i # j => A[i] \cap A[j] = {}
  BY <1>2, SpanUnique
<1>5. \A i \in U : \A s : s \in A[i] <=> s \in 0 .. now - 1 /\ i \in InForce(FirstUsed(n), s, window)
  BY <1>2, SpanIs
<1>6. \A s : InForce(FirstUsed(n), s, window) \subseteq U
  BY DEF InForce, UsedOf
<1>7. /\ \A s \in covered : s \in 0 .. now - 1 /\ InForce(FirstUsed(n), s, window) # {}
      /\ \A s \in 0 .. now - 1 : InForce(FirstUsed(n), s, window) # {} => s \in covered
  BY DEF CoveredBy
<1>8. \A s \in covered : prices[s] =
         observations[CHOOSE i \in InForce(FirstUsed(n), s, window) : TRUE].price
  BY DEF PricesBy
<1>9. DOMAIN prices = covered /\ \A s \in covered : ones[s] = 1
  BY DEF PricesBy
<1> HIDE DEF covered, prices, A, U, c, one, ones, w, v
<1>10. Cover(A, U) = covered
  <2>1. \A s : s \in Cover(A, U) <=> \E i \in U : s \in A[i]
    BY DEF Cover
  <2>2. \A s : s \in covered <=> \E i \in U : s \in A[i]
    BY <1>5, <1>6, <1>7
  <2> QED
    BY <2>1, <2>2
<1>11. \A i \in U : \A s \in A[i] : prices[s] = c[i]
  <2> SUFFICES ASSUME NEW i \in U, NEW s \in A[i] PROVE prices[s] = c[i]
    OBVIOUS
  <2> DEFINE k == CHOOSE x \in InForce(FirstUsed(n), s, window) : TRUE
  <2>1. s \in 0 .. now - 1 /\ i \in InForce(FirstUsed(n), s, window) /\ s \in covered
    BY <1>5, <1>7
  <2>2. k \in InForce(FirstUsed(n), s, window)
    BY <2>1
  <2>3. prices[s] = observations[k].price
    BY <1>8, <2>1
  <2> HIDE DEF k
  <2>4. k \in U /\ s \in A[k]
    BY <1>5, <1>6, <2>1, <2>2
  <2>5. k = i
    BY <1>4, <2>4
  <2> QED
    BY <1>2, <2>3, <2>5
<1>12. Grouped(A, U, c, prices) /\ Weighted(A, U, c, v)
  BY <1>1, <1>2, <1>3, <1>4, <1>11 DEF Grouped, Weighted
<1>13. IsFiniteSet(covered) /\ SumOf(prices, covered) = SumOf(v, U)
  <2>1. SumGrouped(A, U, prices, v)
    BY <1>12, SumByGroup
  <2> QED
    BY <1>10, <2>1 DEF SumGrouped
<1>14. Grouped(A, U, one, ones) /\ Weighted(A, U, one, w)
  <2>1. \A i \in U : \A s \in A[i] : ones[s] = one[i]
    BY <1>2, <1>5, <1>7, <1>9
  <2>2. \A i \in U : one[i] \in Int /\ w[i] = one[i] * Cardinality(A[i])
    BY <1>2, <1>3
  <2> QED
    BY <1>1, <1>3, <1>4, <2>1, <2>2 DEF Grouped, Weighted
<1>15. SumOf(ones, covered) = SumOf(w, U)
  <2>1. SumGrouped(A, U, ones, w)
    BY <1>14, SumByGroup
  <2> QED
    BY <1>10, <2>1 DEF SumGrouped
<1>16. /\ SumOf(ones, covered) = 1 * Cardinality(covered) /\ Cardinality(covered) \in Nat
       /\ Cardinality(covered) = 0 <=> covered = {}
  <2>1. Constant(ones, 1, covered)
    BY <1>9, <1>13 DEF Constant
  <2> QED
    BY <1>13, <2>1, SumConst, FS_CardinalityType, FS_EmptySet
<1>17. SumOver(prices) = SumOf(prices, covered)
  BY <1>9 DEF SumOver, SumOf
<1>18. SumOver(prices) = SumOf(v, U) /\ Cardinality(covered) = SumOf(w, U)
  BY <1>13, <1>15, <1>16, <1>17
<1> QED
  BY <1>16, <1>18 DEF v, w, U, covered, prices

LEMMA TwapOfSeconds ==
    ASSUME PricesInv, QuotesInv
    PROVE  TwapAveragesSeconds
<1> SUFFICES ASSUME config # None, NEW n \in 1 .. MaxTwapObservations
             PROVE  calculate_twap(observations, n, config.max_staleness) =
                      IF CoveredBy(n, config.max_staleness) = {} THEN None
                      ELSE SumOver(PricesBy(n, config.max_staleness))
                             \div Cardinality(CoveredBy(n, config.max_staleness))
  BY DEF TwapAveragesSeconds, FirstUsed, CoveredBy, PricesBy
<1> DEFINE window == config.max_staleness
<1>1. n \in Nat /\ window \in Nat
  BY OracleNumberAssumption DEF QuotesInv
<1> HIDE DEF window
<1>2. /\ SumOver(PricesBy(n, window)) = SumOf(ValuesOf(n, window), UsedOf(n))
      /\ Cardinality(CoveredBy(n, window)) = SumOf(WeightsOf(n, window), UsedOf(n))
      /\ Cardinality(CoveredBy(n, window)) = 0 <=> CoveredBy(n, window) = {}
  BY <1>1, TwapBySeconds
<1>3. calculate_twap(observations, n, window) =
        IF SumOf(WeightsOf(n, window), UsedOf(n)) = 0 THEN None
        ELSE SumOf(ValuesOf(n, window), UsedOf(n)) \div SumOf(WeightsOf(n, window), UsedOf(n))
  BY TwapIs
<1>4. calculate_twap(observations, n, window) =
        IF CoveredBy(n, window) = {} THEN None
        ELSE SumOver(PricesBy(n, window)) \div Cardinality(CoveredBy(n, window))
  BY <1>2, <1>3
<1> QED
  BY <1>4 DEF window

(* For any observations, lengths and windows, the average is the floored   *)
(* mean over the seconds covered of the price in force at each: no second  *)
(* is counted twice, after its observation went stale, or in the future    *)
(* (calculate_twap).                                                       *)
THEOREM TwapHolds == Spec => []TwapAveragesSeconds
<1>1. PricesInv /\ QuotesInv => TwapAveragesSeconds
  BY TwapOfSeconds
<1> QED
  BY <1>1, QuotesAlways, PTL
=============================================================================
