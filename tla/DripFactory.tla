---------------------------- MODULE DripFactory ----------------------------
(***************************************************************************)
(* The factory (contracts/factory/src): it creates streams, keeps the      *)
(* registry and the index of them, counts the ones still active, routes    *)
(* cancellations, and can be halted by the governor.                       *)
(*                                                                         *)
(* A call is atomic, so it is one action whose guard is the conjunction of *)
(* its checks; a batch is one call.  CreateLock is taken and released      *)
(* within the creation of one stream and is false between calls, so it is  *)
(* no state here.  A stream appears as what the factory can see of it:     *)
(* who may cancel it and whether it is cancelled.  compute_salt is         *)
(* injective and the address follows from the salt, so stream id i lives   *)
(* at address i; stream contracts deployed by somebody else have negative  *)
(* addresses.                                                              *)
(***************************************************************************)
EXTENDS FactoryIndex, EmergencyPause, FiniteSets

CONSTANTS
    Parties,            \* account addresses
    ZeroAddr,           \* the all-zero address is_zero_address rejects
    MinStreamDuration,  \* drip_stream::MIN_STREAM_DURATION
    MaxStreamDuration,  \* drip_stream::MAX_STREAM_DURATION
    MaxI128,            \* i128::MAX
    MaxBatchSize,       \* MAX_BATCH_SIZE, 10
    BatchLimit          \* ttl::BATCH_LIMIT, 8

CONSTANTS               \* the inputs of the calls and of the environment
    Histories,          \* what older builds left: sequences of [sender, recipient]
    Flags,              \* the pause entries they left
    ForeignSender,      \* stream contracts the factory did not deploy, and their senders
    Requests,           \* arguments of create_stream
    Batches,            \* sequences of requests given to the batch calls
    PageCounts,         \* values of max_pages given to the migration calls
    Configs,            \* what the governor answers; None when it does not
    Hashes,             \* non-zero stream code hashes given to upgrade_stream_wasm
    Delegates,          \* addresses a sender may make operator of a stream
    Cancelable,         \* values a sender gives a stream's set_stream_config
    Gifts               \* amounts sent to the factory by direct transfer

CONSTANTS               \* bounds of the model
    MaxTime, MaxStreams, MaxCancelled, MaxDonated

RequestType ==
    [sender : Parties, recipient : Parties \cup {ZeroAddr}, token : Parties \cup {ZeroAddr},
     deposit : Int, rate_per_sec : Int, start_time : Nat, end_time : Nat]

(* A governed fee, in basis points, is at most the whole deposit. *)
FeeRates == 0 .. 10000

ConfigType ==
    [fee_bps : FeeRates, min_duration_seconds : Nat, max_duration_seconds : Nat,
     max_rate_per_second : Int]

Foreign == DOMAIN ForeignSender

ASSUME HistoryAssumption ==
    Histories \subseteq Seq([sender : Parties, recipient : Parties])

ASSUME ForeignAssumption ==
    /\ IsFiniteSet(Foreign)
    /\ \A s \in Foreign : s \in Int /\ s < 0
    /\ ForeignSender \in [Foreign -> Parties]

ASSUME RequestAssumption ==
    /\ ZeroAddr \notin Parties
    /\ Requests \subseteq RequestType
    /\ Batches \subseteq Seq(RequestType)

ASSUME FactoryAssumption ==
    /\ {MinStreamDuration, MaxStreamDuration, MaxI128} \subseteq Nat
    /\ {MaxBatchSize, BatchLimit} \subseteq Nat \ {0}
    /\ Flags \subseteq PauseType
    /\ PageCounts \subseteq Nat
    /\ Configs \subseteq ConfigType \cup {None} /\ None \notin ConfigType
    /\ Delegates \subseteq Parties /\ Cancelable \subseteq BOOLEAN
    /\ Gifts \subseteq Nat
    /\ {MaxTime, MaxStreams, MaxCancelled, MaxDonated} \subseteq Nat

VARIABLES
    now,            \* env.ledger().timestamp()
    config,         \* what the governor answers, None while it does not
    pauseEntry,     \* DataKey::Paused
    wasmHash,       \* DataKey::StreamWasmHash
    streamCount,    \* DataKey::StreamCount; StreamAddr(i) exists for i < streamCount
    aggregate,      \* DataKey::Aggregate
    salts,          \* ids whose DataKey::SaltUsed is set
    known,          \* addresses whose DataKey::IsKnownStream is set
    recorded,       \* addresses whose DataKey::CancelledStream is set
    bySender,       \* the sender's index of each party
    byRecipient,    \* the recipient's index of each party
    lastBumped,     \* DataKey::LastBumpedId
    streams,        \* the stream contracts that exist, by address
    held            \* the factory's balance of the streams' token

VARIABLES           \* history, read by properties only
    donated,        \* tokens sent to the factory by direct transfer
    haltedAt,       \* when the halt under way began, None outside one
    age             \* per stream, walker calls since the walker refreshed its entry

governorVars == <<config, wasmHash>>
pauseVars    == <<pauseEntry, haltedAt>>
registryVars == <<streamCount, salts, known, bySender, byRecipient>>
countVars    == <<aggregate, recorded>>
walkVars     == <<lastBumped, age>>
tokenVars    == <<held, donated>>
vars == <<now, governorVars, pauseVars, registryVars, countVars, walkVars, tokenVars, streams>>

Registered == 0 .. (streamCount - 1)

StreamType ==
    [sender : Parties, recipient : Parties, operator : Parties \cup {None},
     cancelable : BOOLEAN, cancelled : BOOLEAN, funded : Nat, obligation : Nat]

FactoryTypeOK ==
    /\ now \in Nat
    /\ config \in ConfigType \cup {None}
    /\ pauseEntry \in PauseType
    /\ streamCount \in Nat
    /\ aggregate \in [total_supply : Nat, active_streams : Nat]
    /\ salts \subseteq Registered /\ known \subseteq Registered
    /\ streams \in [Registered \cup Foreign -> StreamType]
    /\ recorded \subseteq DOMAIN streams
    /\ \A p \in Parties : \A idx \in {bySender[p], byRecipient[p]} :
          /\ idx.legacy = None \/ idx.legacy \in Seq(Registered)
          /\ {idx.cursor, idx.legacyCount, idx.count} \subseteq 0 .. streamCount \cup {None}
          /\ \A k \in DOMAIN idx.pages :
                idx.pages[k] \in Seq(Registered) /\ Len(idx.pages[k]) <= PageSize
    /\ lastBumped \in 0 .. streamCount
    /\ age \in [Registered -> Nat]
    /\ held \in Nat /\ donated \in Nat
    /\ haltedAt \in Nat \cup {None}

-----------------------------------------------------------------------------

(* The ids of a party's streams in creation order *)
IdsOf(history, field, party) ==
    LET ids[k \in 0 .. Len(history)] ==
            IF k = 0 THEN <<>>
            ELSE IF history[k][field] = party THEN Append(ids[k - 1], k - 1)
            ELSE ids[k - 1]
    IN  ids[Len(history)]

NewStream(sender, recipient, funded, obligation) ==
    [sender |-> sender, recipient |-> recipient, operator |-> None,
     cancelable |-> TRUE, cancelled |-> FALSE, funded |-> funded, obligation |-> obligation]

(***************************************************************************)
(* A freshly initialized factory (the empty history, no pause entry), or   *)
(* one upgraded from a build that kept unpaged lists and a plain pause     *)
(* flag.  Such a build counted its streams but wrote no SaltUsed,          *)
(* IsKnownStream or CancelledStream entries, which came later.             *)
(***************************************************************************)
Init ==
    \E history \in Histories :
        /\ now = 0
        /\ config \in Configs
        /\ pauseEntry \in Flags \cup {NeverPaused}
        /\ haltedAt = IF pauseEntry.paused THEN 0 ELSE None
        /\ wasmHash \in Hashes
        /\ streamCount = Len(history)
        /\ aggregate = [total_supply |-> Len(history), active_streams |-> Len(history)]
        /\ salts = {} /\ known = {} /\ recorded = {}
        /\ bySender = [p \in Parties |-> LegacyIndex(IdsOf(history, "sender", p))]
        /\ byRecipient = [p \in Parties |-> LegacyIndex(IdsOf(history, "recipient", p))]
        /\ lastBumped = 0
        /\ streams = [s \in Foreign \cup (0 .. (Len(history) - 1)) |->
                         IF s \in Foreign
                         THEN NewStream(ForeignSender[s], ForeignSender[s], 0, 0)
                         ELSE NewStream(history[s + 1].sender, history[s + 1].recipient, 0, 0)]
        /\ held = 0 /\ donated = 0
        /\ age = [i \in 0 .. (Len(history) - 1) |-> 0]

(* The next ledger closes. *)
Tick ==
    /\ now < MaxTime
    /\ now' = now + 1
    /\ UNCHANGED <<governorVars, pauseVars, registryVars, countVars, walkVars, tokenVars, streams>>

(* The governor's configuration changes, or the governor stops or resumes answering. *)
GovernorChanges(c) ==
    /\ config' = c
    /\ UNCHANGED <<now, wasmHash, pauseVars, registryVars, countVars, walkVars, tokenVars, streams>>

-----------------------------------------------------------------------------
(* Creation *)

Obligation(req) ==
    IF req.end_time > 0 THEN req.rate_per_sec * (req.end_time - req.start_time) ELSE req.rate_per_sec

validate_stream_request_OneSecond(req) ==  \* mutant: one second of funding is enough
    /\ req.recipient \notin {ZeroAddr, req.sender}
    /\ req.token # ZeroAddr
    /\ req.end_time > 0 => req.end_time - req.start_time >= MinStreamDuration
    /\ req.rate_per_sec > 0 /\ req.deposit >= req.rate_per_sec
    /\ req.start_time >= now
validate_stream_request(req) ==
    /\ req.recipient \notin {ZeroAddr, req.sender}
    /\ req.token # ZeroAddr
    /\ req.end_time > 0 => /\ req.end_time > req.start_time
                           /\ req.end_time - req.start_time >= MinStreamDuration
    /\ req.deposit > 0 /\ req.rate_per_sec > 0 /\ req.deposit >= req.rate_per_sec
    /\ req.start_time >= now
    /\ Obligation(req) <= MaxI128 /\ req.deposit >= Obligation(req)

enforce_bounds(req) ==
    /\ req.rate_per_sec <= config.max_rate_per_second
    /\ req.start_time - now <= config.max_duration_seconds
    /\ req.end_time > 0 =>
         req.end_time - req.start_time \in config.min_duration_seconds .. config.max_duration_seconds

(* What DripStream::initialize refuses beyond the checks above *)
Initializable(req) == req.end_time > 0 => req.end_time - req.start_time <= MaxStreamDuration

Fee(req) == (req.deposit * config.fee_bps) \div 10000

TotalFunding(req) == req.deposit + Fee(req)

FeeRepresentable(req) ==
    req.deposit * config.fee_bps <= MaxI128 /\ TotalFunding(req) <= MaxI128

Total(amounts) == MapThenSumSet(LAMBDA i : amounts[i], DOMAIN amounts)

(***************************************************************************)
(* append_sender_index and append_recipient_index for one new stream, and  *)
(* for the streams of a batch one after the other                          *)
(***************************************************************************)
AppendAll(index, field, reqs) ==
    LET after[i \in 0 .. Len(reqs)] ==
            IF i = 0 THEN index
            ELSE [after[i - 1] EXCEPT
                     ![reqs[i][field]] = append_index_entry(@, streamCount + i - 1)]
    IN  after[Len(reqs)]

Counted_OncePerCall(reqs) ==  \* mutant: a batch moves only the supply by its length
    [total_supply |-> aggregate.total_supply + Len(reqs),
     active_streams |-> aggregate.active_streams + 1]
Counted(reqs) ==
    [total_supply |-> aggregate.total_supply + Len(reqs),
     active_streams |-> aggregate.active_streams + Len(reqs)]

(***************************************************************************)
(* create_stream_with_config for every request of the call: pull deposit   *)
(* and fee, pay the fee, deploy and initialize, forward the deposit,       *)
(* register, count and index.  The two receipts (of the factory and of the *)
(* stream) are verified, so a token that delivers another amount there     *)
(* makes the call fail; the fee transfer between them is not verified and  *)
(* is taken as exact.  The fee recipient is not the factory.               *)
(***************************************************************************)
CreateAll(reqs) ==
    LET new == streamCount .. (streamCount + Len(reqs) - 1)
        req(id) == reqs[id - streamCount + 1]
    IN  /\ streamCount + Len(reqs) <= MaxStreams
        /\ ~is_paused(pauseEntry, now)
        /\ config # None
        /\ \A i \in 1 .. Len(reqs) :
              /\ validate_stream_request(reqs[i]) /\ enforce_bounds(reqs[i])
              /\ FeeRepresentable(reqs[i]) /\ Initializable(reqs[i])
        /\ new \cap salts = {}
        /\ pauseEntry' = AfterIsPaused(pauseEntry, now)
        /\ haltedAt' = None
        /\ held' = held + Total([i \in 1 .. Len(reqs) |-> TotalFunding(reqs[i])])
                        - Total([i \in 1 .. Len(reqs) |-> Fee(reqs[i])])
                        - Total([i \in 1 .. Len(reqs) |-> reqs[i].deposit])
        /\ salts' = salts \cup new
        /\ known' = known \cup new
        /\ streams' = [s \in DOMAIN streams \cup new |->
                          IF s \in new
                          THEN NewStream(req(s).sender, req(s).recipient,
                                         req(s).deposit, Obligation(req(s)))
                          ELSE streams[s]]
        /\ streamCount' = streamCount + Len(reqs)
        /\ aggregate' = Counted(reqs)
        /\ bySender' = AppendAll(bySender, "sender", reqs)
        /\ byRecipient' = AppendAll(byRecipient, "recipient", reqs)
        /\ age' = [i \in Registered \cup new |-> IF i \in new THEN 0 ELSE age[i]]
        /\ UNCHANGED <<now, governorVars, recorded, lastBumped, donated>>

create_stream(req) == CreateAll(<<req>>)

(* create_batch_streams: every stream of the batch is the caller's *)
create_batch_streams(sender, reqs) ==
    /\ Len(reqs) \in 1 .. MaxBatchSize
    /\ \A i \in 1 .. Len(reqs) : reqs[i].sender = sender
    /\ CreateAll(reqs)

(* batch_create_streams: every sender of the batch has signed *)
batch_create_streams(reqs) ==
    /\ Len(reqs) \in 1 .. MaxBatchSize
    /\ CreateAll(reqs)

-----------------------------------------------------------------------------
(* Cancellation *)

Cancel(batch) ==
    streams' = [s \in DOMAIN streams |->
                   [streams[s] EXCEPT !.cancelled = @ \/ s \in batch]]

(* What the stream's cancel asks of the caller and of itself *)
MayCancel(caller, stream) ==
    /\ ~stream.cancelled /\ stream.cancelable
    /\ caller \in {stream.sender, stream.operator}

CancelledCount == Cardinality({s \in DOMAIN streams : streams[s].cancelled})

(* active_streams.saturating_sub(n) *)
Discounted_Unclamped(n) ==  \* mutant: a plain subtraction
    [aggregate EXCEPT !.active_streams = @ - n]
Discounted(n) ==
    [aggregate EXCEPT !.active_streams = IF @ >= n THEN @ - n ELSE 0]

(***************************************************************************)
(* cancel_batch_streams: a duplicate address is refused, so the batch is a *)
(* set.  Nothing asks whether the factory deployed these streams.          *)
(***************************************************************************)
cancel_batch_streams(caller, batch) ==
    /\ Cardinality(batch) \in 1 .. MaxBatchSize
    /\ \A s \in batch : MayCancel(caller, streams[s])
    /\ CancelledCount + Cardinality(batch) <= MaxCancelled
    /\ Cancel(batch)
    /\ recorded' = recorded \cup batch
    /\ aggregate' = Discounted(Cardinality(batch \ recorded))
    /\ UNCHANGED <<now, governorVars, pauseVars, registryVars, walkVars, tokenVars>>

(* record_cancel: anyone reports a stream that was cancelled directly *)
record_cancel_Trusting(s) ==  \* mutant: the stream is not asked
    /\ s \in known \ recorded
    /\ recorded' = recorded \cup {s}
    /\ aggregate' = Discounted(1)
    /\ UNCHANGED <<now, governorVars, pauseVars, registryVars, walkVars, tokenVars, streams>>
record_cancel(s) ==
    /\ s \in known \ recorded
    /\ streams[s].cancelled
    /\ recorded' = recorded \cup {s}
    /\ aggregate' = Discounted(1)
    /\ UNCHANGED <<now, governorVars, pauseVars, registryVars, walkVars, tokenVars, streams>>

(* The stream's own cancel or force_cancel *)
StreamCancelled(s) ==
    /\ ~streams[s].cancelled
    /\ CancelledCount < MaxCancelled
    /\ Cancel({s})
    /\ UNCHANGED <<now, governorVars, pauseVars, registryVars, countVars, walkVars, tokenVars>>

(* The stream's set_operator, and revoke_operator where operator is None *)
StreamDelegated(s, operator) ==
    /\ ~streams[s].cancelled
    /\ streams' = [streams EXCEPT ![s] = [@ EXCEPT !.operator = operator]]
    /\ UNCHANGED <<now, governorVars, pauseVars, registryVars, countVars, walkVars, tokenVars>>

(* The stream's set_stream_config *)
StreamConfigured(s, is_cancelable) ==
    /\ ~streams[s].cancelled
    /\ streams' = [streams EXCEPT ![s] = [@ EXCEPT !.cancelable = is_cancelable]]
    /\ UNCHANGED <<now, governorVars, pauseVars, registryVars, countVars, walkVars, tokenVars>>

-----------------------------------------------------------------------------
(* The halt, the code hash and the walker over registry entries *)

(* ttl::bump_persistent_bucket *)
bump_persistent_bucket_Stuck ==  \* mutant: the cursor is not written back
    LET window == {(lastBumped + 1 + i) % streamCount : i \in 0 .. (BatchLimit - 1)}
    IN  IF streamCount = 0 THEN UNCHANGED walkVars
        ELSE /\ age' = [i \in Registered |-> IF i \in window THEN 0 ELSE age[i] + 1]
             /\ UNCHANGED lastBumped
bump_persistent_bucket ==
    LET window == {(lastBumped + 1 + i) % streamCount : i \in 0 .. (BatchLimit - 1)}
    IN  IF streamCount = 0 THEN UNCHANGED walkVars
        ELSE /\ age' = [i \in Registered |-> IF i \in window THEN 0 ELSE age[i] + 1]
             /\ lastBumped' = (lastBumped + BatchLimit) % streamCount

pause ==
    /\ ~is_paused(pauseEntry, now)
    /\ SetPausedReadable(AfterIsPaused(pauseEntry, now))
    /\ bump_persistent_bucket
    /\ pauseEntry' = set_paused(TRUE, now)
    /\ haltedAt' = now
    /\ UNCHANGED <<now, governorVars, registryVars, countVars, tokenVars, streams>>

unpause ==
    /\ is_paused(pauseEntry, now)
    /\ SetPausedReadable(AfterIsPaused(pauseEntry, now))
    /\ bump_persistent_bucket
    /\ pauseEntry' = set_paused(FALSE, now)
    /\ haltedAt' = None
    /\ UNCHANGED <<now, governorVars, registryVars, countVars, tokenVars, streams>>

(* deploy::set_stream_wasm_hash *)
upgrade_stream_wasm(hash) ==
    /\ ~is_paused(pauseEntry, now)
    /\ bump_persistent_bucket
    /\ pauseEntry' = AfterIsPaused(pauseEntry, now)
    /\ haltedAt' = None
    /\ wasmHash' = hash
    /\ UNCHANGED <<now, config, registryVars, countVars, tokenVars, streams>>

(* The views is_paused and factory_status, submitted as a transaction: they *)
(* write what the shared pause code writes                                  *)
ReadPause ==
    /\ pauseEntry' = AfterIsPaused(pauseEntry, now)
    /\ haltedAt' = IF is_paused(pauseEntry, now) THEN haltedAt ELSE None
    /\ UNCHANGED <<now, governorVars, registryVars, countVars, walkVars, tokenVars, streams>>

-----------------------------------------------------------------------------
(* Migration of the index, and tokens nobody asked for *)

migrate_sender_index(party, max_pages) ==
    /\ bySender' = [bySender EXCEPT ![party] = migrate_legacy_index(@, max_pages)]
    /\ UNCHANGED <<now, governorVars, pauseVars, streamCount, salts, known, byRecipient,
                   countVars, walkVars, tokenVars, streams>>

migrate_recipient_index(party, max_pages) ==
    /\ byRecipient' = [byRecipient EXCEPT ![party] = migrate_legacy_index(@, max_pages)]
    /\ UNCHANGED <<now, governorVars, pauseVars, streamCount, salts, known, bySender,
                   countVars, walkVars, tokenVars, streams>>

Donate(amount) ==
    /\ donated + amount <= MaxDonated
    /\ held' = held + amount
    /\ donated' = donated + amount
    /\ UNCHANGED <<now, governorVars, pauseVars, registryVars, countVars, walkVars, streams>>

-----------------------------------------------------------------------------

Next ==
    \/ Tick
    \/ \E c \in Configs : GovernorChanges(c)
    \/ \E req \in Requests : create_stream(req)
    \/ \E reqs \in Batches : batch_create_streams(reqs)
    \/ \E sender \in Parties, reqs \in Batches : create_batch_streams(sender, reqs)
    \/ \E caller \in Parties, batch \in SUBSET DOMAIN streams : cancel_batch_streams(caller, batch)
    \/ \E s \in known : record_cancel(s)
    \/ \E s \in DOMAIN streams : StreamCancelled(s)
    \/ \E s \in DOMAIN streams, d \in Delegates \cup {None} : StreamDelegated(s, d)
    \/ \E s \in DOMAIN streams, b \in Cancelable : StreamConfigured(s, b)
    \/ pause
    \/ unpause
    \/ \E hash \in Hashes : upgrade_stream_wasm(hash)
    \/ ReadPause
    \/ \E party \in Parties, n \in PageCounts : migrate_sender_index(party, n)
    \/ \E party \in Parties, n \in PageCounts : migrate_recipient_index(party, n)
    \/ \E amount \in Gifts : Donate(amount)

Spec == Init /\ [][Next]_vars

-----------------------------------------------------------------------------

(***************************************************************************)
(* Whatever mixture of unpaged list, half-copied pages and appended pages  *)
(* a party's index is in, every window streams_by_sender and               *)
(* streams_by_recipient return is the window of the ids of all the streams *)
(* created with that party, in creation order, and the total is their      *)
(* number: migration and appends interleaved lose, repeat or reorder no id *)
(***************************************************************************)
ListingsComplete ==
    \A p \in Parties, field \in {"sender", "recipient"} :
        LET idx == IF field = "sender" THEN bySender[p] ELSE byRecipient[p]
            ids == IdsOf([i \in 1 .. streamCount |-> streams[i - 1]], field, p)
        IN  /\ count_index(idx) = Len(ids)
            /\ \A offset \in 0 .. (Len(ids) + 1), limit \in 0 .. (PageSize + 1) :
                  read_index(idx, offset, limit) = paginate(ids, offset, limit)

(***************************************************************************)
(* The rotating walk refreshes every populated page at some ledger         *)
(* sequence number, although it counts pages from the number of ids and    *)
(* legacy entries leave a gap in the pages, with one exception: a page     *)
(* that is the last one, is still open to appends, which refresh it too,   *)
(* and lies behind a legacy list that did not fill its own last page       *)
(* (index.rs extend_page_ttls)                                             *)
(***************************************************************************)
PagesRefreshed ==
    \A p \in Parties : \A idx \in {bySender[p], byRecipient[p]} :
        \A page \in DOMAIN idx.pages :
            LET last == logical_to_physical_offset(idx.count - 1, idx.legacyCount) \div PageSize
            IN  \/ \E sequence \in 0 .. idx.count : page \in extend_page_ttls(idx.count, sequence)
                \/ /\ page = last /\ Len(idx.pages[page]) < PageSize
                   /\ idx.legacyCount # None /\ idx.legacyCount % PageSize # 0

(***************************************************************************)
(* active_streams counts every stream of this factory down exactly once:   *)
(* it lies between the streams not marked at all and the streams of this   *)
(* factory not marked, whatever is reported, batched or repeated           *)
(***************************************************************************)
ActiveBounds ==
    /\ aggregate.total_supply = streamCount
    /\ streamCount - Cardinality(recorded) <= aggregate.active_streams
    /\ aggregate.active_streams <= streamCount - Cardinality(recorded \cap Registered)

(***************************************************************************)
(* No stream that still runs is missing from active_streams, except for    *)
(* one per stream of somebody else that was cancelled through              *)
(* cancel_batch_streams                                                    *)
(***************************************************************************)
LiveStreamsCounted ==
    Cardinality({s \in Registered : ~streams[s].cancelled})
        <= aggregate.active_streams + Cardinality(recorded \cap Foreign)

(***************************************************************************)
(* The bounded walker of pause, unpause and upgrade_stream_wasm reaches    *)
(* every registry entry within as many calls as it takes to go around      *)
(* once, also while streams are added between its calls                    *)
(***************************************************************************)
WalkerCovers ==
    \A i \in Registered : age[i] * BatchLimit < streamCount

(***************************************************************************)
(* The deposit arrives whole: the factory keeps no token of a creation and *)
(* spends none that was there before, and a stream it deployed holds at    *)
(* least what it promises for its declared length                          *)
(***************************************************************************)
EscrowComplete ==
    /\ held = donated
    /\ \A s \in known : streams[s].funded >= streams[s].obligation

(***************************************************************************)
(* From the governor's pause until its unpause, or for the fourteen days   *)
(* the halt lasts, no creation of any kind commits                         *)
(***************************************************************************)
NoCreationWhileHalted ==
    [][streamCount' # streamCount =>
          haltedAt = None \/ now >= haltedAt + MaxPauseDuration]_vars
=============================================================================
