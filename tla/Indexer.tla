------------------------------ MODULE Indexer ------------------------------
(***************************************************************************)
(* The off-chain indexer: workers that compete for one Postgres advisory   *)
(* lock (indexer/src/worker.ts), poll closed ledgers for contract events   *)
(* page by page (indexer/src/poller.ts, retry.ts) and fold every page into *)
(* the derived tables in one transaction (handlers.ts, db/schema.sql).     *)
(*                                                                         *)
(* A worker can crash, be told to stop, or lose the database session that  *)
(* holds its lock, between any two of its steps.                           *)
(***************************************************************************)
EXTENDS Integers, Sequences, FiniteSets, SequencesExt

CONSTANTS
    Workers,        \* worker processes started against one DATABASE_URL
    Streams,        \* stream contracts that emit events
    Ballots,        \* (proposal, voter) pairs of the governance tables
    BallotChoices,  \* contents of a vote
    Recipients,     \* addresses an xfer_rec event may name
    Amounts,        \* amounts of a withdrawal or a top-up
    NoOne,          \* recipient of a row that was created without one; a free lock
    Limit,          \* page size of pollOnce
    Attempts,       \* attempts of retryWithBackoff for one fetch
    MaxLedger,      \* bound: ledgers that close
    MaxPerLedger,   \* bound: events in one ledger
    MaxFaults,      \* bound: crashes, stop signals and failed calls
    MaxSessionLoss  \* bound: lock sessions that end under a live worker

ASSUME LimitAssumption == Limit \in Nat \ {0}
ASSUME AttemptsAssumption == Attempts \in Nat \ {0}
ASSUME AmountsAssumption == Amounts \subseteq Nat
ASSUME NoOneAssumption == NoOne \notin Workers \cup Recipients
ASSUME BoundAssumption ==
    /\ MaxLedger \in Nat /\ MaxPerLedger \in Nat
    /\ MaxFaults \in Nat /\ MaxSessionLoss \in Nat

VARIABLES
    chain,      \* the events emitted so far, in ledger order
    head,       \* the last closed ledger; events of head + 1 are not visible yet
    db,         \* the committed tables
    lock,       \* the worker whose session holds the advisory lock, or NoOne
    pc,         \* where each worker is in startPollLoop / pollOnce
    from,       \* fromLedger, the cursor a worker has read
    page,       \* the events a worker has fetched and not yet ingested
    attempt,    \* failed attempts of the fetch under way
    aborted,    \* the AbortSignal of each worker
    faults, sessionLosses

env == <<chain, head>>
workers == <<pc, from, page, attempt, aborted>>
vars == <<chain, head, db, lock, pc, from, page, attempt, aborted, faults, sessionLosses>>

-----------------------------------------------------------------------------
(* Events and tables *)

StreamTypes == {"withdrawn", "cancelled", "paused", "resumed", "topped_up", "clawback", "xfer_rec"}

EventsAt(l) ==
    {e \in [ledger : {l}, tx : 1 .. MaxPerLedger, type : StreamTypes \cup {"vote"},
            id : Streams \cup Ballots, val : Amounts \cup Recipients \cup BallotChoices \cup {0}] :
        /\ (e.type = "vote") <=> (e.id \in Ballots)
        /\ CASE e.type \in {"withdrawn", "topped_up"} -> e.val \in Amounts
             [] e.type = "xfer_rec"                   -> e.val \in Recipients
             [] e.type = "vote"                       -> e.val \in BallotChoices
             [] OTHER                                 -> e.val = 0}

RawEvent == UNION {EventsAt(l) : l \in 1 .. MaxLedger}

(* UNIQUE (ledger, tx_hash, event_type, contract_id) of raw_events *)
RawKey(e) == <<e.ledger, e.tx, e.type, e.id>>

(* UNIQUE (ledger, tx_hash, stream_id) of stream_withdrawals *)
WithdrawalKey(e) == <<e.ledger, e.tx, e.id>>

NoRow == [updated |-> 0]

(* The row a handler inserts when stream_states has none for the stream *)
NewRow(l) == [recipient |-> NoOne, deposit |-> 0, withdrawn |-> 0,
              paused |-> FALSE, cancelled |-> FALSE, updated |-> l]

EmptyDb ==
    [cursor |-> 0, raw |-> {}, withdrawals |-> {},
     states |-> [s \in Streams |-> NoRow],
     votes |-> [b \in Ballots |-> NoRow],
     broken |-> FALSE]

(* Every handler keeps the largest ledger it has seen as the watermark *)
Watermark(row, l) == Max({row.updated, l})

-----------------------------------------------------------------------------
(* Fold handlers: what one event does to the tables inside a transaction.  *)
(* broken: a statement failed, so the rest of the transaction fails too.   *)

handleStreamWithdrawn_NoWatermark(d, e) ==  \* mutant
    IF d.states[e.id] = NoRow
    THEN [d EXCEPT !.broken = TRUE]
    ELSE [d EXCEPT !.withdrawals = @ \cup {e},
                   !.states[e.id].withdrawn = @ + e.val,
                   !.states[e.id].updated = Watermark(d.states[e.id], e.ledger)]

(* stream_withdrawals is written first and refers to stream_states: with   *)
(* no row for the stream the statement fails.  The accumulator only moves  *)
(* for a ledger beyond the watermark.                                      *)
handleStreamWithdrawn(d, e) ==
    LET row == d.states[e.id]
    IN  IF row = NoRow
        THEN [d EXCEPT !.broken = TRUE]
        ELSE [d EXCEPT
                !.withdrawals = IF \E w \in @ : WithdrawalKey(w) = WithdrawalKey(e)
                                THEN @ ELSE @ \cup {e},
                !.states[e.id] =
                    [row EXCEPT !.withdrawn = IF e.ledger > row.updated THEN @ + e.val ELSE @,
                                !.updated = Watermark(row, e.ledger)]]

handleStreamToppedUp(d, e) ==
    LET row == d.states[e.id]
    IN  [d EXCEPT !.states[e.id] =
            IF row = NoRow
            THEN [NewRow(e.ledger) EXCEPT !.deposit = e.val]
            ELSE [row EXCEPT !.deposit = IF e.ledger > row.updated THEN @ + e.val ELSE @,
                             !.updated = Watermark(row, e.ledger)]]

handleXferRec(d, e) ==
    LET row == d.states[e.id]
    IN  [d EXCEPT !.states[e.id] =
            IF row = NoRow
            THEN [NewRow(e.ledger) EXCEPT !.recipient = e.val]
            ELSE [row EXCEPT !.recipient = IF e.ledger > row.updated THEN e.val ELSE @,
                             !.updated = Watermark(row, e.ledger)]]

(* The flag handlers assign without looking at the watermark. *)
RowFor(d, e) == IF d.states[e.id] = NoRow THEN NewRow(e.ledger) ELSE d.states[e.id]

SetPaused(d, e, value) ==
    LET row == RowFor(d, e)
    IN  [d EXCEPT !.states[e.id] = [row EXCEPT !.paused = value,
                                               !.updated = Watermark(row, e.ledger)]]

SetCancelled(d, e) ==
    LET row == RowFor(d, e)
    IN  [d EXCEPT !.states[e.id] = [row EXCEPT !.cancelled = TRUE,
                                               !.updated = Watermark(row, e.ledger)]]

handleStreamPaused(d, e) == SetPaused(d, e, TRUE)
handleStreamResumed(d, e) == SetPaused(d, e, FALSE)
handleStreamCancelled(d, e) == SetCancelled(d, e)
handleStreamClawback(d, e) == SetCancelled(d, e)

(* handleLoanVote, handleTreasuryVote and handleTreasuryReveal: the later  *)
(* delivery wins, only the ledger is kept as a maximum.                    *)
handleVote(d, e) ==
    [d EXCEPT !.votes[e.id] = [val |-> e.val, updated |-> Watermark(@, e.ledger)]]

foldEvent(d, e) ==
    CASE e.type = "withdrawn" -> handleStreamWithdrawn(d, e)
      [] e.type = "topped_up" -> handleStreamToppedUp(d, e)
      [] e.type = "xfer_rec"  -> handleXferRec(d, e)
      [] e.type = "paused"    -> handleStreamPaused(d, e)
      [] e.type = "resumed"   -> handleStreamResumed(d, e)
      [] e.type = "cancelled" -> handleStreamCancelled(d, e)
      [] e.type = "clawback"  -> handleStreamClawback(d, e)
      [] e.type = "vote"      -> handleVote(d, e)

(* One event of the page: the raw log, then the fold *)
ingestEvent(d, e) ==
    IF d.broken THEN d ELSE foldEvent([d EXCEPT !.raw = @ \cup {RawKey(e)}], e)

ingestPage(d, events) ==
    LET done[k \in 0 .. Len(events)] ==
            IF k = 0 THEN d ELSE ingestEvent(done[k - 1], events[k])
    IN  done[Len(events)]

(* GREATEST(cursor.last_ledger, EXCLUDED.last_ledger) *)
saveCursor(d, l) == [d EXCEPT !.cursor = Max({@, l})]

NextLedger(events) == Max({events[i].ledger : i \in DOMAIN events})

-----------------------------------------------------------------------------
(* The ledger and its event source (external) *)

(* Positions on the chain: events come in the order of their ledgers *)
Visible(l) == {i \in DOMAIN chain : l <= chain[i].ledger /\ chain[i].ledger <= head}

(* fetchEvents(fromLedger, limit): the first events from that ledger on *)
fetchEvents(l) ==
    IF Visible(l) = {} THEN <<>>
    ELSE LET first == Min(Visible(l))
         IN  SubSeq(chain, first, Min({Max(Visible(l)), first + Limit - 1}))

OpenLedger == {i \in DOMAIN chain : chain[i].ledger = head + 1}

EventsOf(id, types) == {i \in DOMAIN chain : chain[i].id = id /\ chain[i].type \in types}

IsPaused(s) ==
    LET flags == EventsOf(s, {"paused", "resumed"})
    IN  flags # {} /\ chain[Max(flags)].type = "paused"

(* What a stream contract can emit next: nothing once cancelled, pause and *)
(* resume in turn.                                                         *)
CanEmit(e) ==
    e.id \in Streams =>
        /\ EventsOf(e.id, {"cancelled"}) = {}
        /\ e.type = "paused" => ~IsPaused(e.id)
        /\ e.type = "resumed" => IsPaused(e.id)

(* Events of one ledger come from one transaction or from consecutive ones *)
TxOrder(e) ==
    IF OpenLedger = {} THEN e.tx = 1
    ELSE e.tx \in {Last(chain).tx, Last(chain).tx + 1}

Emit ==
    /\ head < MaxLedger
    /\ Cardinality(OpenLedger) < MaxPerLedger
    /\ \E e \in EventsAt(head + 1) :
          CanEmit(e) /\ TxOrder(e) /\ chain' = Append(chain, e)
    /\ UNCHANGED <<head, db, lock, workers, faults, sessionLosses>>

CloseLedger ==
    /\ OpenLedger # {}
    /\ head' = head + 1
    /\ UNCHANGED <<chain, db, lock, workers, faults, sessionLosses>>

-----------------------------------------------------------------------------
(* Workers *)

Goto(w, label) == pc' = [pc EXCEPT ![w] = label]

Fault == faults < MaxFaults /\ faults' = faults + 1

(* Server side: the lock goes with the session that took it *)
Unlock(w) == lock' = IF lock = w THEN NoOne ELSE lock

(* pg_try_advisory_lock succeeds *)
LockFree_Ignored == TRUE  \* mutant
LockFree == lock = NoOne

(* main: take the lock or exit 0 (nothing to model); then the poll loop *)
Boot(w) ==
    /\ pc[w] = "down"
    /\ LockFree
    /\ lock' = w
    /\ Goto(w, "loop")
    /\ aborted' = [aborted EXCEPT ![w] = FALSE]
    /\ UNCHANGED <<env, db, from, page, attempt, faults, sessionLosses>>

(* pollOnce reads the cursor outside the ingest transaction *)
ReadCursor(w) ==
    /\ pc[w] = "loop" /\ ~aborted[w]
    /\ from' = [from EXCEPT ![w] = db.cursor]
    /\ attempt' = [attempt EXCEPT ![w] = 0]
    /\ Goto(w, "fetch")
    /\ UNCHANGED <<env, db, lock, page, aborted, faults, sessionLosses>>

(* An empty page ends pollOnce before the transaction *)
AfterFetch(events) == IF events = <<>> THEN "loop" ELSE "ingest"

(* A fetch that succeeds *)
Fetch(w) ==
    /\ pc[w] = "fetch" /\ ~aborted[w]
    /\ page' = [page EXCEPT ![w] = fetchEvents(from[w] + 1)]
    /\ Goto(w, AfterFetch(page'[w]))
    /\ UNCHANGED <<env, db, lock, from, attempt, aborted, faults, sessionLosses>>

(* The error of the last attempt is caught by startPollLoop *)
FetchExhausted_LoopEnds == "ended"  \* mutant
FetchExhausted == "loop"

(* An attempt fails: retried with the same fromLedger until the attempts   *)
(* are used up, then the loop backs off and reads the cursor again         *)
FetchFails(w) ==
    /\ pc[w] = "fetch" /\ ~aborted[w]
    /\ Fault
    /\ attempt' = [attempt EXCEPT ![w] = @ + 1]
    /\ Goto(w, IF attempt'[w] = Attempts THEN FetchExhausted ELSE "fetch")
    /\ UNCHANGED <<env, db, lock, from, page, aborted, sessionLosses>>

(* retryWithBackoff gives up when the worker is stopping *)
FetchAborted(w) ==
    /\ pc[w] = "fetch" /\ aborted[w]
    /\ Goto(w, "loop")
    /\ UNCHANGED <<env, db, lock, from, page, attempt, aborted, faults, sessionLosses>>

Ingested(w) == ingestPage(db, page[w])

(* BEGIN; ingestPage; saveCursor; COMMIT *)
Commit(w) ==
    /\ pc[w] = "ingest"
    /\ ~Ingested(w).broken
    /\ db' = saveCursor(Ingested(w), NextLedger(page[w]))
    /\ page' = [page EXCEPT ![w] = <<>>]
    /\ Goto(w, "loop")
    /\ UNCHANGED <<env, lock, from, attempt, aborted, faults, sessionLosses>>

(* What a rolled back transaction leaves of the page *)
RolledBack_KeepsCursor(w) == saveCursor(db, NextLedger(page[w]))  \* mutant
RolledBack(w) == db

(* A statement is refused, or the database fails: ROLLBACK, and the next   *)
(* iteration of the loop starts over from the cursor                       *)
Rollback(w) ==
    /\ pc[w] = "ingest"
    /\ \/ Ingested(w).broken /\ UNCHANGED faults
       \/ Fault
    /\ db' = RolledBack(w)
    /\ page' = [page EXCEPT ![w] = <<>>]
    /\ Goto(w, "loop")
    /\ UNCHANGED <<env, lock, from, attempt, aborted, sessionLosses>>

(* SIGTERM or SIGINT: handleShutdown aborts the loop and waits for it *)
Signal(w) ==
    /\ pc[w] # "down" /\ ~aborted[w]
    /\ Fault
    /\ aborted' = [aborted EXCEPT ![w] = TRUE]
    /\ UNCHANGED <<env, db, lock, pc, from, page, attempt, sessionLosses>>

(* The loop has ended: unlock, close the pool, exit *)
Shutdown(w) ==
    /\ pc[w] = "loop" /\ aborted[w]
    /\ Unlock(w)
    /\ Goto(w, "down")
    /\ UNCHANGED <<env, db, from, page, attempt, aborted, faults, sessionLosses>>

Exit(w) ==
    /\ Goto(w, "down")
    /\ page' = [page EXCEPT ![w] = <<>>]
    /\ UNCHANGED <<env, db, from, attempt, aborted, sessionLosses>>

(* The process dies; its sessions end and take the lock with them *)
Crash(w) ==
    /\ pc[w] # "down"
    /\ Fault
    /\ Unlock(w)
    /\ Exit(w)

(* The server ends the session of the lock; the worker does not know yet *)
SessionLost(w) ==
    /\ lock = w
    /\ sessionLosses < MaxSessionLoss
    /\ sessionLosses' = sessionLosses + 1
    /\ lock' = NoOne
    /\ UNCHANGED <<env, db, workers, faults>>

(* client.on("error"): the worker learns of it and exits *)
LockErrorExit(w) ==
    /\ pc[w] # "down" /\ lock # w
    /\ Exit(w)
    /\ UNCHANGED <<lock, faults>>

-----------------------------------------------------------------------------
Init ==
    /\ chain = <<>> /\ head = 0
    /\ db = EmptyDb
    /\ lock = NoOne
    /\ pc = [w \in Workers |-> "down"]
    /\ from = [w \in Workers |-> 0]
    /\ page = [w \in Workers |-> <<>>]
    /\ attempt = [w \in Workers |-> 0]
    /\ aborted = [w \in Workers |-> FALSE]
    /\ faults = 0 /\ sessionLosses = 0

WorkerStep(w) ==
    \/ Boot(w) \/ ReadCursor(w) \/ Fetch(w) \/ FetchFails(w) \/ FetchAborted(w)
    \/ Commit(w) \/ Rollback(w) \/ Signal(w) \/ Shutdown(w) \/ Crash(w)
    \/ SessionLost(w) \/ LockErrorExit(w)

Next == Emit \/ CloseLedger \/ \E w \in Workers : WorkerStep(w)

Spec == Init /\ [][Next]_vars

(* Scheduling: a supervisor starts some worker when the lock is free, and  *)
(* a worker that runs keeps going; faults need not happen.                 *)
Fairness ==
    /\ WF_vars(\E w \in Workers : Boot(w))
    /\ \A w \in Workers :
          WF_vars(ReadCursor(w) \/ Fetch(w) \/ FetchAborted(w) \/ Commit(w)
                    \/ Rollback(w) \/ Shutdown(w))

LiveSpec == Spec /\ Fairness

-----------------------------------------------------------------------------
(* Properties *)

Labels == {"down", "loop", "fetch", "ingest"}

RowType ==
    {NoRow} \cup [recipient : Recipients \cup {NoOne}, deposit : Nat, withdrawn : Nat,
                  paused : BOOLEAN, cancelled : BOOLEAN, updated : 1 .. MaxLedger]

(* Shape of the state; a page in hand is never empty, as pollOnce returns   *)
(* early on an empty one, and no committed table comes from a failed        *)
(* transaction.                                                             *)
IndexerTypeOK ==
    /\ chain \in Seq(RawEvent) /\ head \in 0 .. MaxLedger
    /\ db.cursor \in 0 .. MaxLedger /\ ~db.broken
    /\ \A s \in Streams : db.states[s] \in RowType
    /\ lock \in Workers \cup {NoOne}
    /\ pc \in [Workers -> Labels]
    /\ from \in [Workers -> 0 .. MaxLedger]
    /\ \A w \in Workers : pc[w] = "ingest" <=> page[w] # <<>>
    /\ attempt \in [Workers -> 0 .. Attempts]

(* The cursor vouches for the raw log: every event of a ledger at or below  *)
(* the committed cursor has been ingested, whatever crashed, was rolled     *)
(* back or was delivered twice (pollOnce saves both in one transaction).    *)
(* The code breaks it where the Limit ends a page inside a ledger.          *)
NoEventSkipped ==
    \A i \in DOMAIN chain :
        chain[i].ledger <= db.cursor => RawKey(chain[i]) \in db.raw

IndexedOf(id, types) == {i \in EventsOf(id, types) : chain[i].ledger <= db.cursor}

(* The sum of the values of a function *)
Total(f) == MapThenSumSet(LAMBDA x : f[x], DOMAIN f)

(* A page starts with the first event of a ledger and the Limit can end it  *)
(* before the last event of another one.                                    *)
PageCanBeCut ==
    \E i \in DOMAIN chain :
        /\ i = 1 \/ chain[i - 1].ledger < chain[i].ledger
        /\ i + Limit \in DOMAIN chain
        /\ chain[i + Limit - 1].ledger = chain[i + Limit].ledger

(* An event that is missing below the cursor stands behind an indexed one   *)
(* of its own ledger.                                                       *)
LostInTails ==
    \A i \in DOMAIN chain :
        chain[i].ledger <= db.cursor /\ RawKey(chain[i]) \notin db.raw =>
            \E j \in 1 .. (i - 1) :
                chain[j].ledger = chain[i].ledger /\ RawKey(chain[j]) \in db.raw

(* However pages are retried, rolled back or folded by two workers, also    *)
(* after a lost session, no event below the cursor is lost but by a page    *)
(* that was cut, and what a cut loses is the end of a ledger whose          *)
(* beginning was indexed (fetchEvents, ingestPage, saveCursor).             *)
OnlyTailsLost == LostInTails /\ (~PageCanBeCut => NoEventSkipped)

(* No earlier event of the stream or ballot is of the same ledger. *)
FirstOfLedger(i) ==
    \A j \in 1 .. (i - 1) : chain[j].id = chain[i].id => chain[j].ledger < chain[i].ledger

(* No earlier withdrawal of the stream is of the same transaction. *)
FirstOfTx(i) ==
    \A j \in 1 .. (i - 1) :
        chain[j].type = "withdrawn" => WithdrawalKey(chain[j]) # WithdrawalKey(chain[i])

CountedOf(s, type) == {i \in IndexedOf(s, {type}) : FirstOfLedger(i)}

(* As long as no page can be cut, the accumulators of stream_states count,  *)
(* of the events of a stream in one ledger, the first one exactly once and  *)
(* the others never, also when a page is folded again by a second worker    *)
(* after a lost session; and stream_withdrawals has one row for each        *)
(* transaction that withdrew (the watermark of handleStreamWithdrawn,       *)
(* handleStreamToppedUp and handleXferRec against the events on chain).     *)
AmountsAgree ==
    ~PageCanBeCut =>
        /\ \A s \in Streams : db.states[s] # NoRow =>
              /\ db.states[s].withdrawn = Total([i \in CountedOf(s, "withdrawn") |-> chain[i].val])
              /\ db.states[s].deposit = Total([i \in CountedOf(s, "topped_up") |-> chain[i].val])
              /\ LET moves == CountedOf(s, "xfer_rec")
                 IN  moves # {} => db.states[s].recipient = chain[Max(moves)].val
        /\ db.withdrawals =
              {chain[i] : i \in {k \in DOMAIN chain : /\ chain[k].ledger <= db.cursor
                                                     /\ chain[k].type = "withdrawn"
                                                     /\ FirstOfTx(k)}}

(* Last-writer tables show the latest event of the chain up to the cursor:  *)
(* the paused flag and the votes (handleStreamPaused, handleStreamResumed,  *)
(* handleLoanVote and its two siblings): "idempotent projections from       *)
(* raw_events into derived tables" (handlers.ts:4).                         *)
LatestAgree ==
    /\ \A s \in Streams : db.states[s] # NoRow =>
          LET flags == IndexedOf(s, {"paused", "resumed"})
          IN  db.states[s].paused <=> flags # {} /\ chain[Max(flags)].type = "paused"
    /\ \A b \in Ballots :
          LET cast == IndexedOf(b, {"vote"})
          IN  cast # {} => db.votes[b].val = chain[Max(cast)].val

(* Only the holder of the lock is anywhere in the poll loop *)
SingleWriter == \A w \in Workers : pc[w] # "down" => lock = w

(* As long as no session has been lost under a live worker, the advisory    *)
(* lock keeps workers apart (acquireSingletonLock, setupGracefulShutdown),  *)
(* so a page is committed by the only worker that can have it, in the order *)
(* of the chain, and the flags and votes are the latest ones although their *)
(* handlers ignore the watermark.  A page that can be cut is the exception  *)
(* for these: it may lose the latest event.                                 *)
LockKeepsOrder == sessionLosses = 0 => SingleWriter /\ (~PageCanBeCut => LatestAgree)

(* The page that follows the cursor has a withdrawal that is the first      *)
(* event of its stream: its insert is refused (handlers.ts:42).             *)
Unfoldable ==
    \E i \in Visible(db.cursor + 1) :
        /\ chain[i].type = "withdrawn"
        /\ i = Min(EventsOf(chain[i].id, StreamTypes))
        /\ i < Min(Visible(db.cursor + 1)) + Limit

(* Every closed ledger is eventually indexed, through any number of failed  *)
(* fetches, rollbacks, crashes and restarts that stops at last, unless the  *)
(* loop has reached a page with a withdrawal that opens a stream: only such *)
(* a page holds it up, and nothing before it (startPollLoop never exits on  *)
(* a failure).                                                              *)
CatchesUp ==
    \A l \in 1 .. MaxLedger : (head >= l) ~> (db.cursor >= l \/ Unfoldable)

=============================================================================
