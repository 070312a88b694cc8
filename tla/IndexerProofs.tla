--------------------------- MODULE IndexerProofs ---------------------------
(***************************************************************************)
(* Proofs about the indexer: the shape of the tables through every fold,   *)
(* and what the cursor, the accumulators, the flags and the votes say of   *)
(* the chain, for all workers, streams, page sizes, crashes and lost       *)
(* sessions.                                                               *)
(***************************************************************************)
EXTENDS Indexer, FoldLemmas, FiniteSetTheorems, SequenceTheorems, TLAPS

-----------------------------------------------------------------------------
(* Events and rows *)

FullRow == [recipient : Recipients \cup {NoOne}, deposit : Nat, withdrawn : Nat,
            paused : BOOLEAN, cancelled : BOOLEAN, updated : 1 .. MaxLedger]

VoteRow == {NoRow} \cup [val : BallotChoices, updated : Nat]

DbType == [cursor : 0 .. MaxLedger, raw : SUBSET {RawKey(e) : e \in RawEvent},
           withdrawals : SUBSET RawEvent, states : [Streams -> RowType],
           votes : [Ballots -> VoteRow], broken : BOOLEAN]

LEMMA MaxTwo ==
    ASSUME NEW a \in Int, NEW b \in Int
    PROVE  Max({a, b}) = IF a > b THEN a ELSE b
<1>1. \E x \in {a, b} : \A y \in {a, b} : x >= y
  OBVIOUS
<1>2. Max({a, b}) \in {a, b} /\ \A y \in {a, b} : Max({a, b}) >= y
  BY <1>1 DEF Max
<1> QED
  BY <1>2

LEMMA EventFacts ==
    ASSUME NEW e \in RawEvent
    PROVE  /\ e.ledger \in 1 .. MaxLedger /\ e.ledger \in Nat
           /\ e.type \in StreamTypes \cup {"vote"}
           /\ e.type = "vote" => e.id \in Ballots /\ e.val \in BallotChoices
           /\ e.type \in StreamTypes => e.id \in Streams
           /\ e.type \in {"withdrawn", "topped_up"} => e.val \in Nat
           /\ e.type = "xfer_rec" => e.val \in Recipients
<1>1. PICK l \in 1 .. MaxLedger : e \in EventsAt(l)
  BY DEF RawEvent
<1>2. /\ e \in [ledger : {l}, tx : 1 .. MaxPerLedger, type : StreamTypes \cup {"vote"},
                id : Streams \cup Ballots,
                val : Amounts \cup Recipients \cup BallotChoices \cup {0}]
      /\ (e.type = "vote") <=> (e.id \in Ballots)
      /\ CASE e.type \in {"withdrawn", "topped_up"} -> e.val \in Amounts
           [] e.type = "xfer_rec"                   -> e.val \in Recipients
           [] e.type = "vote"                       -> e.val \in BallotChoices
           [] OTHER                                 -> e.val = 0
  BY <1>1 DEF EventsAt
<1>3. e.ledger = l /\ e.type \in StreamTypes \cup {"vote"} /\ e.id \in Streams \cup Ballots
  BY <1>2
<1>4. e.type \in StreamTypes => e.type # "vote"
  BY DEF StreamTypes
<1>5. e.type \in {"withdrawn", "topped_up"} => e.val \in Nat
  BY <1>2, AmountsAssumption
<1>6. e.type = "xfer_rec" => e.val \in Recipients
  BY <1>2
<1>7. e.type = "vote" => e.val \in BallotChoices
  BY <1>2
<1>8. l \in Nat
  BY BoundAssumption
<1> QED
  BY <1>1, <1>2, <1>3, <1>4, <1>5, <1>6, <1>7, <1>8

LEMMA RowParts ==
    /\ RowType = {NoRow} \cup FullRow
    /\ \A row \in FullRow : row # NoRow /\ row.updated \in Nat \ {0}
    /\ NoRow.updated = 0
    /\ \A l \in 1 .. MaxLedger : NewRow(l) \in FullRow
<1>1. RowType = {NoRow} \cup FullRow /\ NoRow.updated = 0
  BY DEF RowType, FullRow, NoRow
<1>2. \A row \in FullRow : row.updated \in Nat \ {0}
  BY BoundAssumption DEF FullRow
<1>3. \A l \in 1 .. MaxLedger : NewRow(l) \in FullRow
  BY DEF FullRow, NewRow
<1> QED
  BY <1>1, <1>2, <1>3

(* A row as the handlers see it: the columns of a missing one are at their defaults *)
Shown(row) == IF row = NoRow THEN NewRow(0) ELSE row

(* What one event of a stream makes of its row *)
RowEffect(row, e, new) ==
    LET old == Shown(row)
        fresh == e.ledger > old.updated IN
    /\ new \in FullRow
    /\ new.updated = IF old.updated > e.ledger THEN old.updated ELSE e.ledger
    /\ new.deposit = old.deposit + (IF e.type = "topped_up" /\ fresh THEN e.val ELSE 0)
    /\ new.withdrawn = old.withdrawn + (IF e.type = "withdrawn" /\ fresh THEN e.val ELSE 0)
    /\ new.recipient = IF e.type = "xfer_rec" /\ fresh THEN e.val ELSE old.recipient
    /\ new.paused <=> e.type = "paused" \/ (e.type # "resumed" /\ old.paused)

(* What one event of a stream makes of the tables *)
StreamFolded(d, e, r) ==
    /\ r \in DbType /\ r.cursor = d.cursor /\ r.raw = d.raw /\ r.votes = d.votes
    /\ r.broken = FALSE
    /\ \A s \in Streams : s # e.id => r.states[s] = d.states[s]
    /\ RowEffect(d.states[e.id], e, r.states[e.id])
    /\ r.withdrawals = IF \/ e.type # "withdrawn"
                          \/ \E w \in d.withdrawals : WithdrawalKey(w) = WithdrawalKey(e)
                       THEN d.withdrawals ELSE d.withdrawals \cup {e}

LEMMA RowReplaced ==
    ASSUME NEW d \in DbType, NEW e \in RawEvent, e.type \in StreamTypes, d.broken = FALSE,
           NEW new, RowEffect(d.states[e.id], e, new), e.type # "withdrawn",
           NEW r, r = [d EXCEPT !.states[e.id] = new]
    PROVE  StreamFolded(d, e, r)
<1>1. e.id \in Streams
  BY EventFacts
<1>2. new \in RowType
  BY RowParts DEF RowEffect
<1>3. d.states \in [Streams -> RowType]
  BY DEF DbType
<1>4. /\ r.states = [d.states EXCEPT ![e.id] = new]
      /\ r.cursor = d.cursor /\ r.raw = d.raw /\ r.votes = d.votes /\ r.broken = d.broken
      /\ r.withdrawals = d.withdrawals
      /\ r = [cursor |-> d.cursor, raw |-> d.raw, withdrawals |-> d.withdrawals,
              states |-> r.states, votes |-> d.votes, broken |-> d.broken]
  BY DEF DbType
<1>5. /\ r.states \in [Streams -> RowType] /\ r.states[e.id] = new
      /\ \A s \in Streams : s # e.id => r.states[s] = d.states[s]
  BY <1>1, <1>2, <1>3, <1>4
<1>6. r \in DbType
  BY <1>4, <1>5 DEF DbType
<1> QED
  BY <1>4, <1>5, <1>6 DEF StreamFolded

(* A row that a handler writes in place of an old one *)
LEMMA RowUpdated ==
    ASSUME NEW row \in FullRow, NEW e \in RawEvent
    PROVE  /\ Shown(row) = row /\ Watermark(row, e.ledger) \in 1 .. MaxLedger
           /\ Watermark(row, e.ledger) = IF row.updated > e.ledger THEN row.updated ELSE e.ledger
<1>1. Shown(row) = row
  BY RowParts DEF Shown
<1>2. /\ row.updated \in 1 .. MaxLedger /\ e.ledger \in 1 .. MaxLedger
      /\ row.updated \in Int /\ e.ledger \in Int
  BY EventFacts, BoundAssumption DEF FullRow
<1>3. Max({row.updated, e.ledger}) = IF row.updated > e.ledger THEN row.updated ELSE e.ledger
  BY <1>2, MaxTwo
<1> QED
  BY <1>1, <1>2, <1>3 DEF Watermark

LEMMA ShownType ==
    ASSUME NEW row \in RowType
    PROVE  /\ Shown(row).recipient \in Recipients \cup {NoOne}
           /\ Shown(row).deposit \in Nat /\ Shown(row).withdrawn \in Nat
           /\ Shown(row).updated \in Nat /\ Shown(row).updated = row.updated
           /\ row = NoRow => /\ Shown(row).recipient = NoOne /\ Shown(row).deposit = 0
                             /\ Shown(row).withdrawn = 0 /\ ~Shown(row).paused
                             /\ Shown(row).updated = 0
           /\ row # NoRow => row \in FullRow /\ Shown(row) = row
<1>1. CASE row = NoRow
  <2>1. Shown(row) = NewRow(0)
    BY <1>1 DEF Shown
  <2>2. row.updated = 0
    BY <1>1, RowParts
  <2>3. /\ Shown(row).recipient = NoOne /\ Shown(row).deposit = 0
        /\ Shown(row).withdrawn = 0 /\ Shown(row).updated = 0
    BY <2>1 DEF NewRow
  <2>4. ~Shown(row).paused
    BY <2>1 DEF NewRow
  <2> QED
    BY <1>1, <2>2, <2>3, <2>4
<1>2. CASE row # NoRow
  <2>1. row \in FullRow
    BY <1>2, RowParts
  <2>2. Shown(row) = row
    BY <1>2 DEF Shown
  <2>3. row.updated \in Nat
    BY <2>1, RowParts
  <2>4. row.recipient \in Recipients \cup {NoOne} /\ row.deposit \in Nat /\ row.withdrawn \in Nat
    BY <2>1 DEF FullRow
  <2> QED
    BY <1>2, <2>1, <2>2, <2>3, <2>4
<1> QED
  BY <1>1, <1>2

(* What the watermark makes of a shown row *)
LEMMA ShownWatermark ==
    ASSUME NEW row \in RowType, NEW e \in RawEvent
    PROVE  /\ Watermark(row, e.ledger) \in 1 .. MaxLedger
           /\ Watermark(row, e.ledger) =
                IF Shown(row).updated > e.ledger THEN Shown(row).updated ELSE e.ledger
           /\ row = NoRow => Watermark(row, e.ledger) = e.ledger
<1>1. e.ledger \in 1 .. MaxLedger /\ e.ledger \in Nat /\ e.ledger \in Int
  BY EventFacts
<1>2. /\ row.updated \in Nat /\ Shown(row).updated = row.updated
      /\ row = NoRow => row.updated = 0
      /\ row # NoRow => row.updated \in 1 .. MaxLedger
  <2>1. row # NoRow => row \in FullRow
    BY ShownType
  <2>2. row # NoRow => row.updated \in 1 .. MaxLedger
    BY <2>1 DEF FullRow
  <2> QED
    BY <2>2, ShownType
<1>3. Watermark(row, e.ledger) = IF row.updated > e.ledger THEN row.updated ELSE e.ledger
  <2>1. Max({row.updated, e.ledger}) = IF row.updated > e.ledger THEN row.updated ELSE e.ledger
    BY <1>1, <1>2, MaxTwo
  <2> QED
    BY <2>1 DEF Watermark
<1> QED
  BY <1>1, <1>2, <1>3

(* Every handler that writes a row writes one column of it and the ledger. *)
RowHas(new, rec, dep, wd, pa, up) ==
    /\ new \in FullRow /\ new.updated = up /\ new.deposit = dep
    /\ new.withdrawn = wd /\ new.recipient = rec /\ new.paused = pa

(* The rows the handlers write over an old one *)
DepositRow(row, x, up) == [row EXCEPT !.deposit = x, !.updated = up]
WithdrawnRow(row, x, up) == [row EXCEPT !.withdrawn = x, !.updated = up]
RecipientRow(row, x, up) == [row EXCEPT !.recipient = x, !.updated = up]
PausedRow(row, x, up) == [row EXCEPT !.paused = x, !.updated = up]
CancelledRow(row, up) == [row EXCEPT !.cancelled = TRUE, !.updated = up]

LEMMA DepositWritten ==
    ASSUME NEW row \in FullRow, NEW up \in 1 .. MaxLedger, NEW x \in Nat,
           NEW new, new = DepositRow(row, x, up)
    PROVE  RowHas(new, row.recipient, x, row.withdrawn, row.paused, up)
<1>1. /\ new \in FullRow /\ new.updated = up /\ new.deposit = x
      /\ new.withdrawn = row.withdrawn /\ new.recipient = row.recipient
      /\ new.paused = row.paused
  BY DEF FullRow, DepositRow
<1> QED
  BY <1>1 DEF RowHas

LEMMA WithdrawnWritten ==
    ASSUME NEW row \in FullRow, NEW up \in 1 .. MaxLedger, NEW x \in Nat,
           NEW new, new = WithdrawnRow(row, x, up)
    PROVE  RowHas(new, row.recipient, row.deposit, x, row.paused, up)
<1>1. /\ new \in FullRow /\ new.updated = up /\ new.deposit = row.deposit
      /\ new.withdrawn = x /\ new.recipient = row.recipient
      /\ new.paused = row.paused
  BY DEF FullRow, WithdrawnRow
<1> QED
  BY <1>1 DEF RowHas

LEMMA RecipientWritten ==
    ASSUME NEW row \in FullRow, NEW up \in 1 .. MaxLedger,
           NEW x \in Recipients \cup {NoOne},
           NEW new, new = RecipientRow(row, x, up)
    PROVE  RowHas(new, x, row.deposit, row.withdrawn, row.paused, up)
<1>1. /\ new \in FullRow /\ new.updated = up /\ new.deposit = row.deposit
      /\ new.withdrawn = row.withdrawn /\ new.recipient = x
      /\ new.paused = row.paused
  BY DEF FullRow, RecipientRow
<1> QED
  BY <1>1 DEF RowHas

LEMMA PausedWritten ==
    ASSUME NEW row \in FullRow, NEW up \in 1 .. MaxLedger, NEW x \in BOOLEAN,
           NEW new, new = PausedRow(row, x, up)
    PROVE  RowHas(new, row.recipient, row.deposit, row.withdrawn, x, up)
<1>1. /\ new \in FullRow /\ new.updated = up /\ new.deposit = row.deposit
      /\ new.withdrawn = row.withdrawn /\ new.recipient = row.recipient
      /\ new.paused = x
  BY DEF FullRow, PausedRow
<1> QED
  BY <1>1 DEF RowHas

LEMMA CancelledWritten ==
    ASSUME NEW row \in FullRow, NEW up \in 1 .. MaxLedger,
           NEW new, new = CancelledRow(row, up)
    PROVE  RowHas(new, row.recipient, row.deposit, row.withdrawn, row.paused, up)
<1>1. /\ new \in FullRow /\ new.updated = up /\ new.deposit = row.deposit
      /\ new.withdrawn = row.withdrawn /\ new.recipient = row.recipient
      /\ new.paused = row.paused
  BY DEF FullRow, CancelledRow
<1> QED
  BY <1>1 DEF RowHas

LEMMA RowOpened ==
    ASSUME NEW l \in 1 .. MaxLedger
    PROVE  /\ RowHas(NewRow(l), NoOne, 0, 0, FALSE, l)
           /\ \A x \in Nat : RowHas([NewRow(l) EXCEPT !.deposit = x], NoOne, x, 0, FALSE, l)
           /\ \A x \in Recipients :
                 RowHas([NewRow(l) EXCEPT !.recipient = x], x, 0, 0, FALSE, l)
<1>1. RowHas(NewRow(l), NoOne, 0, 0, FALSE, l)
  BY DEF RowHas, NewRow, FullRow
<1>2. ASSUME NEW x \in Nat
      PROVE  RowHas([NewRow(l) EXCEPT !.deposit = x], NoOne, x, 0, FALSE, l)
  BY DEF RowHas, NewRow, FullRow
<1>3. ASSUME NEW x \in Recipients
      PROVE  RowHas([NewRow(l) EXCEPT !.recipient = x], x, 0, 0, FALSE, l)
  BY DEF RowHas, NewRow, FullRow
<1> QED
  BY <1>1, <1>2, <1>3

LEMMA EffectOf ==
    ASSUME NEW row \in RowType, NEW e \in RawEvent, NEW new,
           NEW rec, NEW dep, NEW wd, NEW pa, NEW up, RowHas(new, rec, dep, wd, pa, up),
           rec = IF e.type = "xfer_rec" /\ e.ledger > Shown(row).updated
                 THEN e.val ELSE Shown(row).recipient,
           dep = Shown(row).deposit +
                   (IF e.type = "topped_up" /\ e.ledger > Shown(row).updated THEN e.val ELSE 0),
           wd = Shown(row).withdrawn +
                   (IF e.type = "withdrawn" /\ e.ledger > Shown(row).updated THEN e.val ELSE 0),
           pa <=> e.type = "paused" \/ (e.type # "resumed" /\ Shown(row).paused),
           up = Watermark(row, e.ledger)
    PROVE  RowEffect(row, e, new)
<1>1. up = IF Shown(row).updated > e.ledger THEN Shown(row).updated ELSE e.ledger
  BY ShownWatermark
<1>2. /\ new.recipient = rec /\ new.deposit = dep /\ new.withdrawn = wd
      /\ new.updated = up /\ new \in FullRow
  BY DEF RowHas
<1>3. new.paused <=> e.type = "paused" \/ (e.type # "resumed" /\ Shown(row).paused)
  <2>1. new.paused = pa
    BY DEF RowHas
  <2> QED
    BY <2>1, Zenon
<1> QED
  BY <1>1, <1>2, <1>3 DEF RowEffect

LEMMA FoldTopUp ==
    ASSUME NEW d \in DbType, NEW e \in RawEvent, d.broken = FALSE, e.type = "topped_up"
    PROVE  StreamFolded(d, e, foldEvent(d, e))
<1> DEFINE row == d.states[e.id]
           up == Watermark(row, e.ledger)
           dep == IF e.ledger > row.updated THEN row.deposit + e.val ELSE row.deposit
           new == IF row = NoRow
                  THEN [NewRow(e.ledger) EXCEPT !.deposit = e.val]
                  ELSE [row EXCEPT !.deposit = dep, !.updated = up]
<1>1. /\ e.type \in StreamTypes /\ e.id \in Streams /\ e.val \in Nat
      /\ e.ledger \in Nat \ {0} /\ e.ledger \in 1 .. MaxLedger
  BY EventFacts DEF StreamTypes
<1>2. row \in RowType
  BY <1>1 DEF DbType
<1>3. foldEvent(d, e) = [d EXCEPT !.states[e.id] = new]
  BY DEF foldEvent, handleStreamToppedUp
<1>4. up \in 1 .. MaxLedger /\ (row = NoRow => up = e.ledger)
  BY <1>2, ShownWatermark
<1> HIDE DEF row
<1>5. RowEffect(row, e, new)
  <2>1. CASE row = NoRow
    <3>1. /\ Shown(row).recipient = NoOne /\ Shown(row).deposit = 0 /\ Shown(row).withdrawn = 0
          /\ ~Shown(row).paused /\ Shown(row).updated = 0
      BY <1>2, <2>1, ShownType
    <3>2. RowHas(new, NoOne, e.val, 0, FALSE, e.ledger)
      BY <1>1, <2>1, RowOpened
    <3>3. /\ NoOne = IF e.type = "xfer_rec" /\ e.ledger > Shown(row).updated
                     THEN e.val ELSE Shown(row).recipient
          /\ e.val = Shown(row).deposit +
                   (IF e.type = "topped_up" /\ e.ledger > Shown(row).updated THEN e.val ELSE 0)
          /\ 0 = Shown(row).withdrawn +
                   (IF e.type = "withdrawn" /\ e.ledger > Shown(row).updated THEN e.val ELSE 0)
      BY <1>1, <3>1
    <3>4. FALSE <=> e.type = "paused" \/ (e.type # "resumed" /\ Shown(row).paused)
      BY <3>1
    <3>5. e.ledger = Watermark(row, e.ledger)
      BY <1>4, <2>1
    <3> HIDE DEF new, up
    <3> QED
      BY <1>2, <3>2, <3>3, <3>4, <3>5, EffectOf
  <2>2. CASE row # NoRow
    <3>1. row \in FullRow /\ Shown(row) = row
      BY <1>2, <2>2, ShownType
    <3>2. row.deposit \in Nat /\ row.withdrawn \in Nat /\ row.updated \in Nat
      BY <1>2, <3>1, ShownType
    <3>3. dep \in Nat
      BY <1>1, <3>2
    <3>4. /\ dep = row.deposit + (IF e.type = "topped_up" /\ e.ledger > row.updated
                                  THEN e.val ELSE 0)
          /\ row.withdrawn = row.withdrawn + 0
      BY <1>1, <3>2
    <3>8. new = DepositRow(row, dep, up)
      BY <2>2 DEF DepositRow
    <3> HIDE DEF dep, up, new
    <3>5. RowHas(new, row.recipient, dep, row.withdrawn, row.paused, up)
      BY <1>4, <3>1, <3>3, <3>8, DepositWritten
    <3>6. row.paused <=> e.type = "paused" \/ (e.type # "resumed" /\ Shown(row).paused)
      BY <3>1
    <3>7. up = Watermark(row, e.ledger)
      BY DEF up
    <3> QED
      BY <1>2, <3>1, <3>4, <3>5, <3>6, <3>7, EffectOf
  <2> QED
    BY <2>1, <2>2
<1> HIDE DEF new
<1> QED
  BY <1>1, <1>3, <1>5, RowReplaced DEF row

LEMMA FoldXferRec ==
    ASSUME NEW d \in DbType, NEW e \in RawEvent, d.broken = FALSE, e.type = "xfer_rec"
    PROVE  StreamFolded(d, e, foldEvent(d, e))
<1> DEFINE row == d.states[e.id]
           up == Watermark(row, e.ledger)
           rec == IF e.ledger > row.updated THEN e.val ELSE row.recipient
           new == IF row = NoRow
                  THEN [NewRow(e.ledger) EXCEPT !.recipient = e.val]
                  ELSE [row EXCEPT !.recipient = rec, !.updated = up]
<1>1. /\ e.type \in StreamTypes /\ e.id \in Streams /\ e.val \in Recipients
      /\ e.ledger \in Nat \ {0} /\ e.ledger \in 1 .. MaxLedger
  BY EventFacts DEF StreamTypes
<1>2. row \in RowType
  BY <1>1 DEF DbType
<1>3. foldEvent(d, e) = [d EXCEPT !.states[e.id] = new]
  BY DEF foldEvent, handleXferRec
<1>4. up \in 1 .. MaxLedger /\ (row = NoRow => up = e.ledger)
  BY <1>2, ShownWatermark
<1> HIDE DEF row
<1>5. RowEffect(row, e, new)
  <2>1. CASE row = NoRow
    <3>1. /\ Shown(row).recipient = NoOne /\ Shown(row).deposit = 0 /\ Shown(row).withdrawn = 0
          /\ ~Shown(row).paused /\ Shown(row).updated = 0
      BY <1>2, <2>1, ShownType
    <3>2. RowHas(new, e.val, 0, 0, FALSE, e.ledger)
      BY <1>1, <2>1, RowOpened
    <3>3. /\ e.val = IF e.type = "xfer_rec" /\ e.ledger > Shown(row).updated
                     THEN e.val ELSE Shown(row).recipient
          /\ 0 = Shown(row).deposit +
                   (IF e.type = "topped_up" /\ e.ledger > Shown(row).updated THEN e.val ELSE 0)
          /\ 0 = Shown(row).withdrawn +
                   (IF e.type = "withdrawn" /\ e.ledger > Shown(row).updated THEN e.val ELSE 0)
      BY <1>1, <3>1
    <3>4. FALSE <=> e.type = "paused" \/ (e.type # "resumed" /\ Shown(row).paused)
      BY <3>1
    <3>5. e.ledger = Watermark(row, e.ledger)
      BY <1>4, <2>1
    <3> HIDE DEF new, up
    <3> QED
      BY <1>2, <3>2, <3>3, <3>4, <3>5, EffectOf
  <2>2. CASE row # NoRow
    <3>1. row \in FullRow /\ Shown(row) = row
      BY <1>2, <2>2, ShownType
    <3>2. row.deposit \in Nat /\ row.withdrawn \in Nat /\ row.recipient \in Recipients \cup {NoOne}
      BY <1>2, <3>1, ShownType
    <3>3. rec \in Recipients \cup {NoOne}
      BY <1>1, <3>2
    <3>4. /\ rec = IF e.type = "xfer_rec" /\ e.ledger > row.updated THEN e.val ELSE row.recipient
          /\ row.withdrawn = row.withdrawn + 0 /\ row.deposit = row.deposit + 0
      BY <1>1, <3>2
    <3>8. new = RecipientRow(row, rec, up)
      BY <2>2 DEF RecipientRow
    <3> HIDE DEF rec, up, new
    <3>5. RowHas(new, rec, row.deposit, row.withdrawn, row.paused, up)
      BY <1>4, <3>1, <3>3, <3>8, RecipientWritten
    <3>6. row.paused <=> e.type = "paused" \/ (e.type # "resumed" /\ Shown(row).paused)
      BY <3>1
    <3>7. up = Watermark(row, e.ledger)
      BY DEF up
    <3> QED
      BY <1>2, <3>1, <3>4, <3>5, <3>6, <3>7, EffectOf
  <2> QED
    BY <2>1, <2>2
<1> HIDE DEF new
<1> QED
  BY <1>1, <1>3, <1>5, RowReplaced DEF row

(* The row a flag is set in *)
LEMMA FlagRow ==
    ASSUME NEW d \in DbType, NEW e \in RawEvent, e.type \in StreamTypes
    PROVE  LET row == d.states[e.id]
               base == RowFor(d, e) IN
           /\ base \in FullRow /\ base.deposit = Shown(row).deposit
           /\ base.withdrawn = Shown(row).withdrawn /\ base.recipient = Shown(row).recipient
           /\ base.paused = Shown(row).paused /\ base.paused \in BOOLEAN
           /\ Watermark(base, e.ledger) = Watermark(row, e.ledger)
           /\ Watermark(base, e.ledger) \in 1 .. MaxLedger
<1> DEFINE row == d.states[e.id]
           base == RowFor(d, e)
<1>1. e.id \in Streams /\ e.ledger \in Nat \ {0} /\ e.ledger \in 1 .. MaxLedger
  BY EventFacts
<1>2. row \in RowType
  BY <1>1 DEF DbType
<1>3. CASE row = NoRow
  <2>1. base = NewRow(e.ledger) /\ Shown(row) = NewRow(0)
    BY <1>3 DEF RowFor, Shown
  <2>2. base \in FullRow
    BY <1>1, <2>1, RowParts
  <2>3. /\ base.deposit = Shown(row).deposit
        /\ base.withdrawn = Shown(row).withdrawn /\ base.recipient = Shown(row).recipient
    BY <2>1 DEF NewRow
  <2>4. base.paused = Shown(row).paused /\ base.paused \in BOOLEAN
    BY <2>1 DEF NewRow
  <2>5. base.updated = e.ledger
    BY <2>1 DEF NewRow
  <2> HIDE DEF row, base
  <2>6. Watermark(row, e.ledger) = e.ledger
    BY <1>2, <1>3, ShownWatermark
  <2>7. Watermark(base, e.ledger) = e.ledger
    BY <1>1, <2>2, <2>5, RowUpdated
  <2> QED
    BY <1>1, <2>2, <2>3, <2>4, <2>6, <2>7 DEF row, base
<1>4. CASE row # NoRow
  <2>1. base = row
    BY <1>4 DEF RowFor
  <2>2. Shown(row) = row /\ row \in FullRow
    BY <1>2, <1>4, ShownType
  <2>3. row.paused \in BOOLEAN
    BY <2>2 DEF FullRow
  <2>4. Watermark(row, e.ledger) \in 1 .. MaxLedger
    BY <1>2, ShownWatermark
  <2> QED
    BY <2>1, <2>2, <2>3, <2>4
<1> QED
  BY <1>3, <1>4

LEMMA FoldPaused ==
    ASSUME NEW d \in DbType, NEW e \in RawEvent, d.broken = FALSE,
           e.type \in {"paused", "resumed"}
    PROVE  StreamFolded(d, e, foldEvent(d, e))
<1> DEFINE row == d.states[e.id]
           base == RowFor(d, e)
           up == Watermark(base, e.ledger)
           value == e.type = "paused"
           new == [base EXCEPT !.paused = value, !.updated = up]
<1>1. /\ e.type \in StreamTypes /\ e.id \in Streams
      /\ e.type # "topped_up" /\ e.type # "withdrawn" /\ e.type # "xfer_rec"
  BY EventFacts DEF StreamTypes
<1>2. row \in RowType
  BY <1>1 DEF DbType
<1>3. foldEvent(d, e) = [d EXCEPT !.states[e.id] = new]
  <2>1. CASE e.type = "paused"
    BY <2>1 DEF foldEvent, handleStreamPaused, SetPaused
  <2>2. CASE e.type = "resumed"
    BY <2>2 DEF foldEvent, handleStreamResumed, SetPaused
  <2> QED
    BY <2>1, <2>2
<1>4. /\ base \in FullRow /\ base.deposit = Shown(row).deposit
      /\ base.withdrawn = Shown(row).withdrawn /\ base.recipient = Shown(row).recipient
      /\ up = Watermark(row, e.ledger) /\ up \in 1 .. MaxLedger
  BY <1>1, FlagRow
<1>5. /\ Shown(row).deposit = Shown(row).deposit + 0
      /\ Shown(row).withdrawn = Shown(row).withdrawn + 0
  BY <1>2, ShownType
<1>6. value \in BOOLEAN /\ (value <=> e.type = "paused" \/ (e.type # "resumed" /\ Shown(row).paused))
  OBVIOUS
<1>7. new = PausedRow(base, value, up)
  BY DEF PausedRow
<1> HIDE DEF row, base, up, value, new
<1>9. RowHas(new, base.recipient, base.deposit, base.withdrawn, value, up)
  BY <1>4, <1>6, <1>7, PausedWritten
<1>8. RowEffect(row, e, new)
  BY <1>1, <1>2, <1>4, <1>5, <1>6, <1>9, EffectOf
<1> QED
  BY <1>1, <1>3, <1>8, RowReplaced DEF row

LEMMA FoldCancelled ==
    ASSUME NEW d \in DbType, NEW e \in RawEvent, d.broken = FALSE,
           e.type \in {"cancelled", "clawback"}
    PROVE  StreamFolded(d, e, foldEvent(d, e))
<1> DEFINE row == d.states[e.id]
           base == RowFor(d, e)
           up == Watermark(base, e.ledger)
           new == [base EXCEPT !.cancelled = TRUE, !.updated = up]
<1>1. /\ e.type \in StreamTypes /\ e.id \in Streams
      /\ e.type # "topped_up" /\ e.type # "withdrawn" /\ e.type # "xfer_rec"
      /\ e.type # "paused" /\ e.type # "resumed"
  BY EventFacts DEF StreamTypes
<1>2. row \in RowType
  BY <1>1 DEF DbType
<1>3. foldEvent(d, e) = [d EXCEPT !.states[e.id] = new]
  BY DEF foldEvent, handleStreamCancelled, handleStreamClawback, SetCancelled
<1>4. /\ base \in FullRow /\ base.deposit = Shown(row).deposit
      /\ base.withdrawn = Shown(row).withdrawn /\ base.recipient = Shown(row).recipient
      /\ base.paused = Shown(row).paused
      /\ up = Watermark(row, e.ledger) /\ up \in 1 .. MaxLedger
  BY <1>1, FlagRow
<1>5. /\ Shown(row).deposit = Shown(row).deposit + 0
      /\ Shown(row).withdrawn = Shown(row).withdrawn + 0
  BY <1>2, ShownType
<1>8. new = CancelledRow(base, up)
  BY DEF CancelledRow
<1> HIDE DEF row, base, up, new
<1>6. RowHas(new, base.recipient, base.deposit, base.withdrawn, base.paused, up)
  BY <1>4, <1>8, CancelledWritten
<1>7. RowEffect(row, e, new)
  BY <1>1, <1>2, <1>4, <1>5, <1>6, EffectOf
<1> QED
  BY <1>1, <1>3, <1>7, RowReplaced DEF row

LEMMA FoldWithdrawn ==
    ASSUME NEW d \in DbType, NEW e \in RawEvent, d.broken = FALSE, e.type = "withdrawn"
    PROVE  LET r == foldEvent(d, e) IN
           \/ r = [d EXCEPT !.broken = TRUE] /\ d.states[e.id] = NoRow
           \/ StreamFolded(d, e, r) /\ d.states[e.id] # NoRow
<1> DEFINE row == d.states[e.id]
           up == Watermark(row, e.ledger)
           wd == IF e.ledger > row.updated THEN row.withdrawn + e.val ELSE row.withdrawn
           new == [row EXCEPT !.withdrawn = wd, !.updated = up]
           log == IF \E w \in d.withdrawals : WithdrawalKey(w) = WithdrawalKey(e)
                  THEN d.withdrawals ELSE d.withdrawals \cup {e}
           r == foldEvent(d, e)
<1>1. e.type \in StreamTypes /\ e.id \in Streams /\ e.val \in Nat /\ e.ledger \in Nat
  BY EventFacts DEF StreamTypes
<1>2. row \in RowType /\ d.withdrawals \in SUBSET RawEvent /\ d.states \in [Streams -> RowType]
  BY <1>1 DEF DbType
<1>3. r = handleStreamWithdrawn(d, e)
  BY DEF foldEvent
<1>4. CASE row = NoRow
  BY <1>3, <1>4 DEF handleStreamWithdrawn
<1>5. CASE row # NoRow
  <2>1. row \in FullRow /\ Shown(row) = row
    BY <1>2, <1>5, ShownType
  <2>2. /\ row.deposit \in Nat /\ row.withdrawn \in Nat /\ row.updated \in Nat
    BY <1>2, <2>1, ShownType
  <2>3. up \in 1 .. MaxLedger
    BY <1>2, ShownWatermark
  <2>4. wd \in Nat /\ row.deposit = row.deposit + 0
        /\ wd = row.withdrawn + (IF e.type = "withdrawn" /\ e.ledger > row.updated
                                 THEN e.val ELSE 0)
    BY <1>1, <2>2
  <2>5. new = WithdrawnRow(row, wd, up)
    BY DEF WithdrawnRow
  <2>6. r = [d EXCEPT !.withdrawals = log, !.states[e.id] = new]
    BY <1>3, <1>5 DEF handleStreamWithdrawn
  <2>7. log \in SUBSET RawEvent
    BY <1>2
  <2>8. row.paused <=> e.type = "paused" \/ (e.type # "resumed" /\ Shown(row).paused)
    BY <2>1
  <2>9. up = Watermark(row, e.ledger)
    OBVIOUS
  <2> HIDE DEF row, up, wd, new
  <2>10. RowHas(new, row.recipient, row.deposit, wd, row.paused, up)
    BY <2>1, <2>3, <2>4, <2>5, WithdrawnWritten
  <2>11. RowEffect(row, e, new)
    BY <1>2, <2>1, <2>4, <2>8, <2>9, <2>10, EffectOf
  <2>12. new \in RowType
    BY <2>11, RowParts DEF RowEffect
  <2> HIDE DEF log, r
  <2>13. /\ r.states = [d.states EXCEPT ![e.id] = new]
         /\ r.cursor = d.cursor /\ r.raw = d.raw /\ r.votes = d.votes /\ r.broken = d.broken
         /\ r.withdrawals = log
         /\ r = [cursor |-> d.cursor, raw |-> d.raw, withdrawals |-> log,
                 states |-> r.states, votes |-> d.votes, broken |-> d.broken]
    BY <2>6 DEF DbType
  <2>14. /\ r.states \in [Streams -> RowType] /\ r.states[e.id] = new
         /\ \A s \in Streams : s # e.id => r.states[s] = d.states[s]
    BY <1>1, <1>2, <2>12, <2>13
  <2>15. r \in DbType
    BY <2>7, <2>13, <2>14 DEF DbType
  <2>16. RowEffect(d.states[e.id], e, r.states[e.id])
    BY <2>11, <2>14 DEF row
  <2>17. r.withdrawals = IF \/ e.type # "withdrawn"
                            \/ \E w \in d.withdrawals : WithdrawalKey(w) = WithdrawalKey(e)
                         THEN d.withdrawals ELSE d.withdrawals \cup {e}
    BY <2>13 DEF log
  <2>18. StreamFolded(d, e, r)
    BY <2>13, <2>14, <2>15, <2>16, <2>17 DEF StreamFolded
  <2> QED
    BY <1>5, <2>18 DEF row, r
<1> QED
  BY <1>4, <1>5

(* What a vote makes of the tables *)
VoteFolded(d, e, r) ==
    /\ r \in DbType /\ r.cursor = d.cursor /\ r.raw = d.raw /\ r.broken = FALSE
    /\ r.states = d.states /\ r.withdrawals = d.withdrawals
    /\ \A b \in Ballots : b # e.id => r.votes[b] = d.votes[b]
    /\ r.votes[e.id].val = e.val

LEMMA FoldVote ==
    ASSUME NEW d \in DbType, NEW e \in RawEvent, d.broken = FALSE, e.type = "vote"
    PROVE  VoteFolded(d, e, foldEvent(d, e))
<1> DEFINE up == Watermark(d.votes[e.id], e.ledger)
           new == [val |-> e.val, updated |-> up]
           r == foldEvent(d, e)
<1>1. e.id \in Ballots /\ e.val \in BallotChoices /\ e.ledger \in Nat
  BY EventFacts
<1>2. d.votes \in [Ballots -> VoteRow]
  BY DEF DbType
<1>3. d.votes[e.id].updated \in Nat
  BY <1>1, <1>2, RowParts DEF VoteRow
<1>4. up \in Nat
  <2>1. up = IF d.votes[e.id].updated > e.ledger THEN d.votes[e.id].updated ELSE e.ledger
    BY <1>1, <1>3, MaxTwo DEF Watermark
  <2> QED
    BY <1>1, <1>3, <2>1
<1>5. r = [d EXCEPT !.votes[e.id] = new]
  BY DEF foldEvent, handleVote
<1> HIDE DEF up, r
<1>6. new \in VoteRow /\ new.val = e.val
  BY <1>1, <1>4 DEF VoteRow
<1> HIDE DEF new
<1>7. /\ r.votes = [d.votes EXCEPT ![e.id] = new]
      /\ r.cursor = d.cursor /\ r.raw = d.raw /\ r.states = d.states /\ r.broken = d.broken
      /\ r.withdrawals = d.withdrawals
      /\ r = [cursor |-> d.cursor, raw |-> d.raw, withdrawals |-> d.withdrawals,
              states |-> d.states, votes |-> r.votes, broken |-> d.broken]
  BY <1>5 DEF DbType
<1>8. /\ r.votes \in [Ballots -> VoteRow] /\ r.votes[e.id] = new
      /\ \A b \in Ballots : b # e.id => r.votes[b] = d.votes[b]
  BY <1>1, <1>2, <1>6, <1>7
<1>9. r \in DbType
  BY <1>7, <1>8 DEF DbType
<1> QED
  BY <1>6, <1>7, <1>8, <1>9 DEF VoteFolded, r

(* What one event of a page makes of the tables, the raw log included *)
Applied(d, e, r) ==
    /\ r \in DbType /\ r.cursor = d.cursor /\ r.broken = FALSE
    /\ r.raw = d.raw \cup {RawKey(e)}
    /\ \A s \in Streams : s # e.id => r.states[s] = d.states[s]
    /\ \A b \in Ballots : b # e.id => r.votes[b] = d.votes[b]
    /\ e.type \in StreamTypes => RowEffect(d.states[e.id], e, r.states[e.id])
    /\ e.type = "withdrawn" => d.states[e.id] # NoRow
    /\ e.type = "vote" => r.votes[e.id].val = e.val /\ r.states = d.states
    /\ e.type # "vote" => r.votes = d.votes
    /\ r.withdrawals = IF \/ e.type # "withdrawn"
                          \/ \E w \in d.withdrawals : WithdrawalKey(w) = WithdrawalKey(e)
                       THEN d.withdrawals ELSE d.withdrawals \cup {e}

LEMMA IngestEffect ==
    ASSUME NEW d \in DbType, NEW e \in RawEvent
    PROVE  LET r == ingestEvent(d, e) IN
           /\ r \in DbType /\ r.cursor = d.cursor
           /\ d.broken => r.broken
           /\ ~r.broken => ~d.broken /\ Applied(d, e, r)
<1> DEFINE g == [d EXCEPT !.raw = @ \cup {RawKey(e)}]
           r == ingestEvent(d, e)
<1>1. CASE d.broken
  BY <1>1 DEF ingestEvent, DbType
<1>2. CASE ~d.broken
  <2>1. d.broken = FALSE
    BY <1>2 DEF DbType
  <2>2. r = foldEvent(g, e)
    BY <1>2 DEF ingestEvent
  <2>3. /\ g.raw = d.raw \cup {RawKey(e)} /\ g.cursor = d.cursor /\ g.states = d.states
        /\ g.votes = d.votes /\ g.withdrawals = d.withdrawals /\ g.broken = FALSE
        /\ g = [cursor |-> d.cursor, raw |-> d.raw \cup {RawKey(e)},
                withdrawals |-> d.withdrawals, states |-> d.states, votes |-> d.votes,
                broken |-> d.broken]
    <3> DEFINE log == d.raw \cup {RawKey(e)}
    <3>1. g = [d EXCEPT !.raw = log]
      OBVIOUS
    <3> HIDE DEF g, log
    <3>2. /\ g.raw = log /\ g.cursor = d.cursor /\ g.states = d.states
          /\ g.votes = d.votes /\ g.withdrawals = d.withdrawals /\ g.broken = d.broken
          /\ g = [cursor |-> d.cursor, raw |-> log, withdrawals |-> d.withdrawals,
                  states |-> d.states, votes |-> d.votes, broken |-> d.broken]
      BY <3>1 DEF DbType
    <3> QED
      BY <2>1, <3>2 DEF log
  <2>4. g \in DbType
    <3>1. d.raw \cup {RawKey(e)} \in SUBSET {RawKey(x) : x \in RawEvent}
      BY DEF DbType
    <3>2. /\ d.cursor \in 0 .. MaxLedger /\ d.withdrawals \in SUBSET RawEvent
          /\ d.states \in [Streams -> RowType] /\ d.votes \in [Ballots -> VoteRow]
          /\ d.broken \in BOOLEAN
      BY DEF DbType
    <3> HIDE DEF g
    <3> QED
      BY <2>3, <3>1, <3>2 DEF DbType
  <2> HIDE DEF g
  <2>5. e.type \in StreamTypes \cup {"vote"} /\ "vote" \notin StreamTypes
    BY EventFacts DEF StreamTypes
  <2>6. ASSUME StreamFolded(g, e, r), e.type \in StreamTypes,
               e.type = "withdrawn" => d.states[e.id] # NoRow
        PROVE  Applied(d, e, r) /\ r.broken = FALSE
    <3>1. e.type # "vote"
      BY <2>5, <2>6
    <3> QED
      BY <2>3, <2>6, <3>1 DEF StreamFolded, Applied
  <2>7. CASE e.type \in StreamTypes \ {"withdrawn"}
    <3>1. StreamFolded(g, e, r)
      <4>1. CASE e.type = "topped_up"
        BY <2>2, <2>3, <2>4, <4>1, FoldTopUp
      <4>2. CASE e.type = "xfer_rec"
        BY <2>2, <2>3, <2>4, <4>2, FoldXferRec
      <4>3. CASE e.type \in {"paused", "resumed"}
        BY <2>2, <2>3, <2>4, <4>3, FoldPaused
      <4>4. CASE e.type \in {"cancelled", "clawback"}
        BY <2>2, <2>3, <2>4, <4>4, FoldCancelled
      <4> QED
        BY <2>7, <4>1, <4>2, <4>3, <4>4 DEF StreamTypes
    <3>2. Applied(d, e, r)
      BY <2>6, <2>7, <3>1
    <3> QED
      BY <1>2, <3>2 DEF Applied
  <2>8. CASE e.type = "withdrawn"
    <3>1. \/ r = [g EXCEPT !.broken = TRUE] /\ g.states[e.id] = NoRow
          \/ StreamFolded(g, e, r) /\ g.states[e.id] # NoRow
      BY <2>2, <2>3, <2>4, <2>8, FoldWithdrawn
    <3>2. CASE r = [g EXCEPT !.broken = TRUE]
      <4>1. r \in DbType /\ r.cursor = g.cursor /\ r.broken = TRUE
        BY <2>4, <3>2 DEF DbType
      <4> QED
        BY <1>2, <2>3, <4>1
    <3>3. CASE StreamFolded(g, e, r) /\ g.states[e.id] # NoRow
      <4>1. e.type \in StreamTypes
        BY <2>8 DEF StreamTypes
      <4>2. Applied(d, e, r)
        BY <2>3, <2>6, <3>3, <4>1
      <4> QED
        BY <1>2, <4>2 DEF Applied
    <3> QED
      BY <3>1, <3>2, <3>3
  <2>9. CASE e.type = "vote"
    <3>1. VoteFolded(g, e, r)
      BY <2>2, <2>3, <2>4, <2>9, FoldVote
    <3>2. Applied(d, e, r)
      BY <2>3, <2>5, <2>9, <3>1 DEF VoteFolded, Applied
    <3> QED
      BY <1>2, <3>2 DEF Applied
  <2> QED
    BY <2>5, <2>7, <2>8, <2>9
<1> QED
  BY <1>1, <1>2

-----------------------------------------------------------------------------
(* Pages: the tables after each event of a page *)

PageChain(d, events, n, u) ==
    /\ u = [k \in 0 .. n |-> u[k]] /\ u[0] = d
    /\ \A k \in 1 .. n : u[k] = ingestEvent(u[k - 1], events[k])

LEMMA PageChainExists ==
    ASSUME NEW d, NEW events, NEW n \in Nat
    PROVE  \E u : PageChain(d, events, n, u)
<1> DEFINE A == {k \in Nat : \E u : PageChain(d, events, k, u)}
<1>1. 0 \in A
  <2>1. PageChain(d, events, 0, [k \in 0 .. 0 |-> d])
    BY DEF PageChain
  <2> QED
    BY <2>1
<1>2. ASSUME NEW k \in 0 .. (n - 1), k \in A
      PROVE  k + 1 \in A
  <2>1. PICK u : PageChain(d, events, k, u)
    BY <1>2
  <2> DEFINE last == ingestEvent(u[k], events[k + 1])
             v == [j \in 0 .. (k + 1) |-> IF j <= k THEN u[j] ELSE last]
  <2> HIDE DEF last
  <2>2. ASSUME NEW j \in 1 .. (k + 1)
        PROVE  v[j] = ingestEvent(v[j - 1], events[j])
    <3>1. CASE j <= k
      <4>1. j \in 1 .. k /\ v[j] = u[j] /\ v[j - 1] = u[j - 1]
        BY <3>1
      <4> QED
        BY <2>1, <4>1 DEF PageChain
    <3>2. CASE j = k + 1
      <4>1. v[j] = last /\ v[j - 1] = u[k]
        BY <3>2
      <4> QED
        BY <3>2, <4>1 DEF last
    <3> QED
      BY <3>1, <3>2
  <2>3. v = [j \in 0 .. (k + 1) |-> v[j]] /\ v[0] = d
    BY <2>1 DEF PageChain
  <2>4. k + 1 \in Nat
    OBVIOUS
  <2> HIDE DEF v
  <2>5. PageChain(d, events, k + 1, v)
    BY <2>2, <2>3 DEF PageChain
  <2> QED
    BY <2>4, <2>5
<1> HIDE DEF A
<1>3. 0 .. n \subseteq A
  BY <1>1, <1>2, RangeInduction
<1> QED
  BY <1>3 DEF A

LEMMA IngestedChain ==
    ASSUME NEW d, NEW events, Len(events) \in Nat
    PROVE  \E u : PageChain(d, events, Len(events), u) /\ ingestPage(d, events) = u[Len(events)]
<1> DEFINE n == Len(events)
           Body(u) == [k \in 0 .. n |->
                         IF k = 0 THEN d ELSE ingestEvent(u[k - 1], events[k])]
           done == CHOOSE u : u = Body(u)
<1>1. ingestPage(d, events) = done[n]
  BY DEF ingestPage
<1>2. PICK u : PageChain(d, events, n, u)
  BY PageChainExists
<1>3. u = Body(u)
  <2>1. n \in Nat
    OBVIOUS
  <2> HIDE DEF n
  <2>2. ASSUME NEW k \in 0 .. n, k # 0
        PROVE  u[k] = ingestEvent(u[k - 1], events[k])
    <3>1. k \in 1 .. n
      BY <2>1, <2>2
    <3> QED
      BY <1>2, <3>1 DEF PageChain
  <2>3. u[0] = d /\ u = [k \in 0 .. n |-> u[k]]
    BY <1>2 DEF PageChain
  <2>4. \A k \in 0 .. n : u[k] = IF k = 0 THEN d ELSE ingestEvent(u[k - 1], events[k])
    BY <2>2, <2>3
  <2> QED
    BY <2>3, <2>4
<1>4. done = Body(done)
  <2> HIDE DEF Body
  <2> QED
    BY <1>3, Zenon
<1>5. PageChain(d, events, n, done)
  <2> HIDE DEF done
  <2>1. n \in Nat
    OBVIOUS
  <2> HIDE DEF n
  <2>2. done = [k \in 0 .. n |-> done[k]] /\ done[0] = d
    <3>1. 0 \in 0 .. n
      BY <2>1
    <3> QED
      BY <1>4, <3>1
  <2>3. ASSUME NEW k \in 1 .. n
        PROVE  done[k] = ingestEvent(done[k - 1], events[k])
    <3>1. k \in 0 .. n /\ k # 0
      BY <2>1
    <3> QED
      BY <1>4, <3>1
  <2> QED
    BY <2>2, <2>3 DEF PageChain
<1> HIDE DEF done
<1> QED
  BY <1>1, <1>5

(* The tables after each event of a page that is ingested without an error *)
Folds(d, events, u) ==
    /\ u[0] = d
    /\ \A k \in 0 .. Len(events) : u[k] \in DbType
    /\ \A k \in 1 .. Len(events) : Applied(u[k - 1], events[k], u[k])

LEMMA PageEffect ==
    ASSUME NEW d \in DbType, NEW events \in Seq(RawEvent)
    PROVE  LET r == ingestPage(d, events) IN
           /\ r \in DbType /\ r.cursor = d.cursor
           /\ ~r.broken => \E u : Folds(d, events, u) /\ r = u[Len(events)]
<1> DEFINE n == Len(events)
           r == ingestPage(d, events)
<1>1. n \in Nat /\ \A k \in 1 .. n : events[k] \in RawEvent
  OBVIOUS
<1>2. PICK u : PageChain(d, events, n, u) /\ r = u[n]
  BY <1>1, IngestedChain
<1> HIDE DEF n, r
<1> DEFINE Steps(k) == \A j \in 1 .. k : Applied(u[j - 1], events[j], u[j])
           A == {k \in Nat : /\ u[k] \in DbType /\ u[k].cursor = d.cursor
                             /\ ~u[k].broken => Steps(k) /\ \A j \in 0 .. k : u[j] \in DbType}
<1>3. 0 \in A
  <2>1. u[0] = d
    BY <1>2 DEF PageChain
  <2>2. Steps(0)
    OBVIOUS
  <2>3. \A j \in 0 .. 0 : u[j] \in DbType
    BY <2>1
  <2> HIDE DEF Steps
  <2> QED
    BY <2>1, <2>2, <2>3
<1>4. ASSUME NEW k \in 0 .. (n - 1), k \in A
      PROVE  k + 1 \in A
  <2>1. k + 1 \in 1 .. n /\ k + 1 \in Nat /\ k \in Nat
    BY <1>1
  <2>2. u[k + 1] = ingestEvent(u[k], events[k + 1])
    <3>1. u[k + 1] = ingestEvent(u[(k + 1) - 1], events[k + 1])
      BY <1>2, <2>1 DEF PageChain
    <3>2. (k + 1) - 1 = k
      BY <2>1
    <3> QED
      BY <3>1, <3>2
  <2>3. u[k] \in DbType /\ events[k + 1] \in RawEvent /\ u[k].cursor = d.cursor
    BY <1>1, <1>4, <2>1
  <2>4. /\ u[k + 1] \in DbType /\ u[k + 1].cursor = u[k].cursor
        /\ ~u[k + 1].broken => ~u[k].broken /\ Applied(u[k], events[k + 1], u[k + 1])
    BY <2>2, <2>3, IngestEffect
  <2>5. ASSUME ~u[k + 1].broken
        PROVE  Steps(k + 1) /\ \A j \in 0 .. (k + 1) : u[j] \in DbType
    <3>1. Steps(k) /\ \A j \in 0 .. k : u[j] \in DbType
      BY <1>4, <2>4, <2>5
    <3>2. ASSUME NEW j \in 1 .. (k + 1)
          PROVE  Applied(u[j - 1], events[j], u[j])
      <4>1. CASE j \in 1 .. k
        BY <3>1, <4>1
      <4>2. CASE j = k + 1
        <5>1. j - 1 = k
          BY <2>1, <4>2
        <5> QED
          BY <2>4, <2>5, <4>2, <5>1
      <4> QED
        BY <2>1, <4>1, <4>2
    <3>3. \A j \in 0 .. (k + 1) : j \in 0 .. k \/ j = k + 1
      BY <2>1
    <3> QED
      BY <2>4, <3>1, <3>2, <3>3
  <2> HIDE DEF Steps
  <2> QED
    BY <2>1, <2>3, <2>4, <2>5
<1> HIDE DEF A
<1>5. 0 .. n \subseteq A
  BY <1>1, <1>3, <1>4, RangeInduction
<1>6. n \in A
  BY <1>1, <1>5
<1>7. /\ r \in DbType /\ r.cursor = d.cursor
      /\ ~r.broken => Steps(n) /\ \A j \in 0 .. n : u[j] \in DbType
  BY <1>2, <1>6 DEF A
<1>8. u[0] = d
  BY <1>2 DEF PageChain
<1> QED
  BY <1>2, <1>7, <1>8 DEF Folds, n, r

-----------------------------------------------------------------------------
(* The chain and the pages fetched from it *)

LEMMA Extrema ==
    ASSUME NEW S, S \subseteq Int, IsFiniteSet(S), S # {}
    PROVE  /\ Min(S) \in S /\ \A x \in S : Min(S) <= x
           /\ Max(S) \in S /\ \A x \in S : x <= Max(S)
<1> DEFINE f == [x \in S |-> x]
<1>1. \A x \in S : f[x] \in Int /\ f[x] = x
  OBVIOUS
<1> HIDE DEF f
<1>2. PICK m \in S : \A x \in S : f[m] <= f[x]
  BY <1>1, ArgMin
<1>3. PICK n \in S : \A x \in S : f[x] <= f[n]
  BY <1>1, ArgMax
<1>4. \E x \in S : \A y \in S : x <= y
  BY <1>1, <1>2
<1>5. \E x \in S : \A y \in S : x >= y
  BY <1>1, <1>3
<1>6. Min(S) \in S /\ \A x \in S : Min(S) <= x
  BY <1>4 DEF Min
<1>7. Max(S) \in S /\ \A x \in S : Max(S) >= x
  BY <1>5 DEF Max
<1> QED
  BY <1>6, <1>7

LEMMA MinTwo ==
    ASSUME NEW a \in Int, NEW b \in Int
    PROVE  Min({a, b}) = IF a < b THEN a ELSE b
<1>1. \E x \in {a, b} : \A y \in {a, b} : x <= y
  OBVIOUS
<1>2. Min({a, b}) \in {a, b} /\ \A y \in {a, b} : Min({a, b}) <= y
  BY <1>1 DEF Min
<1> QED
  BY <1>2

(* Events come in the order of their ledgers, none from beyond the open one. *)
ChainInv ==
    /\ chain \in Seq(RawEvent) /\ head \in 0 .. MaxLedger
    /\ \A i, j \in 1 .. Len(chain) : i <= j => chain[i].ledger <= chain[j].ledger
    /\ \A i \in 1 .. Len(chain) : chain[i].ledger <= head + 1

(* A page holds the positions a to b of the chain, the first ones after the *)
(* ledger the worker fetched from.                                          *)
PageAt(c, h, events, l, a, b) ==
    /\ a \in 1 .. Len(c) /\ b \in a .. Len(c)
    /\ events \in Seq(RawEvent) /\ Len(events) = b - a + 1
    /\ \A k \in 1 .. Len(events) : events[k] = c[a + k - 1]
    /\ \A i \in 1 .. (a - 1) : c[i].ledger <= l
    /\ l < c[a].ledger /\ c[b].ledger <= h

(* The last position a fetch from ledger l on returns *)
PageEnd(l) == Min({Max(Visible(l)), Min(Visible(l)) + Limit - 1})

(* The page limit does not cut a ledger in two. *)
PageEndsLedger(l) ==
    \A i \in Visible(l) : i > PageEnd(l) => chain[i].ledger > chain[PageEnd(l)].ledger

LEMMA LedgerTypes ==
    ASSUME ChainInv
    PROVE  /\ Len(chain) \in Nat /\ head \in Nat /\ DOMAIN chain = 1 .. Len(chain)
           /\ \A i \in 1 .. Len(chain) : chain[i] \in RawEvent /\ chain[i].ledger \in Nat \ {0}
<1>1. Len(chain) \in Nat /\ head \in Nat /\ DOMAIN chain = 1 .. Len(chain)
  BY BoundAssumption DEF ChainInv
<1>2. \A i \in 1 .. Len(chain) : chain[i] \in RawEvent
  BY <1>1 DEF ChainInv
<1>3. ASSUME NEW i \in 1 .. Len(chain)
      PROVE  chain[i].ledger \in Nat \ {0}
  BY <1>2, EventFacts
<1> QED
  BY <1>1, <1>2, <1>3

LEMMA FetchEffect ==
    ASSUME ChainInv, NEW l \in Nat, Visible(l + 1) # {}
    PROVE  /\ PageAt(chain, head, fetchEvents(l + 1), l,
                     Min(Visible(l + 1)), PageEnd(l + 1))
           /\ fetchEvents(l + 1) # <<>>
           /\ PageEndsLedger(l + 1) =>
                \A i \in 1 .. Len(chain) :
                   i > PageEnd(l + 1) => chain[i].ledger > chain[PageEnd(l + 1)].ledger
<1> DEFINE V == Visible(l + 1)
           first == Min(V)
           last == PageEnd(l + 1)
           n == Len(chain)
<1>1. /\ n \in Nat /\ head \in Nat /\ DOMAIN chain = 1 .. n
      /\ \A i \in 1 .. n : chain[i] \in RawEvent /\ chain[i].ledger \in Nat
  BY LedgerTypes
<1>2. V = {i \in 1 .. n : l + 1 <= chain[i].ledger /\ chain[i].ledger <= head}
  BY <1>1 DEF Visible
<1>3. V \subseteq 1 .. n /\ IsFiniteSet(V) /\ V \subseteq Int
  <2>1. IsFiniteSet(1 .. n)
    BY <1>1, FS_Interval
  <2>2. V \subseteq 1 .. n
    BY <1>2
  <2> QED
    BY <2>1, <2>2, FS_Subset
<1>4. first \in V /\ Max(V) \in V /\ \A x \in V : first <= x /\ x <= Max(V)
  BY <1>3, Extrema
<1>5. fetchEvents(l + 1) = SubSeq(chain, first, last)
  BY DEF fetchEvents, PageEnd
<1>6. /\ last = IF Max(V) < first + Limit - 1 THEN Max(V) ELSE first + Limit - 1
      /\ Max(V) \in Nat /\ first \in Nat /\ Limit \in Nat \ {0}
  <2>1. Max(V) \in Nat /\ first \in Nat /\ Limit \in Nat \ {0}
    BY <1>3, <1>4, LimitAssumption
  <2>2. first + Limit - 1 \in Int
    BY <2>1
  <2> QED
    BY <2>1, <2>2, MinTwo DEF PageEnd
<1> HIDE DEF V, first, last, n
<1>7. first \in 1 .. n /\ last \in first .. n /\ last <= Max(V) /\ Max(V) \in 1 .. n
  BY <1>1, <1>3, <1>4, <1>6
<1>8. /\ SubSeq(chain, first, last) \in Seq(RawEvent)
      /\ Len(SubSeq(chain, first, last)) = last - first + 1
      /\ \A k \in 1 .. (last - first + 1) : SubSeq(chain, first, last)[k] = chain[first + k - 1]
  <2>1. chain \in Seq(RawEvent) /\ n = Len(chain)
    BY DEF ChainInv, n
  <2>2. first \in 1 .. (Len(chain) + 1) /\ last \in (first - 1) .. Len(chain)
    BY <1>1, <1>7, <2>1
  <2> QED
    BY <1>7, <2>1, <2>2, SubSeqProperties
<1>9. \A i, j \in 1 .. n : i <= j => chain[i].ledger <= chain[j].ledger
  BY DEF ChainInv, n
<1>10. ASSUME NEW i \in 1 .. (first - 1)
       PROVE  chain[i].ledger <= l
  <2>1. i \in 1 .. n /\ i <= first /\ i \notin V
    BY <1>1, <1>4, <1>7
  <2>2. chain[i].ledger <= chain[first].ledger /\ chain[first].ledger <= head
    BY <1>2, <1>4, <1>7, <1>9, <2>1
  <2> QED
    BY <1>1, <1>2, <1>7, <2>1, <2>2
<1>11. l < chain[first].ledger /\ chain[last].ledger <= head
  <2>1. chain[last].ledger <= chain[Max(V)].ledger /\ chain[Max(V)].ledger <= head
    BY <1>1, <1>2, <1>4, <1>7, <1>9
  <2>2. l + 1 <= chain[first].ledger
    BY <1>2, <1>4
  <2>3. /\ chain[last].ledger \in Nat /\ chain[Max(V)].ledger \in Nat
        /\ chain[first].ledger \in Nat
    BY <1>1, <1>7
  <2>4. \A x, y, z \in Nat : x <= y /\ y <= z => x <= z
    OBVIOUS
  <2>5. chain[last].ledger <= head
    BY <1>1, <2>1, <2>3, <2>4
  <2>6. \A y \in Nat : l + 1 <= y => l < y
    OBVIOUS
  <2>7. l < chain[first].ledger
    BY <2>2, <2>3, <2>6
  <2> QED
    BY <2>5, <2>7
<1>12. PageAt(chain, head, SubSeq(chain, first, last), l, first, last)
  BY <1>7, <1>8, <1>10, <1>11 DEF PageAt, n
<1>13. SubSeq(chain, first, last) # <<>>
  <2>1. last - first + 1 # 0
    BY <1>1, <1>7
  <2>2. Len(<<>>) = 0
    OBVIOUS
  <2> QED
    BY <1>8, <2>1, <2>2
<1>14. ASSUME PageEndsLedger(l + 1), NEW i \in 1 .. n, i > last
       PROVE  chain[i].ledger > chain[last].ledger
  <2>1. CASE i \in V
    BY <1>14, <2>1 DEF PageEndsLedger, V, last
  <2>2. CASE i \notin V
    <3>1. first <= i /\ chain[first].ledger <= chain[i].ledger
      BY <1>1, <1>7, <1>9, <1>14
    <3>2. l + 1 <= chain[i].ledger
      BY <1>1, <1>7, <1>11, <3>1
    <3>3. chain[i].ledger > head
      BY <1>1, <1>2, <2>2, <3>2
    <3> QED
      BY <1>1, <1>7, <1>11, <3>3
  <2> QED
    BY <2>1, <2>2
<1> QED
  BY <1>5, <1>12, <1>13, <1>14 DEF V, first, last, n

LEMMA NextLedgerIs ==
    ASSUME ChainInv, NEW events, NEW l, NEW a, NEW b, PageAt(chain, head, events, l, a, b)
    PROVE  NextLedger(events) = chain[b].ledger
<1> DEFINE n == Len(events)
           S == {events[i].ledger : i \in DOMAIN events}
<1>1. /\ Len(chain) \in Nat
      /\ \A i \in 1 .. Len(chain) : chain[i].ledger \in Nat
      /\ \A i, j \in 1 .. Len(chain) : i <= j => chain[i].ledger <= chain[j].ledger
  BY LedgerTypes DEF ChainInv
<1>2. /\ a \in 1 .. Len(chain) /\ b \in a .. Len(chain) /\ n = b - a + 1
      /\ events \in Seq(RawEvent) /\ DOMAIN events = 1 .. n
      /\ \A k \in 1 .. n : events[k] = chain[a + k - 1]
  <2>1. /\ a \in 1 .. Len(chain) /\ b \in a .. Len(chain) /\ Len(events) = b - a + 1
        /\ events \in Seq(RawEvent)
        /\ \A k \in 1 .. Len(events) : events[k] = chain[a + k - 1]
    BY Zenon DEF PageAt
  <2>2. DOMAIN events = 1 .. Len(events)
    BY <2>1
  <2> QED
    BY <2>1, <2>2
<1> HIDE DEF n
<1>3. S = {events[i].ledger : i \in 1 .. n}
  BY <1>2
<1>4. ASSUME NEW k \in 1 .. n
      PROVE  /\ a + k - 1 \in 1 .. Len(chain) /\ events[k].ledger \in Nat
             /\ events[k].ledger <= chain[b].ledger
  <2>1. a + k - 1 \in 1 .. Len(chain) /\ b \in 1 .. Len(chain) /\ a + k - 1 <= b
    BY <1>1, <1>2
  <2>2. events[k] = chain[a + k - 1]
    BY <1>2
  <2> QED
    BY <1>1, <2>1, <2>2
<1>5. n \in 1 .. n /\ a + n - 1 = b
  BY <1>1, <1>2
<1>6. chain[b].ledger \in S
  BY <1>2, <1>3, <1>5
<1>7. \A x \in S : x \in Int /\ chain[b].ledger >= x
  BY <1>1, <1>2, <1>3, <1>4
<1> HIDE DEF S
<1>8. Max(S) \in S /\ \A x \in S : Max(S) >= x
  BY <1>6, <1>7 DEF Max
<1>9. Max(S) = chain[b].ledger
  BY <1>6, <1>7, <1>8
<1> QED
  BY <1>9 DEF NextLedger, S

-----------------------------------------------------------------------------
(* The inductive invariant of the worker loop *)

Pages ==
    \A w \in Workers :
        IF pc[w] = "ingest" THEN \E a, b \in Nat : PageAt(chain, head, page[w], from[w], a, b)
                            ELSE page[w] = <<>>

WorkerInv ==
    /\ lock \in Workers \cup {NoOne}
    /\ pc \in [Workers -> Labels]
    /\ from \in [Workers -> 0 .. MaxLedger]
    /\ page \in [Workers -> Seq(RawEvent)]
    /\ attempt \in [Workers -> 0 .. Attempts]
    /\ \A w \in Workers : pc[w] = "fetch" => attempt[w] < Attempts

DbInv ==
    /\ db \in DbType /\ db.broken = FALSE /\ db.cursor <= head
    /\ \A w \in Workers : from[w] <= db.cursor

IxInv == ChainInv /\ WorkerInv /\ DbInv /\ Pages

(* The chain only grows, and the head with it. *)
Grows(c, h, c2, h2) ==
    /\ Len(c) \in Nat /\ Len(c2) \in Nat /\ Len(c) <= Len(c2)
    /\ \A i \in 1 .. Len(c) : c2[i] = c[i] /\ c[i].ledger \in Nat
    /\ h \in Nat /\ h2 \in Nat /\ h <= h2

LEMMA PageStays ==
    ASSUME NEW c, NEW h, NEW c2, NEW h2, Grows(c, h, c2, h2),
           NEW events, NEW l, NEW a, NEW b, PageAt(c, h, events, l, a, b)
    PROVE  PageAt(c2, h2, events, l, a, b)
<1>1. /\ Len(c) \in Nat /\ Len(c2) \in Nat /\ Len(c) <= Len(c2)
      /\ \A i \in 1 .. Len(c) : c2[i] = c[i] /\ c[i].ledger \in Nat
      /\ h \in Nat /\ h2 \in Nat /\ h <= h2
  BY DEF Grows
<1>2. /\ a \in 1 .. Len(c) /\ b \in a .. Len(c)
      /\ events \in Seq(RawEvent) /\ Len(events) = b - a + 1
      /\ \A k \in 1 .. Len(events) : events[k] = c[a + k - 1]
      /\ \A i \in 1 .. (a - 1) : c[i].ledger <= l
      /\ l < c[a].ledger /\ c[b].ledger <= h
  BY DEF PageAt
<1>3. a \in 1 .. Len(c2) /\ b \in a .. Len(c2) /\ b \in 1 .. Len(c)
  BY <1>1, <1>2
<1>4. ASSUME NEW k \in 1 .. Len(events)
      PROVE  events[k] = c2[a + k - 1]
  <2>1. a + k - 1 \in 1 .. Len(c)
    BY <1>1, <1>2
  <2> QED
    BY <1>1, <1>2, <2>1
<1>5. ASSUME NEW i \in 1 .. (a - 1)
      PROVE  c2[i].ledger <= l
  <2>1. i \in 1 .. Len(c)
    BY <1>1, <1>2
  <2> QED
    BY <1>1, <1>2, <2>1
<1>6. c2[a] = c[a] /\ c2[b] = c[b] /\ c[b].ledger \in Nat
  BY <1>1, <1>2, <1>3
<1>7. c2[b].ledger <= h2
  BY <1>1, <1>2, <1>6
<1> QED
  BY <1>2, <1>3, <1>4, <1>5, <1>6, <1>7 DEF PageAt

LEMMA EmitGrows ==
    ASSUME ChainInv, Emit
    PROVE  ChainInv' /\ Grows(chain, head, chain', head') /\ head' = head
           /\ Len(chain') = Len(chain) + 1 /\ chain'[Len(chain) + 1].ledger = head + 1
<1>1. PICK e \in EventsAt(head + 1) : chain' = Append(chain, e)
  BY DEF Emit
<1>2. head' = head /\ head < MaxLedger
  BY DEF Emit
<1>3. /\ Len(chain) \in Nat /\ head \in Nat /\ head \in 0 .. MaxLedger
      /\ chain \in Seq(RawEvent)
      /\ \A i \in 1 .. Len(chain) : chain[i] \in RawEvent /\ chain[i].ledger \in Nat
  BY LedgerTypes DEF ChainInv
<1>4. e.ledger = head + 1 /\ e \in RawEvent
  <2>1. head + 1 \in 1 .. MaxLedger
    BY <1>2, <1>3, BoundAssumption
  <2>2. e.ledger = head + 1
    BY DEF EventsAt
  <2> QED
    BY <2>1, <2>2 DEF RawEvent
<1>5. /\ chain' \in Seq(RawEvent) /\ Len(chain') = Len(chain) + 1
      /\ \A i \in 1 .. Len(chain) : chain'[i] = chain[i]
      /\ chain'[Len(chain) + 1] = e
  BY <1>1, <1>3, <1>4
<1> DEFINE n == Len(chain)
<1> HIDE DEF n
<1>6. \A i \in 1 .. (n + 1) : i \in 1 .. n \/ i = n + 1
  BY <1>3 DEF n
<1>7. /\ \A i, j \in 1 .. n : i <= j => chain[i].ledger <= chain[j].ledger
      /\ \A i \in 1 .. n : chain[i].ledger <= head + 1
  BY DEF ChainInv, n
<1>8. ASSUME NEW i \in 1 .. (n + 1)
      PROVE  chain'[i].ledger <= head + 1
  <2>1. CASE i \in 1 .. n
    BY <1>5, <1>7, <2>1 DEF n
  <2>2. CASE i = n + 1
    BY <1>3, <1>4, <1>5, <2>2 DEF n
  <2> QED
    BY <1>6, <2>1, <2>2
<1>9. ASSUME NEW i \in 1 .. (n + 1), NEW j \in 1 .. (n + 1), i <= j
      PROVE  chain'[i].ledger <= chain'[j].ledger
  <2>1. CASE j \in 1 .. n
    <3>1. i \in 1 .. n
      BY <1>3, <1>9, <2>1 DEF n
    <3> QED
      BY <1>5, <1>7, <1>9, <2>1, <3>1 DEF n
  <2>2. CASE j = n + 1
    <3>1. chain'[j].ledger = head + 1
      BY <1>4, <1>5, <2>2 DEF n
    <3> QED
      BY <1>8, <3>1
  <2> QED
    BY <1>6, <2>1, <2>2
<1>10. Len(chain') = n + 1
  BY <1>5 DEF n
<1>11. ChainInv'
  BY <1>2, <1>3, <1>5, <1>8, <1>9, <1>10 DEF ChainInv
<1>12. Grows(chain, head, chain', head')
  <2>1. Len(chain') \in Nat /\ Len(chain) <= Len(chain')
    BY <1>3, <1>5
  <2> QED
    BY <1>2, <1>3, <1>5, <2>1 DEF Grows
<1> QED
  BY <1>2, <1>4, <1>5, <1>11, <1>12

LEMMA CloseGrows ==
    ASSUME ChainInv, CloseLedger
    PROVE  ChainInv' /\ Grows(chain, head, chain', head') /\ chain' = chain /\ head' = head + 1
<1>1. /\ Len(chain) \in Nat /\ head \in Nat /\ head \in 0 .. MaxLedger
      /\ chain \in Seq(RawEvent) /\ DOMAIN chain = 1 .. Len(chain)
      /\ \A i \in 1 .. Len(chain) : chain[i] \in RawEvent /\ chain[i].ledger \in Nat
  BY LedgerTypes DEF ChainInv
<1>2. chain' = chain /\ head' = head + 1
  BY DEF CloseLedger
<1>3. head + 1 \in 0 .. MaxLedger
  <2>1. PICK i \in 1 .. Len(chain) : chain[i].ledger = head + 1
    BY <1>1 DEF CloseLedger, OpenLedger
  <2>2. chain[i].ledger \in 1 .. MaxLedger
    BY <1>1, EventFacts
  <2> QED
    BY <1>1, <2>1, <2>2, BoundAssumption
<1>4. \A i \in 1 .. Len(chain) : chain[i].ledger <= (head + 1) + 1
  <2> SUFFICES ASSUME NEW i \in 1 .. Len(chain) PROVE chain[i].ledger <= (head + 1) + 1
    OBVIOUS
  <2>1. chain[i].ledger \in Nat /\ chain[i].ledger <= head + 1
    BY <1>1 DEF ChainInv
  <2> QED
    BY <1>1, <2>1
<1>5. ChainInv'
  BY <1>2, <1>3, <1>4 DEF ChainInv
<1>6. Grows(chain, head, chain', head')
  BY <1>1, <1>2 DEF Grows
<1> QED
  BY <1>2, <1>5, <1>6

LEMMA PagesStay ==
    ASSUME Pages, Grows(chain, head, chain', head'), UNCHANGED <<pc, page, from>>
    PROVE  Pages'
<1> SUFFICES ASSUME NEW w \in Workers
             PROVE  IF pc[w] = "ingest"
                    THEN \E a, b \in Nat : PageAt(chain', head', page[w], from[w], a, b)
                    ELSE page[w] = <<>>
  BY DEF Pages
<1>1. CASE pc[w] = "ingest"
  <2>1. PICK a, b \in Nat : PageAt(chain, head, page[w], from[w], a, b)
    BY <1>1 DEF Pages
  <2>2. PageAt(chain', head', page[w], from[w], a, b)
    BY <2>1, PageStays
  <2> QED
    BY <1>1, <2>2
<1>2. CASE pc[w] # "ingest"
  BY <1>2 DEF Pages
<1> QED
  BY <1>1, <1>2

(* A step of one worker that leaves the chain alone *)
LEMMA PagesFrame ==
    ASSUME Pages, NEW w \in Workers, UNCHANGED <<chain, head>>,
           \A v \in Workers : v # w => pc'[v] = pc[v] /\ page'[v] = page[v] /\ from'[v] = from[v],
           IF pc'[w] = "ingest"
           THEN \E a, b \in Nat : PageAt(chain, head, page'[w], from'[w], a, b)
           ELSE page'[w] = <<>>
    PROVE  Pages'
BY Zenon DEF Pages

LEMMA FetchKeeps ==
    ASSUME IxInv, NEW w \in Workers, Fetch(w)
    PROVE  IxInv'
<1> DEFINE got == fetchEvents(from[w] + 1)
<1>1. /\ page' = [page EXCEPT ![w] = got] /\ pc' = [pc EXCEPT ![w] = AfterFetch(page'[w])]
      /\ UNCHANGED <<chain, head, db, lock, from, attempt>> /\ pc[w] = "fetch"
  BY DEF Fetch, Goto, env
<1>2. /\ page \in [Workers -> Seq(RawEvent)] /\ pc \in [Workers -> Labels]
      /\ from \in [Workers -> 0 .. MaxLedger]
  BY DEF IxInv, WorkerInv
<1>3. page'[w] = got
  BY <1>1, <1>2
<1>4. from[w] \in Nat
  BY <1>2, BoundAssumption
<1>5. \/ got = <<>>
      \/ \E a, b \in Nat : PageAt(chain, head, got, from[w], a, b) /\ got # <<>>
  <2>1. CASE Visible(from[w] + 1) = {}
    BY <2>1 DEF fetchEvents
  <2>2. CASE Visible(from[w] + 1) # {}
    <3> DEFINE a == Min(Visible(from[w] + 1))
               b == PageEnd(from[w] + 1)
    <3>1. PageAt(chain, head, got, from[w], a, b) /\ got # <<>>
      BY <1>4, <2>2, FetchEffect DEF IxInv
    <3> HIDE DEF a, b, got
    <3>2. a \in 1 .. Len(chain) /\ b \in a .. Len(chain) /\ Len(chain) \in Nat
      <4>1. a \in 1 .. Len(chain) /\ b \in a .. Len(chain)
        BY <3>1, Zenon DEF PageAt
      <4> QED
        BY <4>1, LedgerTypes DEF IxInv
    <3>3. a \in Nat /\ b \in Nat
      BY <3>2
    <3> QED
      BY <3>1, <3>3
  <2> QED
    BY <2>1, <2>2
<1> HIDE DEF got
<1>6. got \in Seq(RawEvent)
  <2>1. CASE got = <<>>
    BY <2>1
  <2>2. CASE \E a, b \in Nat : PageAt(chain, head, got, from[w], a, b)
    BY <2>2, Zenon DEF PageAt
  <2> QED
    BY <1>5, <2>1, <2>2
<1>7. pc'[w] = IF got = <<>> THEN "loop" ELSE "ingest"
  BY <1>1, <1>2, <1>3 DEF AfterFetch
<1>8. WorkerInv'
  <2>1. page' \in [Workers -> Seq(RawEvent)]
    BY <1>1, <1>2, <1>6
  <2>2. AfterFetch(page'[w]) \in {"loop", "ingest"}
    BY DEF AfterFetch
  <2>3. pc' \in [Workers -> Labels] /\ \A v \in Workers : pc'[v] = "fetch" => pc[v] = "fetch"
    BY <1>1, <1>2, <2>2 DEF Labels
  <2> QED
    BY <1>1, <2>1, <2>3 DEF IxInv, WorkerInv
<1>9. Pages'
  <2>1. \A v \in Workers : v # w => /\ pc'[v] = pc[v] /\ page'[v] = page[v]
                                    /\ from'[v] = from[v]
    BY <1>1, <1>2
  <2>2. IF pc'[w] = "ingest"
        THEN \E a, b \in Nat : PageAt(chain, head, page'[w], from'[w], a, b)
        ELSE page'[w] = <<>>
    BY <1>1, <1>3, <1>5, <1>7
  <2> QED
    BY <1>1, <2>1, <2>2, PagesFrame DEF IxInv
<1> QED
  BY <1>1, <1>8, <1>9 DEF IxInv, ChainInv, DbInv

(* The tables after a page is committed *)
LEMMA CommitEffect ==
    ASSUME IxInv, NEW w \in Workers, Commit(w)
    PROVE  /\ \E a, b \in Nat :
                 /\ PageAt(chain, head, page[w], from[w], a, b)
                 /\ db'.cursor = IF db.cursor > chain[b].ledger THEN db.cursor
                                                                ELSE chain[b].ledger
           /\ db' \in DbType /\ db'.broken = FALSE /\ db'.cursor <= head
           /\ db'.cursor \in Nat /\ db.cursor <= db'.cursor
           /\ \E u : /\ Folds(db, page[w], u)
                     /\ LET r == u[Len(page[w])] IN
                        /\ db'.raw = r.raw /\ db'.states = r.states /\ db'.votes = r.votes
                        /\ db'.withdrawals = r.withdrawals
<1> DEFINE r == ingestPage(db, page[w])
           l == NextLedger(page[w])
           c == Max({r.cursor, l})
<1>1. pc[w] = "ingest" /\ ~r.broken /\ db' = [r EXCEPT !.cursor = c]
  BY DEF Commit, Ingested, saveCursor
<1>2. PICK a, b \in Nat : PageAt(chain, head, page[w], from[w], a, b)
  BY <1>1 DEF IxInv, Pages
<1>3. /\ page[w] \in Seq(RawEvent) /\ db \in DbType /\ db.cursor <= head
  BY DEF IxInv, WorkerInv, DbInv
<1>4. /\ r \in DbType /\ r.cursor = db.cursor
      /\ ~r.broken => \E u : Folds(db, page[w], u) /\ r = u[Len(page[w])]
  BY <1>3, PageEffect
<1>5. l = chain[b].ledger
  BY <1>2, NextLedgerIs DEF IxInv
<1>6. /\ Len(chain) \in Nat /\ head \in 0 .. MaxLedger
      /\ \A i \in 1 .. Len(chain) : chain[i] \in RawEvent
  BY LedgerTypes DEF IxInv, ChainInv
<1>7. a \in 1 .. Len(chain) /\ b \in a .. Len(chain) /\ chain[b].ledger <= head
  BY <1>2, Zenon DEF PageAt
<1>8. l \in 1 .. MaxLedger /\ l <= head /\ r.cursor \in 0 .. MaxLedger /\ head \in Nat
  <2>1. b \in 1 .. Len(chain)
    BY <1>6, <1>7
  <2>2. chain[b].ledger \in 1 .. MaxLedger
    BY <1>6, <2>1, EventFacts
  <2>3. r.cursor \in 0 .. MaxLedger
    BY <1>4 DEF DbType
  <2> QED
    BY <1>5, <1>6, <1>7, <2>2, <2>3, BoundAssumption
<1> HIDE DEF r, l
<1>9. c = IF r.cursor > l THEN r.cursor ELSE l
  BY <1>8, MaxTwo, BoundAssumption
<1>10. c \in 0 .. MaxLedger /\ c <= head /\ r.cursor <= c /\ c \in Nat
  BY <1>3, <1>4, <1>8, <1>9, BoundAssumption
<1> HIDE DEF c
<1>11. r.broken = FALSE
  BY <1>1, <1>4 DEF DbType
<1>12. /\ db' \in DbType /\ db'.cursor = c /\ db'.broken = r.broken
       /\ db'.raw = r.raw /\ db'.states = r.states /\ db'.votes = r.votes
       /\ db'.withdrawals = r.withdrawals
  BY <1>1, <1>4, <1>10 DEF DbType
<1>13. PICK u : Folds(db, page[w], u) /\ r = u[Len(page[w])]
  BY <1>1, <1>4
<1> QED
  BY <1>2, <1>4, <1>5, <1>9, <1>10, <1>11, <1>12, <1>13

LEMMA CommitKeeps ==
    ASSUME IxInv, NEW w \in Workers, Commit(w)
    PROVE  IxInv'
<1>1. /\ page' = [page EXCEPT ![w] = <<>>] /\ pc' = [pc EXCEPT ![w] = "loop"]
      /\ UNCHANGED <<chain, head, lock, from, attempt>>
  BY DEF Commit, Goto, env
<1>2. /\ page \in [Workers -> Seq(RawEvent)] /\ pc \in [Workers -> Labels]
      /\ from \in [Workers -> 0 .. MaxLedger]
  BY DEF IxInv, WorkerInv
<1>3. /\ db' \in DbType /\ db'.broken = FALSE /\ db'.cursor <= head
      /\ db'.cursor \in Nat /\ db.cursor <= db'.cursor
  BY CommitEffect
<1>4. DbInv'
  <2>1. db.cursor \in Nat
    BY BoundAssumption DEF IxInv, DbInv, DbType
  <2>2. ASSUME NEW v \in Workers PROVE from[v] <= db'.cursor
    <3>1. from[v] <= db.cursor /\ from[v] \in Nat
      BY <1>2, BoundAssumption DEF IxInv, DbInv
    <3> QED
      BY <1>3, <2>1, <3>1
  <2> QED
    BY <1>1, <1>3, <2>2 DEF DbInv
<1>5. WorkerInv'
  BY <1>1, <1>2 DEF IxInv, WorkerInv, Labels
<1>6. Pages'
  <2>1. \A v \in Workers : v # w => /\ pc'[v] = pc[v] /\ page'[v] = page[v]
                                    /\ from'[v] = from[v]
    BY <1>1, <1>2
  <2>2. IF pc'[w] = "ingest"
        THEN \E a, b \in Nat : PageAt(chain, head, page'[w], from'[w], a, b)
        ELSE page'[w] = <<>>
    BY <1>1, <1>2
  <2> QED
    BY <1>1, <2>1, <2>2, PagesFrame DEF IxInv
<1> QED
  BY <1>1, <1>4, <1>5, <1>6 DEF IxInv, ChainInv

(* A step of one worker that touches neither the chain nor the tables *)
LEMMA QuietKeeps ==
    ASSUME IxInv, NEW w \in Workers, UNCHANGED <<chain, head, db>>, WorkerInv',
           \A v \in Workers : v # w => pc'[v] = pc[v] /\ page'[v] = page[v] /\ from'[v] = from[v],
           from'[w] = from[w] \/ from'[w] = db.cursor,
           \/ pc'[w] = pc[w] /\ page'[w] = page[w] /\ from'[w] = from[w]
           \/ pc'[w] # "ingest" /\ page'[w] = <<>>
    PROVE  IxInv'
<1>1. ChainInv'
  BY DEF IxInv, ChainInv
<1>2. DbInv'
  <2>1. /\ db \in DbType /\ db.broken = FALSE /\ db.cursor <= head
        /\ \A v \in Workers : from[v] <= db.cursor
    BY DEF IxInv, DbInv
  <2>2. db.cursor \in Nat
    BY <2>1, BoundAssumption DEF DbType
  <2>3. \A v \in Workers : from'[v] <= db.cursor
    BY <2>1, <2>2
  <2> QED
    BY <2>1, <2>3 DEF DbInv
<1>3. Pages'
  <2>1. IF pc'[w] = "ingest"
        THEN \E a, b \in Nat : PageAt(chain, head, page'[w], from'[w], a, b)
        ELSE page'[w] = <<>>
    BY Zenon DEF IxInv, Pages
  <2> QED
    BY <2>1, PagesFrame DEF IxInv
<1> QED
  BY <1>1, <1>2, <1>3 DEF IxInv

LEMMA LoopPageEmpty ==
    ASSUME IxInv, NEW w \in Workers, pc[w] # "ingest"
    PROVE  page[w] = <<>>
BY DEF IxInv, Pages

LEMMA WorkerKeeps ==
    ASSUME IxInv, NEW w \in Workers, WorkerStep(w)
    PROVE  IxInv'
<1>0. /\ lock \in Workers \cup {NoOne} /\ pc \in [Workers -> Labels]
      /\ from \in [Workers -> 0 .. MaxLedger] /\ page \in [Workers -> Seq(RawEvent)]
      /\ attempt \in [Workers -> 0 .. Attempts]
      /\ \A v \in Workers : pc[v] = "fetch" => attempt[v] < Attempts
      /\ db.cursor \in 0 .. MaxLedger
  BY DEF IxInv, WorkerInv, DbInv, DbType
<1>1. CASE Boot(w)
  <2>1. /\ UNCHANGED <<chain, head, db, from, page, attempt>> /\ pc[w] = "down"
        /\ lock' = w /\ pc' = [pc EXCEPT ![w] = "loop"]
    BY <1>1 DEF Boot, Goto, env
  <2>2. WorkerInv'
    BY <1>0, <2>1 DEF WorkerInv, Labels
  <2>3. page[w] = <<>> /\ pc'[w] = "loop"
    BY <1>0, <2>1, LoopPageEmpty
  <2> QED
    BY <1>0, <2>1, <2>2, <2>3, QuietKeeps
<1>2. CASE ReadCursor(w)
  <2>1. /\ UNCHANGED <<chain, head, db, page, lock>> /\ pc[w] = "loop"
        /\ from' = [from EXCEPT ![w] = db.cursor] /\ attempt' = [attempt EXCEPT ![w] = 0]
        /\ pc' = [pc EXCEPT ![w] = "fetch"]
    BY <1>2 DEF ReadCursor, Goto, env
  <2>2. WorkerInv'
    <3>1. 0 < Attempts /\ 0 \in 0 .. Attempts
      BY AttemptsAssumption
    <3> QED
      BY <1>0, <2>1, <3>1 DEF WorkerInv, Labels
  <2>3. page[w] = <<>> /\ pc'[w] = "fetch" /\ from'[w] = db.cursor
    BY <1>0, <2>1, LoopPageEmpty
  <2> QED
    BY <1>0, <2>1, <2>2, <2>3, QuietKeeps
<1>3. CASE Fetch(w)
  BY <1>3, FetchKeeps
<1>4. CASE FetchFails(w)
  <2>1. /\ UNCHANGED <<chain, head, db, lock, from, page>> /\ pc[w] = "fetch"
        /\ attempt' = [attempt EXCEPT ![w] = @ + 1]
        /\ pc' = [pc EXCEPT ![w] = IF attempt'[w] = Attempts THEN "loop" ELSE "fetch"]
    BY <1>4 DEF FetchFails, Goto, env, FetchExhausted
  <2>2. WorkerInv'
    <3>1. attempt[w] \in 0 .. Attempts /\ attempt[w] < Attempts /\ Attempts \in Nat
      BY <1>0, <2>1, AttemptsAssumption
    <3>2. attempt'[w] = attempt[w] + 1 /\ attempt[w] + 1 \in 0 .. Attempts
      BY <1>0, <2>1, <3>1
    <3>3. attempt' \in [Workers -> 0 .. Attempts]
      BY <1>0, <2>1, <3>2
    <3>4. pc' \in [Workers -> Labels]
      BY <1>0, <2>1 DEF Labels
    <3>5. ASSUME NEW v \in Workers, pc'[v] = "fetch"
          PROVE  attempt'[v] < Attempts
      <4>1. CASE v = w
        <5>1. attempt'[w] # Attempts
          BY <1>0, <2>1, <3>5, <4>1
        <5> QED
          BY <3>1, <3>2, <4>1, <5>1
      <4>2. CASE v # w
        BY <1>0, <2>1, <3>5, <4>2
      <4> QED
        BY <4>1, <4>2
    <3> QED
      BY <1>0, <2>1, <3>3, <3>4, <3>5 DEF WorkerInv
  <2>3. page[w] = <<>> /\ pc'[w] # "ingest"
    BY <1>0, <2>1, LoopPageEmpty
  <2> QED
    BY <1>0, <2>1, <2>2, <2>3, QuietKeeps
<1>5. CASE FetchAborted(w)
  <2>1. /\ UNCHANGED <<chain, head, db, lock, from, page, attempt>> /\ pc[w] = "fetch"
        /\ pc' = [pc EXCEPT ![w] = "loop"]
    BY <1>5 DEF FetchAborted, Goto, env
  <2>2. WorkerInv'
    BY <1>0, <2>1 DEF WorkerInv, Labels
  <2>3. page[w] = <<>> /\ pc'[w] = "loop"
    BY <1>0, <2>1, LoopPageEmpty
  <2> QED
    BY <1>0, <2>1, <2>2, <2>3, QuietKeeps
<1>6. CASE Commit(w)
  BY <1>6, CommitKeeps
<1>7. CASE Rollback(w)
  <2>1. /\ UNCHANGED <<chain, head, db, lock, from, attempt>>
        /\ page' = [page EXCEPT ![w] = <<>>] /\ pc' = [pc EXCEPT ![w] = "loop"]
    BY <1>7 DEF Rollback, Goto, env, RolledBack
  <2>2. WorkerInv'
    BY <1>0, <2>1 DEF WorkerInv, Labels
  <2>3. page'[w] = <<>> /\ pc'[w] = "loop"
    BY <1>0, <2>1
  <2> QED
    BY <1>0, <2>1, <2>2, <2>3, QuietKeeps
<1>8. CASE Signal(w)
  <2>1. UNCHANGED <<chain, head, db, lock, pc, from, page, attempt>>
    BY <1>8 DEF Signal, env
  <2>2. WorkerInv'
    BY <1>0, <2>1 DEF WorkerInv
  <2> QED
    BY <1>0, <2>1, <2>2, QuietKeeps
<1>9. CASE Shutdown(w)
  <2>1. /\ UNCHANGED <<chain, head, db, from, page, attempt>> /\ pc[w] = "loop"
        /\ pc' = [pc EXCEPT ![w] = "down"] /\ lock' \in {lock, NoOne}
    BY <1>9 DEF Shutdown, Goto, env, Unlock
  <2>2. WorkerInv'
    BY <1>0, <2>1 DEF WorkerInv, Labels
  <2>3. page[w] = <<>> /\ pc'[w] = "down"
    BY <1>0, <2>1, LoopPageEmpty
  <2> QED
    BY <1>0, <2>1, <2>2, <2>3, QuietKeeps
<1>10. CASE Crash(w) \/ LockErrorExit(w)
  <2>1. /\ UNCHANGED <<chain, head, db, from, attempt>> /\ lock' \in {lock, NoOne}
        /\ pc' = [pc EXCEPT ![w] = "down"] /\ page' = [page EXCEPT ![w] = <<>>]
    BY <1>10 DEF Crash, LockErrorExit, Exit, Goto, env, Unlock
  <2>2. WorkerInv'
    BY <1>0, <2>1 DEF WorkerInv, Labels
  <2>3. page'[w] = <<>> /\ pc'[w] = "down"
    BY <1>0, <2>1
  <2> QED
    BY <1>0, <2>1, <2>2, <2>3, QuietKeeps
<1>11. CASE SessionLost(w)
  <2>1. UNCHANGED <<chain, head, db, pc, from, page, attempt>> /\ lock' = NoOne
    BY <1>11 DEF SessionLost, env, workers
  <2>2. WorkerInv'
    BY <1>0, <2>1 DEF WorkerInv
  <2> QED
    BY <1>0, <2>1, <2>2, QuietKeeps
<1> QED
  BY <1>1, <1>2, <1>3, <1>4, <1>5, <1>6, <1>7, <1>8, <1>9, <1>10, <1>11 DEF WorkerStep

LEMMA EnvKeeps ==
    ASSUME IxInv, Emit \/ CloseLedger
    PROVE  IxInv'
<1>1. UNCHANGED <<db, lock, pc, from, page, attempt>>
  BY DEF Emit, CloseLedger, workers
<1>2. ChainInv' /\ Grows(chain, head, chain', head')
  BY EmitGrows, CloseGrows DEF IxInv
<1>3. DbInv'
  <2>1. /\ db \in DbType /\ db.broken = FALSE /\ db.cursor <= head
        /\ \A v \in Workers : from[v] <= db.cursor
    BY DEF IxInv, DbInv
  <2>2. db.cursor \in Nat /\ head \in Nat /\ head' \in Nat /\ head <= head'
    BY <1>2, <2>1, BoundAssumption DEF DbType, Grows
  <2> QED
    BY <1>1, <2>1, <2>2 DEF DbInv
<1>4. Pages'
  BY <1>1, <1>2, PagesStay DEF IxInv
<1>5. WorkerInv'
  BY <1>1 DEF IxInv, WorkerInv
<1> QED
  BY <1>2, <1>3, <1>4, <1>5 DEF IxInv

LEMMA IxInit ==
    ASSUME Init
    PROVE  IxInv
<1>1. ChainInv
  BY BoundAssumption DEF Init, ChainInv
<1>2. WorkerInv
  BY BoundAssumption, AttemptsAssumption DEF Init, WorkerInv, Labels
<1>3. DbInv
  <2>1. EmptyDb \in DbType /\ EmptyDb.broken = FALSE /\ EmptyDb.cursor = 0
    BY BoundAssumption DEF EmptyDb, DbType, RowType, VoteRow
  <2> QED
    BY <2>1 DEF Init, DbInv
<1>4. Pages
  BY DEF Init, Pages
<1> QED
  BY <1>1, <1>2, <1>3, <1>4 DEF IxInv

LEMMA IxStep ==
    ASSUME IxInv, [Next]_vars
    PROVE  IxInv'
<1>1. CASE UNCHANGED vars
  BY <1>1 DEF IxInv, vars, ChainInv, WorkerInv, DbInv, Pages
<1>2. CASE Next
  BY <1>2, EnvKeeps, WorkerKeeps DEF Next
<1> QED
  BY <1>1, <1>2

LEMMA IxInvariant == Spec => []IxInv
<1>1. Init => IxInv
  BY IxInit
<1>2. IxInv /\ [Next]_vars => IxInv'
  BY IxStep
<1> QED
  BY <1>1, <1>2, PTL DEF Spec

(* The shape of the tables, the loop and the pages in hand: a page to       *)
(* ingest is never empty, and no committed table comes from a transaction   *)
(* that failed (pollOnce, ingestPage), for all workers, streams and page    *)
(* sizes and however often workers crash or lose the lock.                  *)
THEOREM IndexerTypesHold == Spec => []IndexerTypeOK
<1>1. IxInv => IndexerTypeOK
  <2> SUFFICES ASSUME IxInv PROVE IndexerTypeOK
    OBVIOUS
  <2>1. chain \in Seq(RawEvent) /\ head \in 0 .. MaxLedger
    BY DEF IxInv, ChainInv
  <2>2. /\ db.cursor \in 0 .. MaxLedger /\ ~db.broken
        /\ \A s \in Streams : db.states[s] \in RowType
    BY DEF IxInv, DbInv, DbType
  <2>3. ASSUME NEW w \in Workers
        PROVE  pc[w] = "ingest" <=> page[w] # <<>>
    <3>1. CASE pc[w] = "ingest"
      <4>1. PICK a, b \in Nat : PageAt(chain, head, page[w], from[w], a, b)
        BY <3>1 DEF IxInv, Pages
      <4>2. a \in 1 .. Len(chain) /\ b \in a .. Len(chain) /\ Len(page[w]) = b - a + 1
        BY <4>1, Zenon DEF PageAt
      <4>3. Len(page[w]) # 0
        BY <4>2
      <4> QED
        BY <3>1, <4>3
    <3>2. CASE pc[w] # "ingest"
      BY <3>2, LoopPageEmpty
    <3> QED
      BY <3>1, <3>2
  <2> QED
    BY <2>1, <2>2, <2>3 DEF IxInv, WorkerInv, IndexerTypeOK
<1> QED
  BY <1>1, IxInvariant, PTL

-----------------------------------------------------------------------------
(* Books: what the tables say of the first q events of a chain c *)

(* Every one of them is in the raw log. *)
RawBooks(c, d, q) == \A i \in 1 .. q : RawKey(c[i]) \in d.raw

(* No earlier event of the same stream or ballot is of the same ledger. *)
Leads(c, i) == \A j \in 1 .. (i - 1) : c[j].id = c[i].id => c[j].ledger < c[i].ledger

(* Event i is of stream s and type t, and is the one of its ledger that counts. *)
Counts(c, s, t, i) == c[i].id = s /\ c[i].type = t /\ Leads(c, i)

(* What the events of type t that count add up to for stream s *)
Vals(c, q, s, t) == [i \in 1 .. q |-> IF Counts(c, s, t, i) THEN c[i].val ELSE 0]

SumTo(c, q, s, t) == SumOf(Vals(c, q, s, t), 1 .. q)

OfStream(e, s) == e.id = s /\ e.type \in StreamTypes

(* The watermark of a row is the largest ledger of its stream's events. *)
Marked(c, q, s, up) ==
    /\ \A i \in 1 .. q : OfStream(c[i], s) => c[i].ledger <= up
    /\ up = 0 \/ \E i \in 1 .. q : OfStream(c[i], s) /\ c[i].ledger = up

(* The recipient is the one the last transfer that counts names. *)
Moved(c, q, s, rec) ==
    \A i \in 1 .. q :
        /\ Counts(c, s, "xfer_rec", i)
        /\ \A j \in 1 .. q : Counts(c, s, "xfer_rec", j) => j <= i
        => rec = c[i].val

StreamBooks(c, q, s, up, dep, wd, rec) ==
    /\ Marked(c, q, s, up) /\ Moved(c, q, s, rec)
    /\ dep = SumTo(c, q, s, "topped_up") /\ wd = SumTo(c, q, s, "withdrawn")

RowBooks(c, d, q, s) ==
    LET row == Shown(d.states[s])
    IN  StreamBooks(c, q, s, row.updated, row.deposit, row.withdrawn, row.recipient)

(* Withdrawal k is the first of its stream in its transaction. *)
Opens(c, k) ==
    /\ c[k].type = "withdrawn"
    /\ \A j \in 1 .. (k - 1) :
          c[j].type = "withdrawn" => WithdrawalKey(c[j]) # WithdrawalKey(c[k])

Withdrawals(c, q) == {c[j] : j \in {k \in 1 .. q : Opens(c, k)}}

AmountBooks(c, d, q) ==
    /\ d.withdrawals = Withdrawals(c, q)
    /\ \A s \in Streams : RowBooks(c, d, q, s)

(* A chain as the ledgers produce it *)
ChainLike(c) ==
    /\ Len(c) \in Nat /\ \A i \in 1 .. Len(c) : c[i] \in RawEvent
    /\ \A i, j \in 1 .. Len(c) : i <= j => c[i].ledger <= c[j].ledger

LEMMA ValsTyped ==
    ASSUME NEW c, ChainLike(c), NEW q \in 0 .. Len(c), NEW s, NEW t \in {"topped_up", "withdrawn"}
    PROVE  \A i \in 1 .. q : Vals(c, q, s, t)[i] \in Nat
<1> SUFFICES ASSUME NEW i \in 1 .. q PROVE Vals(c, q, s, t)[i] \in Nat
  OBVIOUS
<1>1. i \in 1 .. Len(c) /\ c[i] \in RawEvent
  BY DEF ChainLike
<1>2. c[i].type = t => c[i].val \in Nat
  BY <1>1, EventFacts
<1>3. Vals(c, q, s, t)[i] = IF Counts(c, s, t, i) THEN c[i].val ELSE 0
  BY DEF Vals
<1>4. Counts(c, s, t, i) => c[i].type = t
  BY DEF Counts
<1> QED
  BY <1>2, <1>3, <1>4

(* One event more *)
LEMMA SumToNext ==
    ASSUME NEW c, ChainLike(c), NEW q \in Nat, q + 1 <= Len(c), NEW s,
           NEW t \in {"topped_up", "withdrawn"}
    PROVE  /\ SumTo(c, q, s, t) \in Int
           /\ SumTo(c, q + 1, s, t) =
                SumTo(c, q, s, t) + (IF Counts(c, s, t, q + 1) THEN c[q + 1].val ELSE 0)
<1> DEFINE f == Vals(c, q, s, t)
           g == Vals(c, q + 1, s, t)
           S == 1 .. q
<1>1. q \in 0 .. Len(c) /\ q + 1 \in 0 .. Len(c) /\ q + 1 \notin S
      /\ 1 .. (q + 1) = S \cup {q + 1} /\ q + 1 \in 1 .. (q + 1)
  BY DEF ChainLike
<1>2. \A y \in S : f[y] \in Nat
  BY <1>1, ValsTyped
<1>3. \A y \in 1 .. (q + 1) : g[y] \in Nat
  BY <1>1, ValsTyped
<1>4. \A y \in S : g[y] = f[y]
  BY <1>1 DEF Vals
<1>5. g[q + 1] = IF Counts(c, s, t, q + 1) THEN c[q + 1].val ELSE 0
  BY <1>1 DEF Vals
<1>6. IsFiniteSet(S)
  BY FS_Interval
<1> HIDE DEF f, g, S
<1>7. Extended(f, g, S, q + 1)
  BY <1>1, <1>2, <1>3, <1>4, <1>6 DEF Extended
<1>8. SumExtended(f, g, S, q + 1)
  BY <1>7, SumExtend
<1>9. SumOf(f, S) \in Int /\ SumOf(g, S \cup {q + 1}) = SumOf(f, S) + g[q + 1]
  BY <1>8 DEF SumExtended
<1> QED
  BY <1>1, <1>5, <1>9 DEF SumTo, f, g, S

(* An event of another stream, or of a ballot, leaves a stream's books. *)
LEMMA BooksSkip ==
    ASSUME NEW c, ChainLike(c), NEW q \in Nat, q + 1 <= Len(c), NEW s, ~OfStream(c[q + 1], s),
           NEW up, NEW dep, NEW wd, NEW rec, StreamBooks(c, q, s, up, dep, wd, rec)
    PROVE  StreamBooks(c, q + 1, s, up, dep, wd, rec)
<1>1. \A i \in 1 .. (q + 1) : i \in 1 .. q \/ i = q + 1
  OBVIOUS
<1>2. \A i \in 1 .. q : i \in 1 .. (q + 1)
  OBVIOUS
<1>3. /\ ~Counts(c, s, "topped_up", q + 1) /\ ~Counts(c, s, "withdrawn", q + 1)
      /\ ~Counts(c, s, "xfer_rec", q + 1)
  BY DEF OfStream, StreamTypes, Counts
<1>4. /\ SumTo(c, q + 1, s, "topped_up") = SumTo(c, q, s, "topped_up")
      /\ SumTo(c, q + 1, s, "withdrawn") = SumTo(c, q, s, "withdrawn")
  BY <1>3, SumToNext
<1>5. Marked(c, q, s, up) /\ Moved(c, q, s, rec)
  BY DEF StreamBooks
<1>6. Marked(c, q + 1, s, up)
  <2>1. \A i \in 1 .. (q + 1) : OfStream(c[i], s) => i \in 1 .. q
    BY <1>1
  <2> QED
    BY <1>2, <1>5, <2>1 DEF Marked
<1>7. Moved(c, q + 1, s, rec)
  <2> SUFFICES ASSUME NEW i \in 1 .. (q + 1), Counts(c, s, "xfer_rec", i),
                      \A j \in 1 .. (q + 1) : Counts(c, s, "xfer_rec", j) => j <= i
               PROVE  rec = c[i].val
    BY DEF Moved
  <2>1. i \in 1 .. q
    BY <1>1, <1>3
  <2>2. \A j \in 1 .. q : Counts(c, s, "xfer_rec", j) => j <= i
    BY <1>2
  <2> QED
    BY <1>5, <2>1, <2>2 DEF Moved
<1> QED
  BY <1>4, <1>6, <1>7 DEF StreamBooks

(* Events with the id of a stream's event are events of that stream. *)
LEMMA SameStream ==
    ASSUME NEW e \in RawEvent, NEW f \in RawEvent, NEW s, OfStream(e, s), f.id = e.id
    PROVE  OfStream(f, s)
<1>1. /\ (e.type = "vote") <=> (e.id \in Ballots)
      /\ (f.type = "vote") <=> (f.id \in Ballots)
  BY DEF RawEvent, EventsAt
<1>2. e.id = s /\ e.type # "vote"
  BY DEF OfStream, StreamTypes
<1>3. f.type \in StreamTypes \cup {"vote"}
  BY EventFacts
<1> QED
  BY <1>1, <1>2, <1>3 DEF OfStream

(* A row's books tell that an event already counted is not beyond the       *)
(* watermark, and that the next one is if it is the first of its ledger.    *)
LEMMA Freshness ==
    ASSUME NEW c, ChainLike(c), NEW q \in 0 .. Len(c), NEW s, NEW up \in Nat,
           Marked(c, q, s, up), NEW i \in 1 .. Len(c), OfStream(c[i], s)
    PROVE  /\ i <= q => ~(c[i].ledger > up)
           /\ i = q + 1 => /\ c[i].ledger > up <=> Leads(c, i)
                           /\ up <= c[i].ledger
<1>1. /\ Len(c) \in Nat /\ \A k \in 1 .. Len(c) : c[k] \in RawEvent
      /\ \A k, j \in 1 .. Len(c) : k <= j => c[k].ledger <= c[j].ledger
  BY DEF ChainLike
<1>2. \A k \in 1 .. Len(c) : c[k].ledger \in Nat \ {0}
  <2> SUFFICES ASSUME NEW k \in 1 .. Len(c) PROVE c[k].ledger \in Nat \ {0}
    OBVIOUS
  <2> QED
    BY <1>1, EventFacts
<1>3. ASSUME i <= q
      PROVE  ~(c[i].ledger > up)
  <2>1. i \in 1 .. q
    BY <1>1, <1>3
  <2>2. c[i].ledger <= up
    BY <2>1 DEF Marked
  <2> QED
    BY <1>2, <2>2
<1>4. ASSUME i = q + 1, up # 0
      PROVE  \E j \in 1 .. (i - 1) : j \in 1 .. Len(c) /\ c[j].id = c[i].id /\ c[j].ledger = up
                                     /\ up <= c[i].ledger
  <2>1. PICK j \in 1 .. q : OfStream(c[j], s) /\ c[j].ledger = up
    BY <1>4 DEF Marked
  <2>2. j \in 1 .. Len(c) /\ j <= i /\ j \in 1 .. (i - 1)
    BY <1>1, <1>4
  <2>3. c[j].ledger <= c[i].ledger /\ c[j].id = c[i].id
    BY <1>1, <2>1, <2>2 DEF OfStream
  <2> QED
    BY <2>1, <2>2, <2>3
<1>5. i = q + 1 => up <= c[i].ledger
  BY <1>2, <1>4
<1>6. ASSUME i = q + 1, c[i].ledger > up
      PROVE  Leads(c, i)
  <2> SUFFICES ASSUME NEW j \in 1 .. (i - 1), c[j].id = c[i].id
               PROVE  c[j].ledger < c[i].ledger
    BY DEF Leads
  <2>1. j \in 1 .. q /\ j \in 1 .. Len(c)
    BY <1>1, <1>6
  <2>2. OfStream(c[j], s)
    BY <1>1, <2>1, SameStream
  <2>3. c[j].ledger <= up
    BY <2>1, <2>2 DEF Marked
  <2> QED
    BY <1>2, <1>6, <2>1, <2>3
<1>7. ASSUME i = q + 1, Leads(c, i)
      PROVE  c[i].ledger > up
  <2>1. CASE up = 0
    BY <1>2, <2>1
  <2>2. CASE up # 0
    <3>1. PICK j \in 1 .. (i - 1) : j \in 1 .. Len(c) /\ c[j].id = c[i].id /\ c[j].ledger = up
      BY <1>4, <1>7, <2>2
    <3>2. c[j].ledger < c[i].ledger
      BY <1>7, <3>1 DEF Leads
    <3> QED
      BY <1>2, <3>1, <3>2
  <2> QED
    BY <2>1, <2>2
<1> QED
  BY <1>3, <1>5, <1>6, <1>7

(* The next event of a stream, in its books *)
LEMMA BooksTake ==
    ASSUME NEW c, ChainLike(c), NEW q \in Nat, q + 1 <= Len(c), NEW s, OfStream(c[q + 1], s),
           NEW up, NEW dep, NEW wd, NEW rec, StreamBooks(c, q, s, up, dep, wd, rec)
    PROVE  StreamBooks(c, q + 1, s, c[q + 1].ledger,
               dep + (IF Counts(c, s, "topped_up", q + 1) THEN c[q + 1].val ELSE 0),
               wd + (IF Counts(c, s, "withdrawn", q + 1) THEN c[q + 1].val ELSE 0),
               IF Counts(c, s, "xfer_rec", q + 1) THEN c[q + 1].val ELSE rec)
<1> DEFINE e == c[q + 1]
           rec2 == IF Counts(c, s, "xfer_rec", q + 1) THEN e.val ELSE rec
<1>1. /\ \A i \in 1 .. (q + 1) : i \in 1 .. q \/ i = q + 1
      /\ q + 1 \in 1 .. (q + 1) /\ \A i \in 1 .. q : i \in 1 .. (q + 1)
  OBVIOUS
<1>3. /\ Marked(c, q, s, up) /\ Moved(c, q, s, rec)
      /\ dep = SumTo(c, q, s, "topped_up") /\ wd = SumTo(c, q, s, "withdrawn")
  BY DEF StreamBooks
<1>4. /\ SumTo(c, q + 1, s, "topped_up") =
            dep + (IF Counts(c, s, "topped_up", q + 1) THEN e.val ELSE 0)
      /\ SumTo(c, q + 1, s, "withdrawn") =
            wd + (IF Counts(c, s, "withdrawn", q + 1) THEN e.val ELSE 0)
  BY <1>3, SumToNext
<1>5. Marked(c, q + 1, s, e.ledger)
  <2>1. \A i \in 1 .. (q + 1) : c[i].ledger <= e.ledger
    <3> SUFFICES ASSUME NEW i \in 1 .. (q + 1) PROVE c[i].ledger <= e.ledger
      OBVIOUS
    <3>1. i \in 1 .. Len(c) /\ q + 1 \in 1 .. Len(c) /\ i <= q + 1
      BY DEF ChainLike
    <3> QED
      BY <3>1 DEF ChainLike
  <2> QED
    BY <1>1, <2>1 DEF Marked
<1>6. Moved(c, q + 1, s, rec2)
  <2> SUFFICES ASSUME NEW i \in 1 .. (q + 1), Counts(c, s, "xfer_rec", i),
                      \A j \in 1 .. (q + 1) : Counts(c, s, "xfer_rec", j) => j <= i
               PROVE  rec2 = c[i].val
    BY DEF Moved
  <2>1. CASE Counts(c, s, "xfer_rec", q + 1)
    <3>1. q + 1 <= i
      BY <1>1, <2>1
    <3>2. i = q + 1
      BY <3>1
    <3> QED
      BY <2>1, <3>2
  <2>2. CASE ~Counts(c, s, "xfer_rec", q + 1)
    <3>1. i \in 1 .. q
      BY <1>1, <2>2
    <3>2. \A j \in 1 .. q : Counts(c, s, "xfer_rec", j) => j <= i
      BY <1>1
    <3> QED
      BY <1>3, <2>2, <3>1, <3>2 DEF Moved
  <2> QED
    BY <2>1, <2>2
<1> QED
  BY <1>4, <1>5, <1>6 DEF StreamBooks

Logged(W, e) ==
    IF \/ e.type # "withdrawn"
       \/ \E w \in W : WithdrawalKey(w) = WithdrawalKey(e)
    THEN W ELSE W \cup {e}

(* Every withdrawal has a row with its key, the one of the first of them. *)
LEMMA RowOfKey ==
    ASSUME NEW c, NEW q \in Nat, NEW i \in 1 .. q, c[i].type = "withdrawn"
    PROVE  \E w \in Withdrawals(c, q) : WithdrawalKey(w) = WithdrawalKey(c[i])
<1> DEFINE S == {j \in 1 .. q : /\ c[j].type = "withdrawn"
                                /\ WithdrawalKey(c[j]) = WithdrawalKey(c[i])}
           m == Min(S)
<1>1. i \in S /\ S \subseteq Int /\ S \subseteq 1 .. q
  OBVIOUS
<1>2. IsFiniteSet(S)
  <2>1. IsFiniteSet(1 .. q)
    BY FS_Interval
  <2> HIDE DEF S
  <2> QED
    BY <1>1, <2>1, FS_Subset
<1>3. m \in S /\ \A x \in S : m <= x
  <2> HIDE DEF S
  <2> QED
    BY <1>1, <1>2, Extrema
<1> HIDE DEF m
<1>4. /\ m \in 1 .. q /\ c[m].type = "withdrawn"
      /\ WithdrawalKey(c[m]) = WithdrawalKey(c[i])
      /\ \A x \in 1 .. q : c[x].type = "withdrawn" /\ WithdrawalKey(c[x]) = WithdrawalKey(c[i])
                           => m <= x
  BY <1>3
<1>5. ASSUME NEW j \in 1 .. (m - 1), c[j].type = "withdrawn"
      PROVE  WithdrawalKey(c[j]) # WithdrawalKey(c[m])
  <2>1. j \in 1 .. q /\ ~(m <= j)
    BY <1>4
  <2> QED
    BY <1>4, <1>5, <2>1
<1>6. Opens(c, m)
  BY <1>4, <1>5 DEF Opens
<1>7. c[m] \in Withdrawals(c, q)
  BY <1>4, <1>6 DEF Withdrawals
<1> QED
  BY <1>4, <1>7

LEMMA WithdrawalsNext ==
    ASSUME NEW c, NEW q \in Nat, NEW i \in Nat \ {0}, i <= q + 1
    PROVE  Logged(Withdrawals(c, q), c[i]) = Withdrawals(c, IF i <= q THEN q ELSE i)
<1> DEFINE W == Withdrawals(c, q)
<1>1. CASE c[i].type # "withdrawn" /\ i <= q
  BY <1>1 DEF Logged
<1>2. CASE c[i].type = "withdrawn" /\ i <= q
  <2>1. i \in 1 .. q
    BY <1>2
  <2>2. \E w \in W : WithdrawalKey(w) = WithdrawalKey(c[i])
    BY <1>2, <2>1, RowOfKey
  <2> QED
    BY <1>2, <2>2 DEF Logged
<1>3. CASE ~(i <= q)
  <2>0. i = q + 1
    BY <1>3
  <2> DEFINE P == {k \in 1 .. q : Opens(c, k)}
             P2 == {k \in 1 .. i : Opens(c, k)}
  <2>1. W = {c[j] : j \in P} /\ Withdrawals(c, i) = {c[j] : j \in P2}
    BY DEF Withdrawals
  <2>2. \A k \in 1 .. i : k \in 1 .. q \/ k = i
    BY <2>0
  <2>3. \A k \in 1 .. q : k \in 1 .. i
    BY <2>0
  <2>4. i \in 1 .. i
    OBVIOUS
  <2>5. CASE Opens(c, i)
    <3>1. P2 = P \cup {i}
      BY <2>2, <2>3, <2>4, <2>5
    <3>2. Withdrawals(c, i) = W \cup {c[i]}
      BY <2>1, <3>1
    <3>3. ASSUME NEW w \in W PROVE WithdrawalKey(w) # WithdrawalKey(c[i])
      <4>1. PICK j \in P : w = c[j]
        BY <2>1
      <4>2. j \in 1 .. (i - 1) /\ c[j].type = "withdrawn"
        BY <2>0, <4>1 DEF Opens
      <4> QED
        BY <2>5, <4>1, <4>2 DEF Opens
    <3>4. c[i].type = "withdrawn"
      BY <2>5 DEF Opens
    <3>5. Logged(W, c[i]) = W \cup {c[i]}
      <4> HIDE DEF W
      <4> QED
        BY <3>3, <3>4 DEF Logged
    <3> QED
      BY <1>3, <3>2, <3>5
  <2>6. CASE ~Opens(c, i)
    <3>1. P2 = P
      BY <2>2, <2>3, <2>6
    <3>2. Withdrawals(c, i) = W
      BY <2>1, <3>1
    <3>3. Logged(W, c[i]) = W
      <4>1. CASE c[i].type # "withdrawn"
        BY <4>1 DEF Logged
      <4>2. CASE c[i].type = "withdrawn"
        <5>1. PICK j \in 1 .. (i - 1) : /\ c[j].type = "withdrawn"
                                        /\ WithdrawalKey(c[j]) = WithdrawalKey(c[i])
          BY <2>6, <4>2 DEF Opens
        <5>2. j \in 1 .. q
          BY <2>0
        <5>3. \E w \in W : WithdrawalKey(w) = WithdrawalKey(c[j])
          BY <5>1, <5>2, RowOfKey
        <5> HIDE DEF W
        <5> QED
          BY <5>1, <5>3 DEF Logged
      <4> QED
        BY <4>1, <4>2
    <3> QED
      BY <1>3, <3>2, <3>3
  <2> QED
    BY <2>5, <2>6
<1> QED
  BY <1>1, <1>2, <1>3

LEMMA AmountStep ==
    ASSUME NEW c, ChainLike(c), NEW q \in 0 .. Len(c), NEW i \in 1 .. Len(c),
           i <= q + 1, NEW d \in DbType, NEW r \in DbType, Applied(d, c[i], r),
           AmountBooks(c, d, q)
    PROVE  AmountBooks(c, r, IF i <= q THEN q ELSE i)
<1> DEFINE e == c[i]
           q2 == IF i <= q THEN q ELSE i
<1>1. e \in RawEvent /\ Len(c) \in Nat /\ q \in Nat /\ i \in Nat \ {0}
  BY DEF ChainLike
<1>2. d.withdrawals = Withdrawals(c, q) /\ \A s \in Streams : RowBooks(c, d, q, s)
  BY DEF AmountBooks
<1>3. r.withdrawals = Withdrawals(c, q2)
  <2>1. r.withdrawals = Logged(d.withdrawals, e)
    BY DEF Applied, Logged
  <2>2. Logged(Withdrawals(c, q), c[i]) = Withdrawals(c, q2)
    BY <1>1, WithdrawalsNext
  <2> QED
    BY <1>2, <2>1, <2>2
<1>5. /\ e.type \in StreamTypes \cup {"vote"}
      /\ e.type \in {"withdrawn", "topped_up"} => e.val \in Nat
      /\ e.type \in StreamTypes => e.id \in Streams
      /\ e.ledger \in Nat
  BY <1>1, EventFacts
<1>6. /\ \A s \in Streams : s # e.id => r.states[s] = d.states[s]
      /\ e.type \in StreamTypes => RowEffect(d.states[e.id], e, r.states[e.id])
      /\ e.type = "vote" => r.states = d.states
  BY DEF Applied
<1>7. d.states \in [Streams -> RowType] /\ r.states \in [Streams -> RowType]
  BY DEF DbType
<1> HIDE DEF e
<1>8. ASSUME NEW s \in Streams, ~OfStream(e, s)
      PROVE  r.states[s] = d.states[s]
  BY <1>5, <1>6, <1>8 DEF OfStream
<1>9. ASSUME NEW s \in Streams
      PROVE  RowBooks(c, r, q2, s)
  <2> DEFINE old == Shown(d.states[s])
             new == r.states[s]
  <2>0. StreamBooks(c, q, s, old.updated, old.deposit, old.withdrawn, old.recipient)
    BY <1>2 DEF RowBooks
  <2>1. CASE ~OfStream(e, s)
    <3>1. new = d.states[s]
      BY <1>8, <2>1
    <3>2. CASE i <= q
      BY <1>2, <3>1, <3>2 DEF RowBooks
    <3>3. CASE ~(i <= q)
      <4>1. i = q + 1 /\ q + 1 <= Len(c) /\ q2 = q + 1 /\ e = c[q + 1]
        BY <1>1, <3>3 DEF e
      <4> HIDE DEF old
      <4>2. StreamBooks(c, q + 1, s, old.updated, old.deposit, old.withdrawn, old.recipient)
        BY <1>1, <2>0, <2>1, <4>1, BooksSkip
      <4> QED
        BY <3>1, <4>1, <4>2 DEF RowBooks, old
    <3> QED
      BY <3>2, <3>3
  <2>2. CASE OfStream(e, s)
    <3>1. e.id = s /\ e.type \in StreamTypes /\ RowEffect(d.states[s], e, new)
      BY <1>6, <2>2 DEF OfStream
    <3>2. old.updated \in Nat /\ old.deposit \in Nat /\ old.withdrawn \in Nat
      BY <1>7, ShownType
    <3>3. Marked(c, q, s, old.updated)
      BY <2>0 DEF StreamBooks
    <3>4. /\ i <= q => ~(e.ledger > old.updated)
          /\ i = q + 1 => (e.ledger > old.updated <=> Leads(c, i)) /\ old.updated <= e.ledger
      <4> HIDE DEF old
      <4> QED
        BY <1>1, <2>2, <3>2, <3>3, Freshness DEF e
    <3>5. /\ new \in FullRow
          /\ new.updated = IF old.updated > e.ledger THEN old.updated ELSE e.ledger
          /\ new.deposit = old.deposit + (IF e.type = "topped_up" /\ e.ledger > old.updated
                                          THEN e.val ELSE 0)
          /\ new.withdrawn = old.withdrawn + (IF e.type = "withdrawn" /\ e.ledger > old.updated
                                              THEN e.val ELSE 0)
          /\ new.recipient = IF e.type = "xfer_rec" /\ e.ledger > old.updated
                             THEN e.val ELSE old.recipient
      BY <3>1 DEF RowEffect
    <3>6. Shown(new) = new
      BY <3>5, RowParts DEF Shown
    <3> HIDE DEF old, new
    <3>7. CASE i <= q
      <4>1. /\ new.updated = old.updated /\ new.deposit = old.deposit
            /\ new.withdrawn = old.withdrawn /\ new.recipient = old.recipient
        <5>1. i \in 1 .. q
          BY <1>1, <3>7
        <5>2. e.ledger <= old.updated
          BY <2>2, <3>3, <5>1 DEF Marked, e
        <5> QED
          BY <1>5, <3>2, <3>4, <3>5, <3>7, <5>2
      <4>2. StreamBooks(c, q, s, new.updated, new.deposit, new.withdrawn, new.recipient)
        BY <2>0, <4>1
      <4> QED
        BY <3>6, <3>7, <4>2 DEF RowBooks, new
    <3>8. CASE ~(i <= q)
      <4>1. i = q + 1 /\ q + 1 <= Len(c) /\ q2 = q + 1 /\ e = c[q + 1]
        BY <1>1, <3>8 DEF e
      <4>2. (e.ledger > old.updated <=> Leads(c, q + 1)) /\ old.updated <= e.ledger
        BY <3>4, <4>1
      <4>3. \A t : Counts(c, s, t, q + 1) <=> e.type = t /\ e.ledger > old.updated
        BY <3>1, <4>1, <4>2 DEF Counts
      <4>4. /\ new.updated = e.ledger
            /\ new.deposit = old.deposit +
                  (IF Counts(c, s, "topped_up", q + 1) THEN e.val ELSE 0)
            /\ new.withdrawn = old.withdrawn +
                  (IF Counts(c, s, "withdrawn", q + 1) THEN e.val ELSE 0)
            /\ new.recipient = IF Counts(c, s, "xfer_rec", q + 1) THEN e.val ELSE old.recipient
        <5>1. new.updated = e.ledger
          BY <1>5, <3>2, <3>5, <4>2
        <5> QED
          BY <3>5, <4>3, <5>1
      <4>5. StreamBooks(c, q + 1, s, e.ledger,
               old.deposit + (IF Counts(c, s, "topped_up", q + 1) THEN e.val ELSE 0),
               old.withdrawn + (IF Counts(c, s, "withdrawn", q + 1) THEN e.val ELSE 0),
               IF Counts(c, s, "xfer_rec", q + 1) THEN e.val ELSE old.recipient)
        BY <1>1, <2>0, <2>2, <4>1, BooksTake
      <4>6. StreamBooks(c, q + 1, s, new.updated, new.deposit, new.withdrawn, new.recipient)
        BY <4>4, <4>5
      <4> QED
        BY <3>6, <4>1, <4>6 DEF RowBooks, new
    <3> QED
      BY <3>7, <3>8
  <2> QED
    BY <2>1, <2>2
<1> HIDE DEF q2
<1>10. AmountBooks(c, r, q2)
  BY <1>3, <1>9 DEF AmountBooks
<1> QED
  BY <1>10 DEF q2

(* The last event of some types among the first q *)
LastOf(c, q, id, types, i) ==
    /\ i \in 1 .. q /\ c[i].id = id /\ c[i].type \in types
    /\ \A j \in 1 .. q : c[j].id = id /\ c[j].type \in types => j <= i

Flags == {"paused", "resumed"}

Votes == {"vote"}

(* The flag of a stream and the vote of a ballot are the latest ones. *)
FlagBooks(c, d, q) ==
    \A s \in Streams :
        Shown(d.states[s]).paused <=>
            \E i \in 1 .. q : LastOf(c, q, s, Flags, i) /\ c[i].type = "paused"

VoteBooks(c, d, q) ==
    \A b \in Ballots, i \in 1 .. q :
        LastOf(c, q, b, Votes, i) => d.votes[b].val = c[i].val

LatestBooks(c, d, q) == FlagBooks(c, d, q) /\ VoteBooks(c, d, q)

(* The event at q + 1 is the last of its kind, or changes no last one. *)
LEMMA LastTaken ==
    ASSUME NEW c, NEW q \in Nat, NEW id, NEW types, c[q + 1].id = id, c[q + 1].type \in types
    PROVE  /\ LastOf(c, q + 1, id, types, q + 1)
           /\ \A i \in 1 .. (q + 1) : LastOf(c, q + 1, id, types, i) => i = q + 1
<1>1. /\ q + 1 \in 1 .. (q + 1)
      /\ \A i \in 1 .. (q + 1) : i <= q + 1 /\ (q + 1 <= i => i = q + 1)
  OBVIOUS
<1> QED
  BY <1>1 DEF LastOf

LEMMA LastSkipped ==
    ASSUME NEW c, NEW q \in Nat, NEW id, NEW types, ~(c[q + 1].id = id /\ c[q + 1].type \in types)
    PROVE  /\ \A i \in 1 .. (q + 1) :
                 LastOf(c, q + 1, id, types, i) => i \in 1 .. q /\ LastOf(c, q, id, types, i)
           /\ \A i \in 1 .. q : LastOf(c, q, id, types, i) => LastOf(c, q + 1, id, types, i)
<1>1. /\ \A i \in 1 .. (q + 1) : i \in 1 .. q \/ i = q + 1
      /\ q + 1 \in 1 .. (q + 1) /\ \A i \in 1 .. q : i \in 1 .. (q + 1)
  OBVIOUS
<1>2. ASSUME NEW i \in 1 .. (q + 1), LastOf(c, q + 1, id, types, i)
      PROVE  i \in 1 .. q /\ LastOf(c, q, id, types, i)
  BY <1>1, <1>2 DEF LastOf
<1>3. ASSUME NEW i \in 1 .. q, LastOf(c, q, id, types, i)
      PROVE  LastOf(c, q + 1, id, types, i)
  BY <1>1, <1>3 DEF LastOf
<1> QED
  BY <1>2, <1>3

LEMMA LatestStep ==
    ASSUME NEW c, ChainLike(c), NEW q \in Nat, q + 1 <= Len(c),
           NEW d \in DbType, NEW r \in DbType, Applied(d, c[q + 1], r), LatestBooks(c, d, q)
    PROVE  LatestBooks(c, r, q + 1)
<1> DEFINE e == c[q + 1]
<1>1. e \in RawEvent
  BY DEF ChainLike
<1>2. /\ e.type \in StreamTypes \cup {"vote"} /\ "vote" \notin StreamTypes
      /\ "paused" \in StreamTypes /\ "resumed" \in StreamTypes
      /\ e.type \in StreamTypes => e.id \in Streams
  BY <1>1, EventFacts DEF StreamTypes
<1>3. /\ \A s \in Streams : s # e.id => r.states[s] = d.states[s]
      /\ \A b \in Ballots : b # e.id => r.votes[b] = d.votes[b]
      /\ e.type \in StreamTypes => RowEffect(d.states[e.id], e, r.states[e.id])
      /\ e.type = "vote" => r.votes[e.id].val = e.val /\ r.states = d.states
      /\ e.type # "vote" => r.votes = d.votes
  BY DEF Applied
<1>4. FlagBooks(c, r, q + 1)
  <2> SUFFICES ASSUME NEW s \in Streams
               PROVE  Shown(r.states[s]).paused <=>
                        \E i \in 1 .. (q + 1) :
                           LastOf(c, q + 1, s, Flags, i) /\ c[i].type = "paused"
    BY DEF FlagBooks
  <2>0. Shown(d.states[s]).paused <=>
            \E i \in 1 .. q : LastOf(c, q, s, Flags, i) /\ c[i].type = "paused"
    BY DEF LatestBooks, FlagBooks
  <2>1. CASE e.id = s /\ e.type \in Flags
    <3>1. /\ e.type \in StreamTypes
          /\ LastOf(c, q + 1, s, Flags, q + 1)
          /\ \A i \in 1 .. (q + 1) : LastOf(c, q + 1, s, Flags, i) => i = q + 1
      <4>1. e.type \in StreamTypes
        BY <1>2, <2>1 DEF Flags
      <4> QED
        BY <2>1, <4>1, LastTaken
    <3>2. RowEffect(d.states[s], e, r.states[s])
      BY <1>3, <2>1, <3>1
    <3>3. r.states[s] \in FullRow
      BY <3>2 DEF RowEffect
    <3>4. Shown(r.states[s]) = r.states[s]
      BY <3>3, RowParts DEF Shown
    <3>5. r.states[s].paused <=> e.type = "paused"
      <4>1. r.states[s].paused <=>
               e.type = "paused" \/ (e.type # "resumed" /\ Shown(d.states[s]).paused)
        BY <3>2, Zenon DEF RowEffect
      <4>2. e.type = "paused" \/ e.type = "resumed"
        BY <2>1 DEF Flags
      <4> QED
        BY <4>1, <4>2
    <3>6. q + 1 \in 1 .. (q + 1)
      OBVIOUS
    <3>7. (\E i \in 1 .. (q + 1) : LastOf(c, q + 1, s, Flags, i) /\ c[i].type = "paused")
             <=> e.type = "paused"
      BY <3>1, <3>6
    <3> HIDE DEF e
    <3> QED
      BY <3>4, <3>5, <3>7, Zenon
  <2>2. CASE ~(e.id = s /\ e.type \in Flags)
    <3>1. /\ \A i \in 1 .. (q + 1) :
                LastOf(c, q + 1, s, Flags, i) => i \in 1 .. q /\ LastOf(c, q, s, Flags, i)
          /\ \A i \in 1 .. q : LastOf(c, q, s, Flags, i) => LastOf(c, q + 1, s, Flags, i)
      BY <2>2, LastSkipped
    <3>2. Shown(r.states[s]).paused <=> Shown(d.states[s]).paused
      <4>1. CASE e.id = s /\ e.type \in StreamTypes
        <5>1. RowEffect(d.states[s], e, r.states[s])
          BY <1>3, <4>1
        <5>2. r.states[s] \in FullRow
          BY <5>1 DEF RowEffect
        <5>3. Shown(r.states[s]) = r.states[s]
          BY <5>2, RowParts DEF Shown
        <5>4. r.states[s].paused <=>
                 e.type = "paused" \/ (e.type # "resumed" /\ Shown(d.states[s]).paused)
          BY <5>1, Zenon DEF RowEffect
        <5>5. e.type # "paused" /\ e.type # "resumed"
          BY <2>2, <4>1 DEF Flags
        <5> HIDE DEF e
        <5> QED
          BY <5>3, <5>4, <5>5, Zenon
      <4>2. CASE ~(e.id = s /\ e.type \in StreamTypes)
        <5>1. r.states[s] = d.states[s]
          BY <1>2, <1>3, <4>2
        <5> QED
          BY <5>1
      <4> QED
        BY <4>1, <4>2
    <3>3. \A i \in 1 .. q : i \in 1 .. (q + 1)
      OBVIOUS
    <3>4. (\E i \in 1 .. (q + 1) : LastOf(c, q + 1, s, Flags, i) /\ c[i].type = "paused") <=>
          (\E i \in 1 .. q : LastOf(c, q, s, Flags, i) /\ c[i].type = "paused")
      BY <3>1, <3>3
    <3> QED
      BY <2>0, <3>2, <3>4, Zenon
  <2> QED
    BY <2>1, <2>2
<1>5. VoteBooks(c, r, q + 1)
  <2> SUFFICES ASSUME NEW b \in Ballots, NEW i \in 1 .. (q + 1),
                      LastOf(c, q + 1, b, Votes, i)
               PROVE  r.votes[b].val = c[i].val
    BY DEF VoteBooks
  <2>1. CASE e.id = b /\ e.type = "vote"
    <3>1. e.type \in Votes
      BY <2>1 DEF Votes
    <3>2. i = q + 1
      BY <2>1, <3>1, LastTaken
    <3> QED
      BY <1>3, <2>1, <3>2
  <2>2. CASE ~(e.id = b /\ e.type = "vote")
    <3>1. i \in 1 .. q /\ LastOf(c, q, b, Votes, i)
      <4>1. ~(e.id = b /\ e.type \in Votes)
        BY <2>2 DEF Votes
      <4> QED
        BY <4>1, LastSkipped
    <3>2. r.votes[b] = d.votes[b]
      BY <1>3, <2>2
    <3> QED
      BY <3>1, <3>2 DEF LatestBooks, VoteBooks
  <2> QED
    BY <2>1, <2>2
<1> QED
  BY <1>4, <1>5 DEF LatestBooks

(* All books; the latest values only while pages come in order *)
Books(c, d, q, inOrder) ==
    /\ RawBooks(c, d, q)
    /\ AmountBooks(c, d, q)
    /\ inOrder => LatestBooks(c, d, q)

(* Folding an event that is already counted, or the next one *)
LEMMA BooksStep ==
    ASSUME NEW c, ChainLike(c), NEW q \in 0 .. Len(c), NEW i \in 1 .. Len(c), i <= q + 1,
           NEW inOrder, inOrder => i = q + 1,
           NEW d \in DbType, NEW r \in DbType, Applied(d, c[i], r), Books(c, d, q, inOrder)
    PROVE  Books(c, r, IF i <= q THEN q ELSE i, inOrder)
<1> DEFINE q2 == IF i <= q THEN q ELSE i
<1>1. Len(c) \in Nat /\ q \in Nat /\ i \in Nat
  BY DEF ChainLike
<1>2. RawBooks(c, r, q2)
  <2>1. r.raw = d.raw \cup {RawKey(c[i])}
    BY DEF Applied
  <2>2. \A j \in 1 .. q : RawKey(c[j]) \in d.raw
    BY DEF Books, RawBooks
  <2>3. \A j \in 1 .. q2 : j \in 1 .. q \/ j = i
    BY <1>1
  <2> HIDE DEF q2
  <2> QED
    BY <2>1, <2>2, <2>3 DEF RawBooks
<1>3. AmountBooks(c, r, q2)
  BY AmountStep DEF Books
<1>4. ASSUME inOrder PROVE LatestBooks(c, r, q2)
  <2>1. i = q + 1 /\ q2 = q + 1 /\ q + 1 <= Len(c) /\ c[i] = c[q + 1]
    BY <1>1, <1>4
  <2>2. LatestBooks(c, d, q) /\ Applied(d, c[q + 1], r)
    BY <1>4, <2>1 DEF Books
  <2>3. LatestBooks(c, r, q + 1)
    BY <1>1, <2>1, <2>2, LatestStep
  <2> QED
    BY <2>1, <2>3
<1> QED
  BY <1>2, <1>3, <1>4 DEF Books

(* Folding a page that starts at most one event beyond the books *)
LEMMA BooksFold ==
    ASSUME NEW c, ChainLike(c), NEW h, NEW events, NEW l, NEW a, NEW b,
           PageAt(c, h, events, l, a, b), NEW d, NEW u, Folds(d, events, u),
           NEW p \in 0 .. Len(c), a <= p + 1, NEW inOrder, inOrder => a = p + 1,
           Books(c, d, p, inOrder)
    PROVE  Books(c, u[Len(events)], IF b <= p THEN p ELSE b, inOrder)
<1> DEFINE n == Len(events)
           Upto(k) == IF a + k - 1 <= p THEN p ELSE a + k - 1
           A == {k \in Nat : Books(c, u[k], Upto(k), inOrder)}
<1>1. /\ a \in 1 .. Len(c) /\ b \in a .. Len(c) /\ n = b - a + 1
      /\ \A k \in 1 .. n : events[k] = c[a + k - 1]
  BY Zenon DEF PageAt
<1>2. /\ u[0] = d /\ \A k \in 0 .. n : u[k] \in DbType
      /\ \A k \in 1 .. n : Applied(u[k - 1], events[k], u[k])
  BY DEF Folds
<1>3. Len(c) \in Nat /\ p \in Nat /\ a \in Nat /\ b \in Nat
  BY <1>1 DEF ChainLike
<1>4. n \in Nat
  BY <1>1, <1>3
<1> HIDE DEF n
<1>5. 0 \in A
  <2>1. Upto(0) = p
    BY <1>3
  <2> QED
    BY <1>2, <2>1
<1>6. ASSUME NEW k \in 0 .. (n - 1), k \in A
      PROVE  k + 1 \in A
  <2> DEFINE q == Upto(k)
             i == a + k
  <2>1. k \in Nat /\ k + 1 \in Nat /\ k + 1 \in 1 .. n /\ (k + 1) - 1 = k /\ k \in 0 .. n
        /\ k + 1 \in 0 .. n
    BY <1>4
  <2>2. q \in 0 .. Len(c) /\ i \in 1 .. Len(c) /\ i <= q + 1 /\ (a = p + 1 => i = q + 1)
    BY <1>1, <1>3, <2>1
  <2>3. Upto(k + 1) = IF i <= q THEN q ELSE i
    BY <1>3, <2>1
  <2>4. a + (k + 1) - 1 = i
    BY <1>3, <2>1
  <2>5. events[k + 1] = c[i]
    BY <1>1, <2>1, <2>4
  <2>6. Applied(u[k], c[i], u[k + 1]) /\ u[k] \in DbType /\ u[k + 1] \in DbType
    BY <1>2, <2>1, <2>5
  <2>7. Books(c, u[k], q, inOrder)
    BY <1>6
  <2> HIDE DEF q, i, Upto
  <2>8. Books(c, u[k + 1], IF i <= q THEN q ELSE i, inOrder)
    BY <2>2, <2>6, <2>7, BooksStep
  <2>9. Books(c, u[k + 1], Upto(k + 1), inOrder)
    BY <2>3, <2>8
  <2> QED
    BY <2>1, <2>9
<1> HIDE DEF A
<1>7. 0 .. n \subseteq A
  BY <1>4, <1>5, <1>6, RangeInduction
<1>8. n \in A
  BY <1>4, <1>7
<1>9. Books(c, u[n], Upto(n), inOrder)
  BY <1>8 DEF A
<1>10. Upto(n) = IF b <= p THEN p ELSE b
  BY <1>1, <1>3
<1> HIDE DEF Upto
<1> QED
  BY <1>9, <1>10 DEF n

(* Books of a prefix do not depend on what comes after it. *)
LEMMA BooksGrow ==
    ASSUME NEW c, NEW c2, NEW p \in 0 .. Len(c), Len(c) \in Nat, Len(c2) \in Nat,
           Len(c) <= Len(c2), \A i \in 1 .. Len(c) : c2[i] = c[i],
           NEW d, NEW inOrder, Books(c, d, p, inOrder)
    PROVE  Books(c2, d, p, inOrder)
<1>1. \A i \in 1 .. p : c2[i] = c[i]
  OBVIOUS
<1>2. RawBooks(c2, d, p)
  BY <1>1 DEF Books, RawBooks
<1>3. ASSUME NEW i \in 1 .. p
      PROVE  /\ Leads(c2, i) <=> Leads(c, i)
             /\ Opens(c2, i) <=> Opens(c, i)
             /\ \A s, t : Counts(c2, s, t, i) <=> Counts(c, s, t, i)
  <2>1. c2[i] = c[i] /\ \A j \in 1 .. (i - 1) : c2[j] = c[j]
    BY <1>1
  <2>2. Leads(c2, i) <=> Leads(c, i)
    BY <2>1 DEF Leads
  <2>3. Opens(c2, i) <=> Opens(c, i)
    BY <2>1 DEF Opens
  <2> QED
    BY <2>1, <2>2, <2>3 DEF Counts
<1>4. ASSUME AmountBooks(c, d, p) PROVE AmountBooks(c2, d, p)
  <2>1. Withdrawals(c2, p) = Withdrawals(c, p)
    <3>1. {k \in 1 .. p : Opens(c2, k)} = {k \in 1 .. p : Opens(c, k)}
      BY <1>3
    <3> QED
      BY <1>1, <3>1 DEF Withdrawals
  <2>2. ASSUME NEW s \in Streams, NEW up, NEW dep, NEW wd, NEW rec,
               StreamBooks(c, p, s, up, dep, wd, rec)
        PROVE  StreamBooks(c2, p, s, up, dep, wd, rec)
    <3>1. Marked(c2, p, s, up)
      BY <1>1, <2>2 DEF StreamBooks, Marked
    <3>2. Moved(c2, p, s, rec)
      BY <1>1, <1>3, <2>2 DEF StreamBooks, Moved
    <3>3. ASSUME NEW t PROVE Vals(c2, p, s, t) = Vals(c, p, s, t)
      BY <1>1, <1>3 DEF Vals
    <3>4. \A t : SumTo(c2, p, s, t) = SumTo(c, p, s, t)
      BY <3>3 DEF SumTo
    <3> QED
      BY <2>2, <3>1, <3>2, <3>4 DEF StreamBooks
  <2>3. ASSUME NEW s \in Streams PROVE RowBooks(c2, d, p, s)
    <3>1. RowBooks(c, d, p, s)
      BY <1>4 DEF AmountBooks
    <3> QED
      BY <2>2, <3>1 DEF RowBooks
  <2> QED
    BY <1>4, <2>1, <2>3 DEF AmountBooks
<1>5. ASSUME LatestBooks(c, d, p) PROVE LatestBooks(c2, d, p)
  <2>1. ASSUME NEW id, NEW types, NEW i \in 1 .. p
        PROVE  LastOf(c2, p, id, types, i) <=> LastOf(c, p, id, types, i)
    BY <1>1 DEF LastOf
  <2>2. FlagBooks(c2, d, p)
    <3> SUFFICES ASSUME NEW s \in Streams
                 PROVE  Shown(d.states[s]).paused <=>
                          \E i \in 1 .. p : LastOf(c2, p, s, Flags, i) /\ c2[i].type = "paused"
      BY DEF FlagBooks
    <3>1. Shown(d.states[s]).paused <=>
             \E i \in 1 .. p : LastOf(c, p, s, Flags, i) /\ c[i].type = "paused"
      BY <1>5 DEF LatestBooks, FlagBooks
    <3>2. (\E i \in 1 .. p : LastOf(c2, p, s, Flags, i) /\ c2[i].type = "paused") <=>
          (\E i \in 1 .. p : LastOf(c, p, s, Flags, i) /\ c[i].type = "paused")
      BY <1>1, <2>1
    <3> QED
      BY <3>1, <3>2, Zenon
  <2>3. VoteBooks(c2, d, p)
    BY <1>1, <1>5, <2>1 DEF LatestBooks, VoteBooks
  <2> QED
    BY <2>2, <2>3 DEF LatestBooks
<1> QED
  BY <1>2, <1>4, <1>5 DEF Books

-----------------------------------------------------------------------------
(* The lock: while no session has been lost, one worker runs, and the       *)
(* cursor it has read is the committed one until it commits.                *)

InSync ==
    \A w \in Workers : pc[w] \in {"fetch", "ingest"} => from[w] = db.cursor

SyncInv ==
    /\ sessionLosses \in Nat
    /\ sessionLosses = 0 => SingleWriter /\ InSync

LEMMA SyncStep ==
    ASSUME IxInv, SyncInv, [Next]_vars
    PROVE  SyncInv'
<1>0. /\ pc \in [Workers -> Labels] /\ from \in [Workers -> 0 .. MaxLedger]
      /\ lock \in Workers \cup {NoOne} /\ NoOne \notin Workers /\ sessionLosses \in Nat
  BY NoOneAssumption DEF IxInv, WorkerInv, SyncInv
<1>1. CASE Emit \/ CloseLedger \/ UNCHANGED vars
  <2>1. UNCHANGED <<pc, from, db, lock, sessionLosses>>
    BY <1>1 DEF Emit, CloseLedger, vars, workers
  <2> QED
    BY <2>1 DEF SyncInv, SingleWriter, InSync
<1>2. ASSUME NEW w \in Workers, WorkerStep(w)
      PROVE  SyncInv'
  <2>1. CASE SessionLost(w)
    <3>1. sessionLosses' = sessionLosses + 1
      BY <2>1 DEF SessionLost
    <3>2. sessionLosses' \in Nat /\ sessionLosses' # 0
      BY <1>0, <3>1
    <3> QED
      BY <3>2 DEF SyncInv
  <2>2. CASE ~SessionLost(w)
    <3>1. sessionLosses' = sessionLosses
      BY <1>2, <2>2 DEF WorkerStep, Boot, ReadCursor, Fetch, FetchFails, FetchAborted, Commit,
                        Rollback, Signal, Shutdown, Crash, LockErrorExit, Exit
    <3> SUFFICES ASSUME sessionLosses = 0 PROVE SingleWriter' /\ InSync'
      BY <1>0, <3>1 DEF SyncInv
    <3>2. /\ \A v \in Workers : pc[v] # "down" => lock = v
          /\ \A v \in Workers : pc[v] \in {"fetch", "ingest"} => from[v] = db.cursor
      BY DEF SyncInv, SingleWriter, InSync
    <3>3. CASE Boot(w)
      <4>1. /\ lock = NoOne /\ lock' = w /\ pc' = [pc EXCEPT ![w] = "loop"]
            /\ UNCHANGED <<from, db>>
        BY <3>3 DEF Boot, LockFree, Goto
      <4>2. \A v \in Workers : pc[v] = "down"
        BY <1>0, <3>2, <4>1
      <4> QED
        BY <1>0, <4>1, <4>2 DEF SingleWriter, InSync
    <3>4. CASE ReadCursor(w)
      <4>1. /\ UNCHANGED <<lock, db>> /\ pc' = [pc EXCEPT ![w] = "fetch"] /\ pc[w] = "loop"
            /\ from' = [from EXCEPT ![w] = db.cursor]
        BY <3>4 DEF ReadCursor, Goto
      <4> QED
        BY <1>0, <3>2, <4>1 DEF SingleWriter, InSync
    <3>5. CASE Fetch(w) \/ FetchFails(w) \/ FetchAborted(w) \/ Rollback(w)
      <4>1. /\ UNCHANGED <<lock, db, from>> /\ pc[w] \in {"fetch", "ingest"}
            /\ \E x : pc' = [pc EXCEPT ![w] = x]
        BY <3>5 DEF Fetch, FetchFails, FetchAborted, Rollback, RolledBack, Goto
      <4>2. \A v \in Workers : v # w => pc'[v] = pc[v]
        BY <1>0, <4>1
      <4>3. pc[w] # "down"
        BY <4>1
      <4> QED
        BY <3>2, <4>1, <4>2, <4>3 DEF SingleWriter, InSync
    <3>6. CASE Commit(w)
      <4>1. /\ UNCHANGED <<lock, from>> /\ pc[w] = "ingest" /\ pc' = [pc EXCEPT ![w] = "loop"]
        BY <3>6 DEF Commit, Goto
      <4>2. lock = w /\ \A v \in Workers : v # w => pc[v] = "down"
        BY <3>2, <4>1
      <4>3. pc'[w] = "loop" /\ \A v \in Workers : v # w => pc'[v] = "down"
        BY <1>0, <4>1, <4>2
      <4> QED
        BY <4>1, <4>2, <4>3 DEF SingleWriter, InSync
    <3>7. CASE Signal(w)
      <4>1. UNCHANGED <<lock, from, pc, db>>
        BY <3>7 DEF Signal
      <4> QED
        BY <3>2, <4>1 DEF SingleWriter, InSync
    <3>8. CASE Shutdown(w) \/ Crash(w)
      <4>1. /\ UNCHANGED <<from, db>> /\ pc[w] # "down" /\ pc' = [pc EXCEPT ![w] = "down"]
        BY <3>8 DEF Shutdown, Crash, Exit, Goto
      <4>2. lock = w /\ \A v \in Workers : v # w => pc[v] = "down"
        BY <3>2, <4>1
      <4>3. \A v \in Workers : pc'[v] = "down"
        BY <1>0, <4>1, <4>2
      <4> QED
        BY <4>3 DEF SingleWriter, InSync
    <3>9. CASE LockErrorExit(w)
      BY <3>2, <3>9 DEF LockErrorExit
    <3> QED
      BY <1>2, <2>2, <3>3, <3>4, <3>5, <3>6, <3>7, <3>8, <3>9 DEF WorkerStep
  <2> QED
    BY <2>1, <2>2
<1> QED
  BY <1>1, <1>2 DEF Next

-----------------------------------------------------------------------------
(* Whole pages: the limit cuts no ledger in two. *)

EndsLedger(c, b) == \A i \in 1 .. Len(c) : i > b => c[i].ledger > c[b].ledger

WholePages ==
    \A w \in Workers : pc[w] = "ingest" =>
        \E a, b \in Nat : PageAt(chain, head, page[w], from[w], a, b) /\ EndsLedger(chain, b)

(* Every page that a worker fetches ends with the last event of a ledger. *)
FetchWhole == \A w \in Workers : Fetch(w) => PageEndsLedger(from[w] + 1)

LEMMA EndStays ==
    ASSUME ChainInv, Emit, NEW b \in 1 .. Len(chain), EndsLedger(chain, b),
           chain[b].ledger <= head
    PROVE  EndsLedger(chain', b)
<1>1. /\ Len(chain') = Len(chain) + 1 /\ chain'[Len(chain) + 1].ledger = head + 1
      /\ \A i \in 1 .. Len(chain) : chain'[i] = chain[i]
  BY EmitGrows DEF Grows
<1>2. /\ Len(chain) \in Nat /\ head \in Nat
      /\ \A i \in 1 .. Len(chain) : chain[i].ledger \in Nat
  BY LedgerTypes
<1> SUFFICES ASSUME NEW i \in 1 .. (Len(chain) + 1), i > b
             PROVE  chain'[i].ledger > chain'[b].ledger
  BY <1>1 DEF EndsLedger
<1>3. chain'[b] = chain[b] /\ chain[b].ledger \in Nat
  BY <1>1, <1>2
<1>4. CASE i \in 1 .. Len(chain)
  BY <1>1, <1>3, <1>4 DEF EndsLedger
<1>5. CASE i = Len(chain) + 1
  BY <1>1, <1>2, <1>3, <1>5
<1>6. i \in 1 .. Len(chain) \/ i = Len(chain) + 1
  BY <1>2
<1> QED
  BY <1>4, <1>5, <1>6

LEMMA WholeStep ==
    ASSUME IxInv, WholePages, [Next]_vars, FetchWhole
    PROVE  WholePages'
<1> SUFFICES ASSUME NEW v \in Workers, pc'[v] = "ingest"
             PROVE  \E a, b \in Nat : /\ PageAt(chain', head', page'[v], from'[v], a, b)
                                      /\ EndsLedger(chain', b)
  BY DEF WholePages
<1>0. /\ pc \in [Workers -> Labels] /\ from \in [Workers -> 0 .. MaxLedger]
      /\ page \in [Workers -> Seq(RawEvent)] /\ ChainInv
  BY DEF IxInv, WorkerInv
<1>1. CASE UNCHANGED vars
  <2>1. UNCHANGED <<chain, head, page, from, pc>>
    BY <1>1 DEF vars
  <2> QED
    BY <2>1 DEF WholePages
<1>2. CASE Emit \/ CloseLedger
  <2>1. UNCHANGED <<pc, page, from>>
    BY <1>2 DEF Emit, CloseLedger, workers
  <2>2. PICK a, b \in Nat : /\ PageAt(chain, head, page[v], from[v], a, b)
                            /\ EndsLedger(chain, b)
    BY <2>1 DEF WholePages
  <2>3. Grows(chain, head, chain', head')
    BY <1>0, <1>2, EmitGrows, CloseGrows
  <2>4. PageAt(chain', head', page[v], from[v], a, b)
    BY <2>2, <2>3, PageStays
  <2>5. b \in 1 .. Len(chain) /\ chain[b].ledger <= head
    <3>1. a \in 1 .. Len(chain) /\ b \in a .. Len(chain) /\ chain[b].ledger <= head
      BY <2>2, Zenon DEF PageAt
    <3>2. Len(chain) \in Nat
      BY <1>0, LedgerTypes
    <3> QED
      BY <3>1, <3>2
  <2>6. EndsLedger(chain', b)
    <3>1. CASE Emit
      BY <1>0, <2>2, <2>5, <3>1, EndStays
    <3>2. CASE CloseLedger
      <4>1. chain' = chain
        BY <3>2 DEF CloseLedger
      <4> QED
        BY <2>2, <4>1
    <3> QED
      BY <1>2, <3>1, <3>2
  <2> QED
    BY <2>1, <2>4, <2>6
<1>3. ASSUME NEW w \in Workers, WorkerStep(w)
      PROVE  \E a, b \in Nat : /\ PageAt(chain', head', page'[v], from'[v], a, b)
                               /\ EndsLedger(chain', b)
  <2>0. UNCHANGED <<chain, head>>
    BY <1>3 DEF WorkerStep, Boot, ReadCursor, Fetch, FetchFails, FetchAborted, Commit,
                Rollback, Signal, Shutdown, Crash, LockErrorExit, Exit, SessionLost, env
  <2>1. CASE Fetch(w) /\ v = w
    <3> DEFINE l == from[w]
               a == Min(Visible(l + 1))
               b == PageEnd(l + 1)
    <3>1. /\ page' = [page EXCEPT ![w] = fetchEvents(l + 1)] /\ from' = from
          /\ pc' = [pc EXCEPT ![w] = AfterFetch(page'[w])]
      BY <2>1 DEF Fetch, Goto
    <3>2. page'[w] = fetchEvents(l + 1) /\ fetchEvents(l + 1) # <<>>
      BY <1>0, <2>1, <3>1 DEF AfterFetch
    <3>3. Visible(l + 1) # {}
      BY <3>2 DEF fetchEvents
    <3>4. l \in Nat
      BY <1>0, BoundAssumption
    <3>5. PageEndsLedger(l + 1)
      BY <2>1 DEF FetchWhole
    <3>6. /\ PageAt(chain, head, fetchEvents(l + 1), l, a, b)
          /\ \A i \in 1 .. Len(chain) : i > b => chain[i].ledger > chain[b].ledger
      BY <1>0, <3>3, <3>4, <3>5, FetchEffect
    <3> HIDE DEF a, b
    <3>7. a \in Nat /\ b \in Nat
      <4>1. a \in 1 .. Len(chain) /\ b \in a .. Len(chain)
        BY <3>6, Zenon DEF PageAt
      <4>2. Len(chain) \in Nat
        BY <1>0, LedgerTypes
      <4> QED
        BY <4>1, <4>2
    <3> QED
      BY <2>0, <2>1, <3>1, <3>2, <3>6, <3>7 DEF EndsLedger
  <2>2. CASE ~(Fetch(w) /\ v = w)
    <3>1. pc[v] = "ingest" /\ page'[v] = page[v] /\ from'[v] = from[v]
      <4>1. CASE Fetch(w)
        BY <1>0, <2>2, <4>1 DEF Fetch, Goto
      <4>2. CASE FetchFails(w)
        <5>1. /\ UNCHANGED <<page, from>>
              /\ pc' = [pc EXCEPT ![w] = IF attempt'[w] = Attempts THEN "loop" ELSE "fetch"]
          BY <4>2 DEF FetchFails, Goto, FetchExhausted
        <5> QED
          BY <1>0, <5>1
      <4>3. CASE Boot(w) \/ ReadCursor(w) \/ FetchAborted(w) \/ Shutdown(w)
        <5>1. /\ page' = page /\ \E x \in {"loop", "fetch", "down"} : pc' = [pc EXCEPT ![w] = x]
              /\ \E l \in 0 .. MaxLedger : from' = from \/ from' = [from EXCEPT ![w] = l]
          <6>1. db.cursor \in 0 .. MaxLedger /\ 0 \in 0 .. MaxLedger
            BY BoundAssumption DEF IxInv, DbInv, DbType
          <6> QED
            BY <4>3, <6>1 DEF Boot, ReadCursor, FetchAborted, Shutdown, Goto
        <5> QED
          BY <1>0, <5>1
      <4>4. CASE Commit(w) \/ Rollback(w) \/ Crash(w) \/ LockErrorExit(w)
        <5>1. /\ from' = from /\ page' = [page EXCEPT ![w] = <<>>]
              /\ \E x \in {"loop", "down"} : pc' = [pc EXCEPT ![w] = x]
          BY <4>4 DEF Commit, Rollback, Crash, LockErrorExit, Exit, Goto
        <5> QED
          BY <1>0, <5>1
      <4>5. CASE Signal(w) \/ SessionLost(w)
        BY <4>5 DEF Signal, SessionLost, workers
      <4> QED
        BY <1>3, <4>1, <4>2, <4>3, <4>4, <4>5 DEF WorkerStep
    <3> QED
      BY <2>0, <3>1 DEF WholePages
  <2> QED
    BY <2>1, <2>2
<1> QED
  BY <1>1, <1>2, <1>3 DEF Next

-----------------------------------------------------------------------------
(* The cursor and the books *)

(* The first p events are those of ledgers up to l. *)
Prefix(c, l, p) ==
    /\ p \in 0 .. Len(c)
    /\ \A i \in 1 .. Len(c) : c[i].ledger <= l <=> i <= p

BookInv ==
    \E p \in 0 .. Len(chain) :
        Prefix(chain, db.cursor, p) /\ Books(chain, db, p, sessionLosses = 0)

LEMMA ChainIsLike ==
    ASSUME ChainInv
    PROVE  ChainLike(chain)
BY LedgerTypes DEF ChainInv, ChainLike

(* The tables other than the cursor decide the books. *)
LEMMA BooksSameTables ==
    ASSUME NEW c, NEW d, NEW d2, NEW q, NEW inOrder, Books(c, d, q, inOrder),
           d2.raw = d.raw, d2.states = d.states, d2.votes = d.votes,
           d2.withdrawals = d.withdrawals
    PROVE  Books(c, d2, q, inOrder)
<1>1. RawBooks(c, d2, q)
  BY DEF Books, RawBooks
<1>2. AmountBooks(c, d2, q)
  BY DEF Books, AmountBooks, RowBooks
<1>3. inOrder => LatestBooks(c, d2, q)
  BY Zenon DEF Books, LatestBooks, FlagBooks, VoteBooks
<1> QED
  BY <1>1, <1>2, <1>3 DEF Books

LEMMA BookCommit ==
    ASSUME IxInv, SyncInv, WholePages, BookInv, NEW w \in Workers, Commit(w)
    PROVE  BookInv'
<1> DEFINE inOrder == sessionLosses = 0
<1>1. /\ UNCHANGED <<chain, head, sessionLosses>> /\ pc[w] = "ingest"
  BY DEF Commit, env
<1>2. PICK a, b \in Nat : PageAt(chain, head, page[w], from[w], a, b) /\ EndsLedger(chain, b)
  BY <1>1 DEF WholePages
<1>3. PICK p \in 0 .. Len(chain) :
         Prefix(chain, db.cursor, p) /\ Books(chain, db, p, inOrder)
  BY DEF BookInv
<1>4. /\ db'.cursor \in Nat
      /\ \E u : /\ Folds(db, page[w], u)
                /\ db'.raw = u[Len(page[w])].raw /\ db'.states = u[Len(page[w])].states
                /\ db'.votes = u[Len(page[w])].votes
                /\ db'.withdrawals = u[Len(page[w])].withdrawals
  BY CommitEffect
<1>5. PICK u : /\ Folds(db, page[w], u)
               /\ db'.raw = u[Len(page[w])].raw /\ db'.states = u[Len(page[w])].states
               /\ db'.votes = u[Len(page[w])].votes
               /\ db'.withdrawals = u[Len(page[w])].withdrawals
  BY <1>4
<1>6. db'.cursor = IF db.cursor > chain[b].ledger THEN db.cursor ELSE chain[b].ledger
  <2> DEFINE r == ingestPage(db, page[w])
  <2>1. db' = [r EXCEPT !.cursor = Max({r.cursor, NextLedger(page[w])})]
    BY DEF Commit, Ingested, saveCursor
  <2>2. r \in DbType /\ r.cursor = db.cursor
    BY PageEffect DEF IxInv, DbInv, WorkerInv
  <2>3. NextLedger(page[w]) = chain[b].ledger
    BY <1>2, NextLedgerIs DEF IxInv
  <2>4. db.cursor \in Nat /\ chain[b].ledger \in Nat
    <3>1. b \in 1 .. Len(chain)
      <4>1. a \in 1 .. Len(chain) /\ b \in a .. Len(chain)
        BY <1>2, Zenon DEF PageAt
      <4> QED
        BY <4>1, LedgerTypes DEF IxInv
    <3> QED
      BY <3>1, LedgerTypes, BoundAssumption DEF IxInv, DbInv, DbType
  <2> HIDE DEF r
  <2>5. db'.cursor = Max({r.cursor, NextLedger(page[w])})
    BY <2>1, <2>2 DEF DbType
  <2>6. Max({db.cursor, chain[b].ledger}) =
           IF db.cursor > chain[b].ledger THEN db.cursor ELSE chain[b].ledger
    BY <2>4, MaxTwo
  <2> QED
    BY <2>2, <2>3, <2>5, <2>6
<1> DEFINE n == Len(chain)
           q == IF b <= p THEN p ELSE b
<1>7. /\ a \in 1 .. n /\ b \in a .. n
      /\ \A i \in 1 .. (a - 1) : chain[i].ledger <= from[w]
      /\ from[w] < chain[a].ledger
  BY <1>2, Zenon DEF PageAt
<1>8. /\ n \in Nat /\ \A i \in 1 .. n : chain[i].ledger \in Nat
      /\ \A i, j \in 1 .. n : i <= j => chain[i].ledger <= chain[j].ledger
  BY LedgerTypes DEF IxInv, ChainInv
<1>9. from[w] \in Nat /\ db.cursor \in Nat /\ from[w] <= db.cursor
      /\ (inOrder => from[w] = db.cursor)
  <2>1. inOrder => from[w] = db.cursor
    BY <1>1 DEF SyncInv, InSync
  <2> QED
    BY <2>1, BoundAssumption DEF IxInv, WorkerInv, DbInv, DbType
<1>10. /\ p \in 0 .. n /\ \A i \in 1 .. n : chain[i].ledger <= db.cursor <=> i <= p
  BY <1>3 DEF Prefix
<1> HIDE DEF inOrder, n
<1>11. a <= p + 1 /\ (inOrder => a = p + 1)
  <2>1. a <= p + 1
    <3>1. CASE a = 1
      BY <1>8, <1>10, <3>1
    <3>2. CASE a # 1
      <4>1. a - 1 \in 1 .. (a - 1) /\ a - 1 \in 1 .. n
        BY <1>7, <1>8, <3>2
      <4>2. chain[a - 1].ledger <= from[w] /\ chain[a - 1].ledger \in Nat
        BY <1>7, <1>8, <4>1
      <4>3. chain[a - 1].ledger <= db.cursor
        BY <1>9, <4>2
      <4>4. a - 1 <= p
        BY <1>10, <4>1, <4>3
      <4> QED
        BY <1>7, <1>8, <1>10, <4>4
    <3> QED
      BY <3>1, <3>2
  <2>2. ASSUME inOrder PROVE a = p + 1
    <3>1. ~(chain[a].ledger <= db.cursor)
      BY <1>7, <1>8, <1>9, <2>2
    <3>2. ~(a <= p)
      BY <1>7, <1>10, <3>1
    <3> QED
      BY <1>7, <1>8, <1>10, <2>1, <3>2
  <2> QED
    BY <2>1, <2>2
<1>12. ChainLike(chain) /\ p \in 0 .. Len(chain)
  BY ChainIsLike DEF IxInv
<1>13. Books(chain, u[Len(page[w])], q, inOrder)
  BY <1>2, <1>3, <1>5, <1>11, <1>12, BooksFold
<1>14. Books(chain, db', q, inOrder)
  <2> DEFINE d == u[Len(page[w])]
             d2 == db'
  <2>1. /\ d2.raw = d.raw /\ d2.states = d.states /\ d2.votes = d.votes
        /\ d2.withdrawals = d.withdrawals /\ Books(chain, d, q, inOrder)
    BY <1>5, <1>13
  <2> HIDE DEF d, d2, q
  <2>2. Books(chain, d2, q, inOrder)
    BY <2>1, BooksSameTables
  <2> QED
    BY <2>2 DEF d2
<1>15. q \in 0 .. n
  BY <1>7, <1>8, <1>10
<1>16. ASSUME NEW i \in 1 .. n
       PROVE  chain[i].ledger <= db'.cursor <=> i <= q
  <2>1. b \in 1 .. n /\ chain[b].ledger \in Nat /\ chain[i].ledger \in Nat
    BY <1>7, <1>8
  <2>2. chain[i].ledger <= chain[b].ledger <=> i <= b
    <3>1. i <= b => chain[i].ledger <= chain[b].ledger
      BY <1>8, <2>1
    <3>2. i > b => chain[i].ledger > chain[b].ledger
      BY <1>2 DEF EndsLedger, n
    <3> QED
      BY <1>7, <1>8, <2>1, <3>1, <3>2
  <2>3. chain[i].ledger <= db.cursor <=> i <= p
    BY <1>10
  <2>4. chain[i].ledger <= db'.cursor <=>
          chain[i].ledger <= db.cursor \/ chain[i].ledger <= chain[b].ledger
    <3> DEFINE x == chain[i].ledger
               y == db.cursor
               z == chain[b].ledger
    <3>1. x \in Nat /\ y \in Nat /\ z \in Nat /\ db'.cursor = IF y > z THEN y ELSE z
      BY <1>6, <1>9, <2>1
    <3> HIDE DEF x, y, z
    <3>2. x <= db'.cursor <=> x <= y \/ x <= z
      BY <3>1
    <3> QED
      BY <3>2 DEF x, y, z
  <2>5. i <= q <=> i <= p \/ i <= b
    BY <1>8, <1>10, <2>1
  <2> QED
    BY <2>2, <2>3, <2>4, <2>5
<1>17. Prefix(chain, db'.cursor, q)
  BY <1>15, <1>16 DEF Prefix, n
<1> HIDE DEF q
<1> QED
  BY <1>1, <1>14, <1>15, <1>17 DEF BookInv, inOrder, n

LEMMA BookStep ==
    ASSUME IxInv, SyncInv, WholePages, BookInv, [Next]_vars
    PROVE  BookInv'
<1> DEFINE inOrder == sessionLosses = 0
<1>1. PICK p \in 0 .. Len(chain) : Prefix(chain, db.cursor, p) /\ Books(chain, db, p, inOrder)
  BY DEF BookInv
<1>2. ASSUME UNCHANGED <<chain, db, sessionLosses>>
      PROVE  BookInv'
  BY <1>2 DEF BookInv
<1>3. CASE UNCHANGED vars \/ CloseLedger
  <2>1. UNCHANGED <<chain, db, sessionLosses>>
    BY <1>3 DEF vars, CloseLedger
  <2> QED
    BY <1>2, <2>1
<1>4. CASE Emit
  <2>1. UNCHANGED <<db, sessionLosses>>
    BY <1>4 DEF Emit
  <2>2. /\ Grows(chain, head, chain', head') /\ Len(chain') = Len(chain) + 1
        /\ chain'[Len(chain) + 1].ledger = head + 1
    BY <1>4, EmitGrows DEF IxInv
  <2>3. /\ Len(chain) \in Nat /\ Len(chain') \in Nat /\ Len(chain) <= Len(chain')
        /\ \A i \in 1 .. Len(chain) : chain'[i] = chain[i]
    BY <2>2 DEF Grows
  <2>4. Books(chain', db, p, inOrder)
    <3> DEFINE c == chain
               c2 == chain'
    <3>1. /\ Len(c) \in Nat /\ Len(c2) \in Nat /\ Len(c) <= Len(c2)
          /\ \A i \in 1 .. Len(c) : c2[i] = c[i]
          /\ p \in 0 .. Len(c) /\ Books(c, db, p, inOrder)
      BY <1>1, <2>3
    <3> HIDE DEF c, c2, inOrder
    <3>2. Books(c2, db, p, inOrder)
      BY <3>1, BooksGrow
    <3> QED
      BY <3>2 DEF c2
  <2>5. db.cursor \in Nat /\ head \in Nat /\ db.cursor <= head
    BY LedgerTypes, BoundAssumption DEF IxInv, DbInv, DbType
  <2>6. p \in 0 .. Len(chain')
    BY <2>3
  <2>7. ASSUME NEW i \in 1 .. Len(chain')
        PROVE  chain'[i].ledger <= db.cursor <=> i <= p
    <3>1. i \in 1 .. Len(chain) \/ i = Len(chain) + 1
      BY <2>2, <2>3
    <3>2. CASE i \in 1 .. Len(chain)
      BY <1>1, <2>3, <3>2 DEF Prefix
    <3>3. CASE i = Len(chain) + 1
      <4>1. ~(i <= p)
        BY <2>3, <3>3
      <4>2. ~(head + 1 <= db.cursor)
        BY <2>5
      <4> QED
        BY <2>2, <3>3, <4>1, <4>2
    <3> QED
      BY <3>1, <3>2, <3>3
  <2>8. Prefix(chain', db.cursor, p)
    BY <2>6, <2>7 DEF Prefix
  <2> QED
    BY <2>1, <2>4, <2>6, <2>8 DEF BookInv
<1>5. ASSUME NEW w \in Workers, WorkerStep(w)
      PROVE  BookInv'
  <2>1. CASE Commit(w)
    BY <2>1, BookCommit
  <2>2. CASE SessionLost(w)
    <3>1. UNCHANGED <<chain, db>> /\ sessionLosses' = sessionLosses + 1
      BY <2>2 DEF SessionLost, env
    <3>2. sessionLosses' # 0
      BY <3>1 DEF SyncInv
    <3>3. Books(chain, db, p, sessionLosses' = 0)
      BY <1>1, <3>2 DEF Books
    <3> QED
      BY <1>1, <3>1, <3>3 DEF BookInv
  <2>3. CASE ~Commit(w) /\ ~SessionLost(w)
    <3>1. UNCHANGED <<chain, db, sessionLosses>>
      BY <1>5, <2>3 DEF WorkerStep, Boot, ReadCursor, Fetch, FetchFails, FetchAborted,
                Rollback, RolledBack, Signal, Shutdown, Crash, LockErrorExit, Exit, env
    <3> QED
      BY <1>2, <3>1
  <2> QED
    BY <2>1, <2>2, <2>3
<1> QED
  BY <1>3, <1>4, <1>5 DEF Next

LEMMA SumOverNone ==
    \A c, s, t : SumTo(c, 0, s, t) = 0
<1> SUFFICES ASSUME NEW c, NEW s, NEW t PROVE SumTo(c, 0, s, t) = 0
  OBVIOUS
<1> DEFINE f == Vals(c, 0, s, t)
           S == 1 .. 0
<1>1. IsFiniteSet(S) /\ \A x \in S : f[x] = 0
  BY FS_EmptySet
<1> HIDE DEF f, S
<1>2. SumOf(f, S) = 0
  BY <1>1, SumZero
<1> QED
  BY <1>2 DEF SumTo, f, S

LEMMA BookInit ==
    ASSUME Init
    PROVE  BookInv
<1>1. /\ chain = <<>> /\ Len(chain) = 0 /\ db = EmptyDb /\ 0 \in 0 .. 0
  BY DEF Init
<1>2. Prefix(chain, db.cursor, 0)
  BY <1>1 DEF Prefix
<1>3. /\ EmptyDb.raw = {} /\ EmptyDb.withdrawals = {}
      /\ EmptyDb.states = [s \in Streams |-> NoRow] /\ EmptyDb.votes = [b \in Ballots |-> NoRow]
  BY DEF EmptyDb
<1>4. RawBooks(chain, db, 0)
  BY DEF RawBooks
<1>5. AmountBooks(chain, db, 0)
  <2>1. db.withdrawals = Withdrawals(chain, 0)
    BY <1>1, <1>3 DEF Withdrawals
  <2>2. ASSUME NEW s \in Streams PROVE RowBooks(chain, db, 0, s)
    <3>1. db.states[s] = NoRow /\ NoRow \in RowType
      BY <1>1, <1>3 DEF RowType
    <3>2. /\ Shown(NoRow).deposit = 0 /\ Shown(NoRow).withdrawn = 0
          /\ Shown(NoRow).updated = 0
      BY <3>1, ShownType
    <3>3. Marked(chain, 0, s, 0) /\ Moved(chain, 0, s, Shown(NoRow).recipient)
      BY DEF Marked, Moved
    <3> QED
      BY <3>1, <3>2, <3>3, SumOverNone DEF RowBooks, StreamBooks
  <2> QED
    BY <2>1, <2>2 DEF AmountBooks
<1>6. LatestBooks(chain, db, 0)
  <2>1. ASSUME NEW s \in Streams PROVE ~Shown(db.states[s]).paused
    <3>1. db.states[s] = NoRow /\ NoRow \in RowType
      BY <1>1, <1>3 DEF RowType
    <3> QED
      BY <3>1, ShownType
  <2>2. FlagBooks(chain, db, 0)
    BY <2>1 DEF FlagBooks
  <2>3. VoteBooks(chain, db, 0)
    BY DEF VoteBooks
  <2> QED
    BY <2>2, <2>3 DEF LatestBooks
<1>7. Books(chain, db, 0, sessionLosses = 0)
  BY <1>4, <1>5, <1>6 DEF Books
<1> QED
  BY <1>1, <1>2, <1>7 DEF BookInv

AllBooks == WholePages /\ BookInv

LEMMA BooksInit ==
    ASSUME Init
    PROVE  IxInv /\ SyncInv /\ AllBooks
<1>1. SyncInv
  BY DEF Init, SyncInv, SingleWriter, InSync
<1>2. WholePages
  BY DEF Init, WholePages
<1> QED
  BY <1>1, <1>2, IxInit, BookInit DEF AllBooks

LEMMA BooksNext ==
    ASSUME IxInv, SyncInv, AllBooks, [Next]_vars, [FetchWhole]_vars
    PROVE  AllBooks'
<1>1. BookInv'
  BY BookStep DEF AllBooks
<1>2. WholePages'
  <2>1. CASE FetchWhole
    BY <2>1, WholeStep DEF AllBooks
  <2>2. CASE UNCHANGED vars
    BY <2>2 DEF vars, AllBooks, WholePages
  <2> QED
    BY <2>1, <2>2
<1> QED
  BY <1>1, <1>2 DEF AllBooks

-----------------------------------------------------------------------------
(* Chains whose ledgers no page can cut *)

LEMMA CutStays ==
    ASSUME IxInv, [Next]_vars, PageCanBeCut
    PROVE  PageCanBeCut'
<1>1. CASE Emit
  <2>1. /\ Len(chain') = Len(chain) + 1
        /\ \A i \in 1 .. Len(chain) : chain'[i] = chain[i]
    BY <1>1, EmitGrows DEF Grows, IxInv
  <2>2. /\ Len(chain) \in Nat /\ DOMAIN chain = 1 .. Len(chain)
    BY LedgerTypes DEF IxInv
  <2>3. DOMAIN chain' = 1 .. Len(chain')
    <3>1. ChainInv'
      BY <1>1, EmitGrows DEF IxInv
    <3> QED
      BY <3>1 DEF ChainInv
  <2>4. \A i \in DOMAIN chain : i \in DOMAIN chain' /\ chain'[i] = chain[i]
    BY <2>1, <2>2, <2>3
  <2>5. PICK i \in DOMAIN chain :
           /\ i = 1 \/ chain[i - 1].ledger < chain[i].ledger
           /\ i + Limit \in DOMAIN chain
           /\ chain[i + Limit - 1].ledger = chain[i + Limit].ledger
    BY DEF PageCanBeCut
  <2>6. i + Limit - 1 \in DOMAIN chain /\ (i # 1 => i - 1 \in DOMAIN chain)
    BY <2>2, <2>5, LimitAssumption
  <2> QED
    BY <2>4, <2>5, <2>6 DEF PageCanBeCut
<1>2. CASE ~Emit
  <2>1. chain' = chain
    BY <1>2 DEF Next, CloseLedger, WorkerStep, Boot, ReadCursor, Fetch, FetchFails, FetchAborted,
                Commit, Rollback, Signal, Shutdown, Crash, LockErrorExit, Exit, SessionLost,
                env, vars
  <2> QED
    BY <2>1 DEF PageCanBeCut
<1> QED
  BY <1>1, <1>2

LEMMA UncutWhole ==
    ASSUME IxInv, ~PageCanBeCut
    PROVE  FetchWhole
<1>1. /\ Len(chain) \in Nat /\ DOMAIN chain = 1 .. Len(chain) /\ ChainInv
      /\ \A i \in 1 .. Len(chain) : chain[i].ledger \in Nat
      /\ \A i, j \in 1 .. Len(chain) : i <= j => chain[i].ledger <= chain[j].ledger
  BY LedgerTypes DEF IxInv, ChainInv
<1> SUFFICES ASSUME NEW w \in Workers, Fetch(w)
             PROVE  PageEndsLedger(from[w] + 1)
  BY DEF FetchWhole
<1> DEFINE l == from[w]
           V == Visible(l + 1)
           a == Min(V)
           b == PageEnd(l + 1)
<1>2. l \in Nat
  BY BoundAssumption DEF IxInv, WorkerInv
<1> SUFFICES ASSUME NEW i \in V, i > b
             PROVE  chain[i].ledger > chain[b].ledger
  BY DEF PageEndsLedger
<1> HIDE DEF l
<1>3. PageAt(chain, head, fetchEvents(l + 1), l, a, b)
  BY <1>1, <1>2, FetchEffect
<1>4. V \subseteq 1 .. Len(chain) /\ V \subseteq Int
  BY <1>1 DEF Visible
<1>5. IsFiniteSet(V)
  <2>1. IsFiniteSet(1 .. Len(chain))
    BY <1>1, FS_Interval
  <2> QED
    BY <1>4, <2>1, FS_Subset
<1>6. /\ a \in V /\ Max(V) \in V /\ i <= Max(V)
  <2> HIDE DEF V
  <2> QED
    BY <1>4, <1>5, Extrema
<1>7. b = Min({Max(V), a + Limit - 1})
  BY DEF PageEnd
<1>8. i \in 1 .. Len(chain) /\ a \in 1 .. Len(chain) /\ Max(V) \in Int
      /\ a + Limit - 1 \in Int
  BY <1>1, <1>4, <1>6, LimitAssumption
<1>9. /\ \A k \in 1 .. (a - 1) : chain[k].ledger <= l
      /\ l < chain[a].ledger
  BY <1>3, Zenon DEF PageAt
<1> HIDE DEF V, a, b
<1>10. b = IF Max(V) < a + Limit - 1 THEN Max(V) ELSE a + Limit - 1
  BY <1>7, <1>8, MinTwo
<1>11. b = a + Limit - 1 /\ a + Limit <= i
  BY <1>6, <1>8, <1>10, LimitAssumption
<1>12. a + Limit \in 1 .. Len(chain) /\ b \in 1 .. Len(chain)
  BY <1>1, <1>8, <1>11, LimitAssumption
<1>13. a = 1 \/ chain[a - 1].ledger < chain[a].ledger
  <2> SUFFICES ASSUME a # 1 PROVE chain[a - 1].ledger < chain[a].ledger
    OBVIOUS
  <2>1. a - 1 \in 1 .. (a - 1) /\ a - 1 \in 1 .. Len(chain)
    BY <1>1, <1>8
  <2> QED
    BY <1>1, <1>2, <1>8, <1>9, <2>1
<1>14. chain[b].ledger # chain[a + Limit].ledger
  BY <1>1, <1>8, <1>11, <1>12, <1>13 DEF PageCanBeCut
<1>15. chain[b].ledger <= chain[a + Limit].ledger /\ chain[a + Limit].ledger <= chain[i].ledger
  <2>1. b <= a + Limit
    BY <1>8, <1>11, LimitAssumption
  <2> QED
    BY <1>1, <1>8, <1>11, <1>12, <2>1
<1> QED
  BY <1>1, <1>8, <1>12, <1>14, <1>15

LEMMA UncutBooks == Spec => [](IxInv /\ SyncInv /\ (~PageCanBeCut => BookInv))
<1> DEFINE Inv == IxInv /\ SyncInv /\ (~PageCanBeCut => AllBooks)
<1>1. Init => Inv
  BY BooksInit
<1>2. Inv /\ [Next]_vars => Inv'
  <2> SUFFICES ASSUME Inv, [Next]_vars PROVE Inv'
    OBVIOUS
  <2>1. IxInv' /\ SyncInv'
    BY IxStep, SyncStep
  <2>2. ASSUME ~PageCanBeCut' PROVE AllBooks'
    <3>1. ~PageCanBeCut
      BY <2>2, CutStays
    <3>2. FetchWhole
      BY <3>1, UncutWhole
    <3> QED
      BY <3>1, <3>2, BooksNext
  <2> QED
    BY <2>1, <2>2
<1>3. Inv => IxInv /\ SyncInv /\ (~PageCanBeCut => BookInv)
  BY DEF AllBooks
<1> QED
  BY <1>1, <1>2, <1>3, PTL DEF Spec

-----------------------------------------------------------------------------
(* What the books say of the properties *)

LEMMA IndexedIs ==
    ASSUME ChainInv, NEW p, Prefix(chain, db.cursor, p), NEW id, NEW types
    PROVE  /\ IndexedOf(id, types) = {i \in 1 .. p : chain[i].id = id /\ chain[i].type \in types}
           /\ IndexedOf(id, types) \subseteq 1 .. p /\ IsFiniteSet(IndexedOf(id, types))
           /\ p \in Nat /\ \A i \in 1 .. p : i \in 1 .. Len(chain)
<1>1. Len(chain) \in Nat /\ DOMAIN chain = 1 .. Len(chain)
  BY LedgerTypes
<1>2. p \in 0 .. Len(chain) /\ \A i \in 1 .. Len(chain) : chain[i].ledger <= db.cursor <=> i <= p
  BY DEF Prefix
<1>3. p \in Nat /\ \A i \in 1 .. p : i \in 1 .. Len(chain) /\ i <= p
  BY <1>1, <1>2
<1>4. \A i \in 1 .. Len(chain) : i <= p => i \in 1 .. p
  BY <1>1, <1>3
<1>5. IndexedOf(id, types) = {i \in 1 .. p : chain[i].id = id /\ chain[i].type \in types}
  BY <1>1, <1>2, <1>3, <1>4 DEF IndexedOf, EventsOf
<1>6. IsFiniteSet(1 .. p)
  BY <1>3, FS_Interval
<1>7. IndexedOf(id, types) \subseteq 1 .. p
  BY <1>5
<1>8. IsFiniteSet(IndexedOf(id, types))
  BY <1>6, <1>7, FS_Subset
<1> QED
  BY <1>3, <1>5, <1>7, <1>8

LEMMA CountedIs ==
    ASSUME ChainInv, NEW p, Prefix(chain, db.cursor, p), NEW s, NEW t
    PROVE  /\ CountedOf(s, t) = {i \in 1 .. p : Counts(chain, s, t, i)}
           /\ CountedOf(s, t) \subseteq 1 .. p /\ IsFiniteSet(CountedOf(s, t))
           /\ p \in Nat /\ \A i \in 1 .. p : i \in 1 .. Len(chain)
<1>1. /\ IndexedOf(s, {t}) = {i \in 1 .. p : chain[i].id = s /\ chain[i].type \in {t}}
      /\ IndexedOf(s, {t}) \subseteq 1 .. p /\ IsFiniteSet(IndexedOf(s, {t}))
      /\ p \in Nat /\ \A i \in 1 .. p : i \in 1 .. Len(chain)
  BY IndexedIs
<1>2. \A i : FirstOfLedger(i) <=> Leads(chain, i)
  BY DEF FirstOfLedger, Leads
<1>3. CountedOf(s, t) = {i \in 1 .. p : Counts(chain, s, t, i)}
  BY <1>1, <1>2 DEF CountedOf, Counts
<1>4. CountedOf(s, t) \subseteq IndexedOf(s, {t})
  BY DEF CountedOf
<1>5. IsFiniteSet(CountedOf(s, t))
  BY <1>1, <1>4, FS_Subset
<1> QED
  BY <1>1, <1>3, <1>5

LEMMA TotalIs ==
    ASSUME ChainInv, NEW p, Prefix(chain, db.cursor, p), NEW s,
           NEW t \in {"topped_up", "withdrawn"}
    PROVE  Total([i \in CountedOf(s, t) |-> chain[i].val]) = SumTo(chain, p, s, t)
<1> DEFINE I == CountedOf(s, t)
           f == Vals(chain, p, s, t)
           g == [i \in I |-> chain[i].val]
           R == (1 .. p) \ I
<1>1. /\ I = {i \in 1 .. p : Counts(chain, s, t, i)}
      /\ I \subseteq 1 .. p /\ IsFiniteSet(I) /\ p \in Nat
      /\ \A i \in 1 .. p : i \in 1 .. Len(chain)
  BY CountedIs
<1>2. ChainLike(chain) /\ p \in 0 .. Len(chain)
  BY ChainIsLike DEF Prefix
<1>3. \A i \in 1 .. p : f[i] \in Nat
  BY <1>2, ValsTyped
<1>4. \A i \in I : f[i] = chain[i].val
  BY <1>1 DEF Vals
<1>5. \A i \in R : f[i] = 0
  BY <1>1 DEF Vals
<1>6. IsFiniteSet(R)
  <2>1. IsFiniteSet(1 .. p) /\ R \subseteq 1 .. p
    BY <1>1, FS_Interval
  <2> QED
    BY <2>1, FS_Subset
<1>7. I \cap R = {} /\ 1 .. p = I \cup R
  BY <1>1
<1>8. \A i \in I : g[i] = chain[i].val
  OBVIOUS
<1>9. Total(g) = SumOf(g, I)
  <2>1. DOMAIN g = I
    OBVIOUS
  <2> HIDE DEF g, I
  <2> QED
    BY <2>1 DEF Total, SumOf
<1> HIDE DEF I, f, g, R
<1>10. Disjoint(f, I, R)
  BY <1>1, <1>3, <1>6, <1>7 DEF Disjoint
<1>11. SumJoined(f, I, R)
  BY <1>10, SumUnion
<1>12. SumOf(f, R) = 0
  BY <1>5, <1>6, SumZero
<1>13. SumOf(f, 1 .. p) = SumOf(f, I)
  <2> DEFINE U == 1 .. p
  <2>1. U = I \cup R
    BY <1>7
  <2> HIDE DEF U
  <2>2. SumOf(f, U) = SumOf(f, I) + 0 /\ SumOf(f, I) \in Int
    BY <1>11, <1>12, <2>1 DEF SumJoined
  <2>3. SumOf(f, U) = SumOf(f, I)
    BY <2>2
  <2> QED
    BY <2>3 DEF U
<1>14. SameOn(f, g, I)
  BY <1>1, <1>3, <1>4, <1>8 DEF SameOn
<1>15. SumOf(g, I) = SumOf(f, I)
  BY <1>14, SumSame
<1> QED
  BY <1>9, <1>13, <1>15 DEF SumTo, f, g, I

LEMMA BooksAgree ==
    ASSUME IxInv, BookInv
    PROVE  AmountsAgree
<1>1. PICK p \in 0 .. Len(chain) :
         Prefix(chain, db.cursor, p) /\ Books(chain, db, p, sessionLosses = 0)
  BY DEF BookInv
<1>2. ChainInv /\ DOMAIN chain = 1 .. Len(chain) /\ Len(chain) \in Nat
  BY LedgerTypes DEF IxInv
<1>3. db.withdrawals = Withdrawals(chain, p) /\ \A s \in Streams : RowBooks(chain, db, p, s)
  BY <1>1 DEF Books, AmountBooks
<1>4. ASSUME NEW s \in Streams, db.states[s] # NoRow
      PROVE  /\ db.states[s].withdrawn = Total([i \in CountedOf(s, "withdrawn") |-> chain[i].val])
             /\ db.states[s].deposit = Total([i \in CountedOf(s, "topped_up") |-> chain[i].val])
             /\ CountedOf(s, "xfer_rec") # {} =>
                   db.states[s].recipient = chain[Max(CountedOf(s, "xfer_rec"))].val
  <2> DEFINE row == db.states[s]
  <2>1. Shown(row) = row
    BY <1>4 DEF Shown
  <2>2. StreamBooks(chain, p, s, row.updated, row.deposit, row.withdrawn, row.recipient)
    BY <1>3, <2>1 DEF RowBooks
  <2>3. /\ Moved(chain, p, s, row.recipient)
        /\ row.deposit = SumTo(chain, p, s, "topped_up")
        /\ row.withdrawn = SumTo(chain, p, s, "withdrawn")
    BY <2>2 DEF StreamBooks
  <2>4. /\ Total([i \in CountedOf(s, "withdrawn") |-> chain[i].val]) =
              SumTo(chain, p, s, "withdrawn")
        /\ Total([i \in CountedOf(s, "topped_up") |-> chain[i].val]) =
              SumTo(chain, p, s, "topped_up")
    BY <1>1, <1>2, TotalIs
  <2>5. ASSUME CountedOf(s, "xfer_rec") # {}
        PROVE  row.recipient = chain[Max(CountedOf(s, "xfer_rec"))].val
    <3> DEFINE M == CountedOf(s, "xfer_rec")
               m == Max(M)
    <3>1. /\ M = {i \in 1 .. p : Counts(chain, s, "xfer_rec", i)}
          /\ M \subseteq 1 .. p /\ IsFiniteSet(M) /\ p \in Nat
      BY <1>1, <1>2, CountedIs
    <3>2. M \subseteq Int
      BY <3>1
    <3>3. m \in M /\ \A x \in M : x <= m
      <4> HIDE DEF M
      <4> QED
        BY <2>5, <3>1, <3>2, Extrema DEF M
    <3> HIDE DEF M, m
    <3>4. /\ m \in 1 .. p /\ Counts(chain, s, "xfer_rec", m)
          /\ \A j \in 1 .. p : Counts(chain, s, "xfer_rec", j) => j <= m
      BY <3>1, <3>3
    <3>5. row.recipient = chain[m].val
      BY <2>3, <3>4 DEF Moved
    <3> QED
      BY <3>5 DEF m, M
  <2> QED
    BY <2>3, <2>4, <2>5
<1>5. db.withdrawals =
        {chain[i] : i \in {k \in DOMAIN chain : /\ chain[k].ledger <= db.cursor
                                               /\ chain[k].type = "withdrawn"
                                               /\ FirstOfTx(k)}}
  <2> DEFINE K == {k \in DOMAIN chain : /\ chain[k].ledger <= db.cursor
                                        /\ chain[k].type = "withdrawn"
                                        /\ FirstOfTx(k)}
             P == {k \in 1 .. p : Opens(chain, k)}
  <2>1. /\ \A k \in 1 .. Len(chain) : chain[k].ledger <= db.cursor <=> k \in 1 .. p
        /\ \A k \in 1 .. p : k \in 1 .. Len(chain)
    BY <1>1, <1>2 DEF Prefix
  <2>2. \A k : Opens(chain, k) <=> chain[k].type = "withdrawn" /\ FirstOfTx(k)
    BY DEF Opens, FirstOfTx
  <2>3. K = P
    BY <1>2, <2>1, <2>2
  <2>4. db.withdrawals = {chain[j] : j \in P}
    BY <1>3 DEF Withdrawals
  <2> QED
    BY <2>3, <2>4
<1> QED
  BY <1>4, <1>5 DEF AmountsAgree

LEMMA BooksLatest ==
    ASSUME IxInv, BookInv, sessionLosses = 0
    PROVE  LatestAgree
<1>1. PICK p \in 0 .. Len(chain) :
         Prefix(chain, db.cursor, p) /\ Books(chain, db, p, sessionLosses = 0)
  BY DEF BookInv
<1>2. FlagBooks(chain, db, p) /\ VoteBooks(chain, db, p)
  BY <1>1 DEF Books, LatestBooks
<1>3. ChainInv
  BY DEF IxInv
<1>4. ASSUME NEW id, NEW types, IndexedOf(id, types) # {}
      PROVE  /\ Max(IndexedOf(id, types)) \in 1 .. p
             /\ LastOf(chain, p, id, types, Max(IndexedOf(id, types)))
             /\ \A i \in 1 .. p : LastOf(chain, p, id, types, i) => i = Max(IndexedOf(id, types))
  <2> DEFINE M == IndexedOf(id, types)
             m == Max(M)
  <2>1. /\ M = {i \in 1 .. p : chain[i].id = id /\ chain[i].type \in types}
        /\ M \subseteq 1 .. p /\ IsFiniteSet(M) /\ p \in Nat
    BY <1>1, <1>3, IndexedIs
  <2>2. M \subseteq Int
    BY <2>1
  <2>3. m \in M /\ \A x \in M : x <= m
    <3> HIDE DEF M
    <3> QED
      BY <1>4, <2>1, <2>2, Extrema DEF M
  <2> HIDE DEF M, m
  <2>4. m \in 1 .. p /\ LastOf(chain, p, id, types, m)
    BY <2>1, <2>3 DEF LastOf
  <2>5. ASSUME NEW i \in 1 .. p, LastOf(chain, p, id, types, i) PROVE i = m
    <3>1. i <= m /\ m <= i
      BY <2>1, <2>3, <2>4, <2>5 DEF LastOf
    <3> QED
      BY <2>1, <2>4, <3>1
  <2> QED
    BY <2>4, <2>5 DEF m, M
<1>5. ASSUME NEW id, NEW types, NEW i \in 1 .. p, LastOf(chain, p, id, types, i)
      PROVE  IndexedOf(id, types) # {}
  <2>1. IndexedOf(id, types) = {j \in 1 .. p : chain[j].id = id /\ chain[j].type \in types}
    BY <1>1, <1>3, IndexedIs
  <2> QED
    BY <1>5, <2>1 DEF LastOf
<1>6. ASSUME NEW s \in Streams
      PROVE  db.states[s] # NoRow =>
               (db.states[s].paused <=>
                  /\ IndexedOf(s, {"paused", "resumed"}) # {}
                  /\ chain[Max(IndexedOf(s, {"paused", "resumed"}))].type = "paused")
  <2> HAVE db.states[s] # NoRow
  <2>1. Shown(db.states[s]) = db.states[s]
    BY DEF Shown
  <2>2. db.states[s].paused <=>
           \E i \in 1 .. p : LastOf(chain, p, s, Flags, i) /\ chain[i].type = "paused"
    BY <1>2, <2>1 DEF FlagBooks
  <2>3. (\E i \in 1 .. p : LastOf(chain, p, s, Flags, i) /\ chain[i].type = "paused") <=>
        /\ IndexedOf(s, Flags) # {}
        /\ chain[Max(IndexedOf(s, Flags))].type = "paused"
    BY <1>4, <1>5
  <2> QED
    BY <2>2, <2>3, Zenon DEF Flags
<1>7. ASSUME NEW b \in Ballots, IndexedOf(b, {"vote"}) # {}
      PROVE  db.votes[b].val = chain[Max(IndexedOf(b, {"vote"}))].val
  <2>1. IndexedOf(b, Votes) # {}
    BY <1>7 DEF Votes
  <2>2. db.votes[b].val = chain[Max(IndexedOf(b, Votes))].val
    BY <1>2, <1>4, <2>1 DEF VoteBooks
  <2> QED
    BY <2>2 DEF Votes
<1> QED
  BY <1>6, <1>7, Zenon DEF LatestAgree

-----------------------------------------------------------------------------
(* Theorems *)

(* The advisory lock (acquireSingletonLock, setupGracefulShutdown): as long *)
(* as no session is lost under a live worker, at most the holder of the     *)
(* lock is in the poll loop, and the cursor it has read is still the        *)
(* committed one when it fetches and when it ingests.                       *)
THEOREM LockSeparates == Spec => [](sessionLosses = 0 => SingleWriter /\ InSync)
<1>1. Init => IxInv /\ SyncInv
  BY IxInit DEF Init, SyncInv, SingleWriter, InSync
<1>2. IxInv /\ SyncInv /\ [Next]_vars => (IxInv /\ SyncInv)'
  BY IxStep, SyncStep
<1>3. SyncInv => (sessionLosses = 0 => SingleWriter /\ InSync)
  BY DEF SyncInv
<1> QED
  BY <1>1, <1>2, <1>3, PTL DEF Spec

(* As long as the chain has no ledger that a page can cut, the accumulators *)
(* count the first event of a stream in a ledger exactly once and the       *)
(* others never, and the table of withdrawals has one row per transaction:  *)
(* the watermark of handleStreamWithdrawn, handleStreamToppedUp and         *)
(* handleXferRec makes a page that is folded twice, by one worker or by     *)
(* two, harmless, however many events share a ledger.                       *)
THEOREM AmountsHold == Spec => []AmountsAgree
<1>1. IxInv /\ (~PageCanBeCut => BookInv) => AmountsAgree
  BY BooksAgree DEF AmountsAgree
<1> QED
  BY <1>1, UncutBooks, PTL

(* As long as no session has been lost the lock keeps the workers apart,    *)
(* and, while no page can be cut, the flags and the votes are the latest    *)
(* ones of the chain up to the cursor: the lock supplies the order that     *)
(* their handlers do not check (handleStreamPaused, handleStreamResumed,    *)
(* handleLoanVote).                                                         *)
THEOREM LockOrderHolds == Spec => []LockKeepsOrder
<1>1. IxInv /\ SyncInv /\ (~PageCanBeCut => BookInv) => LockKeepsOrder
  BY BooksLatest DEF LockKeepsOrder, SyncInv
<1> QED
  BY <1>1, UncutBooks, PTL

-----------------------------------------------------------------------------
(* What a cut can lose *)

(* A page that is folded leaves the raw log with all its events. *)
LEMMA FoldsRaw ==
    ASSUME NEW d, NEW events, NEW u, Folds(d, events, u), Len(events) \in Nat
    PROVE  /\ d.raw \subseteq u[Len(events)].raw
           /\ \A k \in 1 .. Len(events) : RawKey(events[k]) \in u[Len(events)].raw
<1> DEFINE n == Len(events)
           Has(k) == /\ d.raw \subseteq u[k].raw
                     /\ \A j \in 1 .. k : RawKey(events[j]) \in u[k].raw
           A == {k \in Nat : Has(k)}
<1>1. u[0] = d /\ \A k \in 1 .. n : u[k].raw = u[k - 1].raw \cup {RawKey(events[k])}
  BY DEF Folds, Applied
<1> HIDE DEF n
<1>2. n \in Nat
  BY DEF n
<1>3. 0 \in A
  BY <1>1
<1>4. ASSUME NEW k \in 0 .. (n - 1), k \in A
      PROVE  k + 1 \in A
  <2>1. k \in Nat /\ k + 1 \in Nat /\ k + 1 \in 1 .. n /\ (k + 1) - 1 = k
    BY <1>2
  <2>2. u[k + 1].raw = u[k].raw \cup {RawKey(events[k + 1])}
    BY <1>1, <2>1
  <2>3. \A j \in 1 .. (k + 1) : j \in 1 .. k \/ j = k + 1
    BY <2>1
  <2> QED
    BY <1>4, <2>1, <2>2, <2>3
<1> HIDE DEF A
<1>5. n \in A
  <2>1. 0 .. n \subseteq A
    BY <1>2, <1>3, <1>4, RangeInduction
  <2> QED
    BY <1>2, <2>1
<1> QED
  BY <1>5 DEF A, n

(* Event i is in the raw log, or an earlier one of its ledger is. *)
TailOnly(c, raw, i) ==
    \/ RawKey(c[i]) \in raw
    \/ \E j \in 1 .. (i - 1) : c[j].ledger = c[i].ledger /\ RawKey(c[j]) \in raw

LEMMA TailsCommit ==
    ASSUME IxInv, LostInTails, NEW w \in Workers, Commit(w)
    PROVE  LostInTails'
<1>1. chain' = chain
  BY DEF Commit, env
<1>2. PICK a, b \in Nat :
         /\ PageAt(chain, head, page[w], from[w], a, b)
         /\ db'.cursor = IF db.cursor > chain[b].ledger THEN db.cursor ELSE chain[b].ledger
  BY CommitEffect
<1>3. PICK u : Folds(db, page[w], u) /\ db'.raw = u[Len(page[w])].raw
  BY CommitEffect
<1>4. /\ a \in 1 .. Len(chain) /\ b \in a .. Len(chain) /\ Len(page[w]) = b - a + 1
      /\ \A k \in 1 .. Len(page[w]) : page[w][k] = chain[a + k - 1]
      /\ \A i \in 1 .. (a - 1) : chain[i].ledger <= from[w]
  BY <1>2, Zenon DEF PageAt
<1>5. /\ Len(chain) \in Nat /\ DOMAIN chain = 1 .. Len(chain)
      /\ \A i \in 1 .. Len(chain) : chain[i].ledger \in Nat
      /\ \A i, j \in 1 .. Len(chain) : i <= j => chain[i].ledger <= chain[j].ledger
  BY LedgerTypes DEF IxInv, ChainInv
<1>6. from[w] <= db.cursor /\ from[w] \in Nat /\ db.cursor \in Nat
  BY BoundAssumption DEF IxInv, DbInv, DbType, WorkerInv
<1>7. b \in 1 .. Len(chain) /\ Len(page[w]) \in Nat
  BY <1>4, <1>5
<1>8. /\ db.raw \subseteq db'.raw
      /\ \A k \in 1 .. Len(page[w]) : RawKey(page[w][k]) \in db'.raw
  BY <1>3, <1>7, FoldsRaw
<1>9. \A i \in a .. b : RawKey(chain[i]) \in db'.raw
  <2> SUFFICES ASSUME NEW i \in a .. b PROVE RawKey(chain[i]) \in db'.raw
    OBVIOUS
  <2> DEFINE k == i - a + 1
  <2>1. k \in 1 .. Len(page[w]) /\ a + k - 1 = i
    BY <1>4, <1>5
  <2>2. page[w][k] = chain[i]
    BY <1>4, <2>1
  <2> QED
    BY <1>8, <2>1, <2>2
<1> SUFFICES ASSUME NEW i \in 1 .. Len(chain), chain[i].ledger <= db'.cursor
             PROVE  TailOnly(chain, db'.raw, i)
  BY <1>1, <1>5 DEF LostInTails, TailOnly
<1>10. CASE chain[i].ledger <= db.cursor
  <2>1. TailOnly(chain, db.raw, i)
    BY <1>5, <1>10 DEF LostInTails, TailOnly
  <2> QED
    BY <1>8, <2>1 DEF TailOnly
<1>11. CASE ~(chain[i].ledger <= db.cursor)
  <2>1. chain[i].ledger <= chain[b].ledger
    BY <1>2, <1>5, <1>6, <1>7, <1>11
  <2>2. i >= a
    <3> SUFFICES ASSUME ~(i >= a) PROVE FALSE
      OBVIOUS
    <3>1. i \in 1 .. (a - 1)
      BY <1>4, <1>5
    <3> QED
      BY <1>4, <1>5, <1>6, <1>11, <3>1
  <2>3. CASE i <= b
    <3>1. i \in a .. b
      BY <1>4, <1>5, <2>2, <2>3
    <3> QED
      BY <1>9, <3>1 DEF TailOnly
  <2>4. CASE ~(i <= b)
    <3>1. b \in 1 .. (i - 1) /\ b <= i /\ b \in a .. b
      BY <1>4, <1>5, <1>7, <2>4
    <3>2. chain[b].ledger <= chain[i].ledger
      BY <1>5, <1>7, <3>1
    <3>3. chain[b].ledger = chain[i].ledger
      BY <1>5, <1>7, <2>1, <3>2
    <3> QED
      BY <1>9, <3>1, <3>3 DEF TailOnly
  <2> QED
    BY <2>3, <2>4
<1> QED
  BY <1>10, <1>11

LEMMA TailsStep ==
    ASSUME IxInv, LostInTails, [Next]_vars
    PROVE  LostInTails'
<1>1. CASE \E w \in Workers : Commit(w)
  BY <1>1, TailsCommit
<1>2. CASE Emit
  <2>1. /\ Len(chain') = Len(chain) + 1 /\ chain'[Len(chain) + 1].ledger = head + 1
        /\ \A i \in 1 .. Len(chain) : chain'[i] = chain[i]
    BY <1>2, EmitGrows DEF Grows, IxInv
  <2>2. Len(chain) \in Nat /\ DOMAIN chain = 1 .. Len(chain) /\ head \in Nat
    BY LedgerTypes DEF IxInv
  <2>3. DOMAIN chain' = 1 .. Len(chain')
    <3>1. ChainInv'
      BY <1>2, EmitGrows DEF IxInv
    <3> QED
      BY <3>1 DEF ChainInv
  <2>4. db' = db /\ db.cursor \in Nat /\ db.cursor <= head
    BY <1>2, BoundAssumption DEF Emit, IxInv, DbInv, DbType
  <2> SUFFICES ASSUME NEW i \in 1 .. Len(chain'), chain'[i].ledger <= db.cursor
               PROVE  TailOnly(chain', db.raw, i)
    BY <2>3, <2>4 DEF LostInTails, TailOnly
  <2>5. i # Len(chain) + 1
    BY <2>1, <2>2, <2>4
  <2>6. i \in 1 .. Len(chain) /\ \A j \in 1 .. (i - 1) : j \in 1 .. Len(chain)
    BY <2>1, <2>2, <2>5
  <2>7. TailOnly(chain, db.raw, i)
    BY <2>1, <2>2, <2>6 DEF LostInTails, TailOnly
  <2> QED
    BY <2>1, <2>6, <2>7 DEF TailOnly
<1>3. CASE ~Emit /\ ~\E w \in Workers : Commit(w)
  <2>1. UNCHANGED <<chain, db>>
    BY <1>3 DEF Next, CloseLedger, WorkerStep, Boot, ReadCursor, Fetch, FetchFails, FetchAborted,
                Rollback, RolledBack, Signal, Shutdown, Crash, LockErrorExit, Exit, SessionLost,
                env, vars
  <2> QED
    BY <2>1 DEF LostInTails
<1> QED
  BY <1>1, <1>2, <1>3

LEMMA BooksWhole ==
    ASSUME IxInv, BookInv
    PROVE  NoEventSkipped
<1> SUFFICES ASSUME NEW i \in DOMAIN chain, chain[i].ledger <= db.cursor
             PROVE  RawKey(chain[i]) \in db.raw
  BY DEF NoEventSkipped
<1>1. PICK p \in 0 .. Len(chain) :
         Prefix(chain, db.cursor, p) /\ Books(chain, db, p, sessionLosses = 0)
  BY DEF BookInv
<1>2. i \in 1 .. Len(chain) /\ Len(chain) \in Nat
  BY LedgerTypes DEF IxInv
<1>3. i \in 1 .. p
  BY <1>1, <1>2 DEF Prefix
<1> QED
  BY <1>1, <1>3 DEF Books, RawBooks

(* However many events share a ledger, whatever the page size and however   *)
(* often workers crash, roll back or lose the lock: an event below the      *)
(* cursor that is missing from the raw log has an earlier event of its own  *)
(* ledger in it, and none is missing while no page can be cut (pollOnce,    *)
(* ingestPage, saveCursor).  So the page cut is the only way to lose an     *)
(* event, and no ledger is ever lost as a whole.                            *)
THEOREM TailsHold == Spec => []OnlyTailsLost
<1>1. Init => LostInTails
  BY DEF Init, LostInTails
<1>2. IxInv /\ LostInTails /\ [Next]_vars => LostInTails'
  BY TailsStep
<1>3. IxInv /\ SyncInv /\ (~PageCanBeCut => BookInv) /\ LostInTails => OnlyTailsLost
  BY BooksWhole DEF OnlyTailsLost
<1> QED
  BY <1>1, <1>2, <1>3, IxInvariant, UncutBooks, PTL DEF Spec
=============================================================================
