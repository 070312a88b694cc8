------------------------- MODULE DripFactoryProofs -------------------------
(***************************************************************************)
(* Proofs about DripFactory, for every value of its constants: the count   *)
(* of active streams, the halt, the walker, the token books, the index of  *)
(* every party and the types.                                              *)
(***************************************************************************)
EXTENDS DripFactory, FactoryIndexProofs, FiniteSetTheorems, SequenceTheorems, TLAPS

-----------------------------------------------------------------------------
(***************************************************************************)
(* Cardinalities                                                           *)
(***************************************************************************)

(* Marking a batch adds the part of it that was not marked yet. *)
LEMMA UnionCount ==
    ASSUME NEW S, NEW T, IsFiniteSet(S), IsFiniteSet(T)
    PROVE  /\ IsFiniteSet(S \cup T) /\ IsFiniteSet(T \ S)
           /\ Cardinality(S) \in Nat /\ Cardinality(T \ S) \in Nat
           /\ Cardinality(S \cup T) = Cardinality(S) + Cardinality(T \ S)
<1>1. /\ IsFiniteSet(T \ S)
      /\ IsFiniteSet(S \cup (T \ S))
      /\ Cardinality(S \cup (T \ S)) =
           Cardinality(S) + Cardinality(T \ S) - Cardinality(S \cap (T \ S))
  BY FS_Difference, FS_Union
<1>2. S \cup (T \ S) = S \cup T /\ S \cap (T \ S) = {}
  OBVIOUS
<1>3. Cardinality(S) \in Nat /\ Cardinality(T \ S) \in Nat
  BY <1>1, FS_CardinalityType
<1>4. Cardinality(S \cap (T \ S)) = 0
  BY <1>2, FS_EmptySet
<1>5. Cardinality(S \cup T) = Cardinality(S) + Cardinality(T \ S) - 0
  BY <1>1, <1>2, <1>4
<1> QED
  BY <1>1, <1>2, <1>3, <1>5

(* There are as many registered ids as the counter says. *)
LEMMA RegisteredCount ==
    ASSUME streamCount \in Nat
    PROVE  IsFiniteSet(Registered) /\ Cardinality(Registered) = streamCount
<1>1. 0 \in Int /\ streamCount - 1 \in Int
  OBVIOUS
<1>2. /\ IsFiniteSet(0 .. (streamCount - 1))
      /\ Cardinality(0 .. (streamCount - 1)) = IF 0 > streamCount - 1 THEN 0
                                               ELSE (streamCount - 1) - 0 + 1
  BY <1>1, FS_Interval
<1> QED
  BY <1>2 DEF Registered

-----------------------------------------------------------------------------
(***************************************************************************)
(* The inductive invariant.  ActiveBounds alone is not inductive: that a   *)
(* batch of new streams is not marked yet needs the addresses of streams   *)
(* and of marks, and that a mark is never given twice needs the marks to   *)
(* lie on cancelled streams.                                               *)
(***************************************************************************)
StreamShape == [sender : Parties, recipient : Parties, operator : Parties \cup {None},
                cancelable : BOOLEAN, cancelled : BOOLEAN, funded : Int, obligation : Int]

RegistryOK ==
    /\ streamCount \in Nat
    /\ aggregate \in [total_supply : Nat, active_streams : Nat]
    /\ known \subseteq Registered
    /\ streams \in [Registered \cup Foreign -> StreamShape]

RecordedCancelled ==
    \A s \in recorded : s \in Registered \cup Foreign /\ streams[s].cancelled

CountInv == RegistryOK /\ RecordedCancelled /\ ActiveBounds

(* The marks are finitely many. *)
LEMMA RecordedFinite ==
    ASSUME RegistryOK, RecordedCancelled
    PROVE  /\ IsFiniteSet(recorded)
           /\ IsFiniteSet(Registered \cup Foreign)
           /\ IsFiniteSet(recorded \cap Registered)
           /\ Cardinality(recorded) \in Nat
           /\ Cardinality(recorded \cap Registered) \in 0 .. streamCount
<1>1. IsFiniteSet(Registered) /\ Cardinality(Registered) = streamCount
  BY RegisteredCount DEF RegistryOK
<1>2. IsFiniteSet(Registered \cup Foreign)
  BY <1>1, ForeignAssumption, FS_Union
<1>3. recorded \in SUBSET (Registered \cup Foreign)
  BY DEF RecordedCancelled
<1>4. IsFiniteSet(recorded)
  BY <1>2, <1>3, FS_Subset
<1>5. recorded \cap Registered \in SUBSET Registered
  OBVIOUS
<1>6. /\ IsFiniteSet(recorded \cap Registered)
      /\ Cardinality(recorded \cap Registered) <= streamCount
  BY <1>1, <1>5, FS_Subset
<1>7. Cardinality(recorded) \in Nat /\ Cardinality(recorded \cap Registered) \in Nat
  BY <1>4, <1>6, FS_CardinalityType
<1> QED
  BY <1>2, <1>4, <1>6, <1>7 DEF RegistryOK

(* A new stream has a representable record. *)
LEMMA NewStreamShape ==
    ASSUME NEW from \in Parties, NEW to \in Parties, NEW f \in Int, NEW o \in Int
    PROVE  NewStream(from, to, f, o) \in StreamShape
BY DEF NewStream, StreamShape

LEMMA CountInit == Init => CountInv
<1> SUFFICES ASSUME Init PROVE CountInv
  OBVIOUS
<1>1. PICK history \in Histories :
        /\ streamCount = Len(history)
        /\ aggregate = [total_supply |-> Len(history), active_streams |-> Len(history)]
        /\ known = {} /\ recorded = {}
        /\ streams = [s \in Foreign \cup (0 .. (Len(history) - 1)) |->
                         IF s \in Foreign
                         THEN NewStream(ForeignSender[s], ForeignSender[s], 0, 0)
                         ELSE NewStream(history[s + 1].sender, history[s + 1].recipient, 0, 0)]
  BY DEF Init
<1> DEFINE Pair == [sender : Parties, recipient : Parties]
<1>a. history \in Seq(Pair)
  BY HistoryAssumption
<1> HIDE DEF Pair
<1>2. Len(history) \in Nat
  BY <1>a, LenProperties
<1>3. ASSUME NEW s \in Foreign \cup Registered
      PROVE  streams[s] \in StreamShape
  <2>1. CASE s \in Foreign
    <3>1. ForeignSender[s] \in Parties
      BY <2>1, ForeignAssumption
    <3>2. streams[s] = NewStream(ForeignSender[s], ForeignSender[s], 0, 0)
      BY <1>1, <2>1
    <3> QED
      BY <3>1, <3>2, NewStreamShape
  <2>2. CASE s \notin Foreign
    <3>1. s + 1 \in 1 .. Len(history) /\ s \in 0 .. (Len(history) - 1)
      BY <1>1, <1>2, <1>3, <2>2 DEF Registered
    <3>2. history[s + 1] \in Pair
      BY <1>a, <3>1, ElementOfSeq
    <3>3. streams[s] = NewStream(history[s + 1].sender, history[s + 1].recipient, 0, 0)
      BY <1>1, <2>2, <3>1
    <3> QED
      BY <3>2, <3>3, NewStreamShape, 0 \in Int DEF Pair
  <2> QED
    BY <2>1, <2>2
<1>4. DOMAIN streams = Registered \cup Foreign
  BY <1>1, <1>2 DEF Registered
<1>5. streams = [s \in DOMAIN streams |-> streams[s]]
  BY <1>1
<1>6. RegistryOK
  BY <1>1, <1>2, <1>3, <1>4, <1>5 DEF RegistryOK
<1>7. RecordedCancelled
  BY <1>1 DEF RecordedCancelled
<1>8. recorded \cap Registered = {}
  BY <1>1
<1>9. ActiveBounds
  BY <1>1, <1>2, <1>8, FS_EmptySet DEF ActiveBounds
<1> QED
  BY <1>6, <1>7, <1>9 DEF CountInv

-----------------------------------------------------------------------------

(* A step that leaves the registry and the marks alone keeps the invariant. *)
LEMMA CountUntouched ==
    ASSUME CountInv, UNCHANGED <<streamCount, aggregate, known, recorded, streams>>
    PROVE  CountInv'
BY DEF CountInv, RegistryOK, RecordedCancelled, ActiveBounds, Registered

(* Creation: the new ids are not marked, and both counters grow by as many. *)
LEMMA CreateStep ==
    ASSUME CountInv, NEW reqs \in Seq(RequestType), CreateAll(reqs)
    PROVE  CountInv'
<1> DEFINE n == Len(reqs)
           new == streamCount .. (streamCount + n - 1)
<1>1. n \in Nat
  BY LenProperties
<1>2. /\ streamCount' = streamCount + n
      /\ aggregate' = [total_supply |-> aggregate.total_supply + n,
                       active_streams |-> aggregate.active_streams + n]
      /\ known' = known \cup new
      /\ recorded' = recorded
  BY DEF CreateAll, Counted
<1>3. streams' = [s \in DOMAIN streams \cup new |->
                    IF s \in new
                    THEN NewStream(reqs[s - streamCount + 1].sender,
                                   reqs[s - streamCount + 1].recipient,
                                   reqs[s - streamCount + 1].deposit,
                                   Obligation(reqs[s - streamCount + 1]))
                    ELSE streams[s]]
  BY DEF CreateAll
<1>4. \A i \in 1 .. n : validate_stream_request(reqs[i])
  BY DEF CreateAll
<1>5. /\ streamCount \in Nat
      /\ aggregate \in [total_supply : Nat, active_streams : Nat]
      /\ known \subseteq Registered
      /\ streams \in [Registered \cup Foreign -> StreamShape]
  BY DEF CountInv, RegistryOK
<1> HIDE DEF n
<1>6. Registered' = Registered \cup new
  BY <1>1, <1>2, <1>5 DEF Registered
<1>7. ASSUME NEW s \in Registered' \cup Foreign
      PROVE  streams'[s] \in StreamShape
  <2>1. CASE s \in new
    <3> DEFINE i == s - streamCount + 1
    <3>1. i \in 1 .. n
      BY <1>1, <1>5, <2>1
    <3>2. reqs[i] \in RequestType /\ validate_stream_request(reqs[i])
      BY <1>4, <3>1, ElementOfSeq DEF n
    <3>3. /\ reqs[i].sender \in Parties /\ reqs[i].recipient \in Parties
          /\ reqs[i].deposit \in Int /\ Obligation(reqs[i]) \in Int
      BY <3>2 DEF RequestType, validate_stream_request, Obligation
    <3>4. streams'[s] = NewStream(reqs[i].sender, reqs[i].recipient, reqs[i].deposit,
                                  Obligation(reqs[i]))
      BY <1>3, <2>1
    <3> QED
      BY <3>3, <3>4, NewStreamShape
  <2>2. CASE s \notin new
    BY <1>3, <1>5, <1>6, <1>7, <2>2
  <2> QED
    BY <2>1, <2>2
<1>8. streams' \in [Registered' \cup Foreign -> StreamShape]
  BY <1>3, <1>5, <1>6, <1>7
<1>9. RegistryOK'
  BY <1>1, <1>2, <1>5, <1>6, <1>8 DEF RegistryOK
<1>10. ASSUME NEW s \in recorded
       PROVE  s \notin new /\ s \in Registered \cup Foreign /\ streams[s].cancelled
  <2>1. s \in Registered \cup Foreign /\ streams[s].cancelled
    BY <1>10 DEF CountInv, RecordedCancelled
  <2> QED
    BY <1>1, <1>5, <2>1, ForeignAssumption DEF Registered
<1>11. RecordedCancelled'
  BY <1>2, <1>3, <1>5, <1>6, <1>10 DEF RecordedCancelled
<1>12. recorded' \cap Registered' = recorded \cap Registered
  BY <1>2, <1>6, <1>10
<1>13. /\ Cardinality(recorded) \in Nat
       /\ Cardinality(recorded \cap Registered) \in 0 .. streamCount
  BY RecordedFinite DEF CountInv
<1>14. /\ aggregate'.total_supply = aggregate.total_supply + n
       /\ aggregate'.active_streams = aggregate.active_streams + n
       /\ aggregate.total_supply \in Nat /\ aggregate.active_streams \in Nat
  BY <1>2, <1>5
<1>15. /\ Cardinality(recorded') = Cardinality(recorded)
       /\ Cardinality(recorded' \cap Registered') = Cardinality(recorded \cap Registered)
  BY <1>2, <1>12
<1>16. ActiveBounds
  BY DEF CountInv
<1>17. ActiveBounds'
  BY <1>1, <1>2, <1>5, <1>13, <1>14, <1>15, <1>16 DEF ActiveBounds
<1> QED
  BY <1>9, <1>11, <1>17 DEF CountInv

(***************************************************************************)
(* Marking a set of cancelled streams, all of them or just the new ones    *)
(* counted: what cancel_batch_streams and record_cancel have in common.    *)
(***************************************************************************)
LEMMA MarkStep ==
    ASSUME CountInv, NEW batch \in SUBSET (Registered \cup Foreign),
           recorded' = recorded \cup batch,
           aggregate' = Discounted(Cardinality(batch \ recorded)),
           streamCount' = streamCount
    PROVE  /\ ActiveBounds'
           /\ aggregate' \in [total_supply : Nat, active_streams : Nat]
<1> DEFINE fresh == batch \ recorded
           reg == recorded \cap Registered
           freshReg == (batch \cap Registered) \ reg
<1>1. /\ IsFiniteSet(recorded) /\ IsFiniteSet(reg) /\ IsFiniteSet(Registered \cup Foreign)
      /\ Cardinality(recorded) \in Nat /\ Cardinality(reg) \in 0 .. streamCount
      /\ streamCount \in Nat
  BY RecordedFinite DEF CountInv, RegistryOK
<1>2. IsFiniteSet(batch) /\ IsFiniteSet(batch \cap Registered)
  BY <1>1, FS_Subset, FS_Intersection
<1>3. /\ Cardinality(recorded \cup batch) = Cardinality(recorded) + Cardinality(fresh)
      /\ Cardinality(fresh) \in Nat /\ IsFiniteSet(fresh)
  BY <1>1, <1>2, UnionCount
<1>4. /\ Cardinality(reg \cup (batch \cap Registered)) = Cardinality(reg) + Cardinality(freshReg)
      /\ Cardinality(freshReg) \in Nat
      /\ IsFiniteSet(reg \cup (batch \cap Registered))
  BY <1>1, <1>2, UnionCount
<1>5. freshReg \in SUBSET fresh
  OBVIOUS
<1>6. Cardinality(freshReg) <= Cardinality(fresh)
  BY <1>3, <1>5, FS_Subset
<1>7. Registered' = Registered
  BY DEF Registered
<1>8. recorded' \cap Registered' = reg \cup (batch \cap Registered)
  BY <1>7
<1>9. reg \cup (batch \cap Registered) \in SUBSET Registered
  OBVIOUS
<1>10. Cardinality(reg) + Cardinality(freshReg) <= streamCount
  BY <1>1, <1>4, <1>9, RegisteredCount, FS_Subset
<1> HIDE DEF fresh, reg, freshReg
<1>11. aggregate \in [total_supply : Nat, active_streams : Nat] /\ ActiveBounds
  BY DEF CountInv, RegistryOK
<1>12. aggregate' = [aggregate EXCEPT !.active_streams =
                       IF @ >= Cardinality(fresh) THEN @ - Cardinality(fresh) ELSE 0]
  BY DEF Discounted, fresh
<1> DEFINE less == IF aggregate.active_streams >= Cardinality(fresh)
                   THEN aggregate.active_streams - Cardinality(fresh) ELSE 0
<1>a. aggregate.active_streams \in Nat /\ aggregate.total_supply \in Nat
  BY <1>11
<1>b. less \in Nat
  BY <1>3, <1>a
<1>c. aggregate' = [aggregate EXCEPT !.active_streams = less]
  BY <1>12
<1> HIDE DEF less
<1>d. /\ aggregate' \in [total_supply : Nat, active_streams : Nat]
      /\ aggregate'.total_supply = aggregate.total_supply
      /\ aggregate'.active_streams = less
  BY <1>11, <1>b, <1>c
<1>13. /\ aggregate' \in [total_supply : Nat, active_streams : Nat]
       /\ aggregate'.total_supply = aggregate.total_supply
       /\ aggregate'.active_streams = IF aggregate.active_streams >= Cardinality(fresh)
                                      THEN aggregate.active_streams - Cardinality(fresh) ELSE 0
  BY <1>d DEF less
<1>14. /\ Cardinality(recorded') = Cardinality(recorded) + Cardinality(fresh)
       /\ Cardinality(recorded' \cap Registered') = Cardinality(reg) + Cardinality(freshReg)
  BY <1>3, <1>4, <1>8
<1>15. /\ aggregate.total_supply = streamCount
       /\ streamCount - Cardinality(recorded) <= aggregate.active_streams
       /\ aggregate.active_streams <= streamCount - Cardinality(reg)
  BY <1>11 DEF ActiveBounds, reg
<1>16. aggregate.active_streams \in Nat
  BY <1>11
<1>17. /\ aggregate'.total_supply = streamCount'
       /\ streamCount' - Cardinality(recorded') <= aggregate'.active_streams
       /\ aggregate'.active_streams <= streamCount' - Cardinality(recorded' \cap Registered')
  BY <1>1, <1>3, <1>4, <1>6, <1>10, <1>13, <1>14, <1>15, <1>16
<1> QED
  BY <1>13, <1>17 DEF ActiveBounds

(* A step that only cancels streams, or changes who may, keeps the records. *)
LEMMA StreamsStep ==
    ASSUME CountInv, streamCount' = streamCount, known' = known,
           DOMAIN streams' = DOMAIN streams, streams' = [s \in DOMAIN streams' |-> streams'[s]],
           \A s \in DOMAIN streams :
              streams'[s] \in StreamShape /\ (streams[s].cancelled => streams'[s].cancelled),
           aggregate' \in [total_supply : Nat, active_streams : Nat]
    PROVE  /\ RegistryOK'
           /\ \A s \in recorded : s \in Registered' \cup Foreign /\ streams'[s].cancelled
<1>1. Registered' = Registered
  BY DEF Registered
<1>2. streams \in [Registered \cup Foreign -> StreamShape] /\ streamCount \in Nat
      /\ known \subseteq Registered
  BY DEF CountInv, RegistryOK
<1>3. DOMAIN streams = Registered \cup Foreign
  BY <1>2
<1>4. streams' \in [Registered' \cup Foreign -> StreamShape]
  BY <1>1, <1>3
<1>5. RegistryOK'
  BY <1>1, <1>2, <1>4 DEF RegistryOK
<1>6. \A s \in recorded : s \in Registered \cup Foreign /\ streams[s].cancelled
  BY DEF CountInv, RecordedCancelled
<1> QED
  BY <1>1, <1>3, <1>5, <1>6

(* The effect of Cancel on the records. *)
LEMMA CancelShape ==
    ASSUME RegistryOK, NEW batch \in SUBSET DOMAIN streams, Cancel(batch)
    PROVE  /\ DOMAIN streams' = DOMAIN streams
           /\ streams' = [s \in DOMAIN streams' |-> streams'[s]]
           /\ \A s \in DOMAIN streams :
                 /\ streams'[s] \in StreamShape
                 /\ streams[s].cancelled => streams'[s].cancelled
                 /\ s \in batch => streams'[s].cancelled
<1>1. streams' = [s \in DOMAIN streams |->
                    [streams[s] EXCEPT !.cancelled = streams[s].cancelled \/ s \in batch]]
  BY DEF Cancel
<1>2. ASSUME NEW s \in DOMAIN streams
      PROVE  /\ streams'[s] \in StreamShape
             /\ streams[s].cancelled => streams'[s].cancelled
             /\ s \in batch => streams'[s].cancelled
  <2>1. streams[s] \in StreamShape
    BY <1>2 DEF RegistryOK
  <2>2. streams'[s] = [streams[s] EXCEPT !.cancelled = streams[s].cancelled \/ s \in batch]
    BY <1>1
  <2>3. streams'[s] \in StreamShape
    BY <2>1, <2>2 DEF StreamShape
  <2>4. streams'[s].cancelled = (streams[s].cancelled \/ s \in batch)
    BY <2>1, <2>2 DEF StreamShape
  <2> QED
    BY <2>3, <2>4
<1> QED
  BY <1>1, <1>2

-----------------------------------------------------------------------------

(* cancel_batch_streams *)
LEMMA BatchCancelStep ==
    ASSUME CountInv, NEW caller \in Parties, NEW batch \in SUBSET DOMAIN streams,
           cancel_batch_streams(caller, batch)
    PROVE  CountInv'
<1>1. /\ Cancel(batch)
      /\ recorded' = recorded \cup batch
      /\ aggregate' = Discounted(Cardinality(batch \ recorded))
      /\ streamCount' = streamCount /\ known' = known
  BY DEF cancel_batch_streams, registryVars
<1>2. RegistryOK
  BY DEF CountInv
<1>3. DOMAIN streams = Registered \cup Foreign
  BY <1>2 DEF RegistryOK
<1>4. /\ ActiveBounds'
      /\ aggregate' \in [total_supply : Nat, active_streams : Nat]
  BY <1>1, <1>3, MarkStep
<1>5. /\ DOMAIN streams' = DOMAIN streams
      /\ streams' = [s \in DOMAIN streams' |-> streams'[s]]
      /\ \A s \in DOMAIN streams :
            /\ streams'[s] \in StreamShape
            /\ streams[s].cancelled => streams'[s].cancelled
            /\ s \in batch => streams'[s].cancelled
  BY <1>1, <1>2, CancelShape
<1>6. /\ RegistryOK'
      /\ \A s \in recorded : s \in Registered' \cup Foreign /\ streams'[s].cancelled
  BY <1>1, <1>4, <1>5, StreamsStep
<1>7. Registered' = Registered
  BY <1>1 DEF Registered
<1>8. RecordedCancelled'
  BY <1>1, <1>3, <1>5, <1>6, <1>7 DEF RecordedCancelled
<1> QED
  BY <1>4, <1>6, <1>8 DEF CountInv

(* record_cancel: the stream is one of the factory's and not marked yet. *)
LEMMA RecordCancelStep ==
    ASSUME CountInv, NEW s \in known, record_cancel(s)
    PROVE  CountInv'
<1>1. /\ s \notin recorded /\ streams[s].cancelled
      /\ recorded' = recorded \cup {s}
      /\ aggregate' = Discounted(1)
      /\ streamCount' = streamCount /\ known' = known /\ streams' = streams
  BY DEF record_cancel, registryVars
<1>2. RegistryOK /\ known \subseteq Registered
  BY DEF CountInv, RegistryOK
<1>3. {s} \in SUBSET (Registered \cup Foreign)
  BY <1>2
<1>4. {s} \ recorded = {s}
  BY <1>1
<1>5. Cardinality({s} \ recorded) = 1
  BY <1>4, FS_Singleton
<1>6. aggregate' = Discounted(Cardinality({s} \ recorded))
  BY <1>1, <1>5
<1>7. /\ ActiveBounds'
      /\ aggregate' \in [total_supply : Nat, active_streams : Nat]
  BY <1>1, <1>3, <1>6, MarkStep
<1>8. Registered' = Registered
  BY <1>1 DEF Registered
<1>9. RegistryOK'
  BY <1>1, <1>2, <1>7, <1>8 DEF RegistryOK
<1>10. RecordedCancelled'
  BY <1>1, <1>2, <1>8 DEF CountInv, RecordedCancelled
<1> QED
  BY <1>7, <1>9, <1>10 DEF CountInv

(* A step of the streams alone: the marks and the counters stay. *)
LEMMA StreamsOnlyStep ==
    ASSUME CountInv, UNCHANGED <<registryVars, countVars>>,
           DOMAIN streams' = DOMAIN streams, streams' = [s \in DOMAIN streams' |-> streams'[s]],
           \A s \in DOMAIN streams :
              streams'[s] \in StreamShape /\ (streams[s].cancelled => streams'[s].cancelled)
    PROVE  CountInv'
<1>1. streamCount' = streamCount /\ known' = known /\ aggregate' = aggregate /\ recorded' = recorded
  BY DEF registryVars, countVars
<1>2. aggregate' \in [total_supply : Nat, active_streams : Nat]
  BY <1>1 DEF CountInv, RegistryOK
<1>3. /\ RegistryOK'
      /\ \A s \in recorded : s \in Registered' \cup Foreign /\ streams'[s].cancelled
  BY <1>1, <1>2, StreamsStep
<1>4. RecordedCancelled'
  BY <1>1, <1>3 DEF RecordedCancelled
<1>5. ActiveBounds'
  BY <1>1 DEF CountInv, ActiveBounds, Registered
<1> QED
  BY <1>3, <1>4, <1>5 DEF CountInv

(* A stream cancelled without the factory *)
LEMMA StreamCancelledStep ==
    ASSUME CountInv, NEW s \in DOMAIN streams, StreamCancelled(s)
    PROVE  CountInv'
<1>1. Cancel({s}) /\ UNCHANGED <<registryVars, countVars>>
  BY DEF StreamCancelled
<1>2. RegistryOK /\ {s} \in SUBSET DOMAIN streams
  BY DEF CountInv
<1>3. /\ DOMAIN streams' = DOMAIN streams
      /\ streams' = [t \in DOMAIN streams' |-> streams'[t]]
      /\ \A t \in DOMAIN streams :
            /\ streams'[t] \in StreamShape
            /\ streams[t].cancelled => streams'[t].cancelled
  BY <1>1, <1>2, CancelShape
<1> QED
  BY <1>1, <1>3, StreamsOnlyStep

(* A stream replaced by one that is cancelled just as much *)
LEMMA StreamReplacedStep ==
    ASSUME CountInv, NEW s \in DOMAIN streams, NEW new \in StreamShape,
           new.cancelled = streams[s].cancelled,
           streams' = [streams EXCEPT ![s] = new],
           UNCHANGED <<registryVars, countVars>>
    PROVE  CountInv'
<1>1. streams \in [Registered \cup Foreign -> StreamShape]
  BY DEF CountInv, RegistryOK
<1>2. DOMAIN streams' = DOMAIN streams /\ streams' = [t \in DOMAIN streams' |-> streams'[t]]
  BY <1>1
<1>3. ASSUME NEW t \in DOMAIN streams
      PROVE  /\ streams'[t] \in StreamShape
             /\ streams[t].cancelled => streams'[t].cancelled
  BY <1>1, <1>3
<1> QED
  BY <1>2, <1>3, StreamsOnlyStep

LEMMA StreamDelegatedStep ==
    ASSUME CountInv, NEW s \in DOMAIN streams, NEW d \in Parties \cup {None}, StreamDelegated(s, d)
    PROVE  CountInv'
<1> DEFINE new == [streams[s] EXCEPT !.operator = d]
<1>1. streams[s] \in StreamShape
  BY DEF CountInv, RegistryOK
<1>2. new \in StreamShape /\ new.cancelled = streams[s].cancelled
  BY <1>1 DEF StreamShape
<1>3. streams' = [streams EXCEPT ![s] = new] /\ UNCHANGED <<registryVars, countVars>>
  BY DEF StreamDelegated
<1> HIDE DEF new
<1> QED
  BY <1>2, <1>3, StreamReplacedStep

LEMMA StreamConfiguredStep ==
    ASSUME CountInv, NEW s \in DOMAIN streams, NEW b \in BOOLEAN, StreamConfigured(s, b)
    PROVE  CountInv'
<1> DEFINE new == [streams[s] EXCEPT !.cancelable = b]
<1>1. streams[s] \in StreamShape
  BY DEF CountInv, RegistryOK
<1>2. new \in StreamShape /\ new.cancelled = streams[s].cancelled
  BY <1>1 DEF StreamShape
<1>3. streams' = [streams EXCEPT ![s] = new] /\ UNCHANGED <<registryVars, countVars>>
  BY DEF StreamConfigured
<1> HIDE DEF new
<1> QED
  BY <1>2, <1>3, StreamReplacedStep

LEMMA CountStep == CountInv /\ [Next]_vars => CountInv'
<1> SUFFICES ASSUME CountInv, [Next]_vars PROVE CountInv'
  OBVIOUS
<1>1. CASE Tick
  BY <1>1, CountUntouched DEF Tick, registryVars, countVars
<1>2. CASE \E c \in Configs : GovernorChanges(c)
  BY <1>2, CountUntouched DEF GovernorChanges, registryVars, countVars
<1>3. ASSUME NEW req \in Requests, create_stream(req)
      PROVE  CountInv'
  <2>1. <<req>> \in Seq(RequestType)
    BY <1>3, RequestAssumption
  <2> QED
    BY <1>3, <2>1, CreateStep DEF create_stream
<1>4. ASSUME NEW reqs \in Batches, CreateAll(reqs)
      PROVE  CountInv'
  BY <1>4, RequestAssumption, CreateStep
<1>5. CASE \E reqs \in Batches : batch_create_streams(reqs)
  BY <1>4, <1>5 DEF batch_create_streams
<1>6. CASE \E sender \in Parties, reqs \in Batches : create_batch_streams(sender, reqs)
  BY <1>4, <1>6 DEF create_batch_streams
<1>7. CASE \E caller \in Parties, batch \in SUBSET DOMAIN streams :
              cancel_batch_streams(caller, batch)
  BY <1>7, BatchCancelStep
<1>8. CASE \E s \in known : record_cancel(s)
  BY <1>8, RecordCancelStep
<1>9. CASE \E s \in DOMAIN streams : StreamCancelled(s)
  BY <1>9, StreamCancelledStep
<1>10. CASE \E s \in DOMAIN streams, d \in Delegates \cup {None} : StreamDelegated(s, d)
  <2>1. Delegates \cup {None} \subseteq Parties \cup {None}
    BY FactoryAssumption
  <2> QED
    BY <1>10, <2>1, StreamDelegatedStep
<1>19. CASE \E s \in DOMAIN streams, b \in Cancelable : StreamConfigured(s, b)
  <2>1. Cancelable \subseteq BOOLEAN
    BY FactoryAssumption
  <2> QED
    BY <1>19, <2>1, StreamConfiguredStep
<1>11. CASE pause
  BY <1>11, CountUntouched DEF pause, registryVars, countVars
<1>12. CASE unpause
  BY <1>12, CountUntouched DEF unpause, registryVars, countVars
<1>13. CASE \E hash \in Hashes : upgrade_stream_wasm(hash)
  BY <1>13, CountUntouched DEF upgrade_stream_wasm, registryVars, countVars
<1>14. CASE ReadPause
  BY <1>14, CountUntouched DEF ReadPause, registryVars, countVars
<1>15. CASE \E party \in Parties, n \in PageCounts : migrate_sender_index(party, n)
  BY <1>15, CountUntouched DEF migrate_sender_index, countVars
<1>16. CASE \E party \in Parties, n \in PageCounts : migrate_recipient_index(party, n)
  BY <1>16, CountUntouched DEF migrate_recipient_index, countVars
<1>17. CASE \E amount \in Gifts : Donate(amount)
  BY <1>17, CountUntouched DEF Donate, registryVars, countVars
<1>18. CASE UNCHANGED vars
  BY <1>18, CountUntouched DEF vars, registryVars, countVars
<1> QED
  BY <1>1, <1>2, <1>3, <1>5, <1>6, <1>7, <1>8, <1>9, <1>10, <1>11, <1>12, <1>13, <1>14,
     <1>15, <1>16, <1>17, <1>18, <1>19 DEF Next

(* The inductive invariant holds in every reachable state. *)
THEOREM CountInvariance == Spec => []CountInv
BY CountInit, CountStep, PTL DEF Spec

(***************************************************************************)
(* active_streams stays between the streams not marked at all and the      *)
(* streams of this factory not marked, for batches of every size and any   *)
(* number of streams deployed by others (cancel_batch_streams,             *)
(* record_cancel).                                                         *)
(***************************************************************************)
THEOREM ActiveBoundsHold == Spec => []ActiveBounds
<1>1. CountInv => ActiveBounds
  BY DEF CountInv
<1> QED
  BY <1>1, CountInvariance, PTL

(* What the invariant says of the streams still running. *)
LEMMA CountedLive == CountInv => LiveStreamsCounted
<1> SUFFICES ASSUME CountInv PROVE LiveStreamsCounted
  OBVIOUS
<1> DEFINE live == {s \in Registered : ~streams[s].cancelled}
           own == recorded \cap Registered
           foreign == recorded \cap Foreign
<1>1. /\ IsFiniteSet(recorded) /\ Cardinality(recorded) \in Nat /\ IsFiniteSet(own)
      /\ streamCount \in Nat /\ aggregate.active_streams \in Nat
  BY RecordedFinite DEF CountInv, RegistryOK
<1>2. IsFiniteSet(Registered) /\ Cardinality(Registered) = streamCount
  BY <1>1, RegisteredCount
<1>3. \A s \in recorded : s \in Registered \cup Foreign /\ streams[s].cancelled
  BY DEF CountInv, RecordedCancelled
<1>4. live \in SUBSET (Registered \ own) /\ own \cup (Registered \ own) = Registered
  BY <1>3
<1>5. /\ Cardinality(own \cup Registered) = Cardinality(own) + Cardinality(Registered \ own)
      /\ IsFiniteSet(Registered \ own)
      /\ Cardinality(own) \in Nat /\ Cardinality(Registered \ own) \in Nat
  BY <1>1, <1>2, UnionCount
<1>6. own \cup Registered = Registered
  OBVIOUS
<1>7. IsFiniteSet(live) /\ Cardinality(live) <= Cardinality(Registered \ own)
  BY <1>4, <1>5, FS_Subset
<1>8. recorded \ own \in SUBSET foreign /\ own \cup recorded = recorded
  BY <1>3
<1>9. /\ Cardinality(own \cup recorded) = Cardinality(own) + Cardinality(recorded \ own)
      /\ Cardinality(recorded \ own) \in Nat
  BY <1>1, UnionCount
<1>10. foreign \in SUBSET recorded
  OBVIOUS
<1>11. IsFiniteSet(foreign)
  BY <1>1, <1>10, FS_Subset
<1>12. Cardinality(recorded \ own) <= Cardinality(foreign)
  BY <1>8, <1>11, FS_Subset
<1>13. Cardinality(live) \in Nat /\ Cardinality(foreign) \in Nat
  BY <1>7, <1>11, FS_CardinalityType
<1>14. streamCount - Cardinality(recorded) <= aggregate.active_streams
  BY DEF CountInv, ActiveBounds
<1>15. /\ streamCount = Cardinality(own) + Cardinality(Registered \ own)
       /\ Cardinality(recorded) = Cardinality(own) + Cardinality(recorded \ own)
  BY <1>2, <1>5, <1>6, <1>8, <1>9
<1> HIDE DEF live, own, foreign
<1>16. Cardinality(live) <= aggregate.active_streams + Cardinality(foreign)
  BY <1>1, <1>5, <1>7, <1>9, <1>12, <1>13, <1>14, <1>15
<1> QED
  BY <1>16 DEF LiveStreamsCounted, live, foreign

(***************************************************************************)
(* Every stream still running is counted, up to one per foreign stream     *)
(* cancelled through cancel_batch_streams.                                 *)
(***************************************************************************)
THEOREM LiveCountedHolds == Spec => []LiveStreamsCounted
BY CountInvariance, CountedLive, PTL

-----------------------------------------------------------------------------
(***************************************************************************)
(* The halt.  A halt under way is recorded in the entry, and the entry's   *)
(* clock never starts before the halt: a plain flag gets its clock when it *)
(* is first read.                                                          *)
(***************************************************************************)
HaltInv ==
    /\ now \in Nat
    /\ haltedAt # None =>
          /\ haltedAt \in Nat /\ haltedAt <= now
          /\ pauseEntry.paused
          /\ pauseEntry.form = "state" =>
                pauseEntry.paused_at \in Nat /\ haltedAt <= pauseEntry.paused_at

LEMMA HaltInit == Init => HaltInv
<1> SUFFICES ASSUME Init PROVE HaltInv
  OBVIOUS
<1>1. /\ now = 0
      /\ pauseEntry \in Flags \cup {NeverPaused}
      /\ haltedAt = IF pauseEntry.paused THEN 0 ELSE None
  BY DEF Init
<1>2. pauseEntry \in PauseType
  <2>1. Flags \subseteq PauseType
    BY FactoryAssumption
  <2>2. NeverPaused \in PauseType
    BY DEF NeverPaused, PauseType
  <2> QED
    BY <1>1, <2>1, <2>2
<1> QED
  BY <1>1, <1>2 DEF HaltInv, PauseType

(* Reading the entry keeps a halt under way, and its clock. *)
LEMMA HaltRead ==
    ASSUME HaltInv, is_paused(pauseEntry, now), haltedAt # None, now' = now,
           pauseEntry' = AfterIsPaused(pauseEntry, now), haltedAt' = haltedAt
    PROVE  HaltInv'
<1>1. CASE pauseEntry.form = "flag"
  <2>1. pauseEntry' = [form |-> "state", paused |-> TRUE, paused_at |-> now]
    BY <1>1 DEF AfterIsPaused, HaltInv
  <2> QED
    BY <2>1 DEF HaltInv
<1>2. CASE pauseEntry.form # "flag"
  <2>1. pauseEntry' = pauseEntry
    BY <1>2 DEF AfterIsPaused
  <2> QED
    BY <2>1 DEF HaltInv
<1> QED
  BY <1>1, <1>2

LEMMA HaltStep == HaltInv /\ [Next]_vars => HaltInv'
<1> SUFFICES ASSUME HaltInv, [Next]_vars PROVE HaltInv'
  OBVIOUS
<1>1. now \in Nat
  BY DEF HaltInv
<1>2. ASSUME UNCHANGED <<now, pauseVars>>
      PROVE  HaltInv'
  BY <1>2 DEF HaltInv, pauseVars
<1>3. ASSUME now' = now, haltedAt' = None
      PROVE  HaltInv'
  BY <1>1, <1>3 DEF HaltInv
<1>4. CASE Tick
  BY <1>4, FactoryAssumption DEF Tick, HaltInv, pauseVars
<1>5. CASE \E c \in Configs : GovernorChanges(c)
  BY <1>2, <1>5 DEF GovernorChanges
<1>6. CASE \/ \E req \in Requests : create_stream(req)
           \/ \E reqs \in Batches : batch_create_streams(reqs)
           \/ \E sender \in Parties, reqs \in Batches : create_batch_streams(sender, reqs)
  <2>1. PICK reqs : CreateAll(reqs)
    BY <1>6 DEF create_stream, batch_create_streams, create_batch_streams
  <2> QED
    BY <1>3, <2>1 DEF CreateAll
<1>7. CASE \E caller \in Parties, batch \in SUBSET DOMAIN streams :
              cancel_batch_streams(caller, batch)
  BY <1>2, <1>7 DEF cancel_batch_streams
<1>8. CASE \E s \in known : record_cancel(s)
  BY <1>2, <1>8 DEF record_cancel
<1>9. CASE \E s \in DOMAIN streams : StreamCancelled(s)
  BY <1>2, <1>9 DEF StreamCancelled
<1>10. CASE \/ \E s \in DOMAIN streams, d \in Delegates \cup {None} : StreamDelegated(s, d)
           \/ \E s \in DOMAIN streams, b \in Cancelable : StreamConfigured(s, b)
  BY <1>2, <1>10 DEF StreamDelegated, StreamConfigured
<1>11. CASE pause
  <2>1. /\ now' = now /\ haltedAt' = now
        /\ pauseEntry' = [form |-> "state", paused |-> TRUE, paused_at |-> now]
    BY <1>11 DEF pause, set_paused
  <2> QED
    BY <1>1, <2>1 DEF HaltInv
<1>12. CASE unpause
  BY <1>3, <1>12 DEF unpause
<1>13. CASE \E hash \in Hashes : upgrade_stream_wasm(hash)
  BY <1>3, <1>13 DEF upgrade_stream_wasm
<1>14. CASE ReadPause
  <2>1. CASE is_paused(pauseEntry, now) /\ haltedAt # None
    BY <1>14, <2>1, HaltRead DEF ReadPause
  <2>2. CASE ~(is_paused(pauseEntry, now) /\ haltedAt # None)
    BY <1>3, <1>14, <2>2 DEF ReadPause
  <2> QED
    BY <2>1, <2>2
<1>15. CASE \E party \in Parties, n \in PageCounts : migrate_sender_index(party, n)
  BY <1>2, <1>15 DEF migrate_sender_index
<1>16. CASE \E party \in Parties, n \in PageCounts : migrate_recipient_index(party, n)
  BY <1>2, <1>16 DEF migrate_recipient_index
<1>17. CASE \E amount \in Gifts : Donate(amount)
  BY <1>2, <1>17 DEF Donate
<1>18. CASE UNCHANGED vars
  BY <1>2, <1>18 DEF vars
<1> QED
  BY <1>4, <1>5, <1>6, <1>7, <1>8, <1>9, <1>10, <1>11, <1>12, <1>13, <1>14,
     <1>15, <1>16, <1>17, <1>18 DEF Next

(* A step that creates a stream finds no halt under way, or one whose time is up. *)
LEMMA CreationOutsideHalt ==
    ASSUME HaltInv, [Next]_vars, streamCount' # streamCount
    PROVE  haltedAt = None \/ now >= haltedAt + MaxPauseDuration
<1>1. CASE \/ \E req \in Requests : create_stream(req)
           \/ \E reqs \in Batches : batch_create_streams(reqs)
           \/ \E sender \in Parties, reqs \in Batches : create_batch_streams(sender, reqs)
  <2>1. PICK reqs : CreateAll(reqs)
    BY <1>1 DEF create_stream, batch_create_streams, create_batch_streams
  <2>2. ~is_paused(pauseEntry, now)
    BY <2>1 DEF CreateAll
  <2>3. CASE haltedAt # None
    <3>1. /\ now \in Nat /\ haltedAt \in Nat /\ pauseEntry.paused
          /\ pauseEntry.form = "state" =>
                pauseEntry.paused_at \in Nat /\ haltedAt <= pauseEntry.paused_at
      BY <2>3 DEF HaltInv
    <3>2. pauseEntry.form = "state" /\ ~(now < pauseEntry.paused_at + MaxPauseDuration)
      BY <2>2, <3>1 DEF is_paused
    <3> QED
      BY <3>1, <3>2, PauseAssumption
  <2> QED
    BY <2>3
<1>2. CASE ~(\/ \E req \in Requests : create_stream(req)
             \/ \E reqs \in Batches : batch_create_streams(reqs)
             \/ \E sender \in Parties, reqs \in Batches : create_batch_streams(sender, reqs))
  <2>1. ASSUME UNCHANGED registryVars
        PROVE  FALSE
    BY <2>1 DEF registryVars
  <2>2. CASE Tick
    BY <2>1, <2>2 DEF Tick
  <2>3. CASE \E c \in Configs : GovernorChanges(c)
    BY <2>1, <2>3 DEF GovernorChanges
  <2>4. CASE \E caller \in Parties, batch \in SUBSET DOMAIN streams :
                cancel_batch_streams(caller, batch)
    BY <2>1, <2>4 DEF cancel_batch_streams
  <2>5. CASE \E s \in known : record_cancel(s)
    BY <2>1, <2>5 DEF record_cancel
  <2>6. CASE \E s \in DOMAIN streams : StreamCancelled(s)
    BY <2>1, <2>6 DEF StreamCancelled
  <2>7. CASE \/ \E s \in DOMAIN streams, d \in Delegates \cup {None} : StreamDelegated(s, d)
             \/ \E s \in DOMAIN streams, b \in Cancelable : StreamConfigured(s, b)
    BY <2>1, <2>7 DEF StreamDelegated, StreamConfigured
  <2>8. CASE pause \/ unpause \/ ReadPause
    BY <2>1, <2>8 DEF pause, unpause, ReadPause
  <2>9. CASE \E hash \in Hashes : upgrade_stream_wasm(hash)
    BY <2>1, <2>9 DEF upgrade_stream_wasm
  <2>10. CASE \E party \in Parties, n \in PageCounts :
                 migrate_sender_index(party, n) \/ migrate_recipient_index(party, n)
    BY <2>10 DEF migrate_sender_index, migrate_recipient_index
  <2>11. CASE \E amount \in Gifts : Donate(amount)
    BY <2>1, <2>11 DEF Donate
  <2>12. CASE UNCHANGED vars
    BY <2>1, <2>12 DEF vars
  <2> QED
    BY <1>2, <2>2, <2>3, <2>4, <2>5, <2>6, <2>7, <2>8, <2>9, <2>10, <2>11, <2>12 DEF Next
<1> QED
  BY <1>1, <1>2

(***************************************************************************)
(* No creation, single or batched, commits while a halt is under way,      *)
(* whatever form the pause entry was left in by an older build.            *)
(***************************************************************************)
THEOREM HaltHolds == Spec => NoCreationWhileHalted
<1>1. HaltInv /\ [Next]_vars =>
        [streamCount' # streamCount =>
            haltedAt = None \/ now >= haltedAt + MaxPauseDuration]_vars
  BY CreationOutsideHalt
<1>2. Spec => []HaltInv
  BY HaltInit, HaltStep, PTL DEF Spec
<1> QED
  BY <1>1, <1>2, PTL DEF Spec, NoCreationWhileHalted

-----------------------------------------------------------------------------
(***************************************************************************)
(* The walker.  An entry is as many calls old as whole batches fit between *)
(* it and the cursor, going back around the ring; new entries are put into *)
(* the ring ahead of the cursor, where they only make that distance grow.  *)
(***************************************************************************)
Behind(i) == IF i <= lastBumped THEN lastBumped - i ELSE lastBumped + streamCount - i

WalkInv ==
    /\ streamCount \in Nat /\ lastBumped \in Nat
    /\ lastBumped < streamCount \/ (lastBumped = 0 /\ streamCount = 0)
    /\ age \in [Registered -> Nat]
    /\ \A i \in Registered : age[i] * BatchLimit <= Behind(i)

LEMMA WalkInit == Init => WalkInv
<1> SUFFICES ASSUME Init PROVE WalkInv
  OBVIOUS
<1>1. PICK history \in Histories :
        /\ streamCount = Len(history) /\ lastBumped = 0
        /\ age = [i \in 0 .. (Len(history) - 1) |-> 0]
  BY DEF Init
<1>2. Len(history) \in Nat
  BY HistoryAssumption, LenProperties
<1>3. \A i \in Registered : Behind(i) >= 0 /\ age[i] * BatchLimit = 0
  BY <1>1, <1>2, FactoryAssumption DEF Registered, Behind
<1> QED
  BY <1>1, <1>2, <1>3 DEF WalkInv, Registered, Behind

(* New entries are young, and the others keep or gain distance. *)
LEMMA WalkCreate ==
    ASSUME WalkInv, NEW reqs \in Seq(RequestType), CreateAll(reqs)
    PROVE  WalkInv'
<1> DEFINE n == Len(reqs)
           new == streamCount .. (streamCount + n - 1)
<1>1. n \in Nat
  BY LenProperties
<1>2. /\ streamCount' = streamCount + n /\ lastBumped' = lastBumped
      /\ age' = [i \in Registered \cup new |-> IF i \in new THEN 0 ELSE age[i]]
  BY DEF CreateAll
<1> HIDE DEF n
<1>3. /\ streamCount \in Nat /\ lastBumped \in Nat /\ age \in [Registered -> Nat]
      /\ lastBumped < streamCount \/ (lastBumped = 0 /\ streamCount = 0)
      /\ \A i \in Registered : age[i] * BatchLimit <= Behind(i)
  BY DEF WalkInv
<1>4. Registered' = Registered \cup new
  BY <1>1, <1>2, <1>3 DEF Registered
<1>5. age' \in [Registered' -> Nat]
  BY <1>2, <1>3, <1>4
<1>6. ASSUME NEW i \in Registered'
      PROVE  age'[i] * BatchLimit <= Behind(i)'
  <2>1. i \in Nat /\ i < streamCount + n
    BY <1>1, <1>2, <1>3, <1>6 DEF Registered
  <2>2. CASE i \in new
    <3>1. age'[i] * BatchLimit = 0
      BY <1>2, <1>4, <2>2, FactoryAssumption
    <3>2. Behind(i)' >= 0
      BY <1>1, <1>2, <1>3, <2>1 DEF Behind
    <3> QED
      BY <3>1, <3>2
  <2>3. CASE i \notin new
    <3>1. i \in Registered /\ age'[i] = age[i]
      BY <1>2, <1>4, <2>3
    <3>2. Behind(i) <= Behind(i)' /\ Behind(i) \in Int /\ Behind(i)' \in Int
      BY <1>1, <1>2, <1>3, <2>1, <3>1 DEF Behind
    <3>3. age[i] * BatchLimit \in Int
      BY <1>3, <3>1, FactoryAssumption
    <3> QED
      BY <1>3, <3>1, <3>2, <3>3
  <2> QED
    BY <2>2, <2>3
<1>7. lastBumped' < streamCount' \/ (lastBumped' = 0 /\ streamCount' = 0)
  BY <1>1, <1>2, <1>3
<1>8. streamCount' \in Nat /\ lastBumped' \in Nat
  BY <1>1, <1>2, <1>3
<1> QED
  BY <1>5, <1>6, <1>7, <1>8 DEF WalkInv

(* A call of the walker refreshes the next entries around the ring; every  *)
(* other entry falls behind by one batch, and does not come around.        *)
LEMMA WalkBump ==
    ASSUME WalkInv, bump_persistent_bucket, streamCount' = streamCount
    PROVE  WalkInv'
<1> DEFINE n == streamCount
           b == BatchLimit
           window == {(lastBumped + 1 + i) % n : i \in 0 .. (b - 1)}
<1>1. CASE n = 0
  BY <1>1 DEF bump_persistent_bucket, walkVars, WalkInv, Registered, Behind
<1>2. CASE n # 0
  <2>1. /\ n \in Nat \ {0} /\ lastBumped \in 0 .. (n - 1) /\ b \in Nat \ {0}
        /\ age \in [Registered -> Nat]
        /\ \A i \in Registered : age[i] * b <= Behind(i)
    BY <1>2, FactoryAssumption DEF WalkInv
  <2>2. /\ age' = [i \in Registered |-> IF i \in window THEN 0 ELSE age[i] + 1]
        /\ lastBumped' = (lastBumped + b) % n
    BY <1>2 DEF bump_persistent_bucket
  <2>3. Registered' = Registered /\ \A i \in Registered : i \in 0 .. (n - 1)
    BY DEF Registered
  <2>4. lastBumped' \in 0 .. (n - 1)
    BY <2>1, <2>2, DivMod
  <2>5. ASSUME NEW i \in Registered
        PROVE  age'[i] * b <= Behind(i)'
    <3>1. i \in 0 .. (n - 1) /\ Behind(i) \in 0 .. (n - 1)
      BY <2>1, <2>3 DEF Behind
    <3>2. CASE i \in window
      <4>1. age'[i] * b = 0
        BY <2>1, <2>2, <3>2
      <4>2. Behind(i)' >= 0
        <5> DEFINE l == lastBumped'
        <5>1. l \in 0 .. (n - 1) /\ n \in Nat /\ i \in 0 .. (n - 1)
          BY <2>1, <2>4, <3>1
        <5>2. Behind(i)' = IF i <= l THEN l - i ELSE l + n - i
          BY DEF Behind
        <5> HIDE DEF l, n
        <5> QED
          BY <5>1, <5>2
      <4> QED
        BY <4>1, <4>2
    <3>3. CASE i \notin window
      <4>1. ASSUME n - Behind(i) <= b
            PROVE  FALSE
        <5> DEFINE j == n - Behind(i) - 1
        <5>1. j \in 0 .. (b - 1)
          BY <2>1, <3>1, <4>1
        <5>2. lastBumped + 1 + j = i \/ lastBumped + 1 + j = n + i
          BY <2>1, <3>1 DEF Behind
        <5>3. i % n = i /\ (n + i) % n = i
          BY <2>1, <3>1, RingMod
        <5>4. (lastBumped + 1 + j) % n = i
          BY <5>2, <5>3
        <5> QED
          BY <3>3, <5>1, <5>4
      <4>2. Behind(i) + b < n
        BY <2>1, <3>1, <4>1
      <4>3. lastBumped' = IF lastBumped + b < n THEN lastBumped + b ELSE lastBumped + b - n
        <5> DEFINE r == IF lastBumped + b < n THEN lastBumped + b ELSE lastBumped + b - n
        <5>1. r \in 0 .. (n - 1)
          BY <2>1, <3>1, <4>2 DEF Behind
        <5>2. lastBumped + b = r \/ lastBumped + b = n + r
          BY <2>1
        <5> HIDE DEF r
        <5>3. r % n = r /\ (n + r) % n = r
          BY <2>1, <5>1, RingMod
        <5>4. (lastBumped + b) % n = r
          BY <5>2, <5>3
        <5> QED
          BY <2>2, <5>4 DEF r
      <4>4. Behind(i)' = Behind(i) + b
        BY <2>1, <3>1, <4>2, <4>3 DEF Behind
      <4>5. age'[i] = age[i] + 1 /\ age[i] \in Nat
        BY <2>1, <2>2, <3>3
      <4>6. age'[i] * b = age[i] * b + b /\ age[i] * b \in Nat
        BY <2>1, <4>5
      <4> QED
        BY <2>1, <2>5, <3>1, <4>4, <4>6
    <3> QED
      BY <3>2, <3>3
  <2> QED
    BY <2>1, <2>2, <2>3, <2>4, <2>5 DEF WalkInv
<1> QED
  BY <1>1, <1>2

LEMMA WalkStep == WalkInv /\ [Next]_vars => WalkInv'
<1> SUFFICES ASSUME WalkInv, [Next]_vars PROVE WalkInv'
  OBVIOUS
<1>1. ASSUME UNCHANGED <<streamCount, lastBumped, age>>
      PROVE  WalkInv'
  BY <1>1 DEF WalkInv, Behind, Registered
<1>2. ASSUME UNCHANGED registryVars, UNCHANGED walkVars
      PROVE  WalkInv'
  BY <1>1, <1>2 DEF registryVars, walkVars
<1>3. CASE \/ \E req \in Requests : create_stream(req)
           \/ \E reqs \in Batches : batch_create_streams(reqs)
           \/ \E sender \in Parties, reqs \in Batches : create_batch_streams(sender, reqs)
  <2>1. ASSUME NEW req \in Requests, CreateAll(<<req>>)
        PROVE  WalkInv'
    <3>1. <<req>> \in Seq(RequestType)
      BY RequestAssumption
    <3> QED
      BY <2>1, <3>1, WalkCreate
  <2>2. ASSUME NEW reqs \in Batches, CreateAll(reqs)
        PROVE  WalkInv'
    BY <2>2, RequestAssumption, WalkCreate
  <2> QED
    BY <1>3, <2>1, <2>2 DEF create_stream, batch_create_streams, create_batch_streams
<1>4. CASE pause \/ unpause \/ \E hash \in Hashes : upgrade_stream_wasm(hash)
  BY <1>4, WalkBump DEF pause, unpause, upgrade_stream_wasm, registryVars
<1>5. CASE Tick \/ ReadPause
  BY <1>2, <1>5 DEF Tick, ReadPause
<1>6. CASE \E c \in Configs : GovernorChanges(c)
  BY <1>2, <1>6 DEF GovernorChanges
<1>7. CASE \E caller \in Parties, batch \in SUBSET DOMAIN streams :
              cancel_batch_streams(caller, batch)
  BY <1>2, <1>7 DEF cancel_batch_streams
<1>8. CASE \E s \in known : record_cancel(s)
  BY <1>2, <1>8 DEF record_cancel
<1>9. CASE \/ \E s \in DOMAIN streams : StreamCancelled(s)
           \/ \E s \in DOMAIN streams, d \in Delegates \cup {None} : StreamDelegated(s, d)
           \/ \E s \in DOMAIN streams, b \in Cancelable : StreamConfigured(s, b)
  BY <1>2, <1>9 DEF StreamCancelled, StreamDelegated, StreamConfigured
<1>10. CASE \E party \in Parties, n \in PageCounts :
               migrate_sender_index(party, n) \/ migrate_recipient_index(party, n)
  BY <1>1, <1>10 DEF migrate_sender_index, migrate_recipient_index, walkVars
<1>11. CASE \E amount \in Gifts : Donate(amount)
  BY <1>2, <1>11 DEF Donate
<1>12. CASE UNCHANGED vars
  BY <1>2, <1>12 DEF vars
<1> QED
  BY <1>3, <1>4, <1>5, <1>6, <1>7, <1>8, <1>9, <1>10, <1>11, <1>12 DEF Next

(* The walker's inductive invariant holds in every reachable state. *)
THEOREM WalkInvariance == Spec => []WalkInv
BY WalkInit, WalkStep, PTL DEF Spec

(***************************************************************************)
(* No registry entry waits for the walker longer than one round of it, for *)
(* every batch limit and however many streams are added on the way.        *)
(***************************************************************************)
THEOREM WalkerHolds == Spec => []WalkerCovers
<1>1. ASSUME WalkInv
      PROVE  WalkerCovers
  <2> SUFFICES ASSUME NEW i \in Registered PROVE age[i] * BatchLimit < streamCount
    BY DEF WalkerCovers
  <2>1. Behind(i) < streamCount /\ Behind(i) \in Int /\ streamCount \in Nat
    BY <1>1 DEF WalkInv, Behind, Registered
  <2>2. age[i] * BatchLimit <= Behind(i) /\ age[i] * BatchLimit \in Int
    BY <1>1, FactoryAssumption DEF WalkInv
  <2> QED
    BY <2>1, <2>2
<1> QED
  BY <1>1, WalkInvariance, PTL

-----------------------------------------------------------------------------
(***************************************************************************)
(* The escrow.  What a creation pulls in is the deposits and the fees, so  *)
(* the three sums over a batch cancel whatever its length; what a stream   *)
(* was funded with and owes never changes after its creation.              *)
(***************************************************************************)
SameTerms(new, old) ==
    /\ new.sender = old.sender /\ new.recipient = old.recipient
    /\ new.funded = old.funded /\ new.obligation = old.obligation

(* A step that creates nothing keeps the terms of every stream. *)
Kept ==
    /\ streamCount' = streamCount /\ known' = known /\ salts' = salts
    /\ DOMAIN streams' = DOMAIN streams
    /\ \A s \in DOMAIN streams : SameTerms(streams'[s], streams[s])

EscrowInv ==
    /\ EscrowComplete
    /\ held \in Nat /\ donated \in Nat
    /\ \A s \in DOMAIN streams : streams[s].funded \in Nat /\ streams[s].obligation \in Nat

(* The steps of the factory by what they do to the registry *)
LEMMA KeptSteps ==
    ASSUME CountInv, [Next]_vars
    PROVE  \/ \E reqs \in Seq(RequestType) : CreateAll(reqs)
           \/ Kept
<1>0. streams \in [Registered \cup Foreign -> StreamShape]
  BY DEF CountInv, RegistryOK
<1>1. ASSUME UNCHANGED registryVars, streams' = streams
      PROVE  Kept
  BY <1>1 DEF Kept, registryVars, SameTerms
<1>2. ASSUME NEW batch \in SUBSET DOMAIN streams, Cancel(batch), UNCHANGED registryVars
      PROVE  Kept
  <2>1. ASSUME NEW s \in DOMAIN streams
        PROVE  SameTerms(streams'[s], streams[s])
    <3>1. streams[s] \in StreamShape
      BY <1>0
    <3>2. streams'[s] = [streams[s] EXCEPT !.cancelled = streams[s].cancelled \/ s \in batch]
      BY <1>2 DEF Cancel
    <3> QED
      BY <3>1, <3>2 DEF StreamShape, SameTerms
  <2>2. DOMAIN streams' = DOMAIN streams
    BY <1>2 DEF Cancel
  <2> QED
    BY <1>2, <2>1, <2>2 DEF Kept, registryVars
<1>3. CASE \E req \in Requests : create_stream(req)
  <2>1. ASSUME NEW req \in Requests, CreateAll(<<req>>)
        PROVE  \E reqs \in Seq(RequestType) : CreateAll(reqs)
    <3>1. <<req>> \in Seq(RequestType)
      BY RequestAssumption
    <3> QED
      BY <2>1, <3>1
  <2> QED
    BY <1>3, <2>1 DEF create_stream
<1>4. CASE \/ \E reqs \in Batches : batch_create_streams(reqs)
           \/ \E sender \in Parties, reqs \in Batches : create_batch_streams(sender, reqs)
  BY <1>4, RequestAssumption DEF batch_create_streams, create_batch_streams
<1>5. CASE \E caller \in Parties, batch \in SUBSET DOMAIN streams :
              cancel_batch_streams(caller, batch)
  BY <1>2, <1>5 DEF cancel_batch_streams
<1>6. CASE \E s \in DOMAIN streams : StreamCancelled(s)
  <2>1. PICK s \in DOMAIN streams : StreamCancelled(s)
    BY <1>6
  <2>2. {s} \in SUBSET DOMAIN streams
    OBVIOUS
  <2> QED
    BY <1>2, <2>1, <2>2 DEF StreamCancelled
<1>7. ASSUME NEW s \in DOMAIN streams, NEW new,
             streams' = [streams EXCEPT ![s] = new], SameTerms(new, streams[s]),
             UNCHANGED registryVars
      PROVE  Kept
  BY <1>0, <1>7 DEF Kept, registryVars, SameTerms
<1>8. CASE \E s \in DOMAIN streams, d \in Delegates \cup {None} : StreamDelegated(s, d)
  <2>1. PICK s \in DOMAIN streams, d \in Delegates \cup {None} : StreamDelegated(s, d)
    BY <1>8
  <2> DEFINE new == [streams[s] EXCEPT !.operator = d]
  <2>2. SameTerms(new, streams[s])
    BY <1>0 DEF SameTerms, StreamShape
  <2>3. streams' = [streams EXCEPT ![s] = new] /\ UNCHANGED registryVars
    BY <2>1 DEF StreamDelegated
  <2> HIDE DEF new
  <2> QED
    BY <1>7, <2>2, <2>3
<1>9. CASE \E s \in DOMAIN streams, b \in Cancelable : StreamConfigured(s, b)
  <2>1. PICK s \in DOMAIN streams, b \in Cancelable : StreamConfigured(s, b)
    BY <1>9
  <2> DEFINE new == [streams[s] EXCEPT !.cancelable = b]
  <2>2. SameTerms(new, streams[s])
    BY <1>0 DEF SameTerms, StreamShape
  <2>3. streams' = [streams EXCEPT ![s] = new] /\ UNCHANGED registryVars
    BY <2>1 DEF StreamConfigured
  <2> HIDE DEF new
  <2> QED
    BY <1>7, <2>2, <2>3
<1>10. CASE Tick \/ ReadPause \/ pause \/ unpause
  BY <1>1, <1>10 DEF Tick, ReadPause, pause, unpause
<1>11. CASE \E c \in Configs : GovernorChanges(c)
  BY <1>1, <1>11 DEF GovernorChanges
<1>12. CASE \E s \in known : record_cancel(s)
  BY <1>1, <1>12 DEF record_cancel
<1>13. CASE \E hash \in Hashes : upgrade_stream_wasm(hash)
  BY <1>1, <1>13 DEF upgrade_stream_wasm
<1>14. CASE \E party \in Parties, n \in PageCounts :
               migrate_sender_index(party, n) \/ migrate_recipient_index(party, n)
  BY <1>14 DEF migrate_sender_index, migrate_recipient_index, Kept, SameTerms
<1>15. CASE \E amount \in Gifts : Donate(amount)
  BY <1>1, <1>15 DEF Donate
<1>16. CASE UNCHANGED vars
  BY <1>1, <1>16 DEF vars
<1> QED
  BY <1>3, <1>4, <1>5, <1>6, <1>8, <1>9, <1>10, <1>11, <1>12, <1>13, <1>14, <1>15, <1>16
     DEF Next

(* A deposit and its fee are numbers. *)
LEMMA FeeType ==
    ASSUME NEW r \in RequestType, config \in ConfigType
    PROVE  r.deposit \in Int /\ Fee(r) \in Int
<1> DEFINE d == r.deposit
           b == config.fee_bps
<1>1. d \in Int
  BY DEF RequestType
<1>2. b \in Int
  <2>1. b \in FeeRates
    BY DEF ConfigType
  <2> HIDE DEF b
  <2> QED
    BY <2>1 DEF FeeRates
<1>3. Fee(r) = (d * b) \div 10000
  BY DEF Fee
<1> HIDE DEF d, b
<1>4. d * b \in Int
  BY <1>1, <1>2
<1>5. (d * b) \div 10000 \in Int
  BY <1>4
<1> QED
  BY <1>1, <1>3, <1>5 DEF d

(* The transfers of a batch cancel: what comes in is what goes out. *)
LEMMA TransfersCancel ==
    ASSUME NEW reqs \in Seq(RequestType), config \in ConfigType
    PROVE  /\ Total([i \in 1 .. Len(reqs) |-> Fee(reqs[i])]) \in Int
           /\ Total([i \in 1 .. Len(reqs) |-> reqs[i].deposit]) \in Int
           /\ Total([i \in 1 .. Len(reqs) |-> TotalFunding(reqs[i])])
                 = Total([i \in 1 .. Len(reqs) |-> reqs[i].deposit])
                   + Total([i \in 1 .. Len(reqs) |-> Fee(reqs[i])])
<1> DEFINE S == 1 .. Len(reqs)
           fee == [i \in S |-> Fee(reqs[i])]
           deposit == [i \in S |-> reqs[i].deposit]
           funding == [i \in S |-> TotalFunding(reqs[i])]
<1>1. Len(reqs) \in Nat
  BY LenProperties
<1>2. IsFiniteSet(S)
  BY <1>1, FS_Interval
<1>3. ASSUME NEW i \in S
      PROVE  reqs[i].deposit \in Int /\ Fee(reqs[i]) \in Int
  <2>1. reqs[i] \in RequestType
    BY ElementOfSeq
  <2> QED
    BY <2>1, FeeType
<1>4. \A i \in S : /\ fee[i] \in Int /\ deposit[i] \in Int
                   /\ funding[i] = deposit[i] + fee[i]
  BY <1>3 DEF TotalFunding
<1>5. \A f : DOMAIN f = S => Total(f) = SumOf(f, S)
  BY DEF Total, SumOf
<1>6. DOMAIN fee = S /\ DOMAIN deposit = S /\ DOMAIN funding = S
  OBVIOUS
<1> HIDE DEF S, fee, deposit, funding
<1>7. SumAdded(deposit, fee, funding, S)
  BY <1>2, <1>4, SumAdd DEF Added
<1>8. /\ Total(fee) \in Int /\ Total(deposit) \in Int
      /\ Total(funding) = Total(deposit) + Total(fee)
  BY <1>5, <1>6, <1>7 DEF SumAdded
<1> QED
  BY <1>8 DEF S, fee, deposit, funding

LEMMA EscrowInit == Init => EscrowInv
<1> SUFFICES ASSUME Init PROVE EscrowInv
  OBVIOUS
<1>1. PICK history \in Histories :
        /\ known = {} /\ held = 0 /\ donated = 0
        /\ streams = [s \in Foreign \cup (0 .. (Len(history) - 1)) |->
                         IF s \in Foreign
                         THEN NewStream(ForeignSender[s], ForeignSender[s], 0, 0)
                         ELSE NewStream(history[s + 1].sender, history[s + 1].recipient, 0, 0)]
  BY DEF Init
<1>2. \A s \in DOMAIN streams : streams[s].funded = 0 /\ streams[s].obligation = 0
  BY <1>1 DEF NewStream
<1>3. held = donated /\ held \in Nat /\ donated \in Nat /\ known = {}
  BY <1>1
<1> QED
  BY <1>2, <1>3 DEF EscrowInv, EscrowComplete

LEMMA EscrowStep ==
    ASSUME CountInv, EscrowInv, config \in ConfigType \cup {None}, [Next]_vars
    PROVE  EscrowInv'
<1>1. /\ held = donated /\ held \in Nat /\ donated \in Nat
      /\ \A s \in known : streams[s].funded >= streams[s].obligation
      /\ \A s \in DOMAIN streams : streams[s].funded \in Nat /\ streams[s].obligation \in Nat
  BY DEF EscrowInv, EscrowComplete
<1>2. known \subseteq DOMAIN streams
  BY DEF CountInv, RegistryOK
<1>3. ASSUME NEW reqs \in Seq(RequestType), CreateAll(reqs)
      PROVE  EscrowInv'
  <2> DEFINE new == streamCount .. (streamCount + Len(reqs) - 1)
             in == Total([i \in 1 .. Len(reqs) |-> TotalFunding(reqs[i])])
             fees == Total([i \in 1 .. Len(reqs) |-> Fee(reqs[i])])
             deposits == Total([i \in 1 .. Len(reqs) |-> reqs[i].deposit])
  <2>1. config \in ConfigType
    BY <1>3 DEF CreateAll
  <2>2. held' = held /\ donated' = donated
    <3>1. held' = held + in - fees - deposits /\ donated' = donated
      BY <1>3 DEF CreateAll
    <3>2. fees \in Int /\ deposits \in Int /\ in = deposits + fees
      BY <2>1, TransfersCancel
    <3> HIDE DEF in, fees, deposits
    <3> QED
      BY <1>1, <3>1, <3>2
  <2>3. /\ known' = known \cup new
        /\ streams' = [s \in DOMAIN streams \cup new |->
                    IF s \in new
                    THEN NewStream(reqs[s - streamCount + 1].sender,
                                   reqs[s - streamCount + 1].recipient,
                                   reqs[s - streamCount + 1].deposit,
                                   Obligation(reqs[s - streamCount + 1]))
                    ELSE streams[s]]
    BY <1>3 DEF CreateAll
  <2>4. ASSUME NEW s \in new
        PROVE  /\ streams'[s].funded >= streams'[s].obligation
               /\ streams'[s].funded \in Nat /\ streams'[s].obligation \in Nat
    <3> DEFINE i == s - streamCount + 1
    <3>1. i \in 1 .. Len(reqs)
      BY LenProperties DEF CountInv, RegistryOK
    <3>2. reqs[i] \in RequestType /\ validate_stream_request(reqs[i])
      BY <1>3, <3>1, ElementOfSeq DEF CreateAll
    <3>3. streams'[s].funded = reqs[i].deposit /\ streams'[s].obligation = Obligation(reqs[i])
      BY <2>3 DEF NewStream
    <3> HIDE DEF i
    <3>4. /\ reqs[i].deposit \in Int /\ reqs[i].deposit > 0 /\ reqs[i].rate_per_sec \in Nat
          /\ reqs[i].end_time \in Nat /\ reqs[i].start_time \in Nat
          /\ reqs[i].end_time > 0 => reqs[i].end_time > reqs[i].start_time
          /\ reqs[i].deposit >= Obligation(reqs[i])
      BY <3>2 DEF RequestType, validate_stream_request
    <3>5. Obligation(reqs[i]) \in Nat
      BY <3>4 DEF Obligation
    <3> QED
      BY <3>3, <3>4, <3>5
  <2>5. \A s \in DOMAIN streams : s \notin new => streams'[s] = streams[s]
    BY <2>3
  <2>6. DOMAIN streams' = DOMAIN streams \cup new
    BY <2>3
  <2>7. \A s \in known' : streams'[s].funded >= streams'[s].obligation
    BY <1>1, <1>2, <2>3, <2>4, <2>5
  <2>8. \A s \in DOMAIN streams' : streams'[s].funded \in Nat /\ streams'[s].obligation \in Nat
    BY <1>1, <2>4, <2>5, <2>6
  <2> QED
    BY <1>1, <2>2, <2>7, <2>8 DEF EscrowInv, EscrowComplete
<1>4. ASSUME Kept
      PROVE  /\ \A s \in known' : streams'[s].funded >= streams'[s].obligation
             /\ \A s \in DOMAIN streams' :
                   streams'[s].funded \in Nat /\ streams'[s].obligation \in Nat
  BY <1>1, <1>2, <1>4 DEF Kept, SameTerms
<1>5. ASSUME ~\E reqs \in Seq(RequestType) : CreateAll(reqs)
      PROVE  held' = donated' /\ held' \in Nat /\ donated' \in Nat
  <2>1. ASSUME UNCHANGED tokenVars
        PROVE  held' = donated' /\ held' \in Nat /\ donated' \in Nat
    BY <1>1, <2>1 DEF tokenVars
  <2>2. ASSUME NEW amount \in Gifts, Donate(amount)
        PROVE  held' = donated' /\ held' \in Nat /\ donated' \in Nat
    BY <1>1, <2>2, FactoryAssumption DEF Donate
  <2>3. UNCHANGED tokenVars \/ \E amount \in Gifts : Donate(amount)
    <3>1. ASSUME NEW req \in Requests PROVE <<req>> \in Seq(RequestType)
      BY RequestAssumption
    <3>2. \A req \in Requests : ~create_stream(req)
      BY <1>5, <3>1 DEF create_stream
    <3>3. \A reqs \in Batches, sender \in Parties :
             ~batch_create_streams(reqs) /\ ~create_batch_streams(sender, reqs)
      BY <1>5, RequestAssumption DEF batch_create_streams, create_batch_streams
    <3> HIDE <1>5
    <3>4. CASE Tick \/ ReadPause \/ pause \/ unpause \/ UNCHANGED vars
      BY <3>4 DEF Tick, ReadPause, pause, unpause, vars
    <3>5. CASE \/ \E c \in Configs : GovernorChanges(c)
               \/ \E hash \in Hashes : upgrade_stream_wasm(hash)
      BY <3>5 DEF GovernorChanges, upgrade_stream_wasm
    <3>6. CASE \/ \E caller \in Parties, batch \in SUBSET DOMAIN streams :
                     cancel_batch_streams(caller, batch)
               \/ \E s \in known : record_cancel(s)
               \/ \E s \in DOMAIN streams : StreamCancelled(s)
      BY <3>6 DEF cancel_batch_streams, record_cancel, StreamCancelled
    <3>7. CASE \/ \E s \in DOMAIN streams, d \in Delegates \cup {None} : StreamDelegated(s, d)
               \/ \E s \in DOMAIN streams, b \in Cancelable : StreamConfigured(s, b)
      BY <3>7 DEF StreamDelegated, StreamConfigured
    <3>8. CASE \E party \in Parties, n \in PageCounts :
                  migrate_sender_index(party, n) \/ migrate_recipient_index(party, n)
      BY <3>8 DEF migrate_sender_index, migrate_recipient_index
    <3>9. CASE \E reqs \in Batches : batch_create_streams(reqs)
      <4>1. PICK reqs \in Batches : batch_create_streams(reqs)
        BY <3>9
      <4>2. reqs \in Seq(RequestType) /\ CreateAll(reqs)
        BY <4>1, RequestAssumption DEF batch_create_streams
      <4> QED
        BY <1>5, <4>2
    <3> QED
      BY <3>2, <3>3, <3>4, <3>5, <3>6, <3>7, <3>8, <3>9 DEF Next
  <2> QED
    BY <2>1, <2>2, <2>3
<1> QED
  BY <1>3, <1>4, <1>5, KeptSteps DEF EscrowInv, EscrowComplete

(* The governor's answer is a configuration or nothing. *)
ConfigOK == config \in ConfigType \cup {None}

LEMMA ConfigStep ==
    ASSUME ConfigOK, [Next]_vars
    PROVE  ConfigOK'
<1>1. ASSUME config' = config PROVE ConfigOK'
  BY <1>1 DEF ConfigOK
<1>2. CASE \E c \in Configs : GovernorChanges(c)
  BY <1>2, FactoryAssumption DEF GovernorChanges, ConfigOK
<1>3. CASE \/ \E req \in Requests : create_stream(req)
           \/ \E reqs \in Batches : batch_create_streams(reqs)
           \/ \E sender \in Parties, reqs \in Batches : create_batch_streams(sender, reqs)
  BY <1>1, <1>3 DEF create_stream, batch_create_streams, create_batch_streams, CreateAll,
                    governorVars
<1> USE DEF governorVars
<1>4. CASE Tick \/ ReadPause \/ pause \/ unpause \/ UNCHANGED vars
  BY <1>1, <1>4 DEF Tick, ReadPause, pause, unpause, vars
<1>5. CASE \E hash \in Hashes : upgrade_stream_wasm(hash)
  BY <1>1, <1>5 DEF upgrade_stream_wasm
<1>6. CASE \/ \E caller \in Parties, batch \in SUBSET DOMAIN streams :
                 cancel_batch_streams(caller, batch)
           \/ \E s \in known : record_cancel(s)
           \/ \E s \in DOMAIN streams : StreamCancelled(s)
  BY <1>1, <1>6 DEF cancel_batch_streams, record_cancel, StreamCancelled
<1>7. CASE \/ \E s \in DOMAIN streams, d \in Delegates \cup {None} : StreamDelegated(s, d)
           \/ \E s \in DOMAIN streams, b \in Cancelable : StreamConfigured(s, b)
  BY <1>1, <1>7 DEF StreamDelegated, StreamConfigured
<1>8. CASE \E party \in Parties, n \in PageCounts :
              migrate_sender_index(party, n) \/ migrate_recipient_index(party, n)
  BY <1>1, <1>8 DEF migrate_sender_index, migrate_recipient_index
<1>9. CASE \E amount \in Gifts : Donate(amount)
  BY <1>1, <1>9 DEF Donate
<1> QED
  BY <1>2, <1>3, <1>4, <1>5, <1>6, <1>7, <1>8, <1>9 DEF Next

(* The token books, with the types they need, hold in every reachable state. *)
THEOREM EscrowInvariance == Spec => [](CountInv /\ ConfigOK /\ EscrowInv)
<1>1. Init => ConfigOK
  BY FactoryAssumption DEF Init, ConfigOK
<1>2. CountInv /\ ConfigOK /\ EscrowInv /\ [Next]_vars => ConfigOK' /\ EscrowInv'
  BY ConfigStep, EscrowStep DEF ConfigOK
<1> QED
  BY <1>1, <1>2, EscrowInit, CountInvariance, PTL DEF Spec

(***************************************************************************)
(* The deposit arrives whole, for batches of any length and every fee: the *)
(* factory keeps no token of a creation and spends none of its own, and    *)
(* every stream it deployed was funded for what it promises.               *)
(***************************************************************************)
THEOREM EscrowHolds == Spec => []EscrowComplete
<1>1. EscrowInv => EscrowComplete
  BY DEF EscrowInv
<1> QED
  BY <1>1, EscrowInvariance, PTL

-----------------------------------------------------------------------------
(***************************************************************************)
(* The listings: every party's index represents the ids of its streams.    *)
(***************************************************************************)

(* f holds the ids of a party among the first k entries of a history. *)
IdChain(h, field, p, n, f) ==
    /\ f = [k \in 0 .. n |-> f[k]] /\ f[0] = <<>>
    /\ \A k \in 1 .. n : f[k] = IF h[k][field] = p THEN Append(f[k - 1], k - 1) ELSE f[k - 1]

LEMMA ChainExists ==
    ASSUME NEW h, NEW field, NEW p, NEW n \in Nat
    PROVE  \E f : IdChain(h, field, p, n, f)
<1> DEFINE A == {k \in Nat : \E f : IdChain(h, field, p, k, f)}
<1>1. 0 \in A
  <2>1. IdChain(h, field, p, 0, [k \in 0 .. 0 |-> <<>>])
    BY DEF IdChain
  <2> QED
    BY <2>1
<1>2. ASSUME NEW k \in 0 .. (n - 1), k \in A
      PROVE  k + 1 \in A
  <2>1. PICK f : IdChain(h, field, p, k, f)
    BY <1>2
  <2> DEFINE last == IF h[k + 1][field] = p THEN Append(f[k], k) ELSE f[k]
             g == [j \in 0 .. (k + 1) |-> IF j <= k THEN f[j] ELSE last]
  <2> HIDE DEF last
  <2>2. ASSUME NEW j \in 1 .. (k + 1)
        PROVE  g[j] = IF h[j][field] = p THEN Append(g[j - 1], j - 1) ELSE g[j - 1]
    <3>1. CASE j <= k
      <4>1. j \in 1 .. k /\ g[j] = f[j] /\ g[j - 1] = f[j - 1]
        BY <3>1
      <4> QED
        BY <2>1, <4>1 DEF IdChain
    <3>2. CASE j = k + 1
      <4>1. g[j] = last /\ j - 1 = k /\ g[j - 1] = f[k]
        BY <3>2
      <4> QED
        BY <3>2, <4>1 DEF last
    <3> QED
      BY <3>1, <3>2
  <2>3. g = [j \in 0 .. (k + 1) |-> g[j]] /\ g[0] = <<>>
    BY <2>1 DEF IdChain
  <2>4. k + 1 \in Nat
    OBVIOUS
  <2> HIDE DEF g
  <2>5. IdChain(h, field, p, k + 1, g)
    BY <2>2, <2>3 DEF IdChain
  <2> QED
    BY <2>4, <2>5
<1> HIDE DEF A
<1>3. 0 .. n \subseteq A
  BY <1>1, <1>2, RangeInduction
<1> QED
  BY <1>3 DEF A

(* IdsOf is the last element of the chain. *)
LEMMA IdsOfChain ==
    ASSUME NEW h, NEW field, NEW p, Len(h) \in Nat
    PROVE  \E f : IdChain(h, field, p, Len(h), f) /\ IdsOf(h, field, p) = f[Len(h)]
<1> DEFINE n == Len(h)
           Body(f) == [k \in 0 .. n |->
                         IF k = 0 THEN <<>>
                         ELSE IF h[k][field] = p THEN Append(f[k - 1], k - 1)
                         ELSE f[k - 1]]
           ids == CHOOSE f : f = Body(f)
<1>1. IdsOf(h, field, p) = ids[n]
  BY DEF IdsOf
<1>2. PICK f : IdChain(h, field, p, n, f)
  BY ChainExists
<1>3. f = Body(f)
  <2>1. \A k \in 0 .. n : f[k] = IF k = 0 THEN <<>>
                                 ELSE IF h[k][field] = p THEN Append(f[k - 1], k - 1)
                                 ELSE f[k - 1]
    <3>1. n \in Nat
      OBVIOUS
    <3> HIDE DEF n
    <3>2. ASSUME NEW k \in 0 .. n, k # 0
          PROVE  f[k] = IF h[k][field] = p THEN Append(f[k - 1], k - 1) ELSE f[k - 1]
      <4>1. k \in 1 .. n
        BY <3>1, <3>2
      <4> QED
        BY <1>2, <4>1 DEF IdChain
    <3>3. f[0] = <<>>
      BY <1>2 DEF IdChain
    <3> QED
      BY <3>2, <3>3
  <2>2. f = [k \in 0 .. n |-> f[k]]
    BY <1>2 DEF IdChain
  <2> QED
    BY <2>1, <2>2
<1>4. ids = Body(ids)
  <2> HIDE DEF Body
  <2> QED
    BY <1>3, Zenon
<1>5. IdChain(h, field, p, n, ids)
  <2> HIDE DEF ids
  <2>1. n \in Nat
    OBVIOUS
  <2> HIDE DEF n
  <2>2. ids = [k \in 0 .. n |-> ids[k]] /\ ids[0] = <<>>
    <3>1. 0 \in 0 .. n
      BY <2>1
    <3> QED
      BY <1>4, <3>1
  <2>3. ASSUME NEW k \in 1 .. n
        PROVE  ids[k] = IF h[k][field] = p THEN Append(ids[k - 1], k - 1) ELSE ids[k - 1]
    <3>1. k \in 0 .. n /\ k # 0
      BY <2>1
    <3> QED
      BY <1>4, <3>1
  <2> QED
    BY <2>2, <2>3 DEF IdChain
<1> HIDE DEF ids
<1> QED
  BY <1>1, <1>5

(* The ids of a prefix do not depend on what follows. *)
LEMMA ChainPrefix ==
    ASSUME NEW h, NEW h2, NEW field, NEW p, NEW n \in Nat, NEW n2 \in Nat, n <= n2,
           NEW f, IdChain(h, field, p, n, f), NEW g, IdChain(h2, field, p, n2, g),
           \A k \in 1 .. n : h2[k][field] = h[k][field]
    PROVE  g[n] = f[n]
<1> DEFINE A == {k \in Nat : g[k] = f[k]}
<1>1. 0 \in A
  BY DEF IdChain
<1>2. ASSUME NEW k \in 0 .. (n - 1), k \in A
      PROVE  k + 1 \in A
  <2> DEFINE j == k + 1
  <2>1. j \in 1 .. n /\ j \in 1 .. n2 /\ j - 1 = k /\ j \in Nat
    OBVIOUS
  <2>2. g[k] = f[k]
    BY <1>2
  <2> HIDE DEF j
  <2>3. f[j] = IF h[j][field] = p THEN Append(f[k], k) ELSE f[k]
    BY <2>1 DEF IdChain
  <2>4. g[j] = IF h2[j][field] = p THEN Append(g[k], k) ELSE g[k]
    BY <2>1 DEF IdChain
  <2>5. g[j] = f[j]
    BY <2>1, <2>2, <2>3, <2>4
  <2> QED
    BY <2>1, <2>5 DEF j
<1> HIDE DEF A
<1>3. 0 .. n \subseteq A
  BY <1>1, <1>2, RangeInduction
<1> QED
  BY <1>3 DEF A

LEMMA IdsOfSame ==
    ASSUME NEW h, NEW h2, NEW field, NEW p, Len(h) \in Nat, Len(h2) = Len(h),
           \A k \in 1 .. Len(h) : h2[k][field] = h[k][field]
    PROVE  IdsOf(h2, field, p) = IdsOf(h, field, p)
<1> DEFINE n == Len(h)
<1>1. PICK f : IdChain(h, field, p, n, f) /\ IdsOf(h, field, p) = f[n]
  BY IdsOfChain
<1>2. PICK g : IdChain(h2, field, p, n, g) /\ IdsOf(h2, field, p) = g[n]
  BY IdsOfChain
<1>3. n \in Nat /\ n <= n
  OBVIOUS
<1> HIDE DEF n
<1>4. g[n] = f[n]
  <2>1. \A k \in 1 .. n : h2[k][field] = h[k][field]
    BY DEF n
  <2> QED
    BY <1>1, <1>2, <1>3, <2>1, ChainPrefix
<1> QED
  BY <1>1, <1>2, <1>4

(* The ids are registered, and no more than there are streams. *)
LEMMA ChainType ==
    ASSUME NEW h, NEW field, NEW p, NEW n \in Nat, NEW f, IdChain(h, field, p, n, f)
    PROVE  \A k \in 0 .. n : f[k] \in Seq(0 .. (n - 1)) /\ Len(f[k]) <= k
<1> DEFINE R == 0 .. (n - 1)
           A == {k \in Nat : f[k] \in Seq(R) /\ Len(f[k]) <= k}
<1>1. 0 \in A
  <2>1. f[0] = <<>> /\ <<>> \in Seq(R) /\ Len(<<>>) = 0
    BY EmptySeq DEF IdChain
  <2> HIDE DEF R
  <2>2. f[0] \in Seq(R) /\ Len(f[0]) = 0
    BY <2>1
  <2> QED
    BY <2>2
<1>2. ASSUME NEW k \in 0 .. (n - 1), k \in A
      PROVE  k + 1 \in A
  <2> DEFINE j == k + 1
  <2>1. j \in 1 .. n /\ j - 1 = k /\ j \in Nat /\ k \in R
    OBVIOUS
  <2>2. f[k] \in Seq(R) /\ Len(f[k]) <= k /\ Len(f[k]) \in Nat
    BY <1>2, LenProperties
  <2> HIDE DEF j, R
  <2>3. f[j] = IF h[j][field] = p THEN Append(f[k], k) ELSE f[k]
    BY <2>1 DEF IdChain
  <2>4. Append(f[k], k) \in Seq(R) /\ Len(Append(f[k], k)) = Len(f[k]) + 1
    BY <2>1, <2>2, AppendProperties
  <2>5. f[j] \in Seq(R) /\ Len(f[j]) <= j
    <3>1. CASE h[j][field] = p
      <4>1. Len(f[k]) + 1 <= j
        BY <2>2 DEF j
      <4> QED
        BY <2>3, <2>4, <3>1, <4>1
    <3>2. CASE h[j][field] # p
      <4>1. Len(f[k]) <= j
        BY <2>2 DEF j
      <4> QED
        BY <2>2, <2>3, <3>2, <4>1
    <3> QED
      BY <3>1, <3>2
  <2> QED
    BY <2>1, <2>5 DEF j
<1> HIDE DEF A
<1>3. 0 .. n \subseteq A
  BY <1>1, <1>2, RangeInduction
<1> QED
  BY <1>3 DEF A

(* a holds the index after each request of a batch. *)
AppendChain(index, field, reqs, n, a) ==
    /\ a = [i \in 0 .. n |-> a[i]] /\ a[0] = index
    /\ \A i \in 1 .. n :
          a[i] = [a[i - 1] EXCEPT ![reqs[i][field]] = append_index_entry(@, streamCount + i - 1)]

LEMMA AppendChainExists ==
    ASSUME NEW index, NEW field, NEW reqs, NEW n \in Nat
    PROVE  \E a : AppendChain(index, field, reqs, n, a)
<1> DEFINE A == {k \in Nat : \E a : AppendChain(index, field, reqs, k, a)}
<1>1. 0 \in A
  <2>1. AppendChain(index, field, reqs, 0, [i \in 0 .. 0 |-> index])
    BY DEF AppendChain
  <2> QED
    BY <2>1
<1>2. ASSUME NEW k \in 0 .. (n - 1), k \in A
      PROVE  k + 1 \in A
  <2>1. PICK a : AppendChain(index, field, reqs, k, a)
    BY <1>2
  <2> DEFINE last == [a[k] EXCEPT
                         ![reqs[k + 1][field]] = append_index_entry(@, streamCount + (k + 1) - 1)]
             b == [j \in 0 .. (k + 1) |-> IF j <= k THEN a[j] ELSE last]
  <2> HIDE DEF last
  <2>2. ASSUME NEW j \in 1 .. (k + 1)
        PROVE  b[j] = [b[j - 1] EXCEPT
                          ![reqs[j][field]] = append_index_entry(@, streamCount + j - 1)]
    <3>1. CASE j <= k
      <4>1. j \in 1 .. k /\ b[j] = a[j] /\ b[j - 1] = a[j - 1]
        BY <3>1
      <4> HIDE DEF b
      <4>2. a[j] = [a[j - 1] EXCEPT
                       ![reqs[j][field]] = append_index_entry(@, streamCount + j - 1)]
        BY <2>1, <4>1 DEF AppendChain
      <4> QED
        BY <4>1, <4>2
    <3>2. CASE j = k + 1
      <4>1. b[j] = last /\ j - 1 = k /\ b[j - 1] = a[k]
        BY <3>2
      <4> HIDE DEF b
      <4> QED
        BY <3>2, <4>1 DEF last
    <3> QED
      BY <3>1, <3>2
  <2>3. b = [j \in 0 .. (k + 1) |-> b[j]] /\ b[0] = index
    BY <2>1 DEF AppendChain
  <2>4. k + 1 \in Nat
    OBVIOUS
  <2> HIDE DEF b
  <2>5. AppendChain(index, field, reqs, k + 1, b)
    BY <2>2, <2>3 DEF AppendChain
  <2> QED
    BY <2>4, <2>5
<1> HIDE DEF A
<1>3. 0 .. n \subseteq A
  BY <1>1, <1>2, RangeInduction
<1> QED
  BY <1>3 DEF A

(* AppendAll is the last element of the chain. *)
LEMMA AppendAllChain ==
    ASSUME NEW index, NEW field, NEW reqs, Len(reqs) \in Nat
    PROVE  \E a : /\ AppendChain(index, field, reqs, Len(reqs), a)
                  /\ AppendAll(index, field, reqs) = a[Len(reqs)]
<1> DEFINE n == Len(reqs)
           Entry(a, i) == IF i = 0 THEN index
                          ELSE [a[i - 1] EXCEPT
                                   ![reqs[i][field]] = append_index_entry(@, streamCount + i - 1)]
           Body(a) == [i \in 0 .. n |-> Entry(a, i)]
           after == CHOOSE a : a = Body(a)
<1>0. n \in Nat /\ 0 \in 0 .. n
  OBVIOUS
<1>1. AppendAll(index, field, reqs) = after[n]
  BY DEF AppendAll
<1>2. PICK a : AppendChain(index, field, reqs, n, a)
  BY AppendChainExists
<1> HIDE DEF n
<1>3. a = Body(a)
  <2>1. ASSUME NEW i \in 0 .. n
        PROVE  a[i] = Entry(a, i)
    <3>1. CASE i = 0
      BY <1>2, <3>1 DEF AppendChain
    <3>2. CASE i # 0
      <4>1. i \in 1 .. n
        BY <1>0, <3>2
      <4> QED
        BY <1>2, <3>2, <4>1 DEF AppendChain
    <3> QED
      BY <3>1, <3>2
  <2>2. a = [i \in 0 .. n |-> a[i]]
    BY <1>2 DEF AppendChain
  <2> HIDE DEF Entry
  <2> QED
    BY <2>1, <2>2
<1>4. after = Body(after)
  <2> HIDE DEF Body
  <2> QED
    BY <1>3, Zenon
<1>5. AppendChain(index, field, reqs, n, after)
  <2> HIDE DEF after
  <2>1. \A i \in 0 .. n : after[i] = Entry(after, i)
    <3> HIDE DEF Entry
    <3> QED
      BY <1>4
  <2>2. after = [i \in 0 .. n |-> after[i]]
    <3> HIDE DEF Entry
    <3> QED
      BY <1>4, <2>1
  <2>3. after[0] = index
    BY <1>0, <2>1
  <2>4. ASSUME NEW i \in 1 .. n
        PROVE  after[i] = [after[i - 1] EXCEPT
                              ![reqs[i][field]] = append_index_entry(@, streamCount + i - 1)]
    <3>1. i \in 0 .. n /\ i # 0
      BY <1>0
    <3> QED
      BY <2>1, <3>1
  <2> QED
    BY <2>2, <2>3, <2>4 DEF AppendChain
<1> HIDE DEF after
<1> QED
  BY <1>1, <1>5 DEF n

LEMMA Shifted ==
    ASSUME NEW c \in Nat, NEW n \in Nat, NEW k \in 0 .. (n - 1)
    PROVE  /\ k + 1 \in 1 .. n /\ k + 1 \in Nat /\ (k + 1) - 1 = k
           /\ c + (k + 1) - 1 = c + k /\ c + k \in Nat
           /\ c + (k + 1) \in 1 .. (c + n) /\ c + k \in 0 .. (c + n) /\ (c + (k + 1)) - 1 = c + k
OBVIOUS

(* An index with an entry for every party *)
ByParty(index) == index = [q \in Parties |-> index[q]]

(* The requests of a batch are the entries of h behind the streams that exist. *)
BatchIn(h, field, reqs) ==
    /\ Len(reqs) \in Nat
    /\ \A i \in 1 .. Len(reqs) : reqs[i][field] \in Parties /\ h[streamCount + i][field] = reqs[i][field]

LEMMA AppendAllByParty ==
    ASSUME NEW field, NEW reqs, NEW h, BatchIn(h, field, reqs), NEW index, ByParty(index)
    PROVE  ByParty(AppendAll(index, field, reqs))
<1> DEFINE n == Len(reqs)
<1>1. n \in Nat /\ \A i \in 1 .. n : reqs[i][field] \in Parties
  BY DEF BatchIn
<1>2. PICK a : AppendChain(index, field, reqs, n, a) /\ AppendAll(index, field, reqs) = a[n]
  BY <1>1, AppendAllChain
<1> HIDE DEF n
<1> DEFINE A == {i \in Nat : ByParty(a[i])}
<1>3. 0 \in A
  BY <1>2 DEF AppendChain
<1>4. ASSUME NEW k \in 0 .. (n - 1), k \in A
      PROVE  k + 1 \in A
  <2> DEFINE i == k + 1
             who == reqs[i][field]
             old == a[k]
             entry == append_index_entry(old[who], streamCount + i - 1)
  <2>1. i \in 1 .. n /\ i \in Nat /\ i - 1 = k
    BY <1>1
  <2>2. old = [q \in Parties |-> old[q]] /\ who \in Parties
    BY <1>1, <1>4, <2>1 DEF ByParty
  <2>3. a[i] = [old EXCEPT ![who] = entry]
    <3> HIDE DEF i
    <3>1. a[i] = [a[i - 1] EXCEPT ![reqs[i][field]] = append_index_entry(@, streamCount + i - 1)]
      BY <1>2, <2>1 DEF AppendChain
    <3> QED
      BY <2>1, <3>1
  <2> HIDE DEF i, who, old, entry
  <2>4. a[i] = [q \in Parties |-> a[i][q]]
    BY <2>2, <2>3
  <2> QED
    BY <2>1, <2>4 DEF i, ByParty
<1> HIDE DEF A
<1>5. 0 .. n \subseteq A
  BY <1>1, <1>3, <1>4, RangeInduction
<1> QED
  BY <1>1, <1>2, <1>5 DEF A

(* A batch appends to a party's list the ids of its own streams. *)
LEMMA AppendAllRepresents ==
    ASSUME streamCount \in Nat, NEW field, NEW reqs, NEW h, BatchIn(h, field, reqs),
           NEW index, ByParty(index), NEW p \in Parties,
           NEW g, IdChain(h, field, p, streamCount + Len(reqs), g),
           Represents(index[p], g[streamCount])
    PROVE  Represents(AppendAll(index, field, reqs)[p], g[streamCount + Len(reqs)])
<1> DEFINE n == Len(reqs)
           c == streamCount
<1>0. n \in Nat
  BY DEF BatchIn
<1>1. PICK a : AppendChain(index, field, reqs, n, a) /\ AppendAll(index, field, reqs) = a[n]
  BY <1>0, AppendAllChain
<1>2. n \in Nat /\ c \in Nat /\ c + n \in Nat
  BY <1>0
<1>3. /\ \A i \in 1 .. n : reqs[i][field] \in Parties /\ h[c + i][field] = reqs[i][field]
      /\ IdChain(h, field, p, c + n, g) /\ Represents(index[p], g[c])
      /\ index = [q \in Parties |-> index[q]]
  BY DEF BatchIn, ByParty
<1> HIDE DEF n
<1>4. \A k \in 0 .. (c + n) : g[k] \in Seq(0 .. (c + n - 1))
  BY <1>2, <1>3, ChainType
<1> DEFINE A == {i \in Nat : a[i] = [q \in Parties |-> a[i][q]] /\ Represents(a[i][p], g[c + i])}
<1>5. 0 \in A
  <2>1. a[0] = index /\ c + 0 = c
    BY <1>1, <1>2 DEF AppendChain
  <2> QED
    BY <1>3, <2>1
<1>6. ASSUME NEW k \in 0 .. (n - 1), k \in A
      PROVE  k + 1 \in A
  <2> DEFINE i == k + 1
             who == reqs[i][field]
             old == a[k]
  <2>1. i \in 1 .. n /\ i \in Nat /\ i - 1 = k /\ c + i - 1 = c + k /\ c + k \in Nat
        /\ c + i \in 1 .. (c + n) /\ c + k \in 0 .. (c + n) /\ (c + i) - 1 = c + k
    BY <1>2, Shifted
  <2>2. old = [q \in Parties |-> old[q]] /\ Represents(old[p], g[c + k]) /\ who \in Parties
    BY <1>3, <1>6, <2>1
  <2>3. a[i] = [old EXCEPT ![who] = append_index_entry(old[who], c + k)]
    <3> HIDE DEF i
    <3>1. a[i] = [a[i - 1] EXCEPT ![reqs[i][field]] = append_index_entry(@, streamCount + i - 1)]
      BY <1>1, <2>1 DEF AppendChain
    <3> QED
      BY <2>1, <3>1
  <2>4. g[c + i] = IF h[c + i][field] = p THEN Append(g[c + k], c + k) ELSE g[c + k]
    <3> DEFINE j == c + i
    <3>1. j \in 1 .. (c + n) /\ j - 1 = c + k
      BY <2>1
    <3> HIDE DEF j
    <3>2. g[j] = IF h[j][field] = p THEN Append(g[j - 1], j - 1) ELSE g[j - 1]
      BY <1>3, <3>1 DEF IdChain
    <3> QED
      BY <3>1, <3>2 DEF j
  <2>5. h[c + i][field] = who
    BY <1>3, <2>1
  <2> HIDE DEF i, who, old
  <2>6. a[i] = [q \in Parties |-> a[i][q]]
    BY <2>2, <2>3
  <2>7. g[c + k] \in Seq(Nat)
    <3>1. g[c + k] \in Seq(0 .. (c + n - 1))
      BY <1>4, <2>1
    <3>2. 0 .. (c + n - 1) \subseteq Nat
      OBVIOUS
    <3>3. Len(g[c + k]) \in Nat /\ g[c + k] \in [1 .. Len(g[c + k]) -> 0 .. (c + n - 1)]
      BY <3>1, LenProperties
    <3> DEFINE s == g[c + k]
    <3>4. s \in [1 .. Len(s) -> Nat]
      BY <3>2, <3>3
    <3> HIDE DEF s
    <3> QED
      BY <3>3, <3>4 DEF s
  <2>8. Represents(a[i][p], g[c + i])
    <3>1. CASE who = p
      <4>1. a[i][p] = append_index_entry(old[p], c + k)
        BY <2>2, <2>3, <3>1
      <4>2. g[c + i] = Append(g[c + k], c + k)
        BY <2>4, <2>5, <3>1
      <4>3. Represents(append_index_entry(old[p], c + k), Append(g[c + k], c + k))
        BY <2>1, <2>2, <2>7, AppendStep
      <4> QED
        BY <4>1, <4>2, <4>3
    <3>2. CASE who # p
      <4>1. a[i][p] = old[p] /\ g[c + i] = g[c + k]
        BY <2>2, <2>3, <2>4, <2>5, <3>2
      <4> QED
        BY <2>2, <4>1
    <3> QED
      BY <3>1, <3>2
  <2> QED
    BY <2>1, <2>6, <2>8 DEF i
<1> HIDE DEF A
<1>7. 0 .. n \subseteq A
  BY <1>2, <1>5, <1>6, RangeInduction
<1>8. n \in A
  BY <1>2, <1>7
<1> QED
  BY <1>1, <1>8 DEF A, n

(* The streams of the factory, in creation order *)
Created == [i \in 1 .. streamCount |-> streams[i - 1]]

Listed(index, field) ==
    /\ index = [p \in Parties |-> index[p]]
    /\ \A p \in Parties : Represents(index[p], IdsOf(Created, field, p))

IndexInv == Listed(bySender, "sender") /\ Listed(byRecipient, "recipient")

LEMMA LenOfFunction ==
    ASSUME NEW n \in Nat, NEW h, h = [i \in 1 .. n |-> h[i]]
    PROVE  Len(h) = n
OBVIOUS

LEMMA IndexInit == Init => IndexInv
<1> SUFFICES ASSUME Init PROVE IndexInv
  OBVIOUS
<1>1. PICK history \in Histories :
        /\ streamCount = Len(history)
        /\ bySender = [p \in Parties |-> LegacyIndex(IdsOf(history, "sender", p))]
        /\ byRecipient = [p \in Parties |-> LegacyIndex(IdsOf(history, "recipient", p))]
        /\ streams = [s \in Foreign \cup (0 .. (Len(history) - 1)) |->
                         IF s \in Foreign
                         THEN NewStream(ForeignSender[s], ForeignSender[s], 0, 0)
                         ELSE NewStream(history[s + 1].sender, history[s + 1].recipient, 0, 0)]
  BY DEF Init
<1> DEFINE n == Len(history)
<1>2. n \in Nat /\ streamCount = n
  BY <1>1, LenProperties, HistoryAssumption
<1> HIDE DEF n
<1>3. ASSUME NEW field \in {"sender", "recipient"}, NEW k \in 1 .. n
      PROVE  Created[k][field] = history[k][field]
  <2> DEFINE s == k - 1
  <2>1. s \in 0 .. (n - 1) /\ s \notin Foreign /\ s + 1 = k
    BY <1>2, ForeignAssumption
  <2>2. Created[k] = streams[s]
    BY <1>2 DEF Created
  <2> HIDE DEF s
  <2>3. streams[s] = NewStream(history[k].sender, history[k].recipient, 0, 0)
    BY <1>1, <2>1 DEF n
  <2> QED
    BY <2>2, <2>3 DEF NewStream
<1>4. Len(Created) = n
  BY <1>2, LenOfFunction DEF Created
<1>5. ASSUME NEW field \in {"sender", "recipient"}, NEW p \in Parties
      PROVE  IdsOf(Created, field, p) = IdsOf(history, field, p)
  <2>1. Len(history) \in Nat /\ Len(Created) = Len(history)
    BY <1>2, <1>4 DEF n
  <2>2. \A k \in 1 .. Len(history) : Created[k][field] = history[k][field]
    BY <1>3 DEF n
  <2> QED
    BY <2>1, <2>2, IdsOfSame
<1> HIDE DEF Created
<1>6. Listed(bySender, "sender")
  <2>1. bySender = [p \in Parties |-> bySender[p]]
    BY <1>1
  <2>2. \A p \in Parties : bySender[p] = LegacyIndex(IdsOf(Created, "sender", p))
    BY <1>1, <1>5
  <2> QED
    BY <2>1, <2>2 DEF Listed, Represents
<1>7. Listed(byRecipient, "recipient")
  <2>1. byRecipient = [p \in Parties |-> byRecipient[p]]
    BY <1>1
  <2>2. \A p \in Parties : byRecipient[p] = LegacyIndex(IdsOf(Created, "recipient", p))
    BY <1>1, <1>5
  <2> QED
    BY <2>1, <2>2 DEF Listed, Represents
<1> QED
  BY <1>6, <1>7 DEF IndexInv

(* The ids of a party, whatever the streams have become since *)
LEMMA CreatedIds ==
    ASSUME streamCount \in Nat, NEW field, NEW p
    PROVE  /\ IdsOf(Created, field, p) \in Seq(Registered)
           /\ IdsOf(Created, field, p) \in Seq(Nat)
           /\ Len(IdsOf(Created, field, p)) <= streamCount
<1> DEFINE ids == IdsOf(Created, field, p)
<1>1. Len(Created) = streamCount
  BY LenOfFunction DEF Created
<1>2. PICK f : IdChain(Created, field, p, streamCount, f) /\ ids = f[streamCount]
  BY <1>1, IdsOfChain
<1> HIDE DEF ids
<1>3. ids \in Seq(0 .. (streamCount - 1)) /\ Len(ids) <= streamCount
  <2>1. streamCount \in 0 .. streamCount
    OBVIOUS
  <2> QED
    BY <1>2, <2>1, ChainType
<1>4. ids \in Seq(Registered)
  BY <1>3 DEF Registered
<1>5. ids \in Seq(Nat)
  <2>1. Len(ids) \in Nat /\ ids \in [1 .. Len(ids) -> 0 .. (streamCount - 1)]
    BY <1>3, LenProperties
  <2>2. ids \in [1 .. Len(ids) -> Nat]
    BY <2>1
  <2> QED
    BY <2>1, <2>2
<1> QED
  BY <1>3, <1>4, <1>5 DEF ids

(* A step that keeps the terms of the streams keeps every party's ids. *)
LEMMA KeptIds ==
    ASSUME CountInv, Kept, NEW field \in {"sender", "recipient"}, NEW p
    PROVE  IdsOf(Created', field, p) = IdsOf(Created, field, p)
<1>1. streamCount \in Nat /\ streamCount' = streamCount /\ Registered \subseteq DOMAIN streams
  BY DEF CountInv, RegistryOK, Kept
<1>2. ASSUME NEW k \in 1 .. streamCount
      PROVE  Created'[k][field] = Created[k][field]
  <2>1. Created'[k] = streams'[k - 1] /\ Created[k] = streams[k - 1] /\ k - 1 \in Registered
    BY <1>1 DEF Created, Registered
  <2>2. SameTerms(streams'[k - 1], streams[k - 1])
    BY <1>1, <2>1 DEF Kept
  <2> QED
    BY <2>1, <2>2 DEF SameTerms
<1>3. Len(Created) = streamCount
  BY <1>1, LenOfFunction DEF Created
<1>4. Len(Created') = streamCount
  <2>1. Created' = [i \in 1 .. streamCount |-> Created'[i]]
    BY <1>1 DEF Created
  <2> QED
    BY <1>1, <2>1, LenOfFunction
<1> QED
  BY <1>1, <1>2, <1>3, <1>4, IdsOfSame

(* A migration call of one party *)
MigratedAt(new, index, party, n) == new = [index EXCEPT ![party] = migrate_legacy_index(@, n)]

LEMMA ListedMigrated ==
    ASSUME CountInv, Kept, NEW field \in {"sender", "recipient"}, NEW index, NEW new,
           Listed(index, field), NEW party \in Parties, NEW n \in PageCounts,
           MigratedAt(new, index, party, n)
    PROVE  /\ new = [p \in Parties |-> new[p]]
           /\ \A p \in Parties : Represents(new[p], IdsOf(Created', field, p))
<1>1. n \in Nat /\ streamCount \in Nat
  BY FactoryAssumption DEF CountInv, RegistryOK
<1>2. index = [p \in Parties |-> index[p]]
  BY DEF Listed
<1>3. ASSUME NEW p \in Parties
      PROVE  Represents(new[p], IdsOf(Created', field, p))
  <2> DEFINE ids == IdsOf(Created, field, p)
  <2>1. Represents(index[p], ids) /\ ids \in Seq(Nat) /\ IdsOf(Created', field, p) = ids
    BY <1>1, CreatedIds, KeptIds DEF Listed
  <2> HIDE DEF ids
  <2>2. Represents(migrate_legacy_index(index[p], n), ids)
    BY <1>1, <2>1, MigrateStep
  <2>3. new[p] \in {index[p], migrate_legacy_index(index[p], n)}
    BY <1>2 DEF MigratedAt
  <2> QED
    BY <2>1, <2>2, <2>3
<1>4. new = [p \in Parties |-> new[p]]
  BY <1>2 DEF MigratedAt
<1> QED
  BY <1>3, <1>4

(* The creation of a batch *)
LEMMA ListedCreated ==
    ASSUME CountInv, NEW reqs \in Seq(RequestType), CreateAll(reqs),
           NEW field \in {"sender", "recipient"}, NEW index, Listed(index, field),
           NEW new, new = AppendAll(index, field, reqs)
    PROVE  /\ new = [p \in Parties |-> new[p]]
           /\ \A p \in Parties : Represents(new[p], IdsOf(Created', field, p))
<1> DEFINE L == Len(reqs)
           fresh == streamCount .. (streamCount + Len(reqs) - 1)
<1>1. streamCount \in Nat /\ L \in Nat /\ Registered \subseteq DOMAIN streams
  BY LenProperties DEF CountInv, RegistryOK
<1>2. streamCount' = streamCount + L
      /\ streams' = [s \in DOMAIN streams \cup fresh |->
                    IF s \in fresh
                    THEN NewStream(reqs[s - streamCount + 1].sender,
                                   reqs[s - streamCount + 1].recipient,
                                   reqs[s - streamCount + 1].deposit,
                                   Obligation(reqs[s - streamCount + 1]))
                    ELSE streams[s]]
  BY DEF CreateAll
<1>3. \A i \in 1 .. L : reqs[i][field] \in Parties
  <2>1. ASSUME NEW i \in 1 .. L
        PROVE  reqs[i].sender \in Parties /\ reqs[i].recipient \in Parties
    <3>1. reqs[i] \in RequestType /\ validate_stream_request(reqs[i])
      BY ElementOfSeq DEF CreateAll
    <3> QED
      BY <3>1 DEF RequestType, validate_stream_request
  <2> QED
    BY <2>1
<1>4. ASSUME NEW k \in 1 .. streamCount
      PROVE  Created'[k][field] = Created[k][field]
  <2>1. k - 1 \in Registered /\ k - 1 \notin fresh /\ k \in 1 .. streamCount'
    BY <1>1, <1>2 DEF Registered
  <2>2. Created'[k] = streams'[k - 1] /\ Created[k] = streams[k - 1]
    BY <2>1 DEF Created
  <2>3. streams'[k - 1] = streams[k - 1]
    BY <1>1, <1>2, <2>1
  <2> QED
    BY <2>2, <2>3
<1>5. ASSUME NEW i \in 1 .. L
      PROVE  Created'[streamCount + i][field] = reqs[i][field]
  <2> DEFINE s == streamCount + i - 1
             j == streamCount + i
  <2>1. s \in fresh /\ s - streamCount + 1 = i /\ j - 1 = s /\ j \in 1 .. (streamCount + L)
    BY <1>1
  <2>2. streams'[s] = NewStream(reqs[i].sender, reqs[i].recipient, reqs[i].deposit,
                                Obligation(reqs[i]))
    BY <1>2, <2>1
  <2>3. Created'[j] = streams'[s]
    <3> HIDE DEF s, j
    <3> QED
      BY <1>2, <2>1 DEF Created
  <2> HIDE DEF s
  <2>4. Created'[j].sender = reqs[i].sender /\ Created'[j].recipient = reqs[i].recipient
    BY <2>2, <2>3 DEF NewStream
  <2> HIDE DEF j
  <2>5. Created'[j][field] = reqs[i][field]
    BY <2>4
  <2> QED
    BY <2>5 DEF j
<1>6. Len(Created) = streamCount
  BY <1>1, LenOfFunction DEF Created
<1>7. Len(Created') = streamCount + L /\ streamCount + L \in Nat /\ streamCount <= streamCount + L
  <2>1. Created' = [i \in 1 .. (streamCount + L) |-> Created'[i]]
    BY <1>2 DEF Created
  <2>2. streamCount + L \in Nat /\ streamCount <= streamCount + L
    BY <1>1
  <2> QED
    BY <2>1, <2>2, LenOfFunction
<1> HIDE DEF L
<1>8. BatchIn(Created', field, reqs) /\ ByParty(index)
  BY <1>1, <1>3, <1>5 DEF BatchIn, Listed, ByParty, L
<1>9. ByParty(new)
  BY <1>8, AppendAllByParty
<1>10. ASSUME NEW p \in Parties
       PROVE  Represents(new[p], IdsOf(Created', field, p))
  <2>1. PICK f : IdChain(Created, field, p, streamCount, f) /\ IdsOf(Created, field, p) = f[streamCount]
    BY <1>1, <1>6, IdsOfChain
  <2>2. PICK g : /\ IdChain(Created', field, p, streamCount + L, g)
                 /\ IdsOf(Created', field, p) = g[streamCount + L]
    BY <1>7, IdsOfChain
  <2>3. g[streamCount] = f[streamCount]
    BY <1>1, <1>4, <1>7, <2>1, <2>2, ChainPrefix
  <2>4. Represents(index[p], g[streamCount])
    BY <2>1, <2>3 DEF Listed
  <2>5. Represents(new[p], g[streamCount + L])
    BY <1>1, <1>8, <2>2, <2>4, AppendAllRepresents DEF L
  <2> QED
    BY <2>2, <2>5
<1> QED
  BY <1>9, <1>10 DEF ByParty

(* What a step that creates nothing does to the indexes and to the pause entry *)
IndexMove ==
    \/ UNCHANGED <<bySender, byRecipient>>
    \/ \E party \in Parties, n \in PageCounts :
          migrate_sender_index(party, n) \/ migrate_recipient_index(party, n)

EntryMove ==
    pauseEntry' \in {pauseEntry, AfterIsPaused(pauseEntry, now),
                     set_paused(TRUE, now), set_paused(FALSE, now)}

LEMMA OtherSteps ==
    ASSUME [Next]_vars
    PROVE  (\E reqs \in Seq(RequestType) : CreateAll(reqs)) \/ (IndexMove /\ EntryMove)
<1>1. ASSUME UNCHANGED registryVars, UNCHANGED pauseVars
      PROVE  IndexMove /\ EntryMove
  BY <1>1 DEF IndexMove, EntryMove, registryVars, pauseVars
<1>2. CASE \E req \in Requests : create_stream(req)
  <2>1. ASSUME NEW req \in Requests, CreateAll(<<req>>)
        PROVE  \E reqs \in Seq(RequestType) : CreateAll(reqs)
    <3>1. <<req>> \in Seq(RequestType)
      BY RequestAssumption
    <3> QED
      BY <2>1, <3>1
  <2> QED
    BY <1>2, <2>1 DEF create_stream
<1>3. CASE \/ \E reqs \in Batches : batch_create_streams(reqs)
           \/ \E sender \in Parties, reqs \in Batches : create_batch_streams(sender, reqs)
  BY <1>3, RequestAssumption DEF batch_create_streams, create_batch_streams
<1>4. CASE Tick \/ UNCHANGED vars
  BY <1>1, <1>4 DEF Tick, vars
<1>5. CASE \E c \in Configs : GovernorChanges(c)
  BY <1>1, <1>5 DEF GovernorChanges
<1>6. CASE \/ \E caller \in Parties, batch \in SUBSET DOMAIN streams :
                 cancel_batch_streams(caller, batch)
           \/ \E s \in known : record_cancel(s)
           \/ \E s \in DOMAIN streams : StreamCancelled(s)
  BY <1>1, <1>6 DEF cancel_batch_streams, record_cancel, StreamCancelled
<1>7. CASE \/ \E s \in DOMAIN streams, d \in Delegates \cup {None} : StreamDelegated(s, d)
           \/ \E s \in DOMAIN streams, b \in Cancelable : StreamConfigured(s, b)
  BY <1>1, <1>7 DEF StreamDelegated, StreamConfigured
<1>8. CASE \E amount \in Gifts : Donate(amount)
  BY <1>1, <1>8 DEF Donate
<1>9. CASE pause
  BY <1>9 DEF pause, IndexMove, EntryMove, registryVars
<1>10. CASE unpause
  BY <1>10 DEF unpause, IndexMove, EntryMove, registryVars
<1>11. CASE \E hash \in Hashes : upgrade_stream_wasm(hash)
  BY <1>11 DEF upgrade_stream_wasm, IndexMove, EntryMove, registryVars
<1>12. CASE ReadPause
  BY <1>12 DEF ReadPause, IndexMove, EntryMove, registryVars
<1>13. CASE \E party \in Parties, n \in PageCounts :
               migrate_sender_index(party, n) \/ migrate_recipient_index(party, n)
  <2>1. pauseEntry' = pauseEntry
    BY <1>13 DEF migrate_sender_index, migrate_recipient_index, pauseVars
  <2> QED
    BY <1>13, <2>1 DEF IndexMove, EntryMove
<1> QED
  BY <1>2, <1>3, <1>4, <1>5, <1>6, <1>7, <1>8, <1>9, <1>10, <1>11, <1>12, <1>13 DEF Next

LEMMA IndexStep ==
    ASSUME CountInv, IndexInv, [Next]_vars
    PROVE  IndexInv'
<1>1. Listed(bySender, "sender") /\ Listed(byRecipient, "recipient")
  BY DEF IndexInv
<1>2. SUFFICES
        /\ bySender' = [p \in Parties |-> bySender'[p]]
        /\ \A p \in Parties : Represents(bySender'[p], IdsOf(Created', "sender", p))
        /\ byRecipient' = [p \in Parties |-> byRecipient'[p]]
        /\ \A p \in Parties : Represents(byRecipient'[p], IdsOf(Created', "recipient", p))
  BY <1>2 DEF IndexInv, Listed
<1>3. ASSUME NEW reqs \in Seq(RequestType), CreateAll(reqs)
      PROVE  /\ bySender' = [p \in Parties |-> bySender'[p]]
             /\ \A p \in Parties : Represents(bySender'[p], IdsOf(Created', "sender", p))
             /\ byRecipient' = [p \in Parties |-> byRecipient'[p]]
             /\ \A p \in Parties : Represents(byRecipient'[p], IdsOf(Created', "recipient", p))
  <2>1. /\ bySender' = AppendAll(bySender, "sender", reqs)
        /\ byRecipient' = AppendAll(byRecipient, "recipient", reqs)
    BY <1>3 DEF CreateAll
  <2>2. /\ bySender' = [p \in Parties |-> bySender'[p]]
        /\ \A p \in Parties : Represents(bySender'[p], IdsOf(Created', "sender", p))
    BY <1>1, <1>3, <2>1, ListedCreated
  <2>3. /\ byRecipient' = [p \in Parties |-> byRecipient'[p]]
        /\ \A p \in Parties : Represents(byRecipient'[p], IdsOf(Created', "recipient", p))
    BY <1>1, <1>3, <2>1, ListedCreated
  <2> QED
    BY <2>2, <2>3
<1>4. ASSUME Kept, IndexMove
      PROVE  /\ bySender' = [p \in Parties |-> bySender'[p]]
             /\ \A p \in Parties : Represents(bySender'[p], IdsOf(Created', "sender", p))
             /\ byRecipient' = [p \in Parties |-> byRecipient'[p]]
             /\ \A p \in Parties : Represents(byRecipient'[p], IdsOf(Created', "recipient", p))
  <2>1. ASSUME bySender' = bySender
        PROVE  /\ bySender' = [p \in Parties |-> bySender'[p]]
               /\ \A p \in Parties : Represents(bySender'[p], IdsOf(Created', "sender", p))
    BY <1>1, <1>4, <2>1, KeptIds DEF Listed
  <2>2. ASSUME byRecipient' = byRecipient
        PROVE  /\ byRecipient' = [p \in Parties |-> byRecipient'[p]]
               /\ \A p \in Parties : Represents(byRecipient'[p], IdsOf(Created', "recipient", p))
    BY <1>1, <1>4, <2>2, KeptIds DEF Listed
  <2>3. ASSUME NEW party \in Parties, NEW n \in PageCounts, migrate_sender_index(party, n)
        PROVE  /\ bySender' = [p \in Parties |-> bySender'[p]]
               /\ \A p \in Parties : Represents(bySender'[p], IdsOf(Created', "sender", p))
               /\ byRecipient' = byRecipient
    <3>1. MigratedAt(bySender', bySender, party, n) /\ byRecipient' = byRecipient
      BY <2>3 DEF migrate_sender_index, MigratedAt
    <3> QED
      BY <1>1, <1>4, <3>1, ListedMigrated
  <2>4. ASSUME NEW party \in Parties, NEW n \in PageCounts, migrate_recipient_index(party, n)
        PROVE  /\ byRecipient' = [p \in Parties |-> byRecipient'[p]]
               /\ \A p \in Parties : Represents(byRecipient'[p], IdsOf(Created', "recipient", p))
               /\ bySender' = bySender
    <3>1. MigratedAt(byRecipient', byRecipient, party, n) /\ bySender' = bySender
      BY <2>4 DEF migrate_recipient_index, MigratedAt
    <3> QED
      BY <1>1, <1>4, <3>1, ListedMigrated
  <2> QED
    BY <1>4, <2>1, <2>2, <2>3, <2>4 DEF IndexMove
<1> QED
  BY <1>3, <1>4, KeptSteps, OtherSteps

(***************************************************************************)
(* The representation invariant of the index: whatever mixture of unpaged  *)
(* list, copied pages and appended pages a party's entries are, they stand *)
(* for the ids of its streams in creation order.                           *)
(***************************************************************************)
THEOREM IndexInvariance == Spec => [](CountInv /\ IndexInv)
<1>1. CountInv /\ IndexInv /\ [Next]_vars => IndexInv'
  BY IndexStep
<1> QED
  BY <1>1, IndexInit, CountInvariance, PTL DEF Spec

(***************************************************************************)
(* Every window of every listing is complete and in creation order, and    *)
(* the total is right, for every page size, every history of an older      *)
(* build and every interleaving of migration calls and creations           *)
(* (streams_by_sender, streams_by_recipient, index.rs).                    *)
(***************************************************************************)
THEOREM ListingsHold == Spec => []ListingsComplete
<1>1. CountInv /\ IndexInv => ListingsComplete
  <2> SUFFICES ASSUME CountInv, IndexInv,
                      NEW p \in Parties, NEW field \in {"sender", "recipient"}
               PROVE  LET idx == IF field = "sender" THEN bySender[p] ELSE byRecipient[p]
                          ids == IdsOf([i \in 1 .. streamCount |-> streams[i - 1]], field, p)
                      IN  /\ count_index(idx) = Len(ids)
                          /\ \A offset \in 0 .. (Len(ids) + 1), limit \in 0 .. (PageSize + 1) :
                                read_index(idx, offset, limit) = paginate(ids, offset, limit)
    BY DEF ListingsComplete
  <2> DEFINE idx == IF field = "sender" THEN bySender[p] ELSE byRecipient[p]
             ids == IdsOf(Created, field, p)
  <2>1. streamCount \in Nat
    BY DEF CountInv, RegistryOK
  <2>2. Represents(idx, ids)
    BY DEF IndexInv, Listed
  <2>3. ids \in Seq(Nat)
    BY <2>1, CreatedIds
  <2> HIDE DEF idx, ids
  <2>4. /\ count_index(idx) = Len(ids)
        /\ \A offset, limit \in Nat : read_index(idx, offset, limit) = paginate(ids, offset, limit)
    BY <2>2, <2>3, ReadsAsList
  <2>5. \A offset \in 0 .. (Len(ids) + 1), limit \in 0 .. (PageSize + 1) :
           offset \in Nat /\ limit \in Nat
    BY <2>3, LenProperties, IndexAssumption
  <2>6. ids = IdsOf([i \in 1 .. streamCount |-> streams[i - 1]], field, p)
    BY DEF ids, Created
  <2> QED
    BY <2>4, <2>5, <2>6 DEF idx
<1> QED
  BY <1>1, IndexInvariance, PTL

(***************************************************************************)
(* The rotating refresh reaches every populated page, for every page size, *)
(* although it counts pages from the number of ids and the legacy entries  *)
(* leave a gap in front of the appended pages; but for one that is the     *)
(* last, is partly filled, and has such a gap before it (index.rs          *)
(* extend_page_ttls).                                                      *)
(***************************************************************************)
THEOREM RefreshHolds == Spec => []PagesRefreshed
<1>1. CountInv /\ IndexInv => PagesRefreshed
  <2> SUFFICES ASSUME CountInv, IndexInv PROVE PagesRefreshed
    OBVIOUS
  <2>1. streamCount \in Nat
    BY DEF CountInv, RegistryOK
  <2>2. ASSUME NEW p \in Parties
        PROVE  PagesWalked(bySender[p]) /\ PagesWalked(byRecipient[p])
    <3>1. /\ Represents(bySender[p], IdsOf(Created, "sender", p))
          /\ Represents(byRecipient[p], IdsOf(Created, "recipient", p))
      BY DEF IndexInv, Listed
    <3>2. /\ IdsOf(Created, "sender", p) \in Seq(Nat)
          /\ IdsOf(Created, "recipient", p) \in Seq(Nat)
      BY <2>1, CreatedIds
    <3> QED
      BY <3>1, <3>2, RefreshReaches
  <2> QED
    BY <2>2 DEF PagesRefreshed, PagesWalked
<1> QED
  BY <1>1, IndexInvariance, PTL

-----------------------------------------------------------------------------
(***************************************************************************)
(* Types.  Most of them come with the invariants above; the pause entry    *)
(* and the salts remain.                                                   *)
(***************************************************************************)
EntryInv == pauseEntry \in PauseType /\ salts \subseteq Registered

LEMMA EntryInit == Init => EntryInv
<1> SUFFICES ASSUME Init PROVE EntryInv
  OBVIOUS
<1>1. pauseEntry \in Flags \cup {NeverPaused} /\ salts = {}
  BY DEF Init
<1>2. NeverPaused \in PauseType /\ Flags \subseteq PauseType
  BY FactoryAssumption DEF NeverPaused, PauseType
<1> QED
  BY <1>1, <1>2 DEF EntryInv

LEMMA AfterIsPausedType ==
    ASSUME NEW entry \in PauseType, NEW t \in Nat
    PROVE  AfterIsPaused(entry, t) \in PauseType
BY DEF AfterIsPaused, PauseType

LEMMA EntryStep ==
    ASSUME CountInv, HaltInv, EntryInv, [Next]_vars
    PROVE  EntryInv'
<1>1. now \in Nat /\ pauseEntry \in PauseType /\ salts \subseteq Registered /\ streamCount \in Nat
  BY DEF HaltInv, EntryInv, CountInv, RegistryOK
<1>2. AfterIsPaused(pauseEntry, now) \in PauseType
  BY <1>1, AfterIsPausedType
<1>3. ASSUME NEW reqs \in Seq(RequestType), CreateAll(reqs)
      PROVE  EntryInv'
  <2> DEFINE n == Len(reqs)
  <2>1. /\ pauseEntry' = AfterIsPaused(pauseEntry, now)
        /\ salts' = salts \cup (streamCount .. (streamCount + n - 1))
        /\ streamCount' = streamCount + n
    BY <1>3 DEF CreateAll
  <2>2. n \in Nat
    BY LenProperties
  <2> HIDE DEF n
  <2>3. salts' \subseteq 0 .. (streamCount + n - 1)
    BY <1>1, <2>1, <2>2 DEF Registered
  <2>4. pauseEntry' \in PauseType
    BY <1>2, <2>1
  <2>5. salts' \subseteq 0 .. (streamCount' - 1)
    BY <1>1, <2>1, <2>2, <2>3
  <2> QED
    BY <2>4, <2>5 DEF EntryInv, Registered
<1>4. ASSUME Kept, EntryMove
      PROVE  EntryInv'
  <2>1. set_paused(TRUE, now) \in PauseType /\ set_paused(FALSE, now) \in PauseType
    BY <1>1 DEF set_paused, PauseType
  <2>2. pauseEntry' \in PauseType
    BY <1>1, <1>2, <1>4, <2>1 DEF EntryMove
  <2>3. salts' = salts /\ streamCount' = streamCount
    BY <1>4 DEF Kept
  <2> QED
    BY <1>1, <2>2, <2>3 DEF EntryInv, Registered
<1> QED
  BY <1>3, <1>4, KeptSteps, OtherSteps

(* The invariants of this module together *)
FactoryInv == CountInv /\ ConfigOK /\ EscrowInv /\ HaltInv /\ WalkInv /\ IndexInv /\ EntryInv

LEMMA FactoryTypes == FactoryInv => FactoryTypeOK
<1> SUFFICES ASSUME FactoryInv PROVE FactoryTypeOK
  OBVIOUS
<1>1. CountInv /\ ConfigOK /\ EscrowInv /\ HaltInv /\ WalkInv /\ IndexInv /\ EntryInv
  BY DEF FactoryInv
<1>2. now \in Nat /\ haltedAt \in Nat \cup {None}
  BY <1>1 DEF HaltInv
<1>3. streamCount \in Nat
  BY <1>1 DEF CountInv, RegistryOK
<1>4. streams \in [Registered \cup Foreign -> StreamType]
  <2>1. streams \in [Registered \cup Foreign -> StreamShape]
    BY <1>1 DEF CountInv, RegistryOK
  <2>2. ASSUME NEW s \in Registered \cup Foreign
        PROVE  streams[s] \in StreamType
    <3>1. streams[s] \in StreamShape /\ streams[s].funded \in Nat /\ streams[s].obligation \in Nat
      BY <1>1, <2>1 DEF EscrowInv
    <3> QED
      BY <3>1 DEF StreamShape, StreamType
  <2> QED
    BY <2>1, <2>2
<1>5. ASSUME NEW p \in Parties, NEW idx \in {bySender[p], byRecipient[p]}
      PROVE  /\ idx.legacy = None \/ idx.legacy \in Seq(Registered)
             /\ {idx.cursor, idx.legacyCount, idx.count} \subseteq 0 .. streamCount \cup {None}
             /\ \A k \in DOMAIN idx.pages :
                   idx.pages[k] \in Seq(Registered) /\ Len(idx.pages[k]) <= PageSize
  <2>1. ASSUME NEW field, Represents(idx, IdsOf(Created, field, p))
        PROVE  InRange(idx, Registered, Len(IdsOf(Created, field, p)))
               /\ Len(IdsOf(Created, field, p)) <= streamCount
               /\ Len(IdsOf(Created, field, p)) \in Nat
    <3> DEFINE ids == IdsOf(Created, field, p)
    <3>1. ids \in Seq(Registered) /\ Len(ids) <= streamCount
      BY <1>3, CreatedIds
    <3>2. Registered \subseteq Nat
      BY DEF Registered
    <3> HIDE DEF ids
    <3>3. Represents(idx, ids)
      BY <2>1 DEF ids
    <3>4. InRange(idx, Registered, Len(ids)) /\ Len(ids) \in Nat
      BY <3>1, <3>2, <3>3, RepresentsInRange, LenProperties
    <3> QED
      BY <3>1, <3>4 DEF ids
  <2>2. /\ Represents(bySender[p], IdsOf(Created, "sender", p))
        /\ Represents(byRecipient[p], IdsOf(Created, "recipient", p))
    BY <1>1 DEF IndexInv, Listed
  <2>3. PICK n \in Nat : n <= streamCount /\ InRange(idx, Registered, n)
    BY <2>1, <2>2
  <2>4. 0 .. n \subseteq 0 .. streamCount
    BY <1>3, <2>3
  <2> QED
    BY <2>3, <2>4 DEF InRange
<1>6. lastBumped \in 0 .. streamCount /\ age \in [Registered -> Nat]
  BY <1>1, <1>3 DEF WalkInv
<1>7. known \subseteq Registered /\ aggregate \in [total_supply : Nat, active_streams : Nat]
  BY <1>1 DEF CountInv, RegistryOK
<1>8. recorded \subseteq DOMAIN streams
  BY <1>1, <1>4 DEF CountInv, RecordedCancelled
<1> QED
  BY <1>1, <1>2, <1>3, <1>4, <1>5, <1>6, <1>7, <1>8
     DEF FactoryTypeOK, ConfigOK, EscrowInv, EntryInv

(***************************************************************************)
(* Types of the factory's storage: among them, no page grows past its      *)
(* size, and no index entry, cursor or count runs past the number of       *)
(* streams created.                                                        *)
(***************************************************************************)
THEOREM FactoryTypesHold == Spec => []FactoryTypeOK
<1>1. CountInv /\ HaltInv /\ EntryInv /\ [Next]_vars => EntryInv'
  BY EntryStep
<1>2. Spec => []HaltInv
  BY HaltInit, HaltStep, PTL DEF Spec
<1>3. Spec => []EntryInv
  BY <1>1, <1>2, EntryInit, CountInvariance, PTL DEF Spec
<1>4. CountInv /\ ConfigOK /\ EscrowInv /\ HaltInv /\ WalkInv /\ IndexInv /\ EntryInv => FactoryTypeOK
  BY FactoryTypes DEF FactoryInv
<1> QED
  BY <1>2, <1>3, <1>4, EscrowInvariance, WalkInvariance, IndexInvariance, PTL

=============================================================================
