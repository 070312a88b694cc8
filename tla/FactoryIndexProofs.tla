------------------------- MODULE FactoryIndexProofs -------------------------
(***************************************************************************)
(* Proofs about the paged index of FactoryIndex, for every page size: an   *)
(* index that represents a list of ids still represents it after any       *)
(* migration call, represents the longer list after an append, and answers *)
(* every query as the list would.                                          *)
(***************************************************************************)
EXTENDS FactoryIndex, FoldLemmas, SequenceTheorems, TLAPS

-----------------------------------------------------------------------------
(***************************************************************************)
(* Division                                                                *)
(***************************************************************************)

(* A whole number of pages more is at least one page more. *)
LEMMA MulMono ==
    ASSUME NEW p \in Int, NEW q \in Int, NEW b \in Nat, p < q
    PROVE  p * b + b <= q * b
<1>1. PICK d \in Nat : q = p + 1 + d
  <2>1. q - p - 1 \in Nat /\ q = p + 1 + (q - p - 1)
    OBVIOUS
  <2> QED
    BY <2>1
<1>2. q * b = p * b + b + d * b /\ d * b \in Nat /\ p * b \in Int
  BY <1>1
<1> QED
  BY <1>2

LEMMA DivMod ==
    ASSUME NEW a \in Int, NEW b \in Nat \ {0}
    PROVE  /\ a \div b \in Int /\ a % b \in 0 .. (b - 1)
           /\ a = (a \div b) * b + (a % b)
           /\ a >= 0 => a \div b \in Nat
OBVIOUS

(* The quotient and the remainder are the only ones. *)
LEMMA DivUnique ==
    ASSUME NEW b \in Nat \ {0}, NEW q \in Int, NEW r \in 0 .. (b - 1)
    PROVE  (q * b + r) \div b = q /\ (q * b + r) % b = r
<1> DEFINE a == q * b + r
           d == a \div b
           m == a % b
<1>1. a \in Int /\ q * b \in Int
  OBVIOUS
<1>2. d \in Int /\ m \in 0 .. (b - 1) /\ a = d * b + m
  BY <1>1, DivMod
<1>3. d * b \in Int
  BY <1>2
<1> HIDE DEF d, m
<1>4. CASE d < q
  <2>1. d * b + b <= q * b
    BY <1>2, <1>4, MulMono
  <2> QED
    BY <1>1, <1>2, <1>3, <2>1
<1>5. CASE q < d
  <2>1. q * b + b <= d * b
    BY <1>2, <1>5, MulMono
  <2> QED
    BY <1>1, <1>2, <1>3, <2>1
<1>6. CASE d = q
  BY <1>1, <1>2, <1>6 DEF d, m
<1> QED
  BY <1>2, <1>4, <1>5, <1>6

(* Going around a ring of b places at most once *)
LEMMA RingMod ==
    ASSUME NEW b \in Nat \ {0}, NEW r \in 0 .. (b - 1)
    PROVE  r % b = r /\ (b + r) % b = r
<1>1. 0 * b + r = r /\ 1 * b + r = b + r
  OBVIOUS
<1>2. (0 * b + r) % b = r /\ (1 * b + r) % b = r
  BY DivUnique
<1> QED
  BY <1>1, <1>2

-----------------------------------------------------------------------------
(***************************************************************************)
(* What an index represents.  T ids came from the legacy list and occupy   *)
(* the first LegacyPages(T) pages, of which k are copied; the ids appended *)
(* since then fill the pages behind them.                                  *)
(***************************************************************************)
LegacyPages(T) == IF T = 0 THEN 0 ELSE (T - 1) \div PageSize + 1

(* How many entries page p holds *)
AppendedFill(n, T, p) ==
    LET rest == n - T - (p - LegacyPages(T)) * PageSize
    IN  IF rest <= 0 THEN 0 ELSE Lesser(PageSize, rest)

Fill(n, T, k, p) ==
    IF p >= LegacyPages(T) THEN AppendedFill(n, T, p)
    ELSE IF p < k THEN Lesser(PageSize, T - p * PageSize) ELSE 0

(* The position in the list of the entry in slot s of page p *)
Source(T, p, s) ==
    IF p < LegacyPages(T) THEN p * PageSize + s ELSE T + (p - LegacyPages(T)) * PageSize + s

PagesHold(pages, ids, T, k) ==
    /\ DOMAIN pages = {p \in Nat : Fill(Len(ids), T, k, p) > 0}
    /\ \A p \in DOMAIN pages :
          /\ pages[p] \in Seq(Nat)
          /\ Len(pages[p]) = Fill(Len(ids), T, k, p)
          /\ \A s \in 1 .. Len(pages[p]) : pages[p][s] = ids[Source(T, p, s)]

PagedAs(idx, ids, T, k) ==
    /\ idx = [legacy      |-> IF k = LegacyPages(T) THEN None ELSE SubSeq(ids, 1, T),
              cursor      |-> IF k = LegacyPages(T) THEN None ELSE k * PageSize,
              legacyCount |-> IF T = 0 THEN None ELSE T,
              count       |-> Len(ids),
              pages       |-> idx.pages]
    /\ k \in 0 .. LegacyPages(T) /\ (T > 0 => k > 0)
    /\ PagesHold(idx.pages, ids, T, k)

Paged(idx, ids) == \E T \in 0 .. Len(ids) : \E k \in Nat : PagedAs(idx, ids, T, k)

Represents(idx, ids) == idx = LegacyIndex(ids) \/ Paged(idx, ids)

(* An offset lies in a slot of its page. *)
LEMMA SlotOf ==
    ASSUME NEW x \in Nat
    PROVE  /\ x \div PageSize \in Nat /\ (x % PageSize) + 1 \in 1 .. PageSize
           /\ x = (x \div PageSize) * PageSize + (x % PageSize)
           /\ (x \div PageSize) * PageSize \in Nat /\ x % PageSize \in Nat
<1> DEFINE q == x \div PageSize
           r == x % PageSize
<1>1. PageSize \in Nat \ {0} /\ x \in Int /\ x >= 0
  BY IndexAssumption
<1>2. q \in Nat /\ r \in 0 .. (PageSize - 1) /\ x = q * PageSize + r
  BY <1>1, DivMod
<1> HIDE DEF q, r
<1>3. q * PageSize \in Nat /\ r + 1 \in 1 .. PageSize /\ r \in Nat
  BY <1>1, <1>2
<1> QED
  BY <1>2, <1>3 DEF q, r

(* The pages reserved for T entries are just enough. *)
LEMMA LegacyPagesBounds ==
    ASSUME NEW T \in Nat
    PROVE  /\ LegacyPages(T) \in Nat
           /\ append_base(T) = LegacyPages(T) * PageSize
           /\ T <= LegacyPages(T) * PageSize
           /\ T > 0 => LegacyPages(T) > 0 /\ (LegacyPages(T) - 1) * PageSize < T
           /\ T = 0 => LegacyPages(T) = 0
<1> USE IndexAssumption
<1>1. CASE T = 0
  BY <1>1 DEF LegacyPages, append_base
<1>2. CASE T # 0
  <2> DEFINE q == (T - 1) \div PageSize
             r == (T - 1) % PageSize
  <2>0. T - 1 \in Nat
    BY <1>2
  <2>1. q \in Nat /\ r + 1 \in 1 .. PageSize /\ T - 1 = q * PageSize + r /\ r \in Int
    BY <2>0, SlotOf
  <2>2. LegacyPages(T) = q + 1 /\ append_base(T) = (q + 1) * PageSize
    BY <1>2 DEF LegacyPages, append_base
  <2> HIDE DEF q, r
  <2>3. (q + 1) * PageSize = q * PageSize + PageSize /\ q * PageSize \in Nat
    BY <2>1
  <2>4. (q + 1) - 1 = q
    BY <2>1
  <2> QED
    BY <1>2, <2>1, <2>2, <2>3, <2>4
<1> QED
  BY <1>1, <1>2

(* The page and the slot of an offset, from its distance to a page boundary *)
LEMMA PageAndSlot ==
    ASSUME NEW b \in Int, NEW x \in Nat
    PROVE  /\ (b * PageSize + x) \div PageSize = b + x \div PageSize
           /\ (b * PageSize + x) % PageSize = x % PageSize
<1> DEFINE q == x \div PageSize
           r == x % PageSize
<1> USE IndexAssumption
<1>1. q \in Int /\ r \in 0 .. (PageSize - 1) /\ x = q * PageSize + r
  BY DivMod
<1> HIDE DEF q, r
<1>2. b * PageSize + x = (b + q) * PageSize + r
  BY <1>1
<1>3. b + q \in Int
  BY <1>1
<1>4. ((b + q) * PageSize + r) \div PageSize = b + q /\ ((b + q) * PageSize + r) % PageSize = r
  BY <1>1, <1>3, DivUnique
<1> QED
  BY <1>2, <1>4 DEF q, r

(* Every entry of a paged index is found where read_index looks for it. *)
LEMMA EntryFound ==
    ASSUME NEW ids \in Seq(Nat), NEW T \in 0 .. Len(ids), NEW k \in Nat, NEW idx,
           PagedAs(idx, ids, T, k), NEW l \in 0 .. (Len(ids) - 1)
    PROVE  EntryAt(idx, l) = ids[l + 1]
<1> USE IndexAssumption
<1> DEFINE m == LegacyPages(T)
           n == Len(ids)
           physical == logical_to_physical_offset(l, idx.legacyCount)
           page == physical \div PageSize
           slot == (physical % PageSize) + 1
<1>1. n \in Nat /\ T \in Nat /\ l \in Nat /\ l < n /\ T <= n
  BY LenProperties
<1>2. m \in Nat /\ append_base(T) = m * PageSize /\ T <= m * PageSize
      /\ (T > 0 => m > 0 /\ (m - 1) * PageSize < T) /\ (T = 0 => m = 0)
  BY <1>1, LegacyPagesBounds
<1>3. /\ idx.legacy = IF k = m THEN None ELSE SubSeq(ids, 1, T)
      /\ idx.cursor = IF k = m THEN None ELSE k * PageSize
      /\ idx.legacyCount = IF T = 0 THEN None ELSE T
      /\ k \in 0 .. m /\ (T > 0 => k > 0)
      /\ PagesHold(idx.pages, ids, T, k)
  BY DEF PagedAs
<1>4. EntryAt(idx, l) =
        IF /\ idx.legacyCount # None /\ idx.cursor # None /\ idx.legacy # None
           /\ idx.cursor <= l /\ l < idx.legacyCount
        THEN idx.legacy[l + 1]
        ELSE IF slot <= Len(PageOf(idx, page)) THEN PageOf(idx, page)[slot] ELSE None
  BY DEF EntryAt
<1> HIDE DEF m, n
<1>5. ASSUME NEW p \in Nat, NEW s \in 1 .. PageSize, s <= Fill(n, T, k, p), page = p, slot = s,
             Source(T, p, s) = l + 1,
             ~(/\ idx.legacyCount # None /\ idx.cursor # None /\ idx.legacy # None
               /\ idx.cursor <= l /\ l < idx.legacyCount)
      PROVE  EntryAt(idx, l) = ids[l + 1]
  <2>1. p \in DOMAIN idx.pages
    <3>1. Fill(n, T, k, p) \in Int
      BY <1>1, <1>2, <1>3, <1>5 DEF Fill, AppendedFill, Lesser, m
    <3> QED
      BY <1>3, <1>5, <3>1 DEF PagesHold, n
  <2>2. /\ Len(idx.pages[p]) = Fill(n, T, k, p)
        /\ \A x \in 1 .. Len(idx.pages[p]) : idx.pages[p][x] = ids[Source(T, p, x)]
    BY <1>3, <2>1 DEF PagesHold, n
  <2>3. PageOf(idx, page) = idx.pages[p]
    BY <1>5, <2>1 DEF PageOf
  <2>4. s \in 1 .. Len(idx.pages[p])
    <3>1. Fill(n, T, k, p) \in Int
      BY <1>1, <1>2, <1>3, <1>5 DEF Fill, AppendedFill, Lesser, m
    <3> QED
      BY <1>5, <2>2, <3>1
  <2> HIDE DEF page, slot
  <2> QED
    BY <1>4, <1>5, <2>2, <2>3, <2>4
<1>6. CASE l < T /\ k # m /\ k * PageSize <= l
  <2>1. idx.legacy = SubSeq(ids, 1, T) /\ idx.cursor = k * PageSize /\ idx.legacyCount = T
    BY <1>1, <1>3, <1>6
  <2>2. \A i \in 1 .. T : ids[i] \in Nat
    BY <1>1, ElementOfSeq DEF n
  <2>3. /\ SubSeq(ids, 1, T) \in Seq(Nat)
        /\ \A i \in 1 .. (T - 1 + 1) : SubSeq(ids, 1, T)[i] = ids[1 + i - 1]
    BY <1>1, <2>2, SubSeqProperties
  <2>4. idx.legacy[l + 1] = ids[l + 1]
    BY <1>1, <1>6, <2>1, <2>3
  <2>5. k * PageSize \in Nat
    OBVIOUS
  <2>6. idx.legacyCount # None /\ idx.cursor # None /\ idx.legacy # None
    BY <1>1, <2>1, <2>3, <2>5
  <2> QED
    BY <1>4, <1>6, <2>1, <2>4, <2>6
<1>7. CASE l < T /\ ~(k # m /\ k * PageSize <= l)
  <2> DEFINE p == l \div PageSize
             s == (l % PageSize) + 1
  <2>a. /\ p \in Nat /\ s \in 1 .. PageSize /\ l = p * PageSize + (l % PageSize)
        /\ p * PageSize \in Nat
    BY <1>1, SlotOf
  <2>1. p \in Nat /\ s \in 1 .. PageSize /\ l = p * PageSize + s - 1 /\ p * PageSize \in Nat
    BY <1>1, <2>a
  <2>2. physical = l
    BY <1>1, <1>3, <1>7 DEF logical_to_physical_offset
  <2>3. page = p /\ slot = s
    BY <2>2
  <2> HIDE DEF p, s
  <2>4. p < k
    <3>1. l < k * PageSize
      BY <1>1, <1>2, <1>7
    <3>2. CASE k < p
      <4>1. k * PageSize + PageSize <= p * PageSize /\ k * PageSize \in Nat
        BY <2>1, <3>2, MulMono
      <4> QED
        BY <2>1, <3>1, <4>1
    <3>3. CASE k = p
      BY <2>1, <3>1, <3>3
    <3> QED
      BY <2>1, <3>2, <3>3
  <2>5. s <= Fill(n, T, k, p)
    <3>1. Fill(n, T, k, p) = Lesser(PageSize, T - p * PageSize)
      BY <1>2, <1>3, <2>1, <2>4 DEF Fill, m
    <3> QED
      BY <1>1, <1>7, <2>1, <3>1 DEF Lesser
  <2>6. Source(T, p, s) = l + 1
    BY <1>2, <1>3, <2>1, <2>4 DEF Source, m
  <2> HIDE DEF physical, page, slot
  <2> QED
    BY <1>1, <1>3, <1>5, <1>7, <2>1, <2>3, <2>5, <2>6
<1>8. CASE l >= T
  <2> DEFINE x == l - T
             q == x \div PageSize
             s == (x % PageSize) + 1
             p == m + q
  <2>1. x \in Nat /\ T + x = l
    BY <1>1, <1>8
  <2> HIDE DEF x
  <2>a. /\ q \in Nat /\ s \in 1 .. PageSize /\ x = q * PageSize + (x % PageSize)
        /\ q * PageSize \in Nat
    BY <2>1, SlotOf
  <2>2. q \in Nat /\ s \in 1 .. PageSize /\ x = q * PageSize + s - 1 /\ q * PageSize \in Nat
    BY <2>1, <2>a
  <2>3. physical = m * PageSize + x
    <3>1. CASE T = 0
      BY <1>1, <1>2, <1>3, <3>1 DEF logical_to_physical_offset, x
    <3>2. CASE T # 0
      BY <1>1, <1>2, <1>3, <1>8, <3>2 DEF logical_to_physical_offset, x
    <3> QED
      BY <3>1, <3>2
  <2>4. page = p /\ slot = s
    <3>1. m \in Int /\ x \in Nat
      BY <1>2, <2>1
    <3>2. /\ (m * PageSize + x) \div PageSize = m + x \div PageSize
          /\ (m * PageSize + x) % PageSize = x % PageSize
      BY <3>1, PageAndSlot
    <3> QED
      BY <2>3, <3>2
  <2> HIDE DEF q, s
  <2>5. p \in Nat /\ p >= m /\ p - m = q
    BY <1>2, <2>2
  <2>6. Fill(n, T, k, p) = AppendedFill(n, T, p) /\ Source(T, p, s) = T + q * PageSize + s
    BY <1>2, <2>5 DEF Fill, Source, m
  <2>7. s <= Fill(n, T, k, p)
    <3>1. n - T - q * PageSize >= s
      BY <1>1, <2>1, <2>2
    <3>2. AppendedFill(n, T, p) = IF n - T - q * PageSize <= 0 THEN 0
                                  ELSE Lesser(PageSize, n - T - q * PageSize)
      BY <2>5 DEF AppendedFill, m
    <3> QED
      BY <1>1, <2>2, <2>6, <3>1, <3>2 DEF Lesser
  <2>8. Source(T, p, s) = l + 1
    BY <1>1, <2>1, <2>2, <2>6
  <2>9. ~(idx.legacyCount # None /\ l < idx.legacyCount)
    BY <1>1, <1>3, <1>8
  <2> HIDE DEF physical, page, slot, p
  <2> QED
    BY <1>5, <2>2, <2>4, <2>5, <2>7, <2>8, <2>9
<1> QED
  BY <1>1, <1>6, <1>7, <1>8

-----------------------------------------------------------------------------
(***************************************************************************)
(* Queries                                                                 *)
(***************************************************************************)

LEMMA MaxOfRange ==
    ASSUME NEW a \in Int, NEW b \in Int, a <= b
    PROVE  Max(a .. b) = b
<1>1. \E x \in a .. b : \A y \in a .. b : x >= y
  <2>1. b \in a .. b /\ \A y \in a .. b : b >= y
    OBVIOUS
  <2> QED
    BY <2>1
<1>2. Max(a .. b) \in a .. b /\ \A y \in a .. b : Max(a .. b) >= y
  BY <1>1 DEF Max
<1> QED
  BY <1>2

LEMMA LegacyEntry ==
    ASSUME NEW ids \in Seq(Nat)
    PROVE  /\ OrElse(LegacyIndex(ids).legacy, <<>>) = ids
           /\ LegacyIndex(ids).legacy = None <=> ids = <<>>
           /\ LegacyIndex(ids).count = None
<1>1. ids # None
  BY IndexAssumption
<1> QED
  BY <1>1 DEF LegacyIndex, OrElse

(* A represented list is counted and read as the list would be. *)
LEMMA ReadsAsList ==
    ASSUME NEW ids \in Seq(Nat), NEW idx, Represents(idx, ids)
    PROVE  /\ count_index(idx) = Len(ids)
           /\ \A offset, limit \in Nat : read_index(idx, offset, limit) = paginate(ids, offset, limit)
<1> DEFINE n == Len(ids)
<1>1. n \in Nat /\ \A i \in 1 .. n : ids[i] \in Nat
  BY LenProperties, ElementOfSeq
<1>2. CASE idx = LegacyIndex(ids)
  <2>1. OrElse(idx.legacy, <<>>) = ids /\ idx.count = None
    BY <1>2, LegacyEntry
  <2>2. count_index(idx) = n
    BY <2>1 DEF count_index, OrElse
  <2>3. \A offset, limit \in Nat : read_index(idx, offset, limit) = paginate(ids, offset, limit)
    BY <2>1 DEF read_index
  <2> QED
    BY <2>2, <2>3
<1>3. ASSUME NEW T \in 0 .. n, NEW k \in Nat, PagedAs(idx, ids, T, k)
      PROVE  /\ count_index(idx) = n
             /\ \A offset, limit \in Nat : read_index(idx, offset, limit) = paginate(ids, offset, limit)
  <2>1. idx.count = n /\ n # None
    BY <1>1, <1>3, IndexAssumption DEF PagedAs
  <2>2. count_index(idx) = n
    BY <2>1 DEF count_index, OrElse
  <2>3. \A l \in 0 .. (n - 1) : EntryAt(idx, l) = ids[l + 1] /\ EntryAt(idx, l) # None
    <3> SUFFICES ASSUME NEW l \in 0 .. (n - 1)
                 PROVE  EntryAt(idx, l) = ids[l + 1] /\ EntryAt(idx, l) # None
      OBVIOUS
    <3>1. EntryAt(idx, l) = ids[l + 1]
      BY <1>3, EntryFound
    <3>2. ids[l + 1] \in Nat
      BY <1>1
    <3> QED
      BY <3>1, <3>2, IndexAssumption
  <2>4. ASSUME NEW offset \in Nat, NEW limit \in Nat
        PROVE  read_index(idx, offset, limit) = paginate(ids, offset, limit)
    <3> DEFINE end == Lesser(offset + Lesser(limit, PageSize), n)
               upTo == {l \in offset .. end : \A j \in offset .. (l - 1) : EntryAt(idx, j) # None}
    <3>1. end \in Nat /\ end <= n /\ (offset < n => offset <= end) /\ (offset >= n => end <= offset)
      BY <1>1, IndexAssumption DEF Lesser
    <3>2. paginate(ids, offset, limit) = SubSeq(ids, offset + 1, end)
      BY DEF paginate
    <3>3. read_index(idx, offset, limit) =
            IF offset >= n THEN <<>>
            ELSE [i \in 1 .. (Max(upTo) - offset) |-> EntryAt(idx, offset + i - 1)]
      BY <2>1 DEF read_index
    <3> HIDE DEF end, n
    <3>4. CASE offset >= n
      BY <3>1, <3>2, <3>3, <3>4, SubSeqEmpty
    <3>5. CASE offset < n
      <4>1. upTo = offset .. end
        BY <1>1, <2>3, <3>1
      <4> HIDE DEF upTo
      <4>2. Max(upTo) = end
        <5>1. offset \in Int /\ end \in Int /\ offset <= end
          BY <3>1, <3>5
        <5>2. Max(offset .. end) = end
          BY <5>1, MaxOfRange
        <5> QED
          BY <4>1, <5>2
      <4>3. ASSUME NEW i \in 1 .. (end - offset)
            PROVE  EntryAt(idx, offset + i - 1) = ids[offset + i]
        <5>1. offset + i - 1 \in 0 .. (n - 1) /\ (offset + i - 1) + 1 = offset + i
          BY <1>1, <3>1
        <5> QED
          BY <2>3, <5>1
      <4>4. read_index(idx, offset, limit) = [i \in 1 .. (end - offset) |-> ids[offset + i]]
        <5>1. ~(offset >= n)
          BY <1>1, <3>5
        <5>2. read_index(idx, offset, limit)
                = [i \in 1 .. (end - offset) |-> EntryAt(idx, offset + i - 1)]
          BY <3>3, <4>2, <5>1
        <5> QED
          BY <4>3, <5>2
      <4>5. SubSeq(ids, offset + 1, end) = [i \in 1 .. (end - offset) |-> ids[offset + i]]
        <5>1. \A i \in (offset + 1) .. end : ids[i] \in Nat
          BY <1>1, <3>1
        <5>2. /\ SubSeq(ids, offset + 1, end) \in Seq(Nat)
              /\ Len(SubSeq(ids, offset + 1, end)) = end - offset
              /\ \A i \in 1 .. (end - offset) : SubSeq(ids, offset + 1, end)[i] = ids[offset + i]
          <6>1. offset + 1 \in Int /\ end \in Int /\ end - (offset + 1) + 1 = end - offset
                /\ \A i \in 1 .. (end - offset) : (offset + 1) + i - 1 = offset + i
            BY <3>1
          <6>2. /\ SubSeq(ids, offset + 1, end) \in Seq(Nat)
                /\ Len(SubSeq(ids, offset + 1, end)) =
                      IF offset + 1 <= end THEN end - (offset + 1) + 1 ELSE 0
                /\ \A i \in 1 .. (end - (offset + 1) + 1) :
                      SubSeq(ids, offset + 1, end)[i] = ids[(offset + 1) + i - 1]
            BY <5>1, <6>1, SubSeqProperties
          <6> QED
            BY <3>1, <3>5, <6>1, <6>2
        <5>3. DOMAIN SubSeq(ids, offset + 1, end) = 1 .. (end - offset)
              /\ SubSeq(ids, offset + 1, end) \in [1 .. (end - offset) -> Nat]
          BY <5>2, LenProperties
        <5> QED
          BY <5>2, <5>3
      <4> QED
        BY <3>2, <4>4, <4>5
    <3> QED
      BY <1>1, <3>4, <3>5
  <2> QED
    BY <2>2, <2>4
<1> QED
  BY <1>2, <1>3 DEF Represents, Paged

-----------------------------------------------------------------------------
(***************************************************************************)
(* Migration                                                               *)
(***************************************************************************)

(* Where a call that copies c pages stops, in entries and in pages *)
CopyStop(T, k, c) == Lesser(k * PageSize + c * PageSize, T)
CopyTo(T, k, c) == IF k + c >= LegacyPages(T) THEN LegacyPages(T) ELSE k + c

CopiedPages(legacy, T, k, stop) ==
    [p \in ((k * PageSize) \div PageSize) .. ((stop - 1) \div PageSize) |->
        SubSeq(legacy, p * PageSize + 1, Lesser((p + 1) * PageSize, T))]

MergedPages(pages, written) ==
    [p \in DOMAIN pages \cup DOMAIN written |->
        IF p \in DOMAIN written THEN written[p] ELSE pages[p]]

(* The pages reserved for a nonempty list, with their products *)
LEMMA LegacyPagesProducts ==
    ASSUME NEW T \in Nat \ {0}
    PROVE  /\ LegacyPages(T) \in Nat /\ LegacyPages(T) > 0
           /\ T <= LegacyPages(T) * PageSize /\ (LegacyPages(T) - 1) * PageSize < T
           /\ LegacyPages(T) * PageSize \in Nat /\ (LegacyPages(T) - 1) * PageSize \in Nat
<1> DEFINE m == LegacyPages(T)
<1>1. T \in Nat /\ T > 0
  OBVIOUS
<1>2. m \in Nat /\ m > 0 /\ T <= m * PageSize /\ (m - 1) * PageSize < T
  BY <1>1, LegacyPagesBounds
<1> HIDE DEF m
<1>3. PageSize \in Nat /\ m - 1 \in Nat
  BY <1>2, IndexAssumption
<1>4. m * PageSize \in Nat /\ (m - 1) * PageSize \in Nat
  BY <1>2, <1>3
<1> QED
  BY <1>2, <1>4 DEF m

(* A page reserved for T entries starts before the last of them. *)
LEMMA PageStart ==
    ASSUME NEW T \in Nat \ {0}, NEW k \in Nat, k < LegacyPages(T)
    PROVE  k * PageSize < T /\ k * PageSize \in Nat
<1> DEFINE m == LegacyPages(T)
<1>1. m \in Nat /\ m > 0 /\ (m - 1) * PageSize < T /\ (m - 1) * PageSize \in Nat
  BY LegacyPagesProducts
<1>2. PageSize \in Nat /\ k < m
  BY IndexAssumption
<1> HIDE DEF m
<1>3. k * PageSize \in Nat
  BY <1>2
<1>4. CASE k = m - 1
  BY <1>1, <1>3, <1>4
<1>5. CASE k < m - 1
  <2>1. k \in Int /\ m - 1 \in Int
    BY <1>1
  <2>2. k * PageSize + PageSize <= (m - 1) * PageSize
    BY <1>2, <1>5, <2>1, MulMono
  <2> QED
    BY <1>1, <1>2, <1>3, <2>2
<1> QED
  BY <1>1, <1>2, <1>4, <1>5

(* A call stops at a page boundary, or at the end of the list. *)
LEMMA CopyBounds ==
    ASSUME NEW T \in Nat \ {0}, NEW k \in Nat, k < LegacyPages(T), NEW c \in Nat \ {0}
    PROVE  /\ CopyTo(T, k, c) \in (k + 1) .. LegacyPages(T)
           /\ CopyStop(T, k, c) \in 1 .. T
           /\ CopyStop(T, k, c) >= T <=> CopyTo(T, k, c) = LegacyPages(T)
           /\ CopyStop(T, k, c) < T => CopyStop(T, k, c) = CopyTo(T, k, c) * PageSize
           /\ (CopyStop(T, k, c) - 1) \div PageSize = CopyTo(T, k, c) - 1
           /\ (k * PageSize) \div PageSize = k
<1> USE IndexAssumption
<1> DEFINE m == LegacyPages(T)
           sum == k * PageSize + c * PageSize
           K == CopyTo(T, k, c)
           stop == CopyStop(T, k, c)
<1>1. m \in Nat /\ m > 0 /\ T <= m * PageSize /\ (m - 1) * PageSize < T
      /\ m * PageSize \in Nat /\ (m - 1) * PageSize \in Nat
  BY LegacyPagesProducts
<1>2. sum = (k + c) * PageSize /\ sum \in Nat /\ k + c \in Nat
  OBVIOUS
<1>3. K = IF k + c >= m THEN m ELSE k + c
  BY DEF CopyTo
<1>4. stop = IF sum <= T THEN sum ELSE T
  BY DEF CopyStop, Lesser
<1>5. (k * PageSize) \div PageSize = k
  <2>1. k * PageSize + 0 = k * PageSize /\ 0 \in 0 .. (PageSize - 1) /\ k \in Int
    OBVIOUS
  <2>2. (k * PageSize + 0) \div PageSize = k
    BY <2>1, DivUnique
  <2> QED
    BY <2>1, <2>2
<1>6. (T - 1) \div PageSize = m - 1
  <2>1. (T - 1) \div PageSize \in Nat
    BY SlotOf
  <2> QED
    BY <2>1 DEF LegacyPages
<1> HIDE DEF m, sum, K, stop
<1>7. CASE k + c >= m
  <2>1. m * PageSize <= sum
    <3>1. CASE k + c = m
      BY <1>1, <1>2, <3>1
    <3>2. CASE m < k + c
      <4>1. m * PageSize + PageSize <= (k + c) * PageSize
        BY <1>1, <1>2, <3>2, MulMono
      <4> QED
        BY <1>1, <1>2, <4>1
    <3> QED
      BY <1>1, <1>2, <1>7, <3>1, <3>2
  <2>2. stop = T /\ K = m
    BY <1>1, <1>2, <1>3, <1>4, <1>7, <2>1
  <2> QED
    BY <1>1, <1>5, <1>6, <2>2 DEF m, K, stop
<1>8. CASE ~(k + c >= m)
  <2>1. k + c <= m - 1 /\ k + c >= k + 1
    BY <1>1, <1>2, <1>8
  <2>2. sum <= (m - 1) * PageSize
    <3>1. CASE k + c = m - 1
      BY <1>1, <1>2, <3>1
    <3>2. CASE k + c < m - 1
      <4>1. (k + c) * PageSize + PageSize <= (m - 1) * PageSize
        BY <1>1, <1>2, <3>2, MulMono
      <4> QED
        BY <1>1, <1>2, <4>1
    <3> QED
      BY <1>1, <1>2, <2>1, <3>1, <3>2
  <2>3. stop = sum /\ K = k + c /\ stop < T
    BY <1>1, <1>2, <1>3, <1>4, <1>8, <2>2
  <2>4. stop - 1 = (K - 1) * PageSize + (PageSize - 1) /\ K - 1 \in Int
        /\ PageSize - 1 \in 0 .. (PageSize - 1)
    BY <1>2, <2>3
  <2>5. ((K - 1) * PageSize + (PageSize - 1)) \div PageSize = K - 1
    BY <2>4, DivUnique
  <2>6. stop \in 1 .. T
    <3>1. c * PageSize \in Nat /\ c * PageSize >= 1 /\ k * PageSize \in Nat
      <4>1. PICK d \in Nat : c = d + 1
        <5>1. c - 1 \in Nat /\ c = (c - 1) + 1
          OBVIOUS
        <5> QED
          BY <5>1
      <4>2. c * PageSize = d * PageSize + PageSize /\ d * PageSize \in Nat
        BY <4>1
      <4> QED
        BY <4>2
    <3> QED
      BY <1>2, <2>3, <3>1 DEF sum
  <2> QED
    BY <1>1, <1>2, <1>5, <2>1, <2>3, <2>4, <2>5, <2>6 DEF m, K, stop
<1> QED
  BY <1>7, <1>8

(* Copying pages moves the border between copied and uncopied entries. *)
LEMMA CopyPages ==
    ASSUME NEW ids \in Seq(Nat), NEW T \in 1 .. Len(ids), NEW k \in Nat, k < LegacyPages(T),
           NEW c \in Nat \ {0}, NEW pages, PagesHold(pages, ids, T, k)
    PROVE  PagesHold(MergedPages(pages,
                        CopiedPages(SubSeq(ids, 1, T), T, k, CopyStop(T, k, c))),
                     ids, T, CopyTo(T, k, c))
<1> USE IndexAssumption
<1> DEFINE m == LegacyPages(T)
           n == Len(ids)
           K == CopyTo(T, k, c)
           legacy == SubSeq(ids, 1, T)
           written == CopiedPages(legacy, T, k, CopyStop(T, k, c))
           merged == MergedPages(pages, written)
<1>1. n \in Nat /\ T \in Nat \ {0} /\ T <= n /\ \A i \in 1 .. n : ids[i] \in Nat
  BY LenProperties, ElementOfSeq
<1>2. m \in Nat /\ (m - 1) * PageSize < T /\ (m - 1) * PageSize \in Nat /\ T <= m * PageSize
  BY <1>1, LegacyPagesProducts
<1>3. K \in (k + 1) .. m
      /\ (CopyStop(T, k, c) - 1) \div PageSize = K - 1 /\ (k * PageSize) \div PageSize = k
  BY <1>1, CopyBounds
<1>4. written = [p \in k .. (K - 1) |->
                   SubSeq(legacy, p * PageSize + 1, Lesser((p + 1) * PageSize, T))]
  BY <1>3 DEF CopiedPages
<1> HIDE DEF m, n, K, written
<1>5. \A i \in 1 .. T : legacy[i] = ids[i] /\ legacy[i] \in Nat
  <2>1. \A i \in 1 .. T : ids[i] \in Nat
    BY <1>1
  <2>2. \A i \in 1 .. (T - 1 + 1) : legacy[i] = ids[1 + i - 1]
    BY <1>1, <2>1, SubSeqProperties
  <2> QED
    BY <1>1, <2>1, <2>2
<1> HIDE DEF legacy
<1>6. ASSUME NEW p \in k .. (K - 1)
      PROVE  /\ written[p] \in Seq(Nat)
             /\ Len(written[p]) = Fill(n, T, K, p) /\ Fill(n, T, K, p) > 0
             /\ \A s \in 1 .. Len(written[p]) : written[p][s] = ids[Source(T, p, s)]
  <2> DEFINE a == p * PageSize
             b == Lesser((p + 1) * PageSize, T)
  <2>1. p \in Nat /\ p <= m - 1 /\ p < K
    BY <1>2, <1>3
  <2>2. a \in Nat /\ (p + 1) * PageSize = a + PageSize
    BY <2>1
  <2>3. a < T
    <3>1. CASE p = m - 1
      BY <1>2, <3>1
    <3>2. CASE p < m - 1
      <4>1. p * PageSize + PageSize <= (m - 1) * PageSize
        BY <1>2, <2>1, <3>2, MulMono
      <4> QED
        BY <1>2, <2>2, <4>1
    <3> QED
      BY <1>2, <2>1, <3>1, <3>2
  <2>4. b \in (a + 1) .. T /\ b - (a + 1) + 1 = Lesser(PageSize, T - a) /\ Lesser(PageSize, T - a) > 0
    BY <1>1, <2>2, <2>3 DEF Lesser
  <2>5. written[p] = SubSeq(legacy, a + 1, b)
    BY <1>4
  <2>6. Fill(n, T, K, p) = Lesser(PageSize, T - a) /\ \A s \in Int : Source(T, p, s) = a + s
    BY <1>2, <2>1 DEF Fill, Source, m
  <2> HIDE DEF a, b
  <2>7. \A i \in (a + 1) .. b : legacy[i] \in Nat
    BY <1>1, <1>5, <2>2, <2>4
  <2>8. /\ SubSeq(legacy, a + 1, b) \in Seq(Nat)
        /\ Len(SubSeq(legacy, a + 1, b)) = IF a + 1 <= b THEN b - (a + 1) + 1 ELSE 0
        /\ \A s \in 1 .. (b - (a + 1) + 1) : SubSeq(legacy, a + 1, b)[s] = legacy[(a + 1) + s - 1]
    BY <2>2, <2>4, <2>7, SubSeqProperties
  <2>9. Len(written[p]) = Fill(n, T, K, p) /\ Fill(n, T, K, p) > 0
    BY <2>2, <2>4, <2>5, <2>6, <2>8
  <2>10. ASSUME NEW s \in 1 .. Len(written[p])
         PROVE  written[p][s] = ids[Source(T, p, s)]
    <3>1. s \in 1 .. (b - (a + 1) + 1) /\ (a + 1) + s - 1 = a + s /\ a + s \in 1 .. T
      BY <2>2, <2>4, <2>5, <2>8, <2>10
    <3>2. written[p][s] = ids[a + s]
      BY <1>5, <2>5, <2>8, <3>1
    <3> QED
      BY <2>6, <3>1, <3>2
  <2> QED
    BY <2>5, <2>8, <2>9, <2>10
<1>7. ASSUME NEW p \in Nat, p \notin k .. (K - 1)
      PROVE  Fill(n, T, K, p) = Fill(n, T, k, p)
  BY <1>2, <1>3, <1>7 DEF Fill, m
<1>8. /\ DOMAIN pages = {p \in Nat : Fill(n, T, k, p) > 0}
      /\ \A p \in DOMAIN pages :
            /\ pages[p] \in Seq(Nat) /\ Len(pages[p]) = Fill(n, T, k, p)
            /\ \A s \in 1 .. Len(pages[p]) : pages[p][s] = ids[Source(T, p, s)]
  BY DEF PagesHold, n
<1>9. DOMAIN written = k .. (K - 1) /\ k .. (K - 1) \subseteq Nat
  BY <1>3, <1>4
<1>10. merged = [p \in DOMAIN pages \cup k .. (K - 1) |->
                   IF p \in k .. (K - 1) THEN written[p] ELSE pages[p]]
  BY <1>9 DEF MergedPages
<1> HIDE DEF merged
<1>11. DOMAIN merged = {p \in Nat : Fill(n, T, K, p) > 0}
  BY <1>6, <1>7, <1>8, <1>9, <1>10
<1>12. ASSUME NEW p \in DOMAIN merged
       PROVE  /\ merged[p] \in Seq(Nat) /\ Len(merged[p]) = Fill(n, T, K, p)
              /\ \A s \in 1 .. Len(merged[p]) : merged[p][s] = ids[Source(T, p, s)]
  <2>1. CASE p \in k .. (K - 1)
    BY <1>6, <1>10, <2>1
  <2>2. CASE p \notin k .. (K - 1)
    <3>1. p \in Nat /\ p \in DOMAIN pages /\ merged[p] = pages[p]
      BY <1>10, <1>11, <1>12, <2>2
    <3> QED
      BY <1>7, <1>8, <2>2, <3>1
  <2> QED
    BY <2>1, <2>2
<1>13. PagesHold(merged, ids, T, K)
  BY <1>11, <1>12 DEF PagesHold, n
<1> QED
  BY <1>13 DEF merged, K, written, legacy

(* What a call that copies pages leaves *)
Copied(ids, T, k, c, pages) ==
    LET stop == CopyStop(T, k, c)
    IN  [legacy      |-> IF stop >= T THEN None ELSE SubSeq(ids, 1, T),
         cursor      |-> IF stop >= T THEN None ELSE stop,
         legacyCount |-> T,
         count       |-> Len(ids),
         pages       |-> MergedPages(pages, CopiedPages(SubSeq(ids, 1, T), T, k, stop))]

LEMMA CopyStep ==
    ASSUME NEW ids \in Seq(Nat), NEW T \in 1 .. Len(ids), NEW k \in Nat, k < LegacyPages(T),
           NEW c \in Nat \ {0}, NEW pages, PagesHold(pages, ids, T, k)
    PROVE  Paged(Copied(ids, T, k, c, pages), ids)
<1> DEFINE K == CopyTo(T, k, c)
           stop == CopyStop(T, k, c)
           m == LegacyPages(T)
           out == Copied(ids, T, k, c, pages)
           merged == MergedPages(pages, CopiedPages(SubSeq(ids, 1, T), T, k, stop))
<1>1. T \in Nat \ {0} /\ T \in 0 .. Len(ids) /\ Len(ids) \in Nat
  BY LenProperties
<1>2. K \in (k + 1) .. m /\ (stop >= T <=> K = m) /\ (stop < T => stop = K * PageSize) /\ stop \in 1 .. T
  BY <1>1, CopyBounds
<1>3. m \in Nat
  BY <1>1, LegacyPagesBounds
<1>4. PagesHold(merged, ids, T, K)
  BY CopyPages
<1>5. out = [legacy      |-> IF stop >= T THEN None ELSE SubSeq(ids, 1, T),
             cursor      |-> IF stop >= T THEN None ELSE stop,
             legacyCount |-> T,
             count       |-> Len(ids),
             pages       |-> merged]
  BY DEF Copied
<1> HIDE DEF K, stop, merged, out, m
<1>6. K \in 0 .. m /\ K > 0 /\ K \in Nat
  BY <1>2, <1>3
<1>7. out = [legacy      |-> IF K = m THEN None ELSE SubSeq(ids, 1, T),
             cursor      |-> IF K = m THEN None ELSE K * PageSize,
             legacyCount |-> IF T = 0 THEN None ELSE T,
             count       |-> Len(ids),
             pages       |-> out.pages] /\ out.pages = merged
  <2>1. CASE K = m
    BY <1>1, <1>2, <1>5, <2>1
  <2>2. CASE K # m
    <3>1. ~(stop >= T) /\ stop = K * PageSize
      BY <1>1, <1>2, <2>2
    <3> QED
      BY <1>1, <1>5, <2>2, <3>1
  <2> QED
    BY <2>1, <2>2
<1>8. PagedAs(out, ids, T, K)
  BY <1>4, <1>6, <1>7 DEF PagedAs, m
<1> QED
  BY <1>1, <1>6, <1>8 DEF Paged, out

(* A list of which nothing is copied yet has no pages. *)
LEMMA NoPages ==
    ASSUME NEW ids \in Seq(Nat)
    PROVE  PagesHold(<<>>, ids, Len(ids), 0)
<1> DEFINE n == Len(ids)
           m == LegacyPages(n)
<1>1. n \in Nat /\ m \in Nat
  BY LenProperties, LegacyPagesBounds
<1>2. ASSUME NEW p \in Nat
      PROVE  Fill(n, n, 0, p) = 0
  <2>1. CASE p >= m
    <3>1. (p - m) * PageSize \in Nat
      <4> HIDE DEF m
      <4>1. p - m \in Nat /\ PageSize \in Nat
        BY <1>1, <2>1, IndexAssumption
      <4> QED
        BY <4>1
    <3>2. n - n - (p - m) * PageSize <= 0
      <4> HIDE DEF n, m
      <4> QED
        BY <1>1, <3>1
    <3> QED
      BY <2>1, <3>2 DEF Fill, AppendedFill
  <2>2. CASE ~(p >= m)
    BY <2>2 DEF Fill
  <2> QED
    BY <2>1, <2>2
<1>3. DOMAIN <<>> = {}
  OBVIOUS
<1> HIDE DEF n
<1>4. {p \in Nat : Fill(n, n, 0, p) > 0} = {}
  BY <1>2
<1> QED
  BY <1>3, <1>4 DEF PagesHold, n

(***************************************************************************)
(* A migration call changes nothing about the list; one that may copy a    *)
(* page turns a nonempty unpaged list into a paged index.                  *)
(***************************************************************************)
LEMMA MigrateStep ==
    ASSUME NEW ids \in Seq(Nat), NEW idx, Represents(idx, ids), NEW c \in Nat
    PROVE  /\ Represents(migrate_legacy_index(idx, c), ids)
           /\ c > 0 /\ ids # <<>> => Paged(migrate_legacy_index(idx, c), ids)
           /\ MigratedCount(idx) = Len(ids)
<1> DEFINE n == Len(ids)
           capped == Lesser(c, MaxMigrationPages)
<1>1. n \in Nat /\ n # None /\ (ids # <<>> => n > 0) /\ ids # None
  BY LenProperties, IndexAssumption, EmptySeq
<1>2. capped \in Nat /\ (c > 0 => capped # 0)
  BY IndexAssumption DEF Lesser
<1>3. CASE idx = LegacyIndex(ids) /\ ids = <<>>
  BY <1>3 DEF LegacyIndex, migrate_legacy_index, MigratedCount, OrElse, Represents
<1>4. CASE idx = LegacyIndex(ids) /\ ids # <<>>
  <2>1. idx = [legacy |-> ids, cursor |-> None, legacyCount |-> None, count |-> None, pages |-> <<>>]
    BY <1>4 DEF LegacyIndex
  <2>2. LegacyLength(idx) = n /\ OrElse(idx.cursor, 0) = 0 /\ OrElse(idx.count, n) = n /\ idx.legacy # None
    BY <1>1, <2>1 DEF LegacyLength, OrElse
  <2>3. MigratedCount(idx) = n
    BY <2>2 DEF MigratedCount
  <2>4. CASE capped = 0
    <3>1. migrate_legacy_index(idx, c) = idx
      BY <1>1, <1>4, <2>2, <2>4 DEF migrate_legacy_index
    <3> QED
      BY <1>2, <2>3, <2>4, <3>1
  <2>5. CASE capped # 0
    <3>1. SubSeq(ids, 1, n) = ids
      BY SubSeqFull
    <3>2. 0 * PageSize = 0 /\ ~(0 >= n)
      BY <1>1, <1>4, IndexAssumption
    <3>3. /\ LegacyLength(idx) = n /\ OrElse(idx.cursor, 0) = 0 * PageSize /\ OrElse(idx.count, n) = n
          /\ idx.legacy = SubSeq(ids, 1, n) /\ idx.legacy # None /\ idx.pages = <<>>
          /\ ~(0 * PageSize >= n)
      BY <2>1, <2>2, <3>1, <3>2
    <3>4. migrate_legacy_index(idx, c) = Copied(ids, n, 0, capped, <<>>)
      BY <2>5, <3>3
         DEF migrate_legacy_index, Copied, CopyStop, CopiedPages, MergedPages, WithPages
    <3>5. n \in 1 .. Len(ids) /\ 0 < LegacyPages(n) /\ PagesHold(<<>>, ids, n, 0)
      BY <1>1, <1>4, NoPages, LegacyPagesBounds
    <3>6. Paged(Copied(ids, n, 0, capped, <<>>), ids)
      BY <1>2, <2>5, <3>5, CopyStep
    <3> QED
      BY <2>3, <3>4, <3>6 DEF Represents
  <2> QED
    BY <2>4, <2>5
<1>5. ASSUME NEW T \in 0 .. n, NEW k \in Nat, PagedAs(idx, ids, T, k)
      PROVE  Paged(migrate_legacy_index(idx, c), ids) /\ MigratedCount(idx) = n
  <2> DEFINE m == LegacyPages(T)
  <2>1. idx = [legacy      |-> IF k = m THEN None ELSE SubSeq(ids, 1, T),
               cursor      |-> IF k = m THEN None ELSE k * PageSize,
               legacyCount |-> IF T = 0 THEN None ELSE T,
               count       |-> n,
               pages       |-> idx.pages]
        /\ k \in 0 .. m /\ PagesHold(idx.pages, ids, T, k)
    BY <1>5 DEF PagedAs
  <2>2. MigratedCount(idx) = n
    BY <1>1, <2>1 DEF MigratedCount, OrElse
  <2>3. CASE k = m
    BY <1>5, <2>1, <2>2, <2>3 DEF migrate_legacy_index, Paged
  <2>4. CASE k # m
    <3>1. m \in Nat /\ (T = 0 => m = 0) /\ T \in Nat
      BY <1>1, LegacyPagesBounds
    <3>2. T \in Nat \ {0} /\ k < m
      BY <1>1, <2>1, <2>4, <3>1
    <3>3. k * PageSize < T /\ k * PageSize \in Nat
      BY <3>2, PageStart
    <3>4. SubSeq(ids, 1, T) # None
      <4>1. \A i \in 1 .. T : ids[i] \in Nat
        BY <1>1, <3>1, ElementOfSeq
      <4>2. SubSeq(ids, 1, T) \in Seq(Nat)
        BY <3>1, <4>1, SubSeqProperties
      <4> QED
        BY <4>2, IndexAssumption
    <3>5. T # None /\ k * PageSize # None
      BY <3>1, <3>3, IndexAssumption
    <3>6. /\ LegacyLength(idx) = T /\ OrElse(idx.cursor, 0) = k * PageSize /\ OrElse(idx.count, T) = n
          /\ idx.legacy = SubSeq(ids, 1, T) /\ idx.legacy # None
      BY <1>1, <2>1, <2>4, <3>2, <3>4, <3>5 DEF LegacyLength, OrElse
    <3>7. CASE capped = 0
      <4>1. migrate_legacy_index(idx, c) = idx
        BY <3>1, <3>3, <3>6, <3>7 DEF migrate_legacy_index
      <4> QED
        BY <1>5, <2>2, <4>1 DEF Paged
    <3>8. CASE capped # 0
      <4>1. ~(k * PageSize >= T)
        BY <3>1, <3>3
      <4>2. migrate_legacy_index(idx, c) = Copied(ids, T, k, capped, idx.pages)
        BY <3>6, <3>8, <4>1
           DEF migrate_legacy_index, Copied, CopyStop, CopiedPages, MergedPages, WithPages
      <4>3. T \in 1 .. Len(ids) /\ k < LegacyPages(T) /\ capped \in Nat \ {0}
            /\ PagesHold(idx.pages, ids, T, k)
        BY <1>1, <1>2, <2>1, <3>2, <3>8
      <4>4. Paged(Copied(ids, T, k, capped, idx.pages), ids)
        BY <4>3, CopyStep
      <4> QED
        BY <2>2, <4>2, <4>4
    <3> QED
      BY <3>7, <3>8
  <2> QED
    BY <2>3, <2>4
<1> QED
  BY <1>3, <1>4, <1>5 DEF Represents, Paged

-----------------------------------------------------------------------------
(***************************************************************************)
(* Appending                                                               *)
(***************************************************************************)

(* Every filled slot holds an entry of the list. *)
LEMMA SourceInList ==
    ASSUME NEW n \in Nat, NEW T \in 0 .. n, NEW k \in Nat, NEW p \in Nat,
           NEW s \in 1 .. Fill(n, T, k, p)
    PROVE  Source(T, p, s) \in 1 .. n
<1> DEFINE m == LegacyPages(T)
<1>1. T \in Nat /\ m \in Nat /\ PageSize \in Nat
  BY LegacyPagesBounds, IndexAssumption
<1>2. CASE p < m
  <2>1. Fill(n, T, k, p) = IF p < k THEN Lesser(PageSize, T - p * PageSize) ELSE 0
    BY <1>1, <1>2 DEF Fill
  <2>2. Source(T, p, s) = p * PageSize + s /\ p * PageSize \in Nat
    BY <1>1, <1>2 DEF Source
  <2> HIDE DEF m
  <2>3. s \in Nat /\ s >= 1 /\ s <= T - p * PageSize
    BY <1>1, <2>1, <2>2 DEF Lesser
  <2> QED
    BY <1>1, <2>2, <2>3
<1>3. CASE p >= m
  <2> DEFINE d == p - m
  <2>1. Fill(n, T, k, p) = IF n - T - d * PageSize <= 0 THEN 0
                           ELSE Lesser(PageSize, n - T - d * PageSize)
    BY <1>3 DEF Fill, AppendedFill
  <2>2. Source(T, p, s) = T + d * PageSize + s
    BY <1>1, <1>3 DEF Source
  <2>3. d \in Nat
    <3> HIDE DEF m
    <3> QED
      BY <1>1, <1>3
  <2> HIDE DEF m, d
  <2>4. d * PageSize \in Nat
    BY <1>1, <2>3
  <2>5. s \in Nat /\ s >= 1 /\ s <= n - T - d * PageSize
    BY <1>1, <2>1, <2>4 DEF Lesser
  <2> QED
    BY <1>1, <2>2, <2>4, <2>5
<1> QED
  BY <1>1, <1>2, <1>3

(* One more entry is one more slot of one page. *)
LEMMA FillStep ==
    ASSUME NEW n \in Nat, NEW T \in 0 .. n, NEW k \in Nat
    PROVE  LET pg == LegacyPages(T) + (n - T) \div PageSize
               r  == (n - T) % PageSize
           IN  /\ pg \in Nat /\ r \in 0 .. (PageSize - 1)
               /\ Fill(n, T, k, pg) = r /\ Fill(n + 1, T, k, pg) = r + 1
               /\ \A s \in Nat : Source(T, pg, s) = n - r + s
               /\ \A p \in Nat \ {pg} : Fill(n + 1, T, k, p) = Fill(n, T, k, p)
<1> DEFINE m == LegacyPages(T)
           q == (n - T) \div PageSize
           r == (n - T) % PageSize
           pg == m + q
<1>0. T \in Nat /\ n - T \in Nat
  OBVIOUS
<1>1. T \in Nat /\ m \in Nat /\ PageSize \in Nat \ {0} /\ n - T \in Nat
  BY <1>0, LegacyPagesBounds, IndexAssumption
<1>2. q \in Nat /\ r + 1 \in 1 .. PageSize /\ n - T = q * PageSize + r /\ q * PageSize \in Nat /\ r \in Int
  BY <1>1, SlotOf
<1>3. \A j \in Nat, p \in Nat : p >= m =>
        Fill(j, T, k, p) = IF j - T - (p - m) * PageSize <= 0 THEN 0
                           ELSE Lesser(PageSize, j - T - (p - m) * PageSize)
  BY DEF Fill, AppendedFill
<1>4. \A j \in Nat, p \in Nat : ~(p >= m) =>
        Fill(j, T, k, p) = IF p < k THEN Lesser(PageSize, T - p * PageSize) ELSE 0
  BY DEF Fill
<1>5. \A p \in Nat, s \in Nat : p >= m => Source(T, p, s) = T + (p - m) * PageSize + s
  BY <1>1 DEF Source
<1> HIDE DEF m, q, r
<1>6. pg \in Nat /\ pg >= m /\ pg - m = q /\ r \in 0 .. (PageSize - 1)
  BY <1>1, <1>2
<1>7. Fill(n, T, k, pg) = r /\ Fill(n + 1, T, k, pg) = r + 1
  <2>1. n - T - (pg - m) * PageSize = r /\ (n + 1) - T - (pg - m) * PageSize = r + 1
    BY <1>1, <1>2, <1>6
  <2>2. n + 1 \in Nat
    OBVIOUS
  <2> HIDE DEF pg
  <2> QED
    BY <1>1, <1>3, <1>6, <2>1, <2>2 DEF Lesser
<1>8. ASSUME NEW s \in Nat
      PROVE  Source(T, pg, s) = n - r + s
  <2>1. Source(T, pg, s) = T + q * PageSize + s
    BY <1>5, <1>6
  <2> QED
    BY <1>1, <1>2, <2>1
<1>9. ASSUME NEW p \in Nat \ {pg}
      PROVE  Fill(n + 1, T, k, p) = Fill(n, T, k, p)
  <2>0. p \in Nat /\ p # pg /\ n + 1 \in Nat
    OBVIOUS
  <2>1. CASE ~(p >= m)
    BY <1>4, <2>0, <2>1
  <2>2. CASE p >= m
    <3> DEFINE d == p - m
               a == n - T - d * PageSize
               b == (n + 1) - T - d * PageSize
    <3>1. d \in Nat /\ d # q
      BY <1>1, <1>2, <2>0, <2>2
    <3>2. /\ Fill(n, T, k, p) = IF a <= 0 THEN 0 ELSE Lesser(PageSize, a)
          /\ Fill(n + 1, T, k, p) = IF b <= 0 THEN 0 ELSE Lesser(PageSize, b)
      BY <1>3, <2>0, <2>2
    <3> HIDE DEF d
    <3>3. d * PageSize \in Nat /\ d \in Int /\ q \in Int /\ PageSize \in Nat
      BY <1>1, <1>2, <3>1
    <3>4. a \in Int /\ b = a + 1 /\ a = q * PageSize + r - d * PageSize
      BY <1>1, <1>2, <3>3
    <3>5. CASE d < q
      <4>1. d * PageSize + PageSize <= q * PageSize
        BY <3>3, <3>5, MulMono
      <4>2. a >= PageSize /\ PageSize > 0
        BY <1>1, <1>2, <3>3, <3>4, <4>1
      <4> HIDE DEF a, b
      <4> QED
        BY <1>1, <3>2, <3>4, <4>2 DEF Lesser
    <3>6. CASE q < d
      <4>1. q * PageSize + PageSize <= d * PageSize
        BY <3>3, <3>6, MulMono
      <4>2. a + 1 <= 0
        BY <1>1, <1>2, <3>3, <3>4, <4>1
      <4> HIDE DEF a, b
      <4> QED
        BY <3>2, <3>4, <4>2
    <3> QED
      BY <1>2, <3>1, <3>5, <3>6
  <2> QED
    BY <2>1, <2>2
<1> QED
  BY <1>6, <1>7, <1>8, <1>9 DEF m, q, r

(* Appending to the page behind the last entry *)
LEMMA AppendPages ==
    ASSUME NEW ids \in Seq(Nat), NEW e \in Nat, NEW T \in 0 .. Len(ids), NEW k \in Nat,
           NEW pages, PagesHold(pages, ids, T, k),
           NEW pg, pg = LegacyPages(T) + (Len(ids) - T) \div PageSize,
           NEW old, old = IF pg \in DOMAIN pages THEN pages[pg] ELSE <<>>
    PROVE  PagesHold(MergedPages(pages, [p \in {pg} |-> Append(old, e)]), Append(ids, e), T, k)
<1> DEFINE n == Len(ids)
           r == (n - T) % PageSize
           longer == Append(ids, e)
           merged == MergedPages(pages, [p \in {pg} |-> Append(old, e)])
<1>1. n \in Nat /\ Len(longer) = n + 1 /\ longer[n + 1] = e
      /\ \A i \in 1 .. n : longer[i] = ids[i]
  BY LenProperties, AppendProperties
<1>2. /\ pg \in Nat /\ r \in 0 .. (PageSize - 1)
      /\ Fill(n, T, k, pg) = r /\ Fill(n + 1, T, k, pg) = r + 1
      /\ \A s \in Nat : Source(T, pg, s) = n - r + s
      /\ \A p \in Nat \ {pg} : Fill(n + 1, T, k, p) = Fill(n, T, k, p)
  BY <1>1, FillStep
<1>3. /\ DOMAIN pages = {p \in Nat : Fill(n, T, k, p) > 0}
      /\ \A p \in DOMAIN pages :
            /\ pages[p] \in Seq(Nat) /\ Len(pages[p]) = Fill(n, T, k, p)
            /\ \A s \in 1 .. Len(pages[p]) : pages[p][s] = ids[Source(T, p, s)]
  BY DEF PagesHold
<1>4. merged = [p \in DOMAIN pages \cup {pg} |-> IF p = pg THEN Append(old, e) ELSE pages[p]]
  BY DEF MergedPages
<1>5. ASSUME NEW p \in Nat, NEW s \in 1 .. Fill(n, T, k, p)
      PROVE  Source(T, p, s) \in 1 .. n
  BY <1>1, SourceInList
<1> HIDE DEF n, r, longer, merged
<1>6. /\ old \in Seq(Nat) /\ Len(old) = r
      /\ \A s \in 1 .. r : old[s] = ids[Source(T, pg, s)]
  <2>1. CASE pg \in DOMAIN pages
    BY <1>2, <1>3, <2>1
  <2>2. CASE pg \notin DOMAIN pages
    <3>1. r = 0
      BY <1>2, <1>3, <2>2
    <3>2. <<>> \in Seq(Nat) /\ Len(<<>>) = 0
      OBVIOUS
    <3> QED
      BY <2>2, <3>1, <3>2
  <2> QED
    BY <2>1, <2>2
<1>7. /\ Append(old, e) \in Seq(Nat) /\ Len(Append(old, e)) = r + 1
      /\ \A s \in 1 .. (r + 1) : Append(old, e)[s] = longer[Source(T, pg, s)]
  <2>1. /\ Append(old, e) \in Seq(Nat) /\ Len(Append(old, e)) = r + 1
        /\ \A s \in 1 .. r : Append(old, e)[s] = old[s]
        /\ Append(old, e)[r + 1] = e
    BY <1>6, AppendProperties
  <2>2. ASSUME NEW s \in 1 .. (r + 1)
        PROVE  Append(old, e)[s] = longer[Source(T, pg, s)]
    <3>0. r \in Nat /\ s \in Nat
      BY <1>2, IndexAssumption
    <3>1. CASE s = r + 1
      <4>1. Source(T, pg, s) = n + 1
        <5>1. Source(T, pg, s) = n - r + s
          BY <1>2, <3>0
        <5> QED
          BY <1>1, <3>0, <3>1, <5>1
      <4> QED
        BY <1>1, <2>1, <3>1, <4>1
    <3>2. CASE s \in 1 .. r
      <4>1. Source(T, pg, s) \in 1 .. n
        BY <1>2, <1>5, <3>2
      <4> QED
        BY <1>1, <1>6, <2>1, <3>2, <4>1
    <3>3. s = r + 1 \/ s \in 1 .. r
      BY <3>0
    <3> QED
      BY <3>1, <3>2, <3>3
  <2> QED
    BY <2>1, <2>2
<1>8. DOMAIN merged = {p \in Nat : Fill(n + 1, T, k, p) > 0}
  <2>0. r + 1 > 0
    BY <1>2, IndexAssumption
  <2>1. DOMAIN merged = DOMAIN pages \cup {pg}
    BY <1>4
  <2> QED
    BY <1>2, <1>3, <2>0, <2>1
<1>9. ASSUME NEW p \in DOMAIN merged
      PROVE  /\ merged[p] \in Seq(Nat) /\ Len(merged[p]) = Fill(n + 1, T, k, p)
             /\ \A s \in 1 .. Len(merged[p]) : merged[p][s] = longer[Source(T, p, s)]
  <2>1. CASE p = pg
    BY <1>2, <1>4, <1>7, <2>1
  <2>2. CASE p # pg
    <3>1. p \in Nat /\ p \in DOMAIN pages /\ merged[p] = pages[p] /\ p \in Nat \ {pg}
      BY <1>3, <1>4, <1>9, <2>2
    <3>2. /\ merged[p] \in Seq(Nat) /\ Len(merged[p]) = Fill(n, T, k, p)
          /\ Fill(n + 1, T, k, p) = Fill(n, T, k, p)
          /\ \A s \in 1 .. Len(merged[p]) : merged[p][s] = ids[Source(T, p, s)]
      BY <1>2, <1>3, <3>1
    <3>3. ASSUME NEW s \in 1 .. Len(merged[p])
          PROVE  merged[p][s] = longer[Source(T, p, s)]
      <4>1. Source(T, p, s) \in 1 .. n
        BY <1>5, <3>1, <3>2
      <4> QED
        BY <1>1, <3>2, <4>1
    <3> QED
      BY <3>2, <3>3
  <2> QED
    BY <2>1, <2>2
<1>10. PagesHold(merged, longer, T, k)
  BY <1>1, <1>8, <1>9 DEF PagesHold
<1> QED
  BY <1>10 DEF merged, longer

(***************************************************************************)
(* What migrate_legacy_index leaves for append_index_entry: a paged index, *)
(* or an empty one whose count is still to be written.                     *)
(***************************************************************************)
Appendable(idx, ids, T, k) ==
    /\ idx = [legacy      |-> IF k = LegacyPages(T) THEN None ELSE SubSeq(ids, 1, T),
              cursor      |-> IF k = LegacyPages(T) THEN None ELSE k * PageSize,
              legacyCount |-> IF T = 0 THEN None ELSE T,
              count       |-> idx.count,
              pages       |-> idx.pages]
    /\ k \in 0 .. LegacyPages(T) /\ (T > 0 => k > 0)
    /\ PagesHold(idx.pages, ids, T, k)

(* The index with other pages and another count *)
Rewritten(idx, pages, count) == [idx EXCEPT !.pages = pages, !.count = count]

IsIndex(idx) ==
    idx = [legacy |-> idx.legacy, cursor |-> idx.cursor, legacyCount |-> idx.legacyCount,
           count |-> idx.count, pages |-> idx.pages]

LEMMA RewrittenFields ==
    ASSUME NEW idx, IsIndex(idx), NEW pages, NEW count
    PROVE  Rewritten(idx, pages, count)
             = [legacy |-> idx.legacy, cursor |-> idx.cursor, legacyCount |-> idx.legacyCount,
                count |-> count, pages |-> pages]
<1> DEFINE a == idx.legacy
           b == idx.cursor
           c == idx.legacyCount
           d == idx.count
           f == idx.pages
           x == [idx EXCEPT !.pages = pages]
<1>0. idx = [legacy |-> a, cursor |-> b, legacyCount |-> c, count |-> d, pages |-> f]
  BY Zenon DEF IsIndex
<1> HIDE DEF a, b, c, d, f
<1>1. x = [legacy |-> a, cursor |-> b, legacyCount |-> c, count |-> d, pages |-> pages]
  BY <1>0
<1> HIDE DEF x
<1>2. [x EXCEPT !.count = count]
        = [legacy |-> a, cursor |-> b, legacyCount |-> c, count |-> count, pages |-> pages]
  BY <1>1
<1> QED
  BY <1>2, Zenon DEF a, b, c, x, Rewritten

(* The entry goes behind the last one, wherever that is. *)
LEMMA AppendTo ==
    ASSUME NEW ids \in Seq(Nat), NEW e \in Nat, NEW T \in 0 .. Len(ids), NEW k \in Nat,
           NEW idx, Appendable(idx, ids, T, k),
           NEW page, page = logical_to_physical_offset(Len(ids), idx.legacyCount) \div PageSize
    PROVE  PagedAs(Rewritten(idx, WithPages(idx, [p \in {page} |-> Append(PageOf(idx, page), e)]),
                             Len(ids) + 1),
                   Append(ids, e), T, k)
<1> DEFINE n == Len(ids)
           m == LegacyPages(T)
           longer == Append(ids, e)
           written == [p \in {page} |-> Append(PageOf(idx, page), e)]
           out == Rewritten(idx, WithPages(idx, written), n + 1)
<1>1. n \in Nat /\ T \in Nat /\ n - T \in Nat /\ T <= n
  <2>1. n \in Nat
    BY LenProperties
  <2> QED
    BY <2>1
<1>2. /\ longer \in Seq(Nat) /\ Len(longer) = n + 1
      /\ \A i \in 1 .. n : longer[i] = ids[i] /\ ids[i] \in Nat
  BY LenProperties, ElementOfSeq, AppendProperties
<1>3. m \in Nat /\ append_base(T) = m * PageSize /\ (T = 0 => m = 0)
  BY <1>1, LegacyPagesBounds
<1>4. idx = [legacy      |-> IF k = m THEN None ELSE SubSeq(ids, 1, T),
             cursor      |-> IF k = m THEN None ELSE k * PageSize,
             legacyCount |-> IF T = 0 THEN None ELSE T,
             count       |-> idx.count,
             pages       |-> idx.pages]
      /\ k \in 0 .. m /\ (T > 0 => k > 0) /\ PagesHold(idx.pages, ids, T, k)
  BY DEF Appendable
<1>5. page = m + (n - T) \div PageSize
  <2>1. logical_to_physical_offset(n, idx.legacyCount) = m * PageSize + (n - T)
    <3>1. CASE T = 0
      <4>1. idx.legacyCount = None
        BY <1>4, <3>1
      <4>2. m * PageSize + (n - T) = n
        <5> HIDE DEF m, n
        <5> QED
          BY <1>1, <1>3, <3>1, IndexAssumption
      <4> QED
        BY <4>1, <4>2 DEF logical_to_physical_offset
    <3>2. CASE T # 0
      <4>1. idx.legacyCount = T /\ T # None
        BY <1>1, <1>4, <3>2, IndexAssumption
      <4> QED
        BY <1>1, <1>3, <4>1 DEF logical_to_physical_offset
    <3> QED
      BY <3>1, <3>2
  <2>2. m \in Int /\ n - T \in Nat
    BY <1>1, <1>3
  <2> HIDE DEF m, n
  <2>3. (m * PageSize + (n - T)) \div PageSize = m + (n - T) \div PageSize
    BY <2>2, PageAndSlot
  <2> QED
    BY <2>1, <2>3 DEF n
<1>6. SubSeq(longer, 1, T) = SubSeq(ids, 1, T)
  <2> HIDE DEF longer, n
  <2>1. \A i \in 1 .. T : longer[i] = ids[i] /\ ids[i] \in Nat /\ longer[i] \in Nat
    BY <1>1, <1>2
  <2>2. /\ SubSeq(longer, 1, T) \in Seq(Nat) /\ SubSeq(ids, 1, T) \in Seq(Nat)
        /\ Len(SubSeq(longer, 1, T)) = IF 1 <= T THEN T - 1 + 1 ELSE 0
        /\ Len(SubSeq(ids, 1, T)) = IF 1 <= T THEN T - 1 + 1 ELSE 0
        /\ \A i \in 1 .. (T - 1 + 1) : SubSeq(longer, 1, T)[i] = longer[1 + i - 1]
        /\ \A i \in 1 .. (T - 1 + 1) : SubSeq(ids, 1, T)[i] = ids[1 + i - 1]
    BY <1>1, <2>1, SubSeqProperties
  <2>3. Len(SubSeq(longer, 1, T)) = T /\ Len(SubSeq(ids, 1, T)) = T
    BY <1>1, <2>2
  <2>4. \A i \in 1 .. T : SubSeq(longer, 1, T)[i] = SubSeq(ids, 1, T)[i]
    BY <1>1, <2>1, <2>2
  <2> QED
    BY <2>2, <2>3, <2>4, SeqEqual
<1>7. PageOf(idx, page) = IF page \in DOMAIN idx.pages THEN idx.pages[page] ELSE <<>>
  BY DEF PageOf
<1>8. PagesHold(MergedPages(idx.pages, written), longer, T, k)
  BY <1>4, <1>5, <1>7, AppendPages
<1>9. WithPages(idx, written) = MergedPages(idx.pages, written)
  BY DEF WithPages, MergedPages
<1> HIDE DEF written, longer, n, m
<1>10. out = [legacy      |-> IF k = m THEN None ELSE SubSeq(longer, 1, T),
              cursor      |-> IF k = m THEN None ELSE k * PageSize,
              legacyCount |-> IF T = 0 THEN None ELSE T,
              count       |-> Len(longer),
              pages       |-> out.pages]
       /\ out.pages = MergedPages(idx.pages, written)
  <2> DEFINE a == IF k = m THEN None ELSE SubSeq(ids, 1, T)
             b == IF k = m THEN None ELSE k * PageSize
             c == IF T = 0 THEN None ELSE T
             d == idx.count
             f == idx.pages
             w == WithPages(idx, written)
  <2>1. idx = [legacy |-> a, cursor |-> b, legacyCount |-> c, count |-> d, pages |-> f]
    BY <1>4, Zenon
  <2>2. a = IF k = m THEN None ELSE SubSeq(longer, 1, T)
    BY <1>6
  <2> HIDE DEF a, b, c, d, f, w
  <2>3. idx.legacy = a /\ idx.cursor = b /\ idx.legacyCount = c /\ IsIndex(idx)
    BY <2>1 DEF IsIndex
  <2>4. out = [legacy |-> a, cursor |-> b, legacyCount |-> c, count |-> n + 1, pages |-> w]
    <3>1. Rewritten(idx, w, n + 1)
            = [legacy |-> idx.legacy, cursor |-> idx.cursor, legacyCount |-> idx.legacyCount,
               count |-> n + 1, pages |-> w]
      BY <2>3, RewrittenFields, Zenon
    <3> QED
      BY <2>3, <3>1 DEF w
  <2>5. out.pages = w
    BY <2>4
  <2>6. out = [legacy |-> a, cursor |-> b, legacyCount |-> c, count |-> Len(longer), pages |-> out.pages]
    BY <1>2, <2>4, <2>5
  <2> QED
    BY <1>9, <2>2, <2>5, <2>6, Zenon DEF b, c, w
<1> HIDE DEF out
<1>11. PagedAs(out, longer, T, k)
  BY <1>4, <1>8, <1>10 DEF PagedAs, m
<1> QED
  BY <1>11 DEF out, written, longer, n

(***************************************************************************)
(* An append extends the represented list, whatever state of migration it  *)
(* meets.                                                                  *)
(***************************************************************************)
LEMMA AppendStep ==
    ASSUME NEW ids \in Seq(Nat), NEW idx, Represents(idx, ids), NEW e \in Nat
    PROVE  Represents(append_index_entry(idx, e), Append(ids, e))
<1> DEFINE migrated == migrate_legacy_index(idx, 1)
           n == Len(ids)
           page == logical_to_physical_offset(n, migrated.legacyCount) \div PageSize
<1>1. n \in Nat /\ 0 \in 0 .. n
  <2>1. n \in Nat
    BY LenProperties
  <2> QED
    BY <2>1
<1>2. Represents(migrated, ids) /\ (ids # <<>> => Paged(migrated, ids)) /\ MigratedCount(idx) = n
  BY MigrateStep
<1>3. append_index_entry(idx, e) =
        Rewritten(migrated,
                  WithPages(migrated, [p \in {page} |-> Append(PageOf(migrated, page), e)]), n + 1)
  BY <1>2, Zenon DEF append_index_entry, Rewritten
<1>4. \E T \in 0 .. n : \E k \in Nat : Appendable(migrated, ids, T, k)
  <2> HIDE DEF migrated
  <2>1. CASE Paged(migrated, ids)
    <3>1. PICK T \in 0 .. n : \E k \in Nat : PagedAs(migrated, ids, T, k)
      BY <2>1 DEF Paged
    <3>2. PICK k \in Nat : PagedAs(migrated, ids, T, k)
      BY <3>1
    <3>3. migrated.count = n
      BY <3>2 DEF PagedAs
    <3>4. Appendable(migrated, ids, T, k)
      BY <3>2, <3>3 DEF PagedAs, Appendable
    <3> QED
      BY <3>4
  <2>2. CASE ~Paged(migrated, ids)
    <3>1. ids = <<>> /\ migrated = LegacyIndex(<<>>) /\ n = 0
      BY <1>2, <2>2 DEF Represents
    <3>2. migrated = [legacy |-> None, cursor |-> None, legacyCount |-> None,
                      count |-> None, pages |-> <<>>]
      BY <3>1 DEF LegacyIndex
    <3>3. LegacyPages(0) = 0
      BY DEF LegacyPages
    <3>4. PagesHold(<<>>, ids, 0, 0)
      BY <3>1, NoPages
    <3>5. Appendable(migrated, ids, 0, 0)
      BY <3>2, <3>3, <3>4 DEF Appendable
    <3> QED
      BY <1>1, <3>5
  <2> QED
    BY <2>1, <2>2
<1>5. PICK T \in 0 .. n : \E k \in Nat : Appendable(migrated, ids, T, k)
  BY <1>4
<1>6. PICK k \in Nat : Appendable(migrated, ids, T, k)
  BY <1>5
<1>7. PagedAs(append_index_entry(idx, e), Append(ids, e), T, k)
  BY <1>3, <1>6, AppendTo
<1>8. T \in 0 .. Len(Append(ids, e))
  <2>1. Len(Append(ids, e)) = n + 1
    BY AppendProperties
  <2> QED
    BY <1>1, <2>1
<1> QED
  BY <1>7, <1>8 DEF Represents, Paged

-----------------------------------------------------------------------------
(***************************************************************************)
(* The refreshing walk and the ranges of the entries                       *)
(***************************************************************************)

(* A page below the count of pages is where the walk starts at some ledger. *)
LEMMA WalkStarts ==
    ASSUME NEW n \in Nat \ {0}, NEW page \in Nat, page * PageSize <= n - 1
    PROVE  \E sequence \in 0 .. n : page \in extend_page_ttls(n, sequence)
<1> DEFINE q == (n - 1) \div PageSize
           num == q + 1
           r == (n - 1) % PageSize
<1>1. n - 1 \in Nat
  OBVIOUS
<1>2. q \in Nat /\ r + 1 \in 1 .. PageSize /\ n - 1 = q * PageSize + r
      /\ q * PageSize \in Nat /\ r \in Nat
  BY <1>1, SlotOf
<1>3. extend_page_ttls(n, page) = {((page % num) + i) % num : i \in 0 .. 2}
  BY DEF extend_page_ttls
<1> HIDE DEF q, r
<1>4. page <= q
  <2>1. PageSize \in Nat \ {0} /\ page * PageSize \in Nat
    BY IndexAssumption
  <2>2. CASE q < page
    <3>1. q * PageSize + PageSize <= page * PageSize
      BY <1>2, <2>1, <2>2, MulMono
    <3> QED
      BY <1>1, <1>2, <2>1, <3>1
  <2> QED
    BY <1>2, <2>2
<1>5. num \in Nat \ {0} /\ page \in 0 .. (num - 1)
  BY <1>2, <1>4
<1>6. page \in 0 .. n
  <2>1. page <= page * PageSize
    <3>1. PICK d \in Nat : PageSize = d + 1
      <4>1. PageSize - 1 \in Nat /\ PageSize = (PageSize - 1) + 1
        BY IndexAssumption
      <4> QED
        BY <4>1
    <3>2. page * PageSize = page * d + page /\ page * d \in Nat
      BY <3>1
    <3> QED
      BY <3>2
  <2>2. page * PageSize \in Nat
    BY IndexAssumption
  <2> QED
    BY <1>1, <2>1, <2>2
<1> HIDE DEF num
<1>7. page % num = page
  BY <1>5, RingMod
<1>8. ((page % num) + 0) % num = page
  <2>1. page + 0 = page
    OBVIOUS
  <2> QED
    BY <1>7, <2>1
<1>9. page \in extend_page_ttls(n, page)
  BY <1>3, <1>8
<1> QED
  BY <1>6, <1>9

(* A legacy list that fills its last page leaves no gap behind it. *)
LEMMA NoGap ==
    ASSUME NEW T \in Nat \ {0}, T % PageSize = 0
    PROVE  LegacyPages(T) * PageSize = T
<1> DEFINE m == LegacyPages(T)
           q == T \div PageSize
<1>1. /\ m \in Nat /\ T <= m * PageSize /\ (m - 1) * PageSize < T
      /\ m * PageSize \in Nat /\ (m - 1) * PageSize \in Nat
  BY LegacyPagesProducts
<1>2. T \in Nat /\ PageSize \in Nat \ {0}
  BY IndexAssumption
<1>3. q \in Nat /\ T = q * PageSize
  BY <1>2, SlotOf
<1> HIDE DEF m, q
<1>4. ~(q < m)
  <2> SUFFICES ASSUME q < m PROVE FALSE
    OBVIOUS
  <2>1. q * PageSize + PageSize <= m * PageSize
    BY <1>1, <1>2, <1>3, MulMono
  <2>2. m * PageSize = (m - 1) * PageSize + PageSize
    BY <1>1, <1>2
  <2> QED
    BY <1>1, <1>2, <1>3, <2>1, <2>2
<1>5. ~(m < q)
  <2> SUFFICES ASSUME m < q PROVE FALSE
    OBVIOUS
  <2>1. m * PageSize + PageSize <= q * PageSize
    BY <1>1, <1>2, <1>3, MulMono
  <2> QED
    BY <1>1, <1>2, <1>3, <2>1
<1>6. q = m
  BY <1>1, <1>3, <1>4, <1>5
<1> QED
  BY <1>3, <1>6 DEF m

(***************************************************************************)
(* A populated page starts below the count, in spite of the gap behind the *)
(* legacy entries, unless it is the last one, partly filled, behind a gap. *)
(***************************************************************************)
LEMMA PageBelowCount ==
    ASSUME NEW n \in Nat, NEW T \in 0 .. n, NEW k \in Nat, NEW page \in Nat,
           Fill(n, T, k, page) > 0,
           NEW legacyCount, legacyCount = IF T = 0 THEN None ELSE T,
           \/ page # logical_to_physical_offset(n - 1, legacyCount) \div PageSize
           \/ Fill(n, T, k, page) = PageSize
           \/ T = 0 \/ T % PageSize = 0
    PROVE  n \in Nat \ {0} /\ page * PageSize <= n - 1
<1> DEFINE m == LegacyPages(T)
           at == page * PageSize
<1>0. T \in Nat /\ T <= n
  OBVIOUS
<1>1. m \in Nat /\ PageSize \in Nat \ {0} /\ (T = 0 => m = 0) /\ append_base(T) = m * PageSize
  BY <1>0, LegacyPagesBounds, IndexAssumption
<1>2. at \in Nat
  BY <1>1
<1>3. CASE page < m
  <2>1. Fill(n, T, k, page) = IF page < k THEN Lesser(PageSize, T - at) ELSE 0
    BY <1>1, <1>3 DEF Fill
  <2> HIDE DEF at, m
  <2>2. T - at > 0
    BY <1>0, <1>1, <1>2, <2>1 DEF Lesser
  <2> QED
    BY <1>0, <1>2, <2>2 DEF at
<1>4. CASE page >= m
  <2> DEFINE d == page - m
             rest == n - T - d * PageSize
  <2>1. Fill(n, T, k, page) = IF rest <= 0 THEN 0 ELSE Lesser(PageSize, rest)
    BY <1>4 DEF Fill, AppendedFill
  <2>2. d \in Nat /\ page = m + d
    <3> HIDE DEF m
    <3> QED
      BY <1>1, <1>4
  <2>3. T > 0 => (m - 1) * PageSize < T /\ (m - 1) * PageSize \in Nat /\ m > 0
    BY <1>0, LegacyPagesProducts
  <2> HIDE DEF m, d
  <2>4. d * PageSize \in Nat /\ m * PageSize \in Nat /\ at = m * PageSize + d * PageSize
    BY <1>1, <2>2
  <2>5. rest > 0 /\ rest \in Int /\ n - T = d * PageSize + rest
    BY <1>0, <1>1, <2>1, <2>4
  <2>6. CASE T = 0
    <3>1. at = d * PageSize
      BY <1>1, <2>2, <2>6
    <3> QED
      BY <1>0, <2>4, <2>5, <2>6, <3>1 DEF at
  <2>7. CASE T # 0 /\ T % PageSize = 0
    <3>1. m * PageSize = T
      BY <1>0, <2>7, NoGap DEF m
    <3> QED
      BY <1>0, <2>4, <2>5, <3>1 DEF at
  <2>8. CASE T # 0 /\ T % PageSize # 0
    <3>1. m * PageSize < T + PageSize
      <4>1. m * PageSize = (m - 1) * PageSize + PageSize
        BY <1>1
      <4> QED
        BY <1>0, <1>1, <2>3, <2>8, <4>1
    <3>2. SUFFICES d * PageSize + PageSize <= n - T
      BY <1>0, <1>1, <2>4, <2>5, <3>1, <3>2 DEF at
    <3>3. CASE Fill(n, T, k, page) = PageSize
      <4>1. rest >= PageSize
        BY <1>1, <2>1, <2>5, <3>3 DEF Lesser
      <4> QED
        BY <1>0, <1>1, <2>4, <2>5, <4>1
    <3>4. CASE page # logical_to_physical_offset(n - 1, legacyCount) \div PageSize
      <4> DEFINE x == n - 1 - T
                 q == x \div PageSize
                 r == x % PageSize
      <4>1. x \in Nat /\ n - 1 >= T /\ (n - 1) - T = x
        BY <1>0, <2>4, <2>5
      <4>2. legacyCount = T /\ T # None
        BY <1>0, <2>8, IndexAssumption
      <4>3. logical_to_physical_offset(n - 1, legacyCount) = m * PageSize + x
        BY <1>0, <1>1, <4>1, <4>2 DEF logical_to_physical_offset
      <4> HIDE DEF x
      <4>4. (m * PageSize + x) \div PageSize = m + q
        <5>1. m \in Int /\ x \in Nat
          BY <1>1, <4>1
        <5> QED
          BY <5>1, PageAndSlot
      <4>5. q \in Nat /\ x = q * PageSize + r /\ r + 1 \in 1 .. PageSize /\ r \in Nat /\ q * PageSize \in Nat
        BY <4>1, SlotOf
      <4> HIDE DEF q, r
      <4>6. d # q
        BY <2>2, <3>4, <4>3, <4>4
      <4>7. d * PageSize <= x
        BY <1>0, <2>4, <2>5 DEF x
      <4>8. CASE q < d
        <5>1. q * PageSize + PageSize <= d * PageSize
          BY <1>1, <2>2, <4>5, <4>8, MulMono
        <5> QED
          BY <1>1, <2>4, <4>5, <4>7, <5>1
      <4>9. CASE d < q
        <5>1. d * PageSize + PageSize <= q * PageSize
          BY <1>1, <2>2, <4>5, <4>9, MulMono
        <5>2. x + 1 = n - T
          BY <1>0 DEF x
        <5> QED
          BY <1>0, <1>1, <2>4, <4>1, <4>5, <5>1, <5>2
      <4> QED
        BY <2>2, <4>5, <4>6, <4>8, <4>9
    <3> QED
      BY <2>8, <3>3, <3>4
  <2> QED
    BY <2>6, <2>7, <2>8
<1> QED
  BY <1>1, <1>3, <1>4

PagesWalked(idx) ==
    \A page \in DOMAIN idx.pages :
        LET last == logical_to_physical_offset(idx.count - 1, idx.legacyCount) \div PageSize
        IN  \/ \E sequence \in 0 .. idx.count : page \in extend_page_ttls(idx.count, sequence)
            \/ /\ page = last /\ Len(idx.pages[page]) < PageSize
               /\ idx.legacyCount # None /\ idx.legacyCount % PageSize # 0

LEMMA RefreshReaches ==
    ASSUME NEW ids \in Seq(Nat), NEW idx, Represents(idx, ids)
    PROVE  PagesWalked(idx)
<1> DEFINE n == Len(ids)
<1>1. n \in Nat
  BY LenProperties
<1>2. CASE idx = LegacyIndex(ids)
  <2>1. DOMAIN idx.pages = {}
    BY <1>2 DEF LegacyIndex
  <2> QED
    BY <2>1 DEF PagesWalked
<1>3. ASSUME NEW T \in 0 .. n, NEW k \in Nat, PagedAs(idx, ids, T, k)
      PROVE  PagesWalked(idx)
  <2>1. idx.count = n /\ idx.legacyCount = IF T = 0 THEN None ELSE T
    BY <1>3 DEF PagedAs
  <2>2. /\ DOMAIN idx.pages = {p \in Nat : Fill(n, T, k, p) > 0}
        /\ \A p \in DOMAIN idx.pages : Len(idx.pages[p]) = Fill(n, T, k, p)
    BY <1>3 DEF PagedAs, PagesHold
  <2>3. ASSUME NEW page \in DOMAIN idx.pages,
               ~ /\ page = logical_to_physical_offset(idx.count - 1, idx.legacyCount) \div PageSize
                 /\ Len(idx.pages[page]) < PageSize
                 /\ idx.legacyCount # None /\ idx.legacyCount % PageSize # 0
        PROVE  \E sequence \in 0 .. idx.count : page \in extend_page_ttls(idx.count, sequence)
    <3> HIDE DEF n
    <3>0. PageSize \in Nat \ {0} /\ T \in Nat /\ T <= n /\ T # None
      BY <1>1, IndexAssumption
    <3>1. page \in Nat /\ Fill(n, T, k, page) > 0
      BY <2>2
    <3>2. Fill(n, T, k, page) \in Nat /\ Fill(n, T, k, page) <= PageSize
      <4> DEFINE m == LegacyPages(T)
                 at == page * PageSize
                 rest == n - T - (page - m) * PageSize
      <4>1. m \in Nat
        BY <3>0, LegacyPagesBounds
      <4>2. Fill(n, T, k, page) \in {0, Lesser(PageSize, rest), Lesser(PageSize, T - at)}
        BY DEF Fill, AppendedFill
      <4> HIDE DEF m
      <4>3. rest \in Int /\ T - at \in Int
        BY <1>1, <3>0, <3>1, <4>1
      <4> HIDE DEF rest, at
      <4> QED
        BY <3>0, <3>1, <4>2, <4>3 DEF Lesser
    <3>3. \/ page # logical_to_physical_offset(n - 1, idx.legacyCount) \div PageSize
          \/ Fill(n, T, k, page) = PageSize
          \/ T = 0 \/ T % PageSize = 0
      <4>1. Len(idx.pages[page]) = Fill(n, T, k, page)
        BY <2>2
      <4>2. T # 0 => idx.legacyCount = T
        BY <2>1
      <4> QED
        BY <2>1, <2>3, <3>0, <3>2, <4>1, <4>2
    <3>4. n \in Nat \ {0} /\ page * PageSize <= n - 1
      BY <1>1, <2>1, <3>1, <3>3, PageBelowCount
    <3> QED
      BY <2>1, <3>1, <3>4, WalkStarts
  <2> QED
    BY <2>3 DEF PagesWalked
<1> QED
  BY <1>2, <1>3 DEF Represents, Paged

(* The entries of an index stay within the ids and the counts of its list. *)
InRange(idx, R, n) ==
    /\ idx.legacy = None \/ idx.legacy \in Seq(R)
    /\ {idx.cursor, idx.legacyCount, idx.count} \subseteq 0 .. n \cup {None}
    /\ \A p \in DOMAIN idx.pages : idx.pages[p] \in Seq(R) /\ Len(idx.pages[p]) <= PageSize

LEMMA RepresentsInRange ==
    ASSUME NEW R, R \subseteq Nat, NEW ids \in Seq(R), NEW idx, Represents(idx, ids)
    PROVE  InRange(idx, R, Len(ids))
<1> DEFINE n == Len(ids)
<1>1. n \in Nat /\ \A i \in 1 .. n : ids[i] \in R
  BY LenProperties, ElementOfSeq
<1>2. CASE idx = LegacyIndex(ids)
  <2>1. idx.legacy \in {None, ids} /\ {idx.cursor, idx.legacyCount, idx.count} = {None}
        /\ DOMAIN idx.pages = {}
    BY <1>2 DEF LegacyIndex
  <2> QED
    BY <2>1 DEF InRange
<1>3. ASSUME NEW T \in 0 .. n, NEW k \in Nat, PagedAs(idx, ids, T, k)
      PROVE  InRange(idx, R, n)
  <2> DEFINE m == LegacyPages(T)
  <2>1. /\ idx.legacy = IF k = m THEN None ELSE SubSeq(ids, 1, T)
        /\ idx.cursor = IF k = m THEN None ELSE k * PageSize
        /\ idx.legacyCount = IF T = 0 THEN None ELSE T
        /\ idx.count = n /\ k \in 0 .. m
    BY <1>3 DEF PagedAs
  <2>2. /\ DOMAIN idx.pages = {p \in Nat : Fill(n, T, k, p) > 0}
        /\ \A p \in DOMAIN idx.pages :
              /\ idx.pages[p] \in Seq(Nat)
              /\ Len(idx.pages[p]) = Fill(n, T, k, p)
              /\ \A s \in 1 .. Len(idx.pages[p]) : idx.pages[p][s] = ids[Source(T, p, s)]
    BY <1>3 DEF PagedAs, PagesHold
  <2>3. T \in Nat /\ m \in Nat /\ (T = 0 => m = 0) /\ T <= n
    <3>1. T \in Nat /\ T <= n
      BY <1>1
    <3> QED
      BY <3>1, LegacyPagesBounds
  <2>4. idx.legacy = None \/ idx.legacy \in Seq(R)
    <3>1. \A i \in 1 .. T : ids[i] \in R
      BY <1>1, <2>3
    <3>2. SubSeq(ids, 1, T) \in Seq(R)
      BY <2>3, <3>1, SubSeqProperties
    <3> QED
      BY <2>1, <3>2
  <2>5. idx.cursor \in 0 .. n \cup {None}
    <3>1. CASE k = m
      BY <2>1, <3>1
    <3>2. CASE k # m
      <4>1. T \in Nat \ {0} /\ k < LegacyPages(T)
        BY <2>1, <2>3, <3>2
      <4>2. k * PageSize < T /\ k * PageSize \in Nat
        BY <4>1, PageStart
      <4> QED
        BY <1>1, <2>1, <2>3, <3>2, <4>2
    <3> QED
      BY <3>1, <3>2
  <2>6. {idx.legacyCount, idx.count} \subseteq 0 .. n \cup {None}
    BY <1>1, <2>1, <2>3
  <2>7. ASSUME NEW p \in DOMAIN idx.pages
        PROVE  idx.pages[p] \in Seq(R) /\ Len(idx.pages[p]) <= PageSize
    <3> DEFINE pg == idx.pages[p]
    <3>1. p \in Nat /\ pg \in Seq(Nat) /\ Len(pg) \in Nat /\ Len(pg) = Fill(n, T, k, p) /\ Fill(n, T, k, p) > 0
      BY <2>2, LenProperties
    <3>2. ASSUME NEW s \in 1 .. Len(pg)
          PROVE  pg[s] \in R
      <4>1. Source(T, p, s) \in 1 .. n
        BY <1>1, <3>1, SourceInList
      <4> QED
        BY <1>1, <2>2, <4>1
    <3>3. pg \in Seq(R)
      <4>1. pg \in [1 .. Len(pg) -> Nat]
        BY <3>1, LenProperties
      <4>2. pg \in [1 .. Len(pg) -> R]
        BY <3>2, <4>1
      <4> DEFINE len == Len(pg)
      <4>3. len \in Nat /\ pg \in [1 .. len -> R]
        BY <3>1, <4>2
      <4> HIDE DEF pg, len
      <4> QED
        BY <4>3, SeqDef, Zenon
    <3>4. Fill(n, T, k, p) <= PageSize
      <4> DEFINE a == n - T - (p - LegacyPages(T)) * PageSize
                 b == T - p * PageSize
      <4>1. PageSize \in Nat
        BY IndexAssumption
      <4>2. b \in Int
        BY <2>3, <3>1, <4>1
      <4>3. a \in Int
        <5>1. p - LegacyPages(T) \in Int
          BY <2>3, <3>1
        <5> QED
          BY <1>1, <2>3, <4>1, <5>1
      <4>4. Fill(n, T, k, p) \in {0, Lesser(PageSize, a), Lesser(PageSize, b)}
        BY DEF Fill, AppendedFill
      <4> HIDE DEF a, b
      <4> QED
        BY <4>1, <4>2, <4>3, <4>4 DEF Lesser
    <3> QED
      BY <1>1, <3>1, <3>3, <3>4
  <2> QED
    BY <2>4, <2>5, <2>6, <2>7 DEF InRange
<1>4. CASE Paged(idx, ids)
  BY <1>3, <1>4 DEF Paged
<1> QED
  BY <1>2, <1>4 DEF Represents

=============================================================================
