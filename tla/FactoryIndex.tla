---------------------------- MODULE FactoryIndex ----------------------------
(***************************************************************************)
(* The paged index of stream ids the factory keeps for every sender and    *)
(* every recipient (contracts/factory/src/index.rs), as operators on the   *)
(* persistent entries of one party:                                        *)
(*                                                                         *)
(*   legacy       BySender / ByRecipient: the unpaged list of older builds *)
(*   cursor       ...MigrationCursor: legacy entries copied so far         *)
(*   legacyCount  ...LegacyCount: length of legacy when copying began      *)
(*   count        ...Count: ids in the whole index                         *)
(*   pages        ...Page(party, p): the pages that exist                  *)
(*                                                                         *)
(* An absent entry is None.  Counts stay far below u32::MAX, so saturating *)
(* additions are additions.                                                *)
(***************************************************************************)
EXTENDS Integers, Sequences, FiniteSetsExt

CONSTANTS
    None,               \* an absent storage entry
    PageSize,           \* PAGE_SIZE = query::MAX_PAGE_SIZE, 100
    MaxMigrationPages   \* MAX_MIGRATION_PAGES, 20

ASSUME IndexAssumption ==
    /\ PageSize \in Nat \ {0}
    /\ MaxMigrationPages \in Nat \ {0}
    /\ None \notin Nat /\ None \notin Seq(Nat)

(* Storage::get(..).unwrap_or(default) *)
OrElse(entry, default) == IF entry = None THEN default ELSE entry

Lesser(a, b) == IF a <= b THEN a ELSE b

(* What an old build left behind: the list alone, or nothing at all *)
LegacyIndex(ids) ==
    [legacy |-> IF ids = <<>> THEN None ELSE ids, cursor |-> None,
     legacyCount |-> None, count |-> None, pages |-> <<>>]

PageOf(idx, p) == IF p \in DOMAIN idx.pages THEN idx.pages[p] ELSE <<>>

(* The pages with some of them written *)
WithPages(idx, written) ==
    [p \in DOMAIN idx.pages \cup DOMAIN written |->
        IF p \in DOMAIN written THEN written[p] ELSE idx.pages[p]]

(* The first physical offset after the pages reserved for legacy entries *)
append_base_Dense(legacy_count) == legacy_count  \* mutant: appends go right behind the legacy entries
append_base(legacy_count) ==
    IF legacy_count = 0 THEN 0 ELSE ((legacy_count - 1) \div PageSize + 1) * PageSize

logical_to_physical_offset(logical, legacy_count) ==
    IF legacy_count # None /\ logical >= legacy_count
    THEN append_base(legacy_count) + (logical - legacy_count)
    ELSE logical

(***************************************************************************)
(* migrate_legacy_index: copy at most max_pages pages of the legacy list   *)
(* and drop the list once all of it is copied.  The loop over cursor is    *)
(* written out as the range of pages it writes.                            *)
(***************************************************************************)
LegacyLength(idx) == OrElse(idx.legacyCount, Len(idx.legacy))

migrate_legacy_index(idx, max_pages) ==
    LET total  == LegacyLength(idx)
        cursor == OrElse(idx.cursor, 0)
        capped == Lesser(max_pages, MaxMigrationPages)
        stop   == Lesser(cursor + capped * PageSize, total)
        copied == [p \in (cursor \div PageSize) .. ((stop - 1) \div PageSize) |->
                      SubSeq(idx.legacy, p * PageSize + 1, Lesser((p + 1) * PageSize, total))]
    IN  IF idx.legacy = None THEN idx
        ELSE IF cursor >= total THEN [idx EXCEPT !.legacy = None, !.cursor = None]
        ELSE IF capped = 0 THEN idx
        ELSE [legacy      |-> IF stop >= total THEN None ELSE idx.legacy,
              cursor      |-> IF stop >= total THEN None ELSE stop,
              legacyCount |-> total,
              count       |-> OrElse(idx.count, total),
              pages       |-> WithPages(idx, copied)]

(* The count migrate_legacy_index returns *)
MigratedCount(idx) ==
    IF idx.legacy = None THEN OrElse(idx.count, 0) ELSE OrElse(idx.count, LegacyLength(idx))

(* append_index_entry; MIGRATION_PAGES_PER_APPEND is 1 *)
append_index_entry(idx, entry) ==
    LET migrated == migrate_legacy_index(idx, 1)
        count    == MigratedCount(idx)
        page     == logical_to_physical_offset(count, migrated.legacyCount) \div PageSize
    IN  [migrated EXCEPT
            !.pages = WithPages(migrated,
                          [p \in {page} |-> Append(PageOf(migrated, page), entry)]),
            !.count = count + 1]

(***************************************************************************)
(* read_index: the entry at a logical offset comes from the legacy list    *)
(* while it has not been copied and from its page afterwards; a hole ends  *)
(* the listing.                                                            *)
(***************************************************************************)
EntryAt(idx, logical) ==
    LET physical == logical_to_physical_offset(logical, idx.legacyCount)
        page     == PageOf(idx, physical \div PageSize)
        slot     == (physical % PageSize) + 1
    IN  IF /\ idx.legacyCount # None /\ idx.cursor # None /\ idx.legacy # None
           /\ idx.cursor <= logical /\ logical < idx.legacyCount
        THEN idx.legacy[logical + 1]
        ELSE IF slot <= Len(page) THEN page[slot] ELSE None

(* query::paginate *)
paginate(ids, offset, limit) ==
    SubSeq(ids, offset + 1, Lesser(offset + Lesser(limit, PageSize), Len(ids)))

read_index(idx, offset, limit) ==
    LET end  == Lesser(offset + Lesser(limit, PageSize), idx.count)
        upTo == {l \in offset .. end : \A k \in offset .. (l - 1) : EntryAt(idx, k) # None}
        stop == Max(upTo)
    IN  IF idx.count = None THEN paginate(OrElse(idx.legacy, <<>>), offset, limit)
        ELSE IF offset >= idx.count THEN <<>>
        ELSE [i \in 1 .. (stop - offset) |-> EntryAt(idx, offset + i - 1)]

count_index(idx) == OrElse(idx.count, Len(OrElse(idx.legacy, <<>>)))

(***************************************************************************)
(* extend_page_ttls: the pages a read or an append refreshes besides the   *)
(* ones it touches, three of them, starting where the ledger sequence      *)
(* number says.                                                            *)
(***************************************************************************)
extend_page_ttls_Floor(count, sequence) ==  \* mutant: only the pages the count fills
    LET num_pages == count \div PageSize
    IN  IF num_pages = 0 THEN {} ELSE {((sequence % num_pages) + i) % num_pages : i \in 0 .. 2}
extend_page_ttls(count, sequence) ==
    LET num_pages == (count - 1) \div PageSize + 1
    IN  IF count = 0 THEN {} ELSE {((sequence % num_pages) + i) % num_pages : i \in 0 .. 2}
=============================================================================
