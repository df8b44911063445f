-------------------------------- MODULE Pmm --------------------------------
(***************************************************************************)
(* The physical page allocator, kernel/pmm.c.  Its state is a record pm,   *)
(* which every operation takes and returns; what runs under pmm_lock is    *)
(* one operator.  Addresses and lengths are in pages, so page 0 is NULL.   *)
(*   total  pmm_total_pages           used    the set bits of pmm_bitmap   *)
(*   page   the counters of pinfo.page                                     *)
(*   panic  the panic() that stopped the kernel, or "none"                 *)
(***************************************************************************)
EXTENDS Integers, Sequences, FiniteSets, FiniteSetsExt

CONSTANTS
    PMM_LOWMEM_PAGES,   \* the pages below 1 MB, never handed out
    PagesPerBitmapPage  \* pages one page of bitmap describes (8 * PAGE_SIZE)

ASSUME LowmemAssumption == PMM_LOWMEM_PAGES \in Nat \ {0}
ASSUME BitmapAssumption == PagesPerBitmapPage \in Nat \ {0}

NULL == 0

Panic(pm, what) == [pm EXCEPT !.panic = what]

----------------------------------------------------------------------------
(* Initialisation from the boot loader's memory map, a sequence of         *)
(* [base, length, usable].                                                 *)
EntryPages(e) == e.base .. e.base + e.length - 1
UsableEntries(mmap) == {i \in DOMAIN mmap : mmap[i].usable}
PagesIn(mmap, S) == MapThenSumSet(LAMBDA i : mmap[i].length, S)
MaxEnd(mmap) == Max({mmap[i].base + mmap[i].length : i \in UsableEntries(mmap)})

pmm_scan(mmap) ==
    LET usable == PagesIn(mmap, UsableEntries(mmap))
    IN  [total |-> 0, used |-> {}, panic |-> "none",
         page |-> [none |-> PagesIn(mmap, DOMAIN mmap \ UsableEntries(mmap)),
                   usable |-> usable, freed |-> usable, self |-> 0]]

(* The first of the longest usable entries. *)
pmm_pick_max_entry(mmap) ==
    LET longest == Max({mmap[i].length : i \in UsableEntries(mmap)})
    IN  mmap[Min({i \in UsableEntries(mmap) : mmap[i].length = longest})]

BitmapPages(mmap) ==
    (MaxEnd(mmap) + PagesPerBitmapPage - 1) \div PagesPerBitmapPage

pmm_install_bitmap(pm, mmap) ==
    IF pmm_pick_max_entry(mmap).length < BitmapPages(mmap)
    THEN Panic(pm, "bitmap")
    ELSE [pm EXCEPT !.total = MaxEnd(mmap), !.used = 0 .. MaxEnd(mmap) - 1]

(* Every usable page above 1 MB becomes free; dont_touch counts the rest. *)
pmm_release_usable(pm, mmap) ==
    LET usable == UNION {EntryPages(mmap[i]) : i \in UsableEntries(mmap)}
        low == {p \in usable : p < PMM_LOWMEM_PAGES}
    IN  [pm |-> [pm EXCEPT !.used = @ \ (usable \ low)],
         dont_touch |-> Cardinality(low)]

pmm_mark_protected(pm, mmap) ==
    LET reserved == UNION {EntryPages(mmap[i]) :
                             i \in DOMAIN mmap \ UsableEntries(mmap)}
    IN  IF \E p \in reserved : p < pm.total /\ p \notin pm.used
        THEN Panic(pm, "protected page is free") ELSE pm

(* The pages of the bitmap itself, at the start of the longest entry. *)
Bitmap(mmap) ==
    LET start == pmm_pick_max_entry(mmap).base
    IN  start .. start + BitmapPages(mmap) - 1

AccountInit(rel, mmap) ==
    [rel.pm EXCEPT
       !.used = @ \cup Bitmap(mmap),
       !.page = [@ EXCEPT !.self = BitmapPages(mmap),
                          !.usable = @ - rel.dont_touch,
                          !.freed = @ - rel.dont_touch - BitmapPages(mmap)]]

ReleaseAll(pm, mmap) ==
    IF pm.panic # "none" THEN pm
    ELSE pmm_mark_protected(AccountInit(pmm_release_usable(pm, mmap), mmap), mmap)

pmm_init_from_memmap(mmap) ==
    IF UsableEntries(mmap) = {} THEN Panic(pmm_scan(mmap), "no usable entry")
    ELSE ReleaseAll(pmm_install_bitmap(pmm_scan(mmap), mmap), mmap)

----------------------------------------------------------------------------
(* Allocation and release. *)
pmm_idx_safe(pm, i) == PMM_LOWMEM_PAGES <= i /\ i < pm.total

FreePages(pm) == (0 .. pm.total - 1) \ pm.used

FreeRun(pm, start, count) ==
    \A i \in start .. start + count - 1 : pmm_idx_safe(pm, i) /\ i \notin pm.used

(* First fit: the lowest start of count free safe pages in a row. *)
pmm_find_run(pm, count) ==
    LET starts == {s \in FreePages(pm) : FreeRun(pm, s, count)}
    IN  IF starts = {} THEN NULL ELSE Min(starts)

(* An allocation returns [pm, ret]; ret is NULL when memory is exhausted. *)

(* Mutant: one page too many is marked. *)
Mutant_MarkRun(pm, start, count) ==
    IF start = NULL THEN [pm |-> pm, ret |-> NULL]
    ELSE [pm |-> [pm EXCEPT !.used = @ \cup (start .. start + count),
                            !.page.freed = @ - count],
          ret |-> start]

MarkRun(pm, start, count) ==
    IF start = NULL THEN [pm |-> pm, ret |-> NULL]
    ELSE [pm |-> [pm EXCEPT !.used = @ \cup (start .. start + count - 1),
                            !.page.freed = @ - count],
          ret |-> start]

pmm_alloc_run(pm, count) == MarkRun(pm, pmm_find_run(pm, count), count)
pmm_alloc(pm) == pmm_alloc_run(pm, 1)

pmm_alloc_pages(pm, count) ==
    IF count = 0 THEN [pm |-> pm, ret |-> NULL] ELSE pmm_alloc_run(pm, count)

pmm_free_pages(pm, start, count) ==
    LET pages == start .. start + count - 1
    IN  IF start = NULL \/ count = 0 THEN pm
        ELSE IF start + count > pm.total THEN Panic(pm, "free out of range")
        ELSE IF ~ pages \subseteq pm.used THEN Panic(pm, "double free")
        ELSE [pm EXCEPT !.used = @ \ pages, !.page.freed = @ + count]

pmm_free(pm, addr) == pmm_free_pages(pm, addr, 1)

(* What pmm_print_stats reports as used. *)
pmm_used_pages(pm) == pm.page.usable - pm.page.freed
=============================================================================
