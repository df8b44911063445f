-------------------------------- MODULE Heap --------------------------------
(***************************************************************************)
(* The kernel heap, kernel/heap.c: a first-fit list of blocks at the       *)
(* bottom of a reserved virtual range, grown page by page.                 *)
(*                                                                         *)
(* hp = [max, blocks]: kheap_g.max and the block list after its static     *)
(* head.  Heap addresses are counted in allocation units from KHEAP_VBASE, *)
(* UnitsPerPage to a page; a block header takes HEADER units and a block's *)
(* size includes it.  A pointer is the address of the payload.  What runs  *)
(* under kheap_g.lock is one operator on m = [pm, tables, hp].             *)
(***************************************************************************)
EXTENDS Vmm

CONSTANTS
    KHEAP_VBASE,    \* the heap's first virtual page
    HeapMaxPages,   \* HEAP_MAX_SIZE
    UnitsPerPage,
    HEADER          \* sizeof(struct kheap_node)

ASSUME HeapAssumption == /\ KHEAP_VBASE \in Nat
                         /\ HeapMaxPages \in Nat \ {0}
                         /\ HEADER \in Nat \ {0}
                         /\ UnitsPerPage \in Nat /\ UnitsPerPage > HEADER

PageOf(addr) == KHEAP_VBASE + addr \div UnitsPerPage
UpToPage(addr) == ((addr + UnitsPerPage - 1) \div UnitsPerPage) * UnitsPerPage
heap_limit == HeapMaxPages * UnitsPerPage

(* The vmm and the heap share the allocator: m seen by vmm.c, and back. *)
AsVmm(m) == [pm |-> m.pm, tables |-> m.tables]
WithVmm(m, v) == [m EXCEPT !.pm = v.pm, !.tables = v.tables]

Free(addr, size) == [addr |-> addr, size |-> size, free |-> TRUE]
Used(addr, size) == [addr |-> addr, size |-> size, free |-> FALSE]

(* Maps the pages up to addr, one after the other; a failure keeps the     *)
(* pages mapped so far.  Returns [m, ok].                                  *)
Grown(m) == [m EXCEPT !.hp.max = @ + UnitsPerPage]

MapHeapPage(m, frame, v) ==
    IF v.ok THEN [m |-> Grown(WithVmm(m, v.m)), ok |-> TRUE]
    ELSE [m |-> WithVmm(m, [v.m EXCEPT !.pm = pmm_free(@, frame)]), ok |-> FALSE]

AddHeapPage(m, kernel_pml4, new) ==
    IF new.ret = NULL THEN [m |-> m, ok |-> FALSE]
    ELSE MapHeapPage(m, new.ret,
           vmm_map([pm |-> new.pm, tables |-> m.tables], kernel_pml4,
                   PageOf(m.hp.max), new.ret, {"W"}))

kheap_expand_to_addr(m, kernel_pml4, addr) ==
    LET Expand(s) ==
          IF ~ s.ok \/ s.m.hp.max >= UpToPage(addr) THEN s
          ELSE IF vmm_is_mapped(s.m.tables, kernel_pml4, PageOf(s.m.hp.max))
          THEN [s EXCEPT !.m = Grown(@)]
          ELSE AddHeapPage(s.m, kernel_pml4, pmm_alloc(s.m.pm))
        step[n \in 0 .. HeapMaxPages] ==
          IF n = 0 THEN [m |-> m, ok |-> UpToPage(addr) <= heap_limit]
          ELSE Expand(step[n - 1])
    IN  step[HeapMaxPages]

ReplaceBlock(blocks, i, new) ==
    SubSeq(blocks, 1, i - 1) \o new \o SubSeq(blocks, i + 1, Len(blocks))

(* What is left of free block b when `needed` units are taken from its     *)
(* tail (HEAP_MALLOC_FROM_TAIL): nothing, when it could not hold a header  *)
(* and a unit.                                                             *)
Remainder(b, needed) ==
    IF b.size - needed >= HEADER + 1 THEN b.size - needed ELSE 0

(* Mutant: the free part of a split block is not shortened. *)
Mutant_Take(blocks, i, needed) ==
    LET b == blocks[i]
        rest == Remainder(b, needed)
    IN  ReplaceBlock(blocks, i,
          IF rest > 0 THEN <<b, Used(b.addr + rest, needed)>>
          ELSE <<Used(b.addr, b.size)>>)

Take(blocks, i, needed) ==
    LET b == blocks[i]
        rest == Remainder(b, needed)
    IN  ReplaceBlock(blocks, i,
          IF rest > 0 THEN <<Free(b.addr, rest), Used(b.addr + rest, needed)>>
          ELSE <<Used(b.addr, b.size)>>)

(* kmalloc returns [m, ret]; ret is NULL when nothing fits. *)
NewBlock(grown, top, needed) ==
    IF grown.ok THEN [m |-> [grown.m EXCEPT !.hp.blocks =
                               Append(@, Used(top, needed))],
                      ret |-> top + HEADER]
    ELSE [m |-> grown.m, ret |-> NULL]

AppendBlock(m, kernel_pml4, top, needed) ==
    IF top + needed > heap_limit THEN [m |-> m, ret |-> NULL]
    ELSE NewBlock(kheap_expand_to_addr(m, kernel_pml4, top + needed), top, needed)

TakeBlock(m, i, needed) ==
    LET b == m.hp.blocks[i]
    IN  [m |-> [m EXCEPT !.hp.blocks = Take(@, i, needed)],
         ret |-> b.addr + Remainder(b, needed) + HEADER]

kmalloc(m, kernel_pml4, size) ==
    LET needed == size + HEADER
        bs == m.hp.blocks
        fits == {i \in DOMAIN bs : bs[i].free /\ bs[i].size >= needed}
        last == bs[Len(bs)]
    IN  IF size = 0 THEN [m |-> m, ret |-> NULL]
        ELSE IF fits # {} THEN TakeBlock(m, Min(fits), needed)
        ELSE AppendBlock(m, kernel_pml4, last.addr + last.size, needed)

(* kfree merges with the neighbours in the list that are free and really   *)
(* adjacent.                                                               *)
Adjacent(b, c) == b.addr + b.size = c.addr

MergeRun(blocks, lo, hi) ==
    SubSeq(blocks, 1, lo - 1)
      \o <<Free(blocks[lo].addr,
                MapThenSumSet(LAMBDA k : blocks[k].size, lo .. hi))>>
      \o SubSeq(blocks, hi + 1, Len(blocks))

MergeBlocks(bs, i) ==
    MergeRun(bs,
      IF i > 1 /\ bs[i - 1].free /\ Adjacent(bs[i - 1], bs[i]) THEN i - 1 ELSE i,
      IF i < Len(bs) /\ bs[i + 1].free /\ Adjacent(bs[i], bs[i + 1])
      THEN i + 1 ELSE i)

kfree(m, ptr) ==
    LET bs == m.hp.blocks
        at == {i \in DOMAIN bs : bs[i].addr = ptr - HEADER}
    IN  IF ptr = NULL THEN m
        ELSE IF at = {} THEN [m EXCEPT !.pm = Panic(@, "kfree of no block")]
        ELSE IF bs[Min(at)].free THEN [m EXCEPT !.pm = Panic(@, "kfree twice")]
        ELSE [m EXCEPT !.hp.blocks = MergeBlocks(@, Min(at))]

(* One free block over the first page. *)
FirstBlock(first) ==
    IF first.ok THEN [first.m EXCEPT !.hp.blocks = <<Free(0, UnitsPerPage)>>]
    ELSE [first.m EXCEPT !.pm = Panic(@, "kheap_init")]

kheap_init(m, kernel_pml4) ==
    FirstBlock(kheap_expand_to_addr(
      [m EXCEPT !.hp = [max |-> 0, blocks |-> <<>>]], kernel_pml4, UnitsPerPage))
=============================================================================
