-------------------------------- MODULE Vmm --------------------------------
(***************************************************************************)
(* Virtual memory, kernel/vmm.c: page tables as a tree of frames.          *)
(*                                                                         *)
(* Memory is a record m = [pm, tables]: the page allocator and, for every  *)
(* frame that holds a page table, its entries.  A virtual address is a     *)
(* page number, radix Entries; the upper half of the top level is the      *)
(* kernel's.  What runs under vmm_lock is one operator.  A call that can   *)
(* fail returns [m, ok].                                                   *)
(***************************************************************************)
EXTENDS Pmm

CONSTANTS
    Levels,     \* levels of page table, 4 on x86_64
    Entries     \* entries of one table, 512 on x86_64

ASSUME LevelsAssumption == Levels \in Nat /\ Levels > 1
ASSUME EntriesAssumption == Entries \in Nat \ {0} /\ Entries % 2 = 0

Slots == 0 .. Entries - 1
UserSlots == 0 .. (Entries \div 2) - 1      \* of the top level
KernelSlots == Slots \ UserSlots

NoEntry == [present |-> FALSE, frame |-> NULL, leaf |-> FALSE, perm |-> {}]
EmptyTable == [i \in Slots |-> NoEntry]

(* The pages that one entry of a table of level l + 1 covers. *)
Span[l \in 0 .. Levels] == IF l = 0 THEN 1 ELSE Entries * Span[l - 1]

(* PML4_IDX, PDPT_IDX, PD_IDX and PT_IDX. *)
Index(va, l) == (va \div Span[l - 1]) % Entries

Tables(frames) == [frames -> [Slots -> [present : BOOLEAN, frame : Nat,
                    leaf : BOOLEAN, perm : SUBSET {"U", "W", "NX"}]]]

----------------------------------------------------------------------------
(* Lookup: the entry that ends the walk of va from root, at the bottom     *)
(* level or earlier at a hole or a large page, with the level it is at.    *)
Walk(tables, root, va) ==
    LET at[l \in 1 .. Levels] ==
          IF l = Levels THEN [e |-> tables[root][Index(va, l)], level |-> l]
          ELSE LET up == at[l + 1]
               IN  IF ~ up.e.present \/ up.e.leaf \/ up.level # l + 1 THEN up
                   ELSE [e |-> tables[up.e.frame][Index(va, l)], level |-> l]
    IN  at[1]

vmm_is_mapped(tables, root, va) == Walk(tables, root, va).e.present

(* The frame behind va, NULL when it is not mapped. *)
vmm_get_phys(tables, root, va) ==
    LET w == Walk(tables, root, va)
    IN  IF w.e.present THEN w.e.frame + (va % Span[w.level - 1]) ELSE NULL

(* Clears the last-level entry; fails when a level on the way is missing.  *)
(* Flushing the other CPUs' TLBs (ipi_broadcast) is the caller's model.    *)
vmm_unmap(m, root, va) ==
    LET at[l \in 1 .. Levels] ==
          IF l = Levels THEN root
          ELSE LET up == at[l + 1]
                   e == m.tables[up][Index(va, l + 1)]
               IN  IF up = NULL THEN NULL ELSE IF e.present THEN e.frame ELSE NULL
    IN  IF at[1] = NULL THEN [m |-> m, ok |-> FALSE]
        ELSE [m |-> [m EXCEPT !.tables[at[1]][Index(va, 1)] = NoEntry],
              ok |-> TRUE]

----------------------------------------------------------------------------
(* __vmm_map.  One level down from `table` at level l: the state with the  *)
(* table of level l - 1 allocated if missing, a large page split into the  *)
(* smaller pages it covers, and the path made writable and, for a user     *)
(* mapping, user accessible.                                               *)
PathPerm(perm) == {"W"} \cup (perm \cap {"U"})

SplitTable(e, l) ==
    [i \in Slots |-> [e EXCEPT !.frame = @ + i * Span[l - 2],
                               !.leaf = l > 2]]

AddTable(m, new, table) ==
    [pm |-> new.pm,
     tables |-> [f \in DOMAIN m.tables \cup {new.ret} |->
                   IF f = new.ret THEN table ELSE m.tables[f]]]

Pointer(frame, perm) ==
    [present |-> TRUE, frame |-> frame, leaf |-> FALSE, perm |-> perm]

(* s = [m, table, ok] with `table` extended at slot i by a new table. *)
NewTable(s, i, new, table, perm) ==
    IF new.ret = NULL THEN [s EXCEPT !.ok = FALSE]
    ELSE [m |-> [AddTable(s.m, new, table) EXCEPT
                   !.tables[s.table][i] = Pointer(new.ret, PathPerm(perm))],
          table |-> new.ret, ok |-> TRUE]

Descend(s, l, i, perm) ==
    LET e == s.m.tables[s.table][i]
        split == e.present /\ e.leaf /\ l < Levels
    IN  IF e.present /\ ~ split
        THEN [s EXCEPT !.m.tables[s.table][i].perm = @ \cup PathPerm(perm),
                       !.table = e.frame]
        ELSE NewTable(s, i, pmm_alloc(s.m.pm),
                      IF split THEN SplitTable(e, l) ELSE EmptyTable, perm)

SetEntry(s, i, frame, perm, overwrite_ok) ==
    IF ~ s.ok THEN [m |-> s.m, ok |-> FALSE]
    ELSE IF s.m.tables[s.table][i].present /\ ~ overwrite_ok
    THEN [m |-> [s.m EXCEPT !.pm = Panic(@, "overwriting mapping")],
          ok |-> FALSE]
    ELSE [m |-> [s.m EXCEPT !.tables[s.table][i] = Pointer(frame, perm)],
          ok |-> TRUE]

(* down[l] is the walk when the table of level l is known. *)
__vmm_map(m, root, va, frame, perm, overwrite_ok) ==
    LET Below(s, l) == IF s.ok THEN Descend(s, l, Index(va, l), perm) ELSE s
        down[l \in 1 .. Levels] ==
          IF l = Levels THEN [m |-> m, table |-> root, ok |-> TRUE]
          ELSE Below(down[l + 1], l + 1)
    IN  SetEntry(down[1], Index(va, 1), frame, perm, overwrite_ok)

vmm_map(m, root, va, frame, perm) == __vmm_map(m, root, va, frame, perm, FALSE)
vmm_map_user(m, root, va, frame, perm) ==
    vmm_map(m, root, va, frame, perm \cup {"U"})

----------------------------------------------------------------------------
(* Roots.  The kernel's is a copy of the boot loader's upper half whose    *)
(* missing top-level entries are filled in at once, so that every user     *)
(* root can share them for good.                                           *)
vmm_preallocate_kernel_range(m, root) ==
    LET Add(acc, i, new) ==
          IF new.ret = NULL THEN acc
          ELSE [AddTable(acc, new, EmptyTable) EXCEPT
                  !.tables[root][i] = Pointer(new.ret, {"W"})]
        Fill(acc, i) == IF acc.tables[root][i].present THEN acc
                        ELSE Add(acc, i, pmm_alloc(acc.pm))
        filled[n \in 0 .. Entries \div 2] ==
          IF n = 0 THEN m ELSE Fill(filled[n - 1], Entries \div 2 + n - 1)
    IN  filled[Entries \div 2]

(* vmm_init on the BSP, old_pml4 being the boot loader's root: the new     *)
(* root copies its identity slot and its upper half and is then mapped     *)
(* into the old identity map; vmm_test_secret_base maps one page at two    *)
(* user addresses of the new root.  No result is tested.                   *)
vmm_test_secret_base(m, page, root, secret, alias) ==
    LET first == vmm_map([m EXCEPT !.pm = page.pm], root, secret, page.ret, {"W"})
    IN  IF page.ret = NULL THEN m
        ELSE vmm_map(first.m, root, alias, page.ret, {"W"}).m

vmm_init_bsp(m, old_pml4, new) ==
    LET cloned == [i \in Slots |-> IF i = 0 \/ i \in KernelSlots
                                    THEN m.tables[old_pml4][i] ELSE NoEntry]
    IN  vmm_map(AddTable(m, new, cloned), old_pml4, new.ret, new.ret, {"W"}).m

(* The new root is the frame pmm_alloc hands out first. *)
vmm_init(m, old_pml4, secret, alias) ==
    LET root == pmm_alloc(m.pm).ret
        Prepared(v) == vmm_test_secret_base(v, pmm_alloc(v.pm), root, secret, alias)
    IN  vmm_preallocate_kernel_range(
          Prepared(vmm_init_bsp(m, old_pml4, pmm_alloc(m.pm))), root)

(* A user root in the frame `new`: the kernel's upper half, nothing below. *)
(* Returns [m, ret].  Without a frame the code writes the same to physical *)
(* page 0, low memory that nothing of the model lives in, and returns NULL.*)
vmm_create_user_pml4(m, kernel_pml4, new) ==
    IF new.ret = NULL THEN [m |-> m, ret |-> NULL]
    ELSE [m |-> AddTable(m, new, [i \in Slots |->
                  IF i \in KernelSlots THEN m.tables[kernel_pml4][i]
                  ELSE NoEntry]),
          ret |-> new.ret]

(* The present entries of the tables below root, as <<table, slot, level>>,*)
(* starting from the given slots of the root.                              *)
PresentSlots(tables, t, l, slots) ==
    {<<t, i, l>> : i \in {j \in slots : tables[t][j].present}}

Tree(tables, root, slots) ==
    LET level[l \in 1 .. Levels] ==
          IF l = Levels THEN PresentSlots(tables, root, l, slots)
          ELSE UNION {PresentSlots(tables, tables[s[1]][s[2]].frame, l, Slots) :
                        s \in {x \in level[l + 1] :
                                 ~ tables[x[1]][x[2]].leaf}}
    IN  UNION {level[l] : l \in 1 .. Levels}

(* The frames behind an entry: a large page is all the pages it covers. *)
SlotFrames(tables, s) ==
    LET e == tables[s[1]][s[2]]
    IN  e.frame .. e.frame + (IF e.leaf /\ s[3] > 1 THEN Span[s[3] - 1] ELSE 1) - 1

TreeFrames(tables, tree) == UNION {SlotFrames(tables, s) : s \in tree}

(* Frees everything below root and root; a frame met twice is a double     *)
(* free.                                                                   *)
FreeTree(m, own, dead, count) ==
    IF Cardinality(own) # count \/ ~ own \subseteq m.pm.used
    THEN [m EXCEPT !.pm = Panic(@, "double free")]
    ELSE [pm |-> [m.pm EXCEPT !.used = @ \ own, !.page.freed = @ + count],
          tables |-> [f \in DOMAIN m.tables \ dead |-> m.tables[f]]]

vmm_destroy_level(m, root) ==
    LET Pages(s) == Cardinality(SlotFrames(m.tables, s))
        IsTable(s) == s[3] > 1 /\ ~ m.tables[s[1]][s[2]].leaf
        Destroy(tree) ==
          FreeTree(m, {root} \cup TreeFrames(m.tables, tree),
                   {root} \cup TreeFrames(m.tables, {s \in tree : IsTable(s)}),
                   MapThenSumSet(Pages, tree) + 1)
    IN  Destroy(Tree(m.tables, root, UserSlots))
=============================================================================
