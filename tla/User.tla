-------------------------------- MODULE User --------------------------------
(***************************************************************************)
(* User processes: their creation from an ELF image (create_elf_process    *)
(* and elf.c), the system calls (arch/x86_64/syscall.c), the VMA list      *)
(* (vma.c), demand paging (page_fault.c) and their destruction             *)
(* (thread_destroy), over the page allocator, the page tables and the      *)
(* kernel heap they all share.                                             *)
(*                                                                         *)
(* A process runs on a CPU of its own; a step is what it does between two  *)
(* releases of the pmm, vmm or heap lock, and processes interleave there.  *)
(* One process at a time is being created, under task_lock.                *)
(***************************************************************************)
EXTENDS Heap

CONSTANTS
    Procs,
    Instances,      \* <<memory map, bound on the calls made>> to explore
    OldRoot,        \* the boot loader's root table, a reserved frame
    Secret, Alias,  \* the pages of vmm_test_secret_base
    Image,          \* the PT_LOAD pages in load order: [va, perm], clear of the
                    \* stack page and of the mmap window
    StackPage,      \* USER_STACK_TOP - PAGE_SIZE
    USER_MMAP_BASE, USER_MMAP_END,
    Lengths,        \* lengths passed to mmap, in pages
    Prots,          \* protections passed to mmap: subsets of {"W", "X"}
    ArgvUnits, ElfUnits, TcbUnits, StackUnits, ArgUnits, VmaUnits  \* heap requests

VARIABLES
    m,              \* memory: [pm, tables, hp]
    kernel_pml4,
    boot,           \* the next step of kmain's memory set-up
    proc,           \* per process: its thread structure and where it is
    reserved,       \* history: the frames pmm_init did not release
    lost,           \* history: frames whose failed mapping nobody noticed
    calls           \* creations, mmaps, munmaps and faults left

vars == <<m, kernel_pml4, boot, proc, reserved, lost, calls>>
kernelVars == <<kernel_pml4, boot, reserved>>

Absent == [pc |-> "none", argv |-> NULL, elf |-> NULL, tcb |-> NULL, kstack |-> NULL,
           pml4 |-> NULL, vmas |-> <<>>,        \* of [start, end, prot, node]
           cursor |-> 0, held |-> NULL, range |-> <<>>]

Creating == {"copy", "tcb", "root", "seg", "stack", "args", "kstack"}

Init ==
    /\ \E i \in Instances :
         /\ m = [pm |-> pmm_init_from_memmap(i[1]),
                 tables |-> [f \in {OldRoot} |-> EmptyTable],
                 hp |-> [max |-> 0, blocks |-> <<>>]]
         /\ calls = i[2]
    /\ reserved = m.pm.used
    /\ kernel_pml4 = NULL
    /\ boot = "vmm"
    /\ proc = [p \in Procs |-> Absent]
    /\ lost = {}

Running == m.pm.panic = "none"
Call == calls > 0 /\ calls' = calls - 1

----------------------------------------------------------------------------
(* kmain: vmm_init, then kheap_init, before anything else runs. *)
BootVmm ==
    /\ Running /\ boot = "vmm"
    /\ m' = WithVmm(m, vmm_init(AsVmm(m), OldRoot, Secret, Alias))
    /\ kernel_pml4' = pmm_alloc(m.pm).ret
    /\ boot' = "heap"
    /\ UNCHANGED <<proc, reserved, lost, calls>>

BootHeap ==
    /\ Running /\ boot = "heap"
    /\ m' = kheap_init(m, kernel_pml4)
    /\ boot' = "done"
    /\ UNCHANGED <<kernel_pml4, proc, reserved, lost, calls>>

----------------------------------------------------------------------------
(* The VMA list, in ascending order of start. *)
vma_find(vmas, va) ==
    {i \in DOMAIN vmas : vmas[i].start <= va /\ va < vmas[i].end}

vma_insert(vmas, v) ==
    LET before == Cardinality({i \in DOMAIN vmas : vmas[i].start < v.start})
    IN  SubSeq(vmas, 1, before) \o <<v>> \o SubSeq(vmas, before + 1, Len(vmas))

(* The first gap of the window that length fits in, NULL if there is none. *)
vma_find_free(vmas, length) ==
    LET Cursor(k) == IF k = 0 THEN USER_MMAP_BASE ELSE vmas[k].end
        Limit(k) == IF k < Len(vmas) THEN vmas[k + 1].start ELSE USER_MMAP_END
        gaps == {k \in 0 .. Len(vmas) :
                   /\ Cursor(k) + length <= Limit(k)
                   /\ \A j \in 1 .. k : vmas[j].end < USER_MMAP_END}
    IN  IF gaps = {} THEN NULL ELSE Cursor(Min(gaps))

(* Unlinks and frees the VMA that is exactly start .. end - 1. *)
vma_free(mm, vmas, start, end) ==
    LET at == {i \in DOMAIN vmas : vmas[i].start = start /\ vmas[i].end = end}
        i == Min(at)
    IN  IF at = {} THEN [m |-> mm, vmas |-> vmas]
        ELSE [m |-> kfree(mm, vmas[i].node),
              vmas |-> SubSeq(vmas, 1, i - 1) \o SubSeq(vmas, i + 1, Len(vmas))]

vma_destroy_all(mm, vmas) ==
    LET left[k \in 0 .. Len(vmas)] ==
          IF k = 0 THEN mm ELSE kfree(left[k - 1], vmas[k].node)
    IN  left[Len(vmas)]

(* The bits of a user page's entry for a protection. *)
MmapPerm(prot) ==
    {"U"} \cup (prot \cap {"W"}) \cup (IF "X" \in prot THEN {} ELSE {"NX"})

----------------------------------------------------------------------------
(* thread_destroy: the arguments, the ELF copy, the VMA nodes, the address *)
(* space (its stack page included), the kernel stack, the thread structure.*)
(* When creation fails the arguments are still the task's, and             *)
(* task_run_configured_cpu_ctx frees them next.                            *)

DestroySpace(mm, pml4) ==
    IF pml4 = NULL THEN mm ELSE WithVmm(mm, vmm_destroy_level(AsVmm(mm), pml4))

thread_destroy(mm, t) ==
    kfree(kfree(DestroySpace(vma_destroy_all(kfree(kfree(mm, t.argv), t.elf), t.vmas), t.pml4),
                t.kstack), t.tcb)

Become(p, t) == proc' = [proc EXCEPT ![p] = t]
Destroyed(p, mm) == m' = thread_destroy(mm, proc[p]) /\ Become(p, Absent)

(* task_build_argv, then create_elf_process on the validated image.  Every *)
(* failure destroys what has been built.                                   *)
BuildArgv(p) ==
    /\ Running /\ boot = "done" /\ proc[p].pc = "none"
    /\ \A q \in Procs : proc[q].pc \notin Creating
    /\ \E a \in {kmalloc(m, kernel_pml4, ArgvUnits)} :
         /\ m' = a.m
         /\ Become(p, IF a.ret = NULL THEN Absent
                      ELSE [Absent EXCEPT !.pc = "copy", !.argv = a.ret])
    /\ UNCHANGED <<kernelVars, lost>> /\ Call

CreateCopy(p) ==
    /\ Running /\ proc[p].pc = "copy"
    /\ \E a \in {kmalloc(m, kernel_pml4, ElfUnits)} :
         IF a.ret = NULL THEN Destroyed(p, a.m)
         ELSE m' = a.m /\ Become(p, [proc[p] EXCEPT !.pc = "tcb", !.elf = a.ret])
    /\ UNCHANGED <<kernelVars, lost, calls>>

CreateThread(p) ==
    /\ Running /\ proc[p].pc = "tcb"
    /\ \E a \in {kmalloc(m, kernel_pml4, TcbUnits)} :
         IF a.ret = NULL THEN Destroyed(p, a.m)
         ELSE m' = a.m /\ Become(p, [proc[p] EXCEPT !.pc = "root", !.tcb = a.ret])
    /\ UNCHANGED <<kernelVars, lost, calls>>

CreateRoot(p) ==
    /\ Running /\ proc[p].pc = "root"
    /\ \E a \in {vmm_create_user_pml4(AsVmm(m), kernel_pml4, pmm_alloc(m.pm))} :
         IF a.ret = NULL THEN Destroyed(p, m)
         ELSE /\ m' = WithVmm(m, a.m)
              /\ Become(p, [proc[p] EXCEPT !.pc = "seg", !.pml4 = a.ret,
                                           !.cursor = 1])
    /\ UNCHANGED <<kernelVars, lost, calls>>

(* elf_load_segment, one page: a page an earlier segment mapped is reused  *)
(* with that segment's rights, and the result of mapping a new one is not  *)
(* looked at.                                                              *)
Loaded(t) == [t EXCEPT !.cursor = @ + 1,
                       !.pc = IF t.cursor = Len(Image) THEN "stack" ELSE "seg"]

ReusePage(p) ==
    LET t == proc[p] IN
    /\ Running /\ t.pc = "seg"
    /\ vmm_get_phys(m.tables, t.pml4, Image[t.cursor].va) # NULL
    /\ Become(p, Loaded(t))
    /\ UNCHANGED <<m, kernelVars, lost, calls>>

LoadPage(p) ==
    LET t == proc[p]
        page == Image[t.cursor]
    IN  /\ Running /\ t.pc = "seg"
        /\ vmm_get_phys(m.tables, t.pml4, page.va) = NULL
        /\ \E a \in {pmm_alloc(m.pm)} :
             IF a.ret = NULL THEN Destroyed(p, m) /\ UNCHANGED lost
             ELSE \E v \in {vmm_map_user([pm |-> a.pm, tables |-> m.tables],
                                         t.pml4, page.va, a.ret, page.perm)} :
                    /\ m' = WithVmm(m, v.m)
                    /\ lost' = IF v.ok THEN lost ELSE lost \cup {a.ret}
                    /\ Become(p, Loaded(t))
        /\ UNCHANGED <<kernelVars, calls>>

(* setup_user_stack: the page and its mapping; then a heap array for the   *)
(* argument addresses that lives no longer than the call; fits is whether  *)
(* the arguments fit the page.  A failure unmaps and frees the page.       *)
StackMap(p) ==
    LET t == proc[p] IN
    /\ Running /\ t.pc = "stack"
    /\ \E a \in {pmm_alloc(m.pm)} :
         IF a.ret = NULL THEN Destroyed(p, m)
         ELSE \E v \in {vmm_map_user([pm |-> a.pm, tables |-> m.tables], t.pml4,
                                     StackPage, a.ret, {"W"})} :
                IF v.ok
                THEN /\ m' = WithVmm(m, v.m)
                     /\ Become(p, [t EXCEPT !.pc = "args", !.cursor = a.ret])
                ELSE Destroyed(p, WithVmm(m, [v.m EXCEPT
                                                !.pm = pmm_free(@, a.ret)]))
    /\ UNCHANGED <<kernelVars, lost, calls>>

StackArgs(p, fits) ==
    LET t == proc[p] IN
    /\ Running /\ t.pc = "args"
    /\ \E a \in {kmalloc(m, kernel_pml4, ArgUnits)} :
       \E done \in {kfree(a.m, a.ret)} :
         IF a.ret # NULL /\ fits
         THEN m' = done /\ Become(p, [t EXCEPT !.pc = "kstack", !.cursor = 0])
         ELSE \E v \in {vmm_unmap(AsVmm(done), t.pml4, StackPage).m} :
                Destroyed(p, WithVmm(done, [v EXCEPT
                                              !.pm = pmm_free(@, t.cursor)]))
    /\ UNCHANGED <<kernelVars, lost, calls>>

CreateKernelStack(p) ==
    /\ Running /\ proc[p].pc = "kstack"
    /\ \E a \in {kmalloc(m, kernel_pml4, StackUnits)} :
         IF a.ret = NULL THEN Destroyed(p, a.m)
         ELSE m' = a.m /\ Become(p, [proc[p] EXCEPT !.pc = "user",
                                                    !.kstack = a.ret])
    /\ UNCHANGED <<kernelVars, lost, calls>>

----------------------------------------------------------------------------
(* do_mmap: the VMA is registered first; a lazy mapping ends there, an     *)
(* eager one allocates and maps page after page and, when a page cannot be *)
(* had, takes back those already mapped.                                   *)
MmapReserve(p, length, prot, lazy) ==
    LET t == proc[p]
        start == vma_find_free(t.vmas, length)
        v(node) == [start |-> start, end |-> start + length, prot |-> prot,
                    node |-> node]
    IN  /\ Running /\ t.pc = "user" /\ start # NULL
        /\ \E a \in {kmalloc(m, kernel_pml4, VmaUnits)} :
             /\ m' = a.m
             /\ Become(p, IF a.ret = NULL THEN t
                          ELSE IF lazy
                          THEN [t EXCEPT !.vmas = vma_insert(@, v(a.ret))]
                          ELSE [t EXCEPT !.vmas = vma_insert(@, v(a.ret)),
                                  !.pc = "alloc", !.cursor = start,
                                  !.range = <<start, start + length, prot>>])
        /\ UNCHANGED <<kernelVars, lost>> /\ Call

MmapAlloc(p) ==
    /\ Running /\ proc[p].pc = "alloc"
    /\ \E a \in {pmm_alloc(m.pm)} :
         /\ m' = [m EXCEPT !.pm = a.pm]
         /\ Become(p, [proc[p] EXCEPT !.held = a.ret,
                         !.pc = IF a.ret = NULL THEN "rollback" ELSE "map"])
    /\ UNCHANGED <<kernelVars, lost, calls>>

AtUser(t) == [t EXCEPT !.pc = "user", !.cursor = 0, !.range = <<>>,
                       !.held = NULL]

MmapMap(p) ==
    LET t == proc[p] IN
    /\ Running /\ t.pc = "map"
    /\ \E v \in {vmm_map_user(AsVmm(m), t.pml4, t.cursor, t.held,
                              MmapPerm(t.range[3]))} :
         IF v.ok
         THEN /\ m' = WithVmm(m, v.m)
              /\ Become(p, IF t.cursor + 1 = t.range[2] THEN AtUser(t)
                           ELSE [t EXCEPT !.cursor = @ + 1, !.held = NULL,
                                          !.pc = "alloc"])
         ELSE /\ m' = WithVmm(m, [v.m EXCEPT !.pm = pmm_free(@, t.held)])
              /\ Become(p, [t EXCEPT !.held = NULL, !.pc = "rollback"])
    /\ UNCHANGED <<kernelVars, lost, calls>>

(* Unmaps the pages from start to end - 1 and frees the frames behind.     *)

(* Mutant: the frame is unmapped and not freed. *)
Mutant_UnmapPage(mm, root, va) ==
    WithVmm(mm, vmm_unmap(AsVmm(mm), root, va).m)

UnmapPage(mm, root, va) ==
    WithVmm(mm, [vmm_unmap(AsVmm(mm), root, va).m EXCEPT
                   !.pm = pmm_free(@, vmm_get_phys(mm.tables, root, va))])

UnmapRange(mm, root, start, end) ==
    LET left[va \in start .. end] ==
          IF va = start THEN mm ELSE UnmapPage(left[va - 1], root, va - 1)
    IN  left[end]

(* Mutant: the rollback keeps the pages that were already mapped. *)
Mutant_MmapRollback(p) ==
    LET t == proc[p] IN
    /\ Running /\ t.pc = "rollback"
    /\ \E f \in {vma_free(m, t.vmas, t.range[1], t.range[2])} :
         m' = f.m /\ Become(p, [AtUser(t) EXCEPT !.vmas = f.vmas])
    /\ UNCHANGED <<kernelVars, lost, calls>>

MmapRollback(p) ==
    LET t == proc[p] IN
    /\ Running /\ t.pc = "rollback"
    /\ \E f \in {vma_free(UnmapRange(m, t.pml4, t.range[1], t.cursor), t.vmas,
                          t.range[1], t.range[2])} :
         m' = f.m /\ Become(p, [AtUser(t) EXCEPT !.vmas = f.vmas])
    /\ UNCHANGED <<kernelVars, lost, calls>>

(* do_munmap of a range that is exactly one VMA; any other range is        *)
(* refused.                                                                *)
Munmap(p, i) ==
    LET t == proc[p]
        v == t.vmas[i]
    IN  /\ Running /\ t.pc = "user"
        /\ \E f \in {vma_free(UnmapRange(m, t.pml4, v.start, v.end), t.vmas,
                              v.start, v.end)} :
             m' = f.m /\ Become(p, [t EXCEPT !.vmas = f.vmas])
        /\ UNCHANGED <<kernelVars, lost>> /\ Call

----------------------------------------------------------------------------
(* A user-mode access that faults.  page_fault_handler kills the process   *)
(* unless a VMA covers a page that is not present; page_fault_demand then  *)
(* allocates and maps it, and a failure kills the process too.             *)
Allowed(perm, access) ==
    CASE access = "read"  -> TRUE
      [] access = "write" -> "W" \in perm
      [] access = "exec"  -> "NX" \notin perm

Kill(t) == [t EXCEPT !.pc = "zombie", !.held = NULL, !.range = <<>>,
                     !.cursor = 0]

Faults(t, va, access) ==
    LET e == Walk(m.tables, t.pml4, va).e
    IN  ~ (e.present /\ Allowed(e.perm, access))

Fault(p, va, access) ==
    LET t == proc[p]
        demand == /\ ~ vmm_is_mapped(m.tables, t.pml4, va)
                  /\ vma_find(t.vmas, va) # {}
    IN  /\ Running /\ t.pc = "user" /\ Faults(t, va, access)
        /\ IF demand
           THEN \E a \in {pmm_alloc(m.pm)} :
                  /\ m' = [m EXCEPT !.pm = a.pm]
                  /\ Become(p, IF a.ret = NULL THEN Kill(t)
                               ELSE [t EXCEPT !.pc = "fault", !.cursor = va,
                                              !.held = a.ret])
           ELSE Become(p, Kill(t)) /\ UNCHANGED m
        /\ UNCHANGED <<kernelVars, lost>> /\ Call

FaultMap(p) ==
    LET t == proc[p]
        prot == t.vmas[Min(vma_find(t.vmas, t.cursor))].prot
    IN  /\ Running /\ t.pc = "fault"
        /\ \E v \in {vmm_map_user(AsVmm(m), t.pml4, t.cursor, t.held,
                                  MmapPerm(prot))} :
             IF v.ok THEN m' = WithVmm(m, v.m) /\ Become(p, AtUser(t))
             ELSE /\ m' = WithVmm(m, [v.m EXCEPT !.pm = pmm_free(@, t.held)])
                  /\ Become(p, Kill(t))
        /\ UNCHANGED <<kernelVars, lost, calls>>

(* sys_write copies from the user's buffer in kernel mode: a page that is  *)
(* not mapped, a lazy one not yet touched included, is a kernel page fault *)
(* and stops the machine.                                                  *)
SysWrite(p, va) ==
    /\ Running /\ proc[p].pc = "user"
    /\ ~ vmm_is_mapped(m.tables, proc[p].pml4, va)
    /\ m' = [m EXCEPT !.pm = Panic(@, "kernel page fault")]
    /\ UNCHANGED <<kernelVars, proc, lost, calls>>

SysExit(p) ==
    /\ Running /\ proc[p].pc = "user"
    /\ Become(p, Kill(proc[p]))
    /\ UNCHANGED <<m, kernelVars, lost, calls>>

(* The idle thread destroys the zombie. *)
Reap(p) ==
    /\ Running /\ proc[p].pc = "zombie"
    /\ Destroyed(p, m)
    /\ UNCHANGED <<kernelVars, lost, calls>>

Halted == ~ Running /\ UNCHANGED vars

UserPages == 0 .. (Span[Levels] \div 2) - 1

ProcNext(p) ==
    \/ BuildArgv(p) \/ CreateCopy(p) \/ CreateThread(p) \/ CreateRoot(p)
    \/ ReusePage(p) \/ LoadPage(p) \/ StackMap(p)
    \/ \E fits \in BOOLEAN : StackArgs(p, fits)
    \/ CreateKernelStack(p)
    \/ \E length \in Lengths, prot \in Prots, lazy \in BOOLEAN :
         MmapReserve(p, length, prot, lazy)
    \/ MmapAlloc(p) \/ MmapMap(p) \/ MmapRollback(p)
    \/ \E i \in DOMAIN proc[p].vmas : Munmap(p, i)
    \/ \E va \in UserPages, access \in {"read", "write", "exec"} :
         Fault(p, va, access)
    \/ FaultMap(p)
    \/ \E va \in UserPages : SysWrite(p, va)
    \/ SysExit(p) \/ Reap(p)

Next == BootVmm \/ BootHeap \/ Halted \/ \E p \in Procs : ProcNext(p)

Spec == Init /\ [][Next]_vars

----------------------------------------------------------------------------
PCs == {"none", "user", "alloc", "map", "rollback", "fault", "zombie"}
         \cup Creating

(* Every variable has its type: the tables are whole, a process is at one  *)
(* of its steps and its VMAs are ranges of pages.                          *)
TypeOK ==
    /\ m.pm.used \subseteq 0 .. m.pm.total - 1
    /\ m.tables \in Tables(DOMAIN m.tables)
    /\ \A i \in DOMAIN m.hp.blocks : m.hp.blocks[i].free \in BOOLEAN
    /\ boot \in {"vmm", "heap", "done"}
    /\ \A p \in Procs :
         /\ proc[p].pc \in PCs
         /\ \A i \in DOMAIN proc[p].vmas :
              proc[p].vmas[i].start \in Nat /\ proc[p].vmas[i].end \in Nat

(* Who owns a frame: the kernel's two trees, each process, a process in    *)
(* the middle of mapping a page.                                           *)
KernelFrames ==
    IF kernel_pml4 = NULL THEN {}
    ELSE {kernel_pml4}
         \cup TreeFrames(m.tables, Tree(m.tables, kernel_pml4, Slots))
         \cup TreeFrames(m.tables, Tree(m.tables, OldRoot, Slots))

ProcFrames(p) ==
    IF proc[p].pml4 = NULL THEN {}
    ELSE {proc[p].pml4} \cup ({proc[p].held} \ {NULL})
         \cup TreeFrames(m.tables, Tree(m.tables, proc[p].pml4, UserSlots))

(* pmm.c, vmm.c, elf.c, syscall.c, thread_destroy: no frame leaks, none is *)
(* shared and none is freed twice (the allocators panic on that; the one   *)
(* panic left is sys_write's fault on an unmapped buffer).  Whatever       *)
(* failed half-way, the used frames are exactly those reserved at boot,    *)
(* those the kernel's and the processes' trees hold, and those             *)
(* elf_load_segment lost by ignoring a failed mapping; and the free        *)
(* counter agrees with the bitmap.                                         *)
FramesAccounted ==
    /\ m.pm.panic \in {"none", "kernel page fault"}
    /\ Running =>
      /\ m.pm.page.freed = Cardinality(FreePages(m.pm))
      /\ m.pm.used = reserved \cup KernelFrames \cup lost
                      \cup UNION {ProcFrames(p) : p \in Procs}
      /\ KernelFrames \cap (reserved \cup lost) = {}
      /\ \A p \in Procs :
           /\ ProcFrames(p) \cap (reserved \cup KernelFrames \cup lost) = {}
           /\ \A q \in Procs \ {p} : ProcFrames(p) \cap ProcFrames(q) = {}

HeapPointers(p) ==
    {proc[p].argv, proc[p].elf, proc[p].tcb, proc[p].kstack}
      \cup {proc[p].vmas[i].node : i \in DOMAIN proc[p].vmas}

(* heap.c and its users: the blocks tile the heap from its base in address *)
(* order, inside mapped pages, no two free ones side by side; and the      *)
(* blocks in use are exactly those some process points to.                 *)
HeapAccounted ==
    boot = "done" /\ Running =>
      LET bs == m.hp.blocks
          n == Len(bs)
      IN  /\ bs[1].addr = 0 /\ bs[n].addr + bs[n].size <= m.hp.max
          /\ \A i \in 1 .. n - 1 : Adjacent(bs[i], bs[i + 1])
                                   /\ ~ (bs[i].free /\ bs[i + 1].free)
          /\ \A a \in 0 .. (m.hp.max \div UnitsPerPage) - 1 :
               vmm_is_mapped(m.tables, kernel_pml4, KHEAP_VBASE + a)
          /\ {bs[i].addr + HEADER : i \in {k \in 1 .. n : ~ bs[k].free}}
               = UNION {HeapPointers(p) : p \in Procs} \ {NULL}

MappedPages(p) ==
    {va \in UserPages : vmm_is_mapped(m.tables, proc[p].pml4, va)}

(* What an entry lets the process do, and what it was granted: the         *)
(* protection of its VMA, the stack's, or that of a segment that covers it.*)
Rights(perm) == (perm \cap {"W"}) \cup (IF "NX" \in perm THEN {} ELSE {"X"})
Granted(p, va) ==
    {proc[p].vmas[i].prot : i \in vma_find(proc[p].vmas, va)}
      \cup (IF va = StackPage THEN {{"W", "X"}} ELSE {})
      \cup {Rights(Image[i].perm) : i \in {k \in DOMAIN Image : Image[k].va = va}}

(* do_mmap, do_munmap, page_fault_demand, vma.c: the VMAs lie in order in  *)
(* the mmap window without overlap; a process maps no page outside its     *)
(* image, its stack and its VMAs, each with the rights it was granted; the *)
(* kernel half is the kernel's own.                                        *)
AddressSpaceConsistent ==
    Running => \A p \in Procs : proc[p].pc = "user" =>
      LET vs == proc[p].vmas IN
      /\ \A i \in DOMAIN vs :
           /\ USER_MMAP_BASE <= vs[i].start /\ vs[i].end <= USER_MMAP_END
           /\ vs[i].start < vs[i].end
           /\ i < Len(vs) => vs[i].end <= vs[i + 1].start
      /\ \A va \in MappedPages(p) :
           LET perm == Walk(m.tables, proc[p].pml4, va).e.perm
           IN  "U" \in perm /\ Rights(perm) \in Granted(p, va)
      /\ \A i \in KernelSlots :
           m.tables[proc[p].pml4][i].frame = m.tables[kernel_pml4][i].frame
=============================================================================
