------------------------------- MODULE Loader -------------------------------
(***************************************************************************)
(* Loading kernel code: the module region (module_alloc.c), the module     *)
(* registry (module.c), the three kernel loaders of elf_loader.c and the   *)
(* per-CPU scan of the task list that calls them (task.c).                 *)
(*                                                                         *)
(* The BSP first loads the self-test payloads, alone; it then scans the    *)
(* task list, and the other CPUs do so once it is done, all under          *)
(* task_lock.  A step ends where the pmm, vmm, heap, module or registry    *)
(* lock is released; threads that have exited are destroyed meanwhile.     *)
(* Memory m has three more fields: the module region's brk and mapped, in  *)
(* units from its base, and lost, the frames of mappings whose failure     *)
(* nobody noticed (history).                                               *)
(***************************************************************************)
EXTENDS Heap

CONSTANTS
    Cpus, Bsp,
    Instances,      \* <<memory map, jobs>> to explore
    OldRoot,        \* the boot loader's root table, a reserved frame
    Secret, Alias,  \* the pages of vmm_test_secret_base
    MODULE_VBASE,   \* the module region's first virtual page
    ModulePages,    \* MODULE_REGION_SIZE
    MODULE_REGISTRY_CAPACITY,
    MODULE_MAX_BSS_SECTIONS,
    ExecImage,      \* the PT_LOAD pages of an ET_EXEC image
    ElfUnits, TcbUnits, StackUnits, ArgvUnits, NameUnits, TestUnits,
    NoCpu

(* A task of the list is a driver or an executable; a payload comes from   *)
(* the self-test configuration.                                            *)
Kinds == {"payload", "driver", "thread"}

ASSUME LoaderAssumption ==
    /\ Bsp \in Cpus /\ NoCpu \notin Cpus /\ MODULE_REGISTRY_CAPACITY \in Nat
    /\ \A i \in Instances :
         i[2] \in Seq([kind : Kinds, cpu : Cpus, size : Nat, bss : Seq(Nat)])
(* The boot loader's root lies in no usable entry of its memory map, the   *)
(* module region within what the tables can address, and an executable     *)
(* has at least one page to load.                                          *)
ASSUME BootAssumption ==
    /\ OldRoot \in Nat \ {0} /\ Secret \in Nat /\ Alias \in Nat
    /\ \A i \in Instances :
         /\ i[1] \in Seq([base : Nat, length : Nat, usable : BOOLEAN])
         /\ \A e \in UsableEntries(i[1]) : OldRoot \notin EntryPages(i[1][e])
ASSUME RegionAssumption ==
    /\ MODULE_VBASE \in Nat /\ ModulePages \in Nat
    /\ MODULE_VBASE + ModulePages <= Span[Levels]
    /\ ExecImage \in Seq(Nat) /\ ExecImage # <<>>

VARIABLES
    m,              \* memory: [pm, tables, hp, brk, mapped, lost]
    jobs,           \* the payloads and tasks: [kind, cpu, size, bss]
    registry,       \* g_registry and g_registry_state
    g_next_id,
    task_lock,      \* the CPU that holds it, or NoCpu
    load,           \* per CPU: where its loading is
    thread,         \* per job: the thread created for it
    tests,          \* selftest_registry: [inst, parts] of each test
    leaked,         \* history: ELF copies nobody frees
    reserved,       \* history: the frames pmm_init did not release
    kernel_pml4

vars == <<m, jobs, registry, g_next_id, task_lock, load, thread, tests, leaked,
          reserved, kernel_pml4>>
fixed == <<jobs, reserved, kernel_pml4>>

RegistrySlots == 1 .. MODULE_REGISTRY_CAPACITY
REG_FREE == [state |-> "free", id |-> 0, name |-> NULL, parts |-> <<>>,
             frames |-> <<>>]
NoThread == [state |-> "none", argv |-> NULL, elf |-> NULL, kstack |-> NULL,
             tcb |-> NULL]
(* parts: the pieces of the region loaded so far, [addr, size]. *)
NoLoad == [pc |-> "start", job |-> 0, argv |-> NULL, elf |-> NULL,
           tcb |-> NULL, check |-> <<0, 0>>, parts |-> <<>>, id |-> -1,
           page |-> 1]

(* kmain up to BOOT_PHASE_SMP_READY, as far as memory goes. *)
Boot(v) ==
    LET init(w) == kheap_init([pm |-> w.pm, tables |-> w.tables,
                       hp |-> [max |-> 0, blocks |-> <<>>],
                       brk |-> 0, mapped |-> 0, lost |-> {}],    \* module_alloc_init
                     pmm_alloc(v).ret)
    IN  init(vmm_init([pm |-> v, tables |-> [f \in {OldRoot} |-> EmptyTable]],
                      OldRoot, Secret, Alias))

Init ==
    /\ \E i \in Instances : \E pm \in {pmm_init_from_memmap(i[1])} :
         /\ m = Boot(pm)
         /\ kernel_pml4 = pmm_alloc(pm).ret
         /\ reserved = pm.used
         /\ jobs = i[2]
    /\ registry = [s \in RegistrySlots |-> REG_FREE]
    /\ g_next_id = 0
    /\ task_lock = NoCpu
    /\ load = [c \in Cpus |-> [NoLoad EXCEPT !.pc = IF c = Bsp THEN "payloads"
                                                    ELSE "start"]]
    /\ thread = [i \in DOMAIN jobs |-> NoThread]
    /\ tests = <<>>
    /\ leaked = {}

Running == m.pm.panic = "none"
PageFault(mm) == [mm EXCEPT !.pm = Panic(@, "kernel page fault")]

----------------------------------------------------------------------------
(* module_alloc.c.  A failed vmm_map goes unnoticed: the page counts as    *)
(* mapped.                                                                 *)
ModulePage(addr) == MODULE_VBASE + addr \div UnitsPerPage
PagesOf(part) == ModulePage(part.addr) .. ModulePage(part.addr + part.size - 1)
module_max == ModulePages * UnitsPerPage - 1

MapModulePage(mm, frame, v) ==
    [WithVmm(mm, v.m) EXCEPT !.mapped = @ + UnitsPerPage,
       !.lost = IF v.ok THEN @ ELSE @ \cup {frame}]

AddModulePage(s, new) ==
    IF new.ret = NULL THEN [s EXCEPT !.ok = FALSE]
    ELSE [s EXCEPT !.m = MapModulePage(@, new.ret,
            vmm_map([pm |-> new.pm, tables |-> s.m.tables], kernel_pml4,
                    ModulePage(s.m.mapped), new.ret, {"W"}))]

module_expand_to(mm, target) ==
    LET Expand(s) ==
          IF ~ s.ok \/ s.m.mapped >= UpToPage(target) THEN s
          ELSE IF s.m.mapped > module_max - (UnitsPerPage - 1)
          THEN [s EXCEPT !.ok = FALSE]
          ELSE AddModulePage(s, pmm_alloc(s.m.pm))
        step[n \in 0 .. ModulePages] ==
          IF n = 0 THEN [m |-> mm, ok |-> TRUE] ELSE Expand(step[n - 1])
    IN  step[ModulePages]

(* Returns [m, ok]; the allocation starts at the old brk. *)
module_alloc(mm, size) ==
    LET Bump(s) == IF s.ok THEN [s EXCEPT !.m.brk = @ + size] ELSE s
    IN  IF size = 0 \/ size - 1 > module_max - mm.brk THEN [m |-> mm, ok |-> FALSE]
        ELSE Bump(module_expand_to(mm, mm.brk + size))

module_alloc_checkpoint(mm) == <<mm.brk, mm.mapped>>

(* Back to a checkpoint: unmaps and frees the pages mapped since. *)
FreeModulePage(mm, va, frame) ==
    IF frame = NULL THEN mm
    ELSE WithVmm(mm, [vmm_unmap(AsVmm(mm), kernel_pml4, va).m EXCEPT
                        !.pm = pmm_free(@, frame)])

(* Mutant: brk stays where it is. *)
Mutant_Restored(mm, check) == [mm EXCEPT !.mapped = check[2]]

Restored(mm, check) == [mm EXCEPT !.brk = check[1], !.mapped = check[2]]

module_alloc_rollback(mm, check) ==
    LET left[n \in 0 .. ModulePages] ==
          IF n = 0 THEN Restored(mm, check)
          ELSE IF n > (mm.mapped - check[2]) \div UnitsPerPage THEN left[n - 1]
          ELSE FreeModulePage(left[n - 1], ModulePage(check[2]) + n - 1,
                 vmm_get_phys(mm.tables, kernel_pml4, ModulePage(check[2]) + n - 1))
    IN  IF check[1] > mm.brk \/ check[2] > mm.mapped \/ check[2] < check[1]
        THEN mm ELSE left[ModulePages]

----------------------------------------------------------------------------
(* thread_destroy of a kernel thread; elf is NULL for a module, whose      *)
(* memory is never given back.                                             *)
thread_destroy(mm, t) ==
    kfree(kfree(kfree(kfree(mm, t.argv), t.elf), t.kstack), t.tcb)

At(c, pc) == Running /\ load[c].pc = pc
Job(c) == jobs[load[c].job]
Become(c, l) == load' = [load EXCEPT ![c] = l]
Goto(c, pc) == Become(c, [load[c] EXCEPT !.pc = pc])

(* The loading of one job is over: back to the list it came from. *)
Finished(c) ==
    Become(c, [NoLoad EXCEPT !.job = load[c].job,
                 !.pc = IF Job(c).kind = "payload" THEN "payloads" ELSE "scan"])

(* A failed task gives its argv back. *)
Failed(c, mm) == m' = kfree(mm, load[c].argv) /\ Finished(c)

(* selftest_load_payloads_from_files; present: the file was found. *)
NextPayload(c, present) ==
    LET rest == {i \in DOMAIN jobs : i > load[c].job /\ jobs[i].kind = "payload"}
    IN  /\ At(c, "payloads")
        /\ Become(c, IF rest = {} THEN NoLoad
                     ELSE [NoLoad EXCEPT !.job = Min(rest),
                             !.pc = IF present THEN "check" ELSE "payloads"])
        /\ UNCHANGED <<m, fixed, registry, g_next_id, task_lock, thread, tests,
                       leaked>>

(* task_run_configured_cpu_ctx takes task_lock; the other CPUs wait for    *)
(* BOOT_PHASE_SERVICES_READY.                                              *)

(* Mutant: the scan does not take task_lock. *)
Mutant_ClaimCpu(c) ==
    /\ At(c, "start")
    /\ c # Bsp => load[Bsp].pc = "done"
    /\ Goto(c, "scan")
    /\ UNCHANGED <<m, fixed, registry, g_next_id, task_lock, thread, tests, leaked>>

ClaimCpu(c) ==
    /\ At(c, "start") /\ task_lock = NoCpu
    /\ c # Bsp => load[Bsp].pc = "done"
    /\ task_lock' = c
    /\ Goto(c, "scan")
    /\ UNCHANGED <<m, fixed, registry, g_next_id, thread, tests, leaked>>

(* The next task of this CPU: looked up, and its argv built. *)
Mine(c) == {i \in DOMAIN jobs : /\ i > load[c].job /\ jobs[i].cpu = c
                                /\ jobs[i].kind # "payload"}

NextTask(c, present) ==
    /\ At(c, "scan") /\ Mine(c) # {}
    /\ \E a \in {IF present THEN kmalloc(m, kernel_pml4, ArgvUnits)
                 ELSE [m |-> m, ret |-> NULL]} :
         /\ m' = a.m
         /\ Become(c, [NoLoad EXCEPT !.job = Min(Mine(c)), !.argv = a.ret,
               !.pc = IF a.ret = NULL THEN "scan"
                      ELSE IF jobs[Min(Mine(c))].kind = "driver" THEN "check"
                      ELSE "copy"])
    /\ UNCHANGED <<fixed, registry, g_next_id, task_lock, thread, tests, leaked>>

ScanDone(c) ==
    /\ At(c, "scan") /\ Mine(c) = {}
    /\ task_lock' = NoCpu
    /\ Goto(c, "done")
    /\ UNCHANGED <<m, fixed, registry, g_next_id, thread, tests, leaked>>

----------------------------------------------------------------------------
(* kthread_load_elf_rel and selftest_load_payload. The contents of a file  *)
(* are left open: elf_check and module_preflight_relocations may pass or   *)
(* refuse it, before anything is allocated.                                *)
Verdicts == BOOLEAN

Checkpoint(c, valid) ==
    /\ At(c, "check")
    /\ IF valid
       THEN /\ Become(c, [load[c] EXCEPT !.pc = "alloc",
                                         !.check = module_alloc_checkpoint(m)])
            /\ UNCHANGED m
       ELSE Failed(c, m)
    /\ UNCHANGED <<fixed, registry, g_next_id, task_lock, thread, tests, leaked>>

(* The image, then each NOBITS section rounded up to pages; each is        *)
(* written at once (memcpy, memset), which faults where a page could not   *)
(* be mapped.                                                              *)
PartSize(j, k) == IF k = 1 THEN j.size ELSE UpToPage(j.bss[k - 1])

Touch(mm, part) ==
    IF \A va \in PagesOf(part) : vmm_is_mapped(mm.tables, kernel_pml4, va)
    THEN mm ELSE PageFault(mm)

AllocPart(c) ==
    LET l == load[c]
        k == Len(l.parts) + 1
        part == [addr |-> m.brk, size |-> PartSize(Job(c), k)]
    IN  /\ At(c, "alloc")
        /\ IF k > MODULE_MAX_BSS_SECTIONS + 1
           THEN Goto(c, "rollback") /\ UNCHANGED m
           ELSE \E a \in {module_alloc(m, part.size)} :
                  IF a.ok
                  THEN /\ m' = Touch(a.m, part)
                       /\ Become(c, [l EXCEPT !.parts = Append(@, part),
                             !.pc = IF k > Len(Job(c).bss) THEN "link" ELSE "alloc"])
                  ELSE m' = a.m /\ Goto(c, "rollback")
        /\ UNCHANGED <<fixed, registry, g_next_id, task_lock, thread, tests, leaked>>

(* module_apply_rela and the search for the entry symbol. *)
Link(c, resolved) ==
    /\ At(c, "link")
    /\ Goto(c, IF resolved THEN "reserve" ELSE "rollback")
    /\ UNCHANGED <<m, fixed, registry, g_next_id, task_lock, thread, tests, leaked>>

(* The registry: a slot is reserved before anything with side effects and  *)
(* committed, or cancelled, after it.  frames (history): what backs the    *)
(* module's pages.                                                         *)
Backing(parts) ==
    [va \in UNION {PagesOf(parts[i]) : i \in DOMAIN parts} |->
       vmm_get_phys(m.tables, kernel_pml4, va)]

FreeSlots == {s \in RegistrySlots : registry[s].state = "free"}

module_registry_reserve(c) ==
    /\ At(c, "reserve")
    /\ \E a \in {IF FreeSlots = {} THEN [m |-> m, ret |-> NULL]
                 ELSE kmalloc(m, kernel_pml4, NameUnits)} :
         /\ m' = a.m
         /\ IF a.ret = NULL
            THEN Goto(c, "rollback") /\ UNCHANGED <<registry, g_next_id>>
            ELSE /\ registry' = [registry EXCEPT ![Min(FreeSlots)] =
                      [state |-> "reserved", id |-> g_next_id, name |-> a.ret,
                       parts |-> load[c].parts, frames |-> Backing(load[c].parts)]]
                 /\ g_next_id' = g_next_id + 1
                 /\ Become(c, [load[c] EXCEPT !.id = g_next_id,
                      !.pc = IF Job(c).kind = "payload" THEN "init" ELSE "tcb"])
    /\ UNCHANGED <<fixed, task_lock, thread, tests, leaked>>

SlotOf(c) == {s \in RegistrySlots : registry[s].state = "reserved"
                                    /\ registry[s].id = load[c].id}

module_registry_commit(c) ==
    /\ At(c, "commit")
    /\ registry' = [s \in RegistrySlots |->
         IF s \in SlotOf(c) THEN [registry[s] EXCEPT !.state = "committed"]
         ELSE registry[s]]
    /\ Finished(c)
    /\ UNCHANGED <<m, fixed, g_next_id, task_lock, thread, tests, leaked>>

(* Mutant: the name is not freed. *)
Mutant_CancelledNames(c, mm) == mm

CancelledNames(c, mm) ==
    IF SlotOf(c) = {} THEN mm ELSE kfree(mm, registry[Min(SlotOf(c))].name)

(* Mutant: the slot stays reserved. *)
Mutant_ClearedSlots(c) == registry

ClearedSlots(c) ==
    [s \in RegistrySlots |-> IF s \in SlotOf(c) THEN REG_FREE ELSE registry[s]]

module_registry_cancel(c) ==
    /\ At(c, "cancel")
    /\ registry' = ClearedSlots(c)
    /\ m' = CancelledNames(c, m)
    /\ Goto(c, "rollback")
    /\ UNCHANGED <<fixed, g_next_id, task_lock, thread, tests, leaked>>

Rollback(c) ==
    /\ At(c, "rollback")
    /\ Failed(c, module_alloc_rollback(m, load[c].check))
    /\ UNCHANGED <<fixed, registry, g_next_id, task_lock, thread, tests, leaked>>

(* A payload's selftest_init: it may register a test, whose description    *)
(* lies in the payload, and may fail whether it did or not.                *)
RunInit(c, registers, ok) ==
    /\ At(c, "init")
    /\ \E a \in {IF registers THEN kmalloc(m, kernel_pml4, TestUnits)
                 ELSE [m |-> m, ret |-> NULL]} :
         /\ m' = a.m
         /\ tests' = IF a.ret = NULL THEN tests
                     ELSE Append(tests, [inst |-> a.ret, parts |-> load[c].parts])
    /\ Goto(c, IF ok THEN "commit" ELSE "cancel")
    /\ UNCHANGED <<fixed, registry, g_next_id, task_lock, thread, leaked>>

----------------------------------------------------------------------------
(* kthread_load_elf_exec: a heap copy of the file, whose segments are      *)
(* loaded at their own addresses in the kernel's page table.  A failure    *)
(* leaves the pages mapped so far.                                         *)
CopyExec(c, valid) ==
    /\ At(c, "copy")
    /\ \E a \in {IF valid THEN kmalloc(m, kernel_pml4, ElfUnits)
                 ELSE [m |-> m, ret |-> NULL]} :
         IF a.ret = NULL THEN Failed(c, a.m)
         ELSE m' = a.m /\ Become(c, [load[c] EXCEPT !.pc = "segments", !.elf = a.ret])
    /\ UNCHANGED <<fixed, registry, g_next_id, task_lock, thread, tests, leaked>>

(* One page: an earlier mapping is reused, and the result of mapping a new *)
(* one is not looked at.                                                   *)
SegmentDone(c) ==
    Become(c, [load[c] EXCEPT !.page = @ + 1,
                 !.pc = IF load[c].page = Len(ExecImage) THEN "tcb" ELSE "segments"])

ReusePage(c) ==
    /\ At(c, "segments")
    /\ vmm_get_phys(m.tables, kernel_pml4, ExecImage[load[c].page]) # NULL
    /\ SegmentDone(c)
    /\ UNCHANGED <<m, fixed, registry, g_next_id, task_lock, thread, tests, leaked>>

LoadPage(c) ==
    LET va == ExecImage[load[c].page] IN
    /\ At(c, "segments")
    /\ vmm_get_phys(m.tables, kernel_pml4, va) = NULL
    /\ \E new \in {pmm_alloc(m.pm)} :
         IF new.ret = NULL THEN Failed(c, kfree(m, load[c].elf))
         ELSE \E v \in {vmm_map([pm |-> new.pm, tables |-> m.tables], kernel_pml4,
                                va, new.ret, {"W"})} :
                /\ m' = [WithVmm(m, v.m) EXCEPT
                           !.lost = IF v.ok THEN @ ELSE @ \cup {new.ret}]
                /\ SegmentDone(c)
    /\ UNCHANGED <<fixed, registry, g_next_id, task_lock, thread, tests, leaked>>

(* thread_create_common, in two steps.  Without a thread a module is taken *)
(* back; the copy of an executable is forgotten.                           *)
CreateTcb(c) ==
    /\ At(c, "tcb")
    /\ \E a \in {kmalloc(m, kernel_pml4, TcbUnits)} :
         IF a.ret # NULL
         THEN /\ m' = a.m /\ Become(c, [load[c] EXCEPT !.pc = "stack", !.tcb = a.ret])
              /\ UNCHANGED leaked
         ELSE IF Job(c).kind = "driver"
         THEN m' = a.m /\ Goto(c, "cancel") /\ UNCHANGED leaked
         ELSE Failed(c, a.m) /\ leaked' = leaked \cup {load[c].elf}
    /\ UNCHANGED <<fixed, registry, g_next_id, task_lock, thread, tests>>

CreateStack(c) ==
    /\ At(c, "stack")
    /\ \E a \in {kmalloc(m, kernel_pml4, StackUnits)} :
         IF a.ret = NULL
         THEN /\ m' = [a.m EXCEPT !.pm = Panic(@, "kmalloc(kernel_stack_base)")]
              /\ UNCHANGED <<load, thread>>
         ELSE /\ m' = a.m
              /\ thread' = [thread EXCEPT ![load[c].job] =
                   [state |-> "ready", argv |-> load[c].argv, elf |-> load[c].elf,
                    kstack |-> a.ret, tcb |-> load[c].tcb]]
              /\ IF Job(c).kind = "driver" THEN Goto(c, "commit") ELSE Finished(c)
    /\ UNCHANGED <<fixed, registry, g_next_id, task_lock, tests, leaked>>

(* The thread runs on its CPU, once that CPU's scan is over, and exits;    *)
(* the idle thread destroys it.                                            *)
Reap(i) ==
    /\ Running /\ thread[i].state = "ready" /\ load[jobs[i].cpu].pc = "done"
    /\ m' = thread_destroy(m, thread[i])
    /\ thread' = [thread EXCEPT ![i] = NoThread]
    /\ UNCHANGED <<fixed, registry, g_next_id, task_lock, load, tests, leaked>>

(* All is loaded and gone, or the kernel panicked. *)
Quiet ==
    /\ \/ ~ Running
       \/ /\ \A c \in Cpus : load[c].pc = "done"
          /\ \A i \in DOMAIN thread : thread[i].state = "none"
    /\ UNCHANGED vars

LoadStep(c) ==
    \/ \E present \in BOOLEAN : NextPayload(c, present) \/ NextTask(c, present)
    \/ ClaimCpu(c) \/ ScanDone(c)
    \/ \E valid \in Verdicts : Checkpoint(c, valid) \/ CopyExec(c, valid)
    \/ AllocPart(c)
    \/ \E resolved \in BOOLEAN : Link(c, resolved)
    \/ module_registry_reserve(c) \/ module_registry_commit(c)
    \/ module_registry_cancel(c) \/ Rollback(c)
    \/ \E registers, ok \in BOOLEAN : RunInit(c, registers, ok)
    \/ ReusePage(c) \/ LoadPage(c) \/ CreateTcb(c) \/ CreateStack(c)

Next == \/ \E c \in Cpus : LoadStep(c)
        \/ \E i \in DOMAIN jobs : Reap(i)
        \/ Quiet

Spec == Init /\ [][Next]_vars

----------------------------------------------------------------------------
PCs == {"payloads", "start", "scan", "check", "alloc", "link", "reserve", "init",
        "tcb", "stack", "commit", "cancel", "rollback", "copy", "segments", "done"}

(* Every variable has its type, and the region's two bounds are in order.  *)
TypeOK ==
    /\ m.tables \in Tables(DOMAIN m.tables)
    /\ 0 <= m.brk /\ m.brk <= m.mapped /\ m.mapped <= module_max + 1
    /\ \A s \in RegistrySlots :
         registry[s].state \in {"free", "reserved", "committed"}
    /\ g_next_id \in Nat
    /\ task_lock \in Cpus \cup {NoCpu}
    /\ \A c \in Cpus : load[c].pc \in PCs
    /\ \A i \in DOMAIN jobs : thread[i].state \in {"none", "ready"}

Committed == {s \in RegistrySlots : registry[s].state = "committed"}

(* module_alloc.c, elf_loader.c: however other loads failed and were       *)
(* rolled back, the modules committed keep what was loaded into them:      *)
(* below brk, disjoint, every page backed by the frame it was loaded into. *)
ModulesIntact ==
    Running => \A s \in Committed :
      /\ \A i \in DOMAIN registry[s].parts :
           registry[s].parts[i].addr + registry[s].parts[i].size <= m.brk
      /\ \A va \in DOMAIN registry[s].frames :
           vmm_get_phys(m.tables, kernel_pml4, va) = registry[s].frames[va]
      /\ \A r \in Committed \ {s} :
           \A i \in DOMAIN registry[s].parts, j \in DOMAIN registry[r].parts :
             LET p == registry[s].parts[i]
                 q == registry[r].parts[j]
             IN  p.addr + p.size <= q.addr \/ q.addr + q.size <= p.addr

Pending(c) == load[c].pc \in {"init", "tcb", "stack", "commit", "cancel"}
                /\ Job(c).kind # "thread"

(* module.c: ids are unique; the reserved slots are exactly those of the   *)
(* loads between their reservation and its commit or cancel.               *)
RegistryConsistent ==
    /\ \A r, s \in RegistrySlots :
         r # s /\ registry[r].state # "free" /\ registry[s].state # "free"
           => registry[r].id # registry[s].id
    /\ {registry[s].id : s \in {x \in RegistrySlots : registry[x].state = "reserved"}}
         = {load[c].id : c \in {x \in Cpus : Pending(x)}}

KernelFrames ==
    {kernel_pml4} \cup TreeFrames(m.tables, Tree(m.tables, kernel_pml4, Slots))
      \cup TreeFrames(m.tables, Tree(m.tables, OldRoot, Slots))

LoadPointers(l) == {l.argv, l.elf, l.tcb}
ThreadPointers(t) == {t.argv, t.elf, t.kstack, t.tcb}

HeapPointers ==
    (UNION {LoadPointers(load[c]) : c \in Cpus}
      \cup UNION {ThreadPointers(thread[i]) : i \in DOMAIN jobs}
      \cup {registry[s].name : s \in RegistrySlots}
      \cup {tests[i].inst : i \in DOMAIN tests} \cup leaked) \ {NULL}

(* Whatever failed half-way, the frames in use are those reserved at boot, *)
(* those in the kernel's page tables and those whose failed mapping was    *)
(* not noticed; and the heap blocks in use are those a load, a thread, the *)
(* registry or the test list points to, and the forgotten ELF copies.      *)
(* Nothing is freed twice or mapped over: the only panics are for want of  *)
(* a kernel stack and from a page whose failed mapping was not noticed.    *)
LoaderMemoryAccounted ==
    /\ m.pm.panic \in {"none", "kernel page fault", "kmalloc(kernel_stack_base)"}
    /\ Running =>
         /\ m.pm.used = reserved \cup KernelFrames \cup m.lost
         /\ (reserved \cup m.lost) \cap KernelFrames = {}
         /\ {b.addr + HEADER : b \in {x \in Range(m.hp.blocks) : ~ x.free}} = HeapPointers
=============================================================================
