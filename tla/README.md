# Verification of LaOS

LaOS is a small x86-64 SMP kernel in C: preemptive per-CPU scheduling, mutexes
with priority inheritance, preemptible RCU, a physical and a virtual memory
manager, loadable modules, an e1000 driver, virtio-blk and a read-only file
system. This directory holds TLA+ models of its core logic, from the scheduler
and the locks to memory, loading, storage, network and boot; TLC configurations
that check them on small instances; and TLAPS proofs of the results that matter
most.

The build modelled is the default one: `PREEMPT=1`, `SWITCH_MM=1`,
`CONFIG_RCU=1`, `ZOMBIE_MAX=0`; `CONFIG_MUTEX_HANDOFF` is modelled both ways.

To check a run: `tlc -workers 2 -config <run>.cfg <module>`. To check the proofs:
`tlapm <module>.tla` for each of `RcuProofs`, `MutexProofs`, `SchedProofs`,
`E1000Proofs`, `StartupProofs`, `StorageProofs`, `PageTableProofs`, `LoaderProofs`.

## 1. Inventory

| Component | State | Operations | Hard behaviour | What makes it correct | Module |
|---|---|---|---|---|---|
| Preemptible RCU (`rcu.c`, `rcu.h`) | `gp_seq`, `blocked_tasks`; per CPU `rcu_gp_seq_seen`; per thread `rcu_nesting`, `rcu_blocked` | read lock/unlock, switch hook, tick hook, `synchronize_rcu` | readers preempted anywhere, a lock-free read side, several grace periods at once | no grace period ends before the sections it found open; it ends | `GracePeriod`, `Rcu`, `RcuProofs` |
| Scheduler (`sched.c`, `cpu.c`, `timer.c`, `ipi.c`, `idt_stubs.S`, `thread_idle.c`) | per CPU run queue, zombie queue, `current`, `need_resched`, `preempt_count`, `active_pml4` | `__schedule`, `pick_next`, tick, reschedule IPI, sleep, block, wake, exit, reap, enqueue, change of priority | wakeups and kicks from other CPUs, re-entry through `preempt_enable`, lazily switched page tables | queues consistent, highest priority first, nothing runnable forgotten, nothing freed in use | `Sched`, `SchedProofs` |
| Threads (`thread.c`) | status, base and effective priority, donation counts | create, exit, set priority, donate | a stale check before a lock | see Scheduler and Mutex | `Sched`, `Mutex` |
| Mutex (`mutex.c`) | `locked`, `owner`, `waiters`, `donated_priority` | lock and unlock, raw and handoff | compare-and-swap outside the queue lock, donations from several mutexes | exclusion, no lost wakeup, exact donations, no inversion | `Mutex`, `MutexProofs` |
| Physical memory (`pmm.c`) | page bitmap, counters | initialise from the memory map, alloc, free, runs of pages | exhaustion, double free, holes in the map | no page twice, none lost, counters exact | `Pmm`, in `User` and `Loader` |
| Kernel heap (`heap.c`) | block list, mapped end | alloc (split, grow), free (merge) | a long mixture of calls, growth that fails half-way | blocks tile the heap, each used block has an owner | `Heap`, in `User` and `Loader` |
| Virtual memory (`vmm.c`, `vma.c`, `page_fault.c`) | page tables, VMA list | map, unmap, large-page split, create and destroy a tree, find free, fault | failure half-way through a mapping, lazily mapped pages | trees disjoint, VMAs disjoint, a page has the rights it was granted | `Vmm`, `PageTableProofs`, in `User` and `Loader` |
| System calls (`syscall.c`) | - | mmap, munmap, write, exit, sleep, yield | rollback of a partial mmap | nothing stays mapped after a failed call | `User` (sleep, yield: `Sched`) |
| virtio-blk, block devices (`virtio_pci.c`, `block_device.c`) | rings, `g_last_used`, device table | register, initialise, read with polling and timeout | an answer that comes after the timeout | every answer belongs to its request | `Storage`, `StorageProofs` |
| LaFS (`lafs.c`) | one shared sector buffer, the mounted superblock | mount, open, read, readdir, size | a buffer overwritten while pointed into; 32-bit offsets | returns what is on the disk | `Storage`, `StorageProofs` |
| e1000 (`module/e1000.c`, `module/protocol.c`) | descriptor rings, free pool, RX queue, ARP cache | load, five receive loops, handle, reply, transmit | poller against processor on another CPU, pool empty, queue full, TX timeout | no page in two places, packets in order, a reported send was sent | `E1000`, `E1000Proofs` |
| Module registry and allocator (`module.c`, `module_alloc.c`) | slots, bump pointer, checkpoints | reserve, commit, cancel, alloc, rollback | several loaders, rollback after a failure | what is committed stays mapped; loads take turns | `Loader`, `LoaderProofs` |
| ELF loader, symbols (`elf.c`, `elf_loader.c`, `ksym.c`) | images, threads being made | load, relocate, publish, undo | failure at every point | everything is undone, once | `Loader`, `User` |
| Task configuration (`task*.c`) | records, directives, CPUs started | parse, claim, launch | refused lines, missing modules, a panic under the lock | each task once, on its CPU | `Startup`, `Loader` |
| Self-tests (`tests/selftest.c`, `tests/runner.c`) | registry, list of active tests | load, register, apply, run, tick | driven from the timer interrupt | one after another, each judged once | `Startup` |
| Boot and SMP bring-up (`main.c`, `boot_*.c`, `cpio.c`) | boot phase, online count, contexts, boot files | start APs, barrier, read the configuration | CPUs starting in any order | phases in order, all CPUs up before use, the boot ends | `Startup`, `StartupProofs` |
| Interrupt and APIC set-up, PCI, TTY, monitor, statistics, printf, log, font | hardware registers, output | set-up and formatting | - | - | not modelled |

How the parts interact. The timer interrupt (`timer_handler`) advances
`g_ticks` on the boot CPU, calls the RCU tick hook and every tenth tick sets
`need_resched`; `ret_from_intr`, `preempt_enable` and the idle loop turn that
into `__schedule()`. `__schedule()` calls the RCU hook between choosing the next
thread and switching to it, and that hook takes a spin lock whose release may
call `__schedule()` again. A mutex blocks by storing `BLOCKED` and scheduling,
and wakes by storing `READY`; a donation re-sorts the owner in its run queue
under that queue's lock and kicks the owner's CPU. The idle thread of each CPU
frees dead threads and their page tables. RCU is a
service to modules: `list.h` has lists for it, and the RCU tests in
`module/tests` are its users in the repository.

Memory is a stack of three: the heap takes frames from the page allocator and
maps them with the page tables, which take frames themselves; loaders, system
calls and thread destruction use all three and have to give back exactly what
they took when one of them fails. Each has a lock of its own, so that two CPUs
interleave between any two calls. LaFS reads through the device registry, which
the boot tests fill with images in memory before the disk is there. The boot CPU
runs through the phases of `boot_phase.c`; the others wait for a phase, meet at
`wait_online`, and scan the task list under `task_lock`, from which the loaders
are called. The self-tests are judged and chained by the timer interrupt.

## 2. Modules

| Module | What it is |
|---|---|
| `GracePeriod` | abstract: what RCU promises |
| `Rcu` | `rcu.c`, the inline read side of `rcu.h`, and the two hooks |
| `MCRcu` | instances of `Rcu` |
| `RcuProofs` | proofs about `Rcu`, refinement of `GracePeriod` included |
| `Sched` | scheduler, run queues, tick, IPI, exit, reaping |
| `Mutex` | both mutex builds, donations, `thread_set_priority` |
| `MutexProofs` | proofs about `Mutex`: locks and donations, then wait queues and priorities |
| `Pmm`, `Vmm`, `Heap` | the three allocators, as operators on a memory record; each extends the one before |
| `User` | processes from creation to reaping; composes `Pmm`, `Vmm`, `Heap` |
| `Loader` | module region, registry, kernel loaders, the task scan; composes the same three |
| `Storage` | LaFS over the block devices over virtio-blk over its device |
| `E1000` | network driver, two threads and the device |
| `Startup` | boot phases, SMP barrier, configuration, launching, self-tests |
| `SchedProofs`, `E1000Proofs`, `StartupProofs`, `StorageProofs`, `LoaderProofs` | proofs about the module each is named after |
| `PageTableProofs` | lemmas about `Vmm` that `LoaderProofs` uses: what mapping, unmapping and looking up do to a tree of tables |
| `MC...` | the instance of each for TLC |

`PROJECT.json` maps every definition to its source lines. A definition called
`Mutant_...` is a plausible wrong version of the definition after it; putting it
in that one's place must make the named property fail.

### Rcu

The state has the C names. A thread is bound to its CPU for life; the idle
thread of CPU `c` is written `c`. `Switch(c, next)` is `__schedule()` seen from
RCU: the hook for the outgoing thread, then `current`. Which thread is next is
left open, so the safety results hold for every scheduling policy, and for the
nested `__schedule()` of section 5 too: the outer switch of a reader that the
inner call has already registered is a `Switch` of a registered reader.

What runs under `blocked_lock` with interrupts off is one step. The end of
`rcu_read_unlock` runs with interrupts on and is split: drop `rcu_nesting`;
leave `blocked_tasks`; clear `rcu_blocked`; load `gp_seq`; store it as seen. A
preemption may come between any two, also between load and store, so that an
*old* value may be stored over a newer one. `synchronize_rcu` increments
`gp_seq`, waits for each CPU in turn (`Phase1`), then for an empty list
(`Phase2`). `pre` is a history variable: the sections open when the call was
made and open still. `Reclaim` is the caller's use of the grace period, as in
the RCU stress test. The stall warning and the counters of `rcu_metric` are left
out. Memory is sequentially consistent. For the accesses involved x86 justifies
this: `rcu_nesting` and `rcu_blocked` are used only on the thread's own CPU,
`gp_seq` is changed by a locked increment, and the list under its lock; what a
reader's *data* accesses may see is not modelled. `gp_seq` stops
at `MaxGp`, 2 for TLC and arbitrary in the proofs: the 2^31 wrap of the C `int`
is not modelled. `users`, chosen from `Users`, are the threads that run at all: a
CPU none of whose threads does idles for ever.

### Sched

One module for everything that touches a run queue. `phase[c]` says where CPU
`c` is in `__schedule()`: `pick` (zombie hand-over and `pick_next`), `hook` (the
RCU hook), `switch` (page tables and `current`), `body` (not in it). Interrupts
are off in all but `body`; other CPUs act between any two. `outer[t]` is the
stack of `__schedule()` calls of `t` that were interrupted by a nested one in
the RCU hook (`HookPreempted`); `Return` goes back into them. The actions of a
thread are calls that block (`schedule_timeout`, `Block`, `thread_exit`), that
kick (`Spawn`, `thread_apply_effective_priority`, followed by
`ipi_reschedule_cpu`), or that change what the scheduler may do (`preempt_*`,
`rcu_read_*`). `ops`, chosen from `OpSets` at the start, says which of these a
behaviour uses.

A thread in any live state stays linked in its run queue, as in the code. A
queue is its lists, bitmap and count, all kept as the C functions keep them.

Steps that are coarser than the code, and why that is sound for the properties:
- `pick_next` scans the lists in one step. A wakeup, which takes no queue lock,
  could come in the middle; it is then either seen by this scan or by the next,
  and the two stores of `IrqWake` (status, `need_resched`) are likewise one.
- Clearing `need_resched` and entering `__schedule()` are one step.
- `g_ticks` stops at `MaxTicks`; a sleep whose deadline would lie beyond it is
  not started.
- The status of an idle thread is not read by `pick_next`. Its loop is one step
  for each zombie it dequeues and destroys (`ReapZombie`) and one for its call of
  `schedule()` (`IdleLoop`).
- `preempt_count` is per CPU, as in the code, and 0 or 1: nested spin locks add
  nothing to what the scheduler sees.

### Mutex

What runs under `waiters.lock` is one step; so is handoff's
detach, wake and attach, during which the lock is held and `locked` stays 1. The fast path is two: the
compare-and-swap (`TryLock`) and the recording of the owner (`Attach`). Between
them other threads may queue on a locked mutex that has no owner yet; `Attach`
must then pick up their donation. Under handoff a thread that finds itself the
owner has been given the mutex (`Confirm`), whether it looks on entry or in the
loop; the fast path's test of `owner` and its compare-and-swap are one step,
which is sound because a mutex with an owner is locked (`OwnedIsLocked`, proved).
The effective priority is a function of base priority and donation counts, as
`thread_effective_priority` computes it. `thread_set_priority` is two steps: the
check for `BLOCKED` and the change, because the code takes `pi_lock` in between;
the call with the present priority, which changes nothing, is left out.
The instance (`inst`) says which build it is, the base priorities, and whom
`thread_set_priority` is called on. A thread locks in increasing order and never
twice, as callers must; `__wake_up_all` has no caller. A waiter that runs again
while still queued keeps its place (a branch of `SlowBlock`); since nothing but
an unlock wakes a mutex waiter, it is not reached.

Donation is one hop: an owner that itself waits for another mutex does not pass
its donation on. That is the documented design, and `NoPriorityInversion`
therefore compares the owner with its waiters' *base* priorities.

### Pmm, Vmm, Heap

Not state machines but operators that take the memory record and return it with
the result, one for each stretch of code that runs under one lock. `Pmm` keeps
the set of used pages and the counters; `pmm_init_from_memmap` computes both from
a memory map with holes, as the code does, low memory, the bitmap's own pages and
page 0 included. A free that the code answers with `panic()` sets `panic`, and
nothing happens afterwards. `Vmm` keeps for each table frame its entries; the
walk, the creation of missing tables, the permissions propagated upwards, the
split of a large page and the recursive destruction, large pages by their number
of frames included, follow `vmm.c`, with the number of levels and of entries as
parameters. One failure is cleaner than in the code: `vmm_create_user_pml4` does
not test the page it allocates (`vmm.c:513`) and without one would clear and fill
physical page 0, which the allocator never hands out; the model stops at the NULL
it then returns. `Heap` keeps the block list with
addresses in allocation units, so that splitting, the smallest remainder and
growth by whole pages are what they are in `heap.c`.

### User

Every process is on a CPU of its own and one at a time is being created, under
`task_lock`. A step ends where a lock is released. `BuildArgv` is
`task_build_argv`, whose block the thread owns and `thread_destroy` frees; `CreateCopy` to
`CreateKernelStack` are `create_elf_process` with `elf_load_segment` and
`setup_user_stack`, one page a step; `MmapReserve`, `MmapAlloc`, `MmapMap`,
`MmapRollback`, `Munmap`, `SysWrite`, `SysExit` the system calls; `Fault` and
`FaultMap` the handler; `Reap` is `thread_destroy`. The history variables
`reserved` (frames never released to the allocator) and `lost` (frames whose
mapping failed unnoticed, `elf.c:113`) make the accounting exact. Which pages a
process touches, and what the instruction is, is open (`Faults`, `Allowed` are
the processor's part). A user tree has one thread, so no translation of it is
cached elsewhere. The image lies clear of the stack page and of the mmap window:
`elf_loader.c:578` accepts one that does not, whose pages `__vmm_map` would then
refuse to map over with a panic.

### Loader

The boot CPU loads the self-test payloads alone; then the CPUs scan the task
list, one after the other under `task_lock`, while threads that have exited are
destroyed. Where a file fails (`Verdicts`, `Link`, `RunInit`) is open, as is
whether it exists; memory fails by running out. The region's `brk` and `mapped`
are in units, so a module may end inside a page that the next one shares. A
module's memory is never given back, an executable's copy is. `PageFault` is the
panic of a loader that writes to a page whose mapping failed unnoticed
(`module_alloc.c:49`).

### Storage

One actor on the CPU, the device another. A LaFS call goes on sector by sector;
each sector is a `block_read` on the registered device, in memory
(`ReadMemory`) or through the virtqueue: `Submit`, then `Poll` or `PollTimeout`
against `DeviceTake`, `DeviceAnswer` and `DeviceStops`. The device may answer out
of order, with an error, or after the driver has given up; at most
`MaxFailures` times, and it works on at most `MaxInflight` requests at once. The
poll's counter always runs out when no answer is to come (`NoAnswerComes`). The
boot tests register devices and empty the registry between them (`ResetTest`);
`EndTests` ends in the panic of `runner.c:68` or `runner.c:71` when something of
theirs is left or one of them failed. Structures on the disk have one cell for each field, and the
code's pointer into the buffer is a position in `g_sec`, so that what is read
through it is what was loaded last. Indexes wrap at `IDX`, lengths at `WORD`.
`clean` says that no virtio read has failed yet.

### E1000

The polling and the processing part are two threads in mode 5; in modes 1 to 4
they take turns. The device stores packets where a descriptor and `RDT` allow,
fetches and completes transmissions, in any interleaving. `poll` and `proc` are
the two loops' positions; taking a page from the pool, falling back to the page
allocator, pushing the old page on the queue, binding the new one to the
descriptor and moving the tail are separate steps, between which the other thread
may handle and return what was pushed. Page 0 stands for the NULL of an empty pool
and is a page that exists, as it is for the device. Handling is decided by the
kind of packet; contents, checksums and statistics are left out. The interrupt
handler only wakes a waiter that no loop uses (`e1000_wait_rx_event` has no
caller) and is in `Sched`.

### Startup

`machine` is what the boot loader hands over: CPUs, which of them boots, command
line, modules. `pc[c]` is where CPU `c` is. `panic()` stops the CPU that calls it,
with the locks it holds, and the others go on, as in the code. Paths are
sequences of names and are normalised as in `boot_files.c`; a line of a
configuration is a record of its fields. `LoadPayload` and `CreateTask` may fail;
what they do in memory is `Loader`'s subject. `CreateTask` may also stop the CPU,
as `thread_create_common` does without memory for a kernel stack, with `task_lock`
held and the argument block in the record. `BootTests` are the unit tests that
`kernel_tests_run_bootstrap` registers before any other CPU is up, for `@test` lines
to come (`RegisterBootTest`). `rq[c]` holds the threads queued on
`c` in order, for good: what becomes of them is `Sched`'s. A registered self-test
is an instance with an identity of its own, as in the code, where the registry
links the modules' structures: two payloads may register tests of one name, and
each is run and judged.

## 3. Runs

| Run | Shows | States |
|---|---|---|
| `rcu` | `GracePeriodSafe`, the list invariant, refinement of `GracePeriod`; phase one of every grace period ends where a CPU is quiet (liveness) | 157,000 |
| `sched_safety` | queues, bitmaps and counts agree; nothing freed is reachable, nested `__schedule()` included; highest priority first; nothing left `RUNNING` off its CPU where nobody reads | 964,409 |
| `sched_liveness` | every ready thread runs, whichever CPU's interrupt wakes it, every sleeper wakes (liveness) | 30,492 |
| `sched_nested` | counterexample: with readers a thread is left `RUNNING` for ever | |
| `mutex` | exclusion, donations, inversion, lost wakeups, for both builds; handoff among equals: every lock call returns (liveness) | 297,000 |
| `user` | frames, heap blocks and address spaces are exact whatever fails half-way | 354,078 |
| `loader` | modules, registry, frames and heap blocks are exact whatever fails half-way | 30,959 |
| `storage` | sectors are the disk's, and file-system results as far as one data sector reaches; every call returns (liveness) | 830,017 |
| `virtio_late` | counterexample: a late answer is taken for the next request's | |
| `lafs_blocks` | counterexample: a read over a block boundary returns other bytes | |
| `e1000` | pages, order, sends and ARP in all five modes; what is received is handled (liveness) | 797,912 |
| `startup` | barrier, launching and self-tests on eleven machines; the boot ends (liveness) | 182,839 |

A run that covers several settings (builds, memory sizes, modes, machines) picks
one at the start; a liveness claim that holds for some of them only is stated
conditionally (`QuietCpu`, `Equals`).

Bounds, and why they suffice for the cases of interest:
- RCU: two CPUs, one with one thread and one with two, so a reader can run
  undisturbed on one CPU while others are preempted on the other, and two
  synchronizers can overlap with a reader of each kind. `MaxNesting` 2 separates
  inner from outermost sections; `MaxGp` 2 gives overlapping grace periods and
  stale stores of the first in the second. The proofs remove all these bounds.
- Scheduler: two CPUs, so that each can spawn on, wake and kick the other, with
  two threads on one of them; one user thread, so that page tables are borrowed
  and dropped; two priorities. No behaviour uses every operation at once: the
  product is out of reach, and `OpSets` groups the ones that can interfere.
  `sched_liveness` has two threads on CPU 0 and, on CPU 1, the idle thread alone,
  whose interrupts wake them at any point of their `__schedule()`; `MaxTicks` 1 is a
  sleep whose deadline passes.
- Mutex: three ranked threads and two mutexes is the least that has nested
  locks, two donations to one owner and a queue with an order to keep.
- User: four table levels of two entries each, two processes, four sizes of
  memory chosen so that it runs out while the second process is created (at its
  stack, at its tables) or not before an mmap; three to five calls. Two
  protections, so that a page mapped for another VMA's would show.
- Loader: three CPUs, a region of four pages, three registry slots; job lists
  with modules that share a page, too many sections, a full region and a full
  registry; eight memory sizes.
- Storage: three calls, so that a read may follow a mount and a failure; a root
  directory of two sectors and one of one, files of one and two blocks, a removed
  and a missing inode, buffers that end inside a name, a length whose sum with the
  offset wraps. `MaxInflight` 2 is an old request beside the present one.
- E1000: rings of three and two, batch, pool and queue of two, six packets, so that
  the receive ring wraps, and three of them answered, so that the transmit ring comes
  round to a descriptor whose send may have timed out; four amounts of free memory:
  none suffices for the first ring, the second, the pool, all. Two addresses fill the
  ARP cache and one of them moves; that a third evicts an entry is covered by the
  proof.
- Startup: two or three CPUs, each boot mode, configurations that are accepted,
  refused, ambiguous, or name CPUs and modules that are not there; two unit tests
  registered at boot, one of which a configuration runs again.

Deadlock is checked in the runs of `Rcu`, `Sched`, `Mutex` and `Loader`. In
`Mutex` it says that threads which keep the lock order never all wait for each
other; in `Loader` that no load gets stuck before all are done. It is not checked
where the run really ends: the calls of `User` and `Storage` are bounded, the
traffic of `E1000` is finite, and a boot is over.

### Fairness

- `Rcu`: each CPU's tick fires for ever (the local APIC timer is periodic), and
  confirms when it finds no reader running (WF); each thread is switched to again and
  again (WF: `pick_next` rotates equals). Strong fairness is on the threads' own steps,
  which preemption disables for a while: a thread goes on with `rcu_read_unlock` and
  `synchronize_rcu`, and leaves every section. Nothing requires a thread to enter a
  section or to synchronize.
- `Sched`: a CPU in `__schedule()` finishes (WF; it never waits there except for a
  queue lock); the tick with an expired slice, `ret_from_intr` and the idle loop with
  its reaping recur (SF: other steps disable them for a while); a running thread that
  has disabled preemption enables it again, and makes the kick it is about to make
  before that (WF: nothing takes the CPU from it). A thread need not yield, block,
  exit or wake anyone.
- `Mutex`: a thread that is not blocked goes on with its lock call; a holder
  unlocks in the end (SF: it may block on a further mutex in between).
- `Storage`: the CPU goes on with the call it is in; a device that has not
  stopped takes and answers requests. It may stop at any time, and the poll's
  counter then runs out.
- `E1000`: both loops keep running (they idle, they never block). Nothing is
  required of the device.
- `Startup`: every CPU that has not panicked runs on, timer interrupts come, and
  every test answers `done()` in the end. The last is an assumption on the tests'
  callbacks, not something the framework enforces: most count ticks towards a timeout
  of their own, but the FPU test's `tick()` is empty (`test_fpu_context.c:233`), the
  TLB test waits without a bound (`test_tlb.c:143`), and a test without `done()` is
  never judged (`selftest.c:157`).

## 4. Proofs

All proofs are for every value of the constants, under the named assumptions of
the modules, and each goes the same way: an inductive invariant, one lemma for
each action (or group of actions with the same effect), and the property as a
consequence. What the constants must satisfy:

- `Rcu`, `Sched`, `Mutex`: at least one CPU, thread names distinct from CPU
  numbers and from the kernel's page-table root, every thread bound to a CPU, user
  threads are threads; priorities within range; for `Mutex`, instances with a
  build.
- `E1000`: rings of at least two descriptors, a batch, a queue and an ARP cache of
  at least one. The pool may have no room at all.
- `Startup`: a machine has between 1 and `MAX_CPUS` CPUs and the booting one is
  among them (`kmain` caps `g_cpu_count`, `main.c:247`, and finds its own index in
  the list, `main.c:105`); `NULL` is neither a CPU nor a position in a list.
- `Storage`: ring indexes wrap at some positive number; a device works on at least
  one request.
- `Loader`: a job is a payload, a driver or an executable for one of the CPUs. An
  entry of the memory map has a base and a length, any number of them may overlap,
  and the boot loader's own root table lies in none that is usable
  (`BootAssumption`: the Limine protocol keeps its tables in entries of another
  type until the kernel reclaims them, which this one never does). The module
  region lies within what the tables address and an executable has a page to load
  (`RegionAssumption`). Tables have two levels or more and an even number of
  entries; how many of each is left open.

**RcuProofs.** `GracePeriodTheorem`: `Spec => []GracePeriodSafe`. The property
is not inductive: it speaks only of a synchronizer that has returned. The
strengthening `IInv` adds the reason. `OldReadersHoldCpu`: a section that a
running `synchronize_rcu` found open and that is not in `blocked_tasks` has never
left its CPU since, so that CPU's confirmed sequence is below the target, and the
scan of phase one has not passed it. A tick cannot break this (it is silent
while a reader runs), nor can a late store of `gp_seq` (the thread that stores is
the current one, so every reader of its CPU is switched out and registered), and
a switch moves the reader to the list (`PreemptedReadersRegistered`). With phase one complete (`PhaseTwoScannedAll`),
every old section is on the list; with the list empty there is none.
`ControlInv`, `FlagMatchesList`, `PreAreReaders` and `TypeOK` support this.
`ReaderListTheorem` and `TypeCorrect` are parts of the same invariant.
`RefinementTheorem`: `Rcu` implements `GracePeriod`; the last step of phase two
needs the invariant, every other step maps to an abstract step or a stutter.

**MutexProofs.** `MutexExcludes`, `DonationsAccounted`, `MutexTypeCorrect`, for
both builds. The invariant: types with the donation counts in the *integers*;
`WantSet` (a thread in a lock call has a mutex in mind); `OwnedIsLocked`;
`MutualExclusion`; `DonationAccounting`. `DonationAccounting` says that a count
is the cardinality of a set, hence not negative: that is how the panic of
`thread_priority_update_donation` ("missing donation") is shown unreachable, and
why the invariant cannot start from natural counts. The heart is
`AccountingStep`: when one mutex changes its owner or its donation and the
counts of the old and new owner change by one each, the equation is kept. It
needs no finiteness of the set of threads. The theorem includes
`thread_set_priority` called on other threads at any time.

The second half of the module is about the wait queues. `MutexWakeups`: `Spec => []NoLostWakeup`. Besides the
property, `QueueInv` says that the winner of a compare-and-swap is not `BLOCKED`
(`RunIdle`), who is queued does not own what it waits for (`WaitersBlocked`), and
a thread that locks holds lower mutexes only (`HeldBelow`). The last is the
callers' lock order and is needed: without it a thread could queue on a mutex it
owns itself. `MutexNoInversion`:
`Spec => [](OnlySelf => NoPriorityInversion)`, where `OnlySelf` is the instances
in which no thread sets another one's priority; for the others the property is
false (section 5), and the run does not include them. The invariant `PrioInv`
says why insertion by priority is enough although priorities move while threads
wait: a waiter's *effective* priority is never below the *base* priority of those
behind it (`QueueOrdered`), and the donation recorded in the mutex covers every
waiter's base (`DonationCovers`). A waiter's own donations may rise while it
waits and can only improve both; they cannot fall, since a waiter is `BLOCKED`
and unlocks nothing.

**SchedProofs.** `SchedInvariant` proves `SInv`, from which `SchedTypeCorrect`,
`QueuesStayConsistent` and `NothingFreedInUse` follow. Its parts: the queues hold
exactly the threads they should (`Queues`, stated for lists, bitmap and count,
and kept by lemmas about `list_del`, insertion at head and tail, and the counts);
tasks never leave their CPU and idle never dies (`Bound`); the current thread is
alive, or dead on its way out (`CurrentAlive`); a thread that some `__schedule()`
has chosen is `RUNNING`, not yet current, and chosen by no other call, suspended
ones included (`ChosenOnce`); only readers are suspended inside `__schedule()`
(`SuspendedReaders`); and the root in CR3 belongs to a live thread of the CPU or
to the dead one that is current (`RootInUse`). `ChosenOnce` is what the nested
entry needs: without it a suspended outer call could switch to a thread that has
exited and been freed in between. `RunningOnItsCpu` (`RunningWithoutReaders`)
needs in addition that idle runs while dead threads wait (`DeadMakeIdle`) and
that without readers a `RUNNING` thread has its CPU or is `next` (`NoReaders`).
`PicksHighest` is an action property, and follows from `SInv` in the state before
the step: `pick_next` looks at the bitmap, which says which lists are not empty.

**E1000Proofs.** Five results, each with an invariant of its own over the types
`EInv` (`E1000TypeCorrect`):
`ArpStaysCurrent` adds where each entry came from.
`SendsStayTruthful`: the descriptors the device still has are the last `f` before
the tail (`InFlight`), all but the one being waited for belong to sends that timed
out; while fewer than `NUM_TX_DESC` have, the ring is not full and the status bit
polled is that of the packet just queued.
`PagesStayAccounted`: every step that moves a page takes it from one holder and
gives it to another (`Moved`); the invariant says which page is in whose hand at
each point of the two loops (`InHands`). Between `rx_queue_push` and `BindBuffer` a
page that is queued, or already handled and free again, is still named by a
descriptor (`HandedOver`); what the theorem says of it is that the device may not
write that descriptor, which lies from the tail on and before the next `RDT`.
`DeliveryStaysInOrder`: the descriptors from the tail on, counted round the ring
(`Ahead`), are first those that wait, `Full` of them, then the device's; the
packets the device has stored are, in order, those handled, the one in hand, those
queued, those that wait (`Contents`, `Counts`, `Stored`); in modes 1 and 2 the one in
hand or the batch is only borrowed from slots the device does not have (`Borrowed`).
It rests on
`PagesStayAccounted`: were a page in two places, a new packet could overwrite one
that is queued.

**StartupProofs.** `BarrierHolds`: `Spec => []BootBarrier`. The counter `online` is
related to a set of CPUs (`Arrivals`: those past their increment, and of those
that panicked the ones that did so after it); with the count complete that set is
all CPUs, and each has its context (`Installed`). `Barrier` and `Configured` say
what holds at each place of the bootstrap CPU, and that nobody else launches
before it has. Self-tests are registered before the barrier too; that none is
configured, started or judged before it needs `Awaited` in addition, and of
`LaunchInv` that the timer finds no active test before.
`TasksAreLaunchedOnce`: `Spec => []TasksLaunchedOnce`, and `SelftestsRunInTurn`:
`Spec => []SelftestsInTurn`, both from `LaunchInv`, which is inductive beside
`BootInv`. Neither property is inductive: the first says what is queued when a loop
is over, and nothing of a loop half-way. `Positions` says which list a CPU is
walking and how far it is (a CPU is in `started_cpus` from its claim on, so that a
second call finds nothing to do), `Launched` that what is queued lies behind the
loop that queued it and that what lies behind it and can run is queued or found no
memory; hence the record at hand is not queued yet. `Locked` and `Arguments` say
that only the holder of `task_lock`, or the CPU that panicked with it, has a record
whose argument block no thread owns. `Quiet` is what all of these start from, before
the bootstrap CPU launches. For the self-tests, every instance is in exactly one of
registry, active list and judged list (`Instances`, `Identities`), only the head of
the active list is started (`HeadOnly`), and its workers are in the queues since then
and not before (`WorkersOf`). The two halves meet in the queues (`Lists`): a thread
is queued once only if tasks and workers both are.

**StorageProofs.** `SectorsDelivered`, `MountsMatch`. While no read has failed
there is at most one request in the virtqueue, which is submitted, taken or
answered (`OneRequest`), so that a used entry can only be this request's; the ring
indexes may wrap anywhere. The counterexample `virtio_late` is what happens when
`clean` is false. `MountsMatch` needs which devices each phase has
(`DevicesOfPhase`) and that a mount waits for sector 0 (`OneRead`).

**LoaderProofs**, over **PageTableProofs**. Two invariants.

`RegistryStaysConsistent`, `LoadsTakeTurns`: a pending load and its slot share an
id below `g_next_id` (`Ids`), the bootstrap CPU loads alone and then whoever holds
`task_lock` (`Turns`), and a load is only ever at a place of its sort
(`RightPlace`: an executable never holds a slot). Whether allocations succeed
plays no part. That loads take turns has no run of its own; what it is for follows.

`ModulesStayIntact`: `Spec => []ModulesIntact`, and `LoaderTypeCorrect`, from
`LoaderMemoryInvariant`: `Spec => []MemInv`. `ModulesIntact` is about committed
modules and what `vmm_get_phys` finds for their pages, so it needs to know what
every other step does to the tables. `MemInv` has three parts.

- `MemOK`, memory in order. The tables below the kernel's root are a tree
  (`Shaped`: each table has a level, and the slots that lead to it are the same
  from every entry that points to it, so that two pages meet in a bottom table only
  if all their upper indexes agree); a table is never a free frame; and, until a
  panic, a frame behind the region's first `mapped` pages is not free, not a table,
  and behind one such page only (`FramesApart`). Without `FramesApart` a rollback,
  which frees what it finds mapped, could free a frame that a committed module or
  a table still uses.
- `Typed`, the types, with where in its parts and image a load can be.
- `Layout`, while no panic has stopped the machine: the parts of a slot in use lie
  below `brk`, apart from those of other slots, on the frames they were loaded into
  (`SlotsIntact`); a load in progress took its checkpoint above every committed
  module and at or below its own parts (`LoadsOnTop`). A rollback unmaps from the
  top down to the checkpoint, so it takes the load's own pages and no others. The
  step that could break this is a second load which commits between the first one's
  checkpoint and rollback; `LoadsTakeTurns` excludes it.

`PageTableProofs` replaces the walk from the root by a relation, `Maps`, and
proves of each operation what it does to it: `vmm_map` adds one page and keeps all
others, also when it fails half-way having added tables; `vmm_unmap` removes one;
`vmm_get_phys` returns the frame related to the page. The loops over levels, over
heap pages and over the region are recursive functions on a range of numbers, and
the induction each needs is done by a least counterexample (`LeastNatural`, from
the library's theorem that `<` is well founded on the naturals), which the provers
can use where the library's induction rules are out of reach. The roots considered
have no large pages: the boot loader's root is modelled without the mappings of its
own (kernel image, direct map), which the kernel copies and no step of `Loader`
maps, unmaps or looks up. The whole boot sequence is part of
the theorem: the allocator's start from the memory map, the kernel root with its
preallocated upper half, the heap's first page.

Only model-checked, and why:
- All liveness (`PhaseOneEnds`, `RunnableRuns`, `SleepersWake`, `LockGranted`,
  `CallReturns`, `ReceivedIsHandled`, `BootCompletes`): the proof system has no
  rules for fairness and `ENABLED`.
- `LoaderMemoryAccounted`, and `FramesAccounted` and `HeapAccounted` of `User`: they
  count frames and heap blocks against their owners, which takes an exact account
  of what `kmalloc` and `kfree` do to the block list; `MemInv` says only what the
  heap does to the tables.
- `AddressSpaceConsistent` and `TypeOK` of `User`: they speak of several trees at
  once, with large pages split and shared upper halves. The tree of
  `PageTableProofs` has neither.
- `LafsCorrect`: it compares the results of loops over directory entries and
  blocks with recursive reference definitions.

## 5. Where the code and its documentation disagree

Three are runs that end in a counterexample; `PROJECT.json` quotes the lines.

1. `sched_nested`. `rcu_note_context_switch` ends in `spin_unlock`, which is not
   meant for the scheduler's critical section: its `preempt_enable` enters
   `__schedule()` again if another CPU has set `need_resched` meanwhile. The inner
   call may switch to another thread and later pick the reader, making it
   `RUNNING`, and the outer call then goes on and switches away from it without
   touching its status. `pick_next` never selects a `RUNNING` thread: the reader
   is lost, and with it any grace period that waits for it. Queues and freed
   memory stay consistent even so (`sched_safety`).
2. `virtio_late`. A read that times out or sees an error leaves `g_last_used`
   where it was. The sentinel in the status byte protects the next request only
   if the old answer has arrived before it is written: otherwise the old
   completion is counted, its status is good, and the buffer of the new request
   is handed up before the device has filled it.
3. `lafs_blocks`. `lafs_read` keeps a pointer to the inode in the sector buffer
   and reads data through the same buffer. From the second block on, block
   numbers come from file data.

Others were met while modelling, are reproduced or excluded by the models as
described, and have no run of their own:

- Phase two of `synchronize_rcu` waits for an *empty* `blocked_tasks`
  (`rcu.c:124`), so also for sections begun after the call; the comment at
  `rcu.c:84` says it waits for those that were open. A reader preempted in a new
  section each time can keep it waiting for ever, so only `PhaseOneEnds` is
  claimed.
- `schedule_timeout` stores `SLEEPING` before `wakeup_ticks` (`sched.c:368`): a
  preemption in between compares the clock with the old deadline, and the call
  may return early. `SleepersWake` claims waking, not its time.
- `thread_set_priority` refuses a `BLOCKED` thread, but looks before it takes
  `pi_lock` (`thread.c:129`): a thread that blocks in between is raised as a
  waiter and its owner's donation is not recomputed. On the calling thread itself
  the check cannot be stale, and that is what `mutex` allows.
- `selftest_init` that registers a test and then fails leaves the test behind,
  pointing into memory that is rolled back (`elf_loader.c:513`; the comment at
  `elf_loader.c:500` says the rollback is safe).
- `panic()` halts the CPU that calls it only (`debug.h:19`); `arch_x86.h:29` says
  it halts the whole system. A CPU that panics in the launch loop keeps
  `task_lock`, and `BootCompletes` therefore claims nothing after a panic.
- A task line without a name is accepted, and `task_build_argv` takes the length
  of a NULL name (`task.c:25`).
- The ARP cache, when full, overwrites slot 0; the comment at `e1000.c:700` says
  the oldest.
- `lafs_readdir` cuts a name that does not fit to what is left and adds a newline
  (`lafs.c:307`), which fills the buffer; the terminator then goes to `bufsz`, one past
  its end (`lafs.c:319`), although `lafs.h:40` says that at most `bufsz` bytes are
  written with it. `LafsCorrect` claims that nothing else of the listing is past the
  buffer.
- `dir_lookup` (`lafs.c:112`) and `lafs_readdir` (`lafs.c:273`) go on to a directory's
  second sector with block pointers read from the first one's entries, the defect of
  `lafs_blocks`. `LafsCorrect` claims what the first sector shows; the image has a
  directory of two, and what is looked for past the first is left open.
- `offset + len` wraps (`lafs.c:212`): the length is then not cut to the file, and the
  read returns its bytes and goes on past its end. `LafsCorrect` claims the former.
- Mode 3 of the e1000 driver never returns the pages it swaps out (`e1000.c:284`), and
  when neither pool nor allocator has a page, page 0 is handed to the device
  (`e1000.c:1060`); the properties exclude exactly these. Mode 1 writes `RDT` before
  the packet is handled (`e1000.c:828`); this is harmless, as the descriptor at `RDT`
  is not the device's.
- The queue of the pipelined modes holds a page that a descriptor still names until
  the new one is bound (`e1000.c:1069`, `1079`); the device does not have that
  descriptor, and `PagesAccounted` says so.
- `wait_online` waits for equality (`cpu.c:47`), which the count of a machine
  with more CPUs than slots would pass by.

Not a disagreement but worth knowing: with handoff the queue is still ordered by
priority, so lockers of higher priority can overtake a waiter for ever;
`LockGranted` is claimed for equal priorities only.

## 6. Plan

Modelled: every part of the table in section 1 that keeps state of its own.
Proved: the safety properties of `Rcu`, `Mutex`, `Sched`, `E1000` and `Startup`; those
of `Loader` but for the exact account of memory; those of `Storage` but for what
LaFS returns. What would come next:

1. `LoaderMemoryAccounted`, with lemmas about the block list of `Heap`: blocks tile
   the heap, and each call changes one block's owner.
2. `User`: `Shaped` with large pages and several roots, then
   `AddressSpaceConsistent`.

## 7. Not modelled

- Interrupt and APIC set-up, GDT, IST, ACPI tables, PCI enumeration: writes to
  hardware with no protocol of their own. The return path of interrupts and the
  reschedule vector are in `Sched`.
- TTY, monitor, statistics, printf, log, font, symbol tables: output and data.
- TLB shootdowns (`vmm.c:160`, sent and not waited for) and IPI callbacks; the
  mapping helpers only set-up code uses (`vmm_remap`, `vmm_map_global`,
  `vmm_map_region`).
- e1000: gateway probe, ping, hardware statistics, unloading (no path reaches it).
- The RCU list primitives of `list.h`: what they add to RCU is memory ordering.
- Diagnostics (`sched_snap`, `rcu_metric`, dumps); register and FPU switching; the
  layout of stacks and frames.
- The reads of a freed thread's name in the idle loop's log line
  (`thread_idle.c:39`): they change no state.
- A change of priority of a thread that has already exited: `thread.c:92` does not
  test for it, but no caller does it.
- Set-up of the e1000 rings undoes a failed allocation in one step: nothing else runs
  on the rings yet.
- The wrap of `gp_seq` after 2^31 grace periods, and weak memory ordering.
