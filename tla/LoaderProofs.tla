----------------------------- MODULE LoaderProofs -----------------------------
(***************************************************************************)
(* Proofs about the loaders, for every number of CPUs, every list of jobs  *)
(* and every size of the registry: the slots of the module registry agree  *)
(* with the loads in progress, and loads take turns. The inductive         *)
(* invariant adds where an id comes from and that a load and its slot      *)
(* share it (Ids), what sort of file each place of a load belongs to       *)
(* (RightPlace: a thread never holds a slot, a payload never creates a     *)
(* thread), and the order of the loads (Turns). Memory plays no part in    *)
(* it: allocation may succeed or fail at every step.                       *)
(*                                                                         *)
(* The second half is about memory: what the page allocator, the page      *)
(* tables, the heap and the module region do at every step (MemOK), and    *)
(* where the parts of the modules lie (Layout). From these, that variables *)
(* keep their types and that no failed load disturbs a committed module.   *)
(***************************************************************************)
EXTENDS Loader, PageTableProofs

-----------------------------------------------------------------------------
Loading(c) == load[c].pc \notin {"start", "done"}

(* elf_loader.c, task.c: only one CPU is loading at any time, the BSP      *)
(* first and then whoever has task_lock.  A rollback to a checkpoint would *)
(* otherwise take back what another CPU has allocated since.               *)
LoadsExclusive == \A c, d \in Cpus : Loading(c) /\ Loading(d) => c = d

(* The fields of NoLoad. *)
LoadFields == {"pc", "job", "argv", "elf", "tcb", "check", "parts", "id", "page"}

(* The job of a load, whether it is between a reservation and its end, and *)
(* what sort of file its place belongs to.                                 *)
KindOf(l) == jobs[l.job].kind
IsPending(l) == l.pc \in {"init", "tcb", "stack", "commit", "cancel"} /\ KindOf(l) # "thread"
RightPlace(l) ==
    /\ l.pc \in {"check", "alloc", "link", "reserve", "init", "commit", "cancel", "rollback"} =>
          KindOf(l) \in {"payload", "driver"}
    /\ l.pc \in {"copy", "segments"} => KindOf(l) = "thread"
    /\ l.pc \in {"tcb", "stack"} => KindOf(l) \in {"driver", "thread"}

(* Shapes of the variables, and every load in a place of its sort. *)
Forms ==
    /\ jobs \in Seq([kind : Kinds, cpu : Cpus, size : Nat, bss : Seq(Nat)])
    /\ DOMAIN load = Cpus
    /\ \A c \in Cpus : DOMAIN load[c] = LoadFields /\ RightPlace(load[c])
    /\ DOMAIN registry = RegistrySlots /\ g_next_id \in Nat
    /\ \A s \in RegistrySlots : {"state", "id"} \subseteq DOMAIN registry[s]

(* Ids are drawn from g_next_id, and a pending load and its slot share one. *)
Ids ==
    /\ \A s \in RegistrySlots : registry[s].state # "free" =>
          registry[s].id \in Nat /\ registry[s].id < g_next_id
    /\ \A r, s \in RegistrySlots :
         r # s /\ registry[r].state # "free" /\ registry[s].state # "free"
           => registry[r].id # registry[s].id
    /\ \A c \in Cpus : IsPending(load[c]) =>
          \E s \in RegistrySlots : registry[s].state = "reserved" /\ registry[s].id = load[c].id
    /\ \A s \in RegistrySlots : registry[s].state = "reserved" =>
          \E c \in Cpus : IsPending(load[c]) /\ registry[s].id = load[c].id
    /\ \A c, d \in Cpus : c # d /\ IsPending(load[c]) /\ IsPending(load[d]) =>
          load[c].id # load[d].id

(* Another CPU loads only after the BSP has finished, with task_lock. *)
Turns == \A c \in Cpus \ {Bsp} :
            /\ Loading(c) => task_lock = c /\ load[Bsp].pc = "done"
            /\ load[c].pc = "done" => load[Bsp].pc = "done"

(* The inductive invariant. *)
LoaderInv == Forms /\ Ids /\ Turns
----------------------------------------------------------------------------
(* A load moves on without touching the registry. *)
LEMMA Stays ==
  ASSUME LoaderInv, NEW c \in Cpus, NEW l, load' = [load EXCEPT ![c] = l],
         UNCHANGED <<jobs, registry, g_next_id>>, DOMAIN l = LoadFields, RightPlace(l),
         IsPending(l) <=> IsPending(load[c]), IsPending(l) => l.id = load[c].id
  PROVE  Forms' /\ Ids'
<1>1. DOMAIN load = Cpus /\ Forms /\ Ids
  BY DEF LoaderInv, Forms
<1>2. DOMAIN load' = Cpus /\ load'[c] = l /\ \A d \in Cpus : d # c => load'[d] = load[d]
  BY <1>1
<1>3. \A d \in Cpus : /\ IsPending(load[d])' <=> IsPending(load[d])
                      /\ IsPending(load[d]) => load'[d].id = load[d].id
                      /\ RightPlace(load[d])' /\ DOMAIN load'[d] = LoadFields
  <2>1. /\ IsPending(load[c])' <=> IsPending(load[c])
        /\ IsPending(load[c]) => load'[c].id = load[c].id
        /\ RightPlace(load[c])' /\ DOMAIN load'[c] = LoadFields
    BY <1>2 DEF IsPending, RightPlace, KindOf
  <2>2. ASSUME NEW d \in Cpus, d # c
        PROVE  /\ IsPending(load[d])' <=> IsPending(load[d])
               /\ RightPlace(load[d])' /\ DOMAIN load'[d] = LoadFields
    <3>1. load'[d] = load[d] /\ RightPlace(load[d]) /\ DOMAIN load[d] = LoadFields
      BY <1>1, <1>2, <2>2 DEF Forms
    <3>. QED BY <3>1 DEF IsPending, RightPlace, KindOf
  <2>. QED BY <1>2, <2>1, <2>2
<1>4. Forms'
  <2>1. RegistrySlots' = RegistrySlots
    BY DEF RegistrySlots
  <2>. QED BY <1>1, <1>2, <1>3, <2>1 DEF Forms
<1>5. Ids'
  <2>. DEFINE pend == {d \in Cpus : IsPending(load[d])}
  <2>1. /\ \A d \in Cpus : IsPending(load[d])' <=> d \in pend
        /\ \A d \in Cpus : IsPending(load[d]) <=> d \in pend
        /\ \A d \in pend : load'[d].id = load[d].id
    BY <1>3
  <2>2. RegistrySlots' = RegistrySlots
    BY DEF RegistrySlots
  <2>. HIDE DEF pend
  <2>. QED BY <1>1, <2>1, <2>2 DEF Ids
<1>. QED BY <1>4, <1>5

(* It goes on with what it has: the lock, or the boot to itself. *)
LEMMA KeepsTurn ==
  ASSUME LoaderInv, NEW c \in Cpus, NEW l, load' = [load EXCEPT ![c] = l],
         task_lock' = task_lock, Loading(c), l.pc # "done"
  PROVE  Turns'
<1>1. DOMAIN load = Cpus /\ Turns /\ Bsp \in Cpus
  BY LoaderAssumption DEF LoaderInv, Forms
<1>2. load'[c] = l /\ \A d \in Cpus : d # c => load'[d] = load[d]
  BY <1>1
<1>3. CASE c = Bsp
  <2>1. \A d \in Cpus \ {Bsp} : load[d].pc = "start"
    BY <1>1, <1>3 DEF Turns, Loading
  <2>. QED BY <1>2, <1>3, <2>1 DEF Turns, Loading
<1>4. CASE c # Bsp
  BY <1>1, <1>2, <1>4 DEF Turns, Loading
<1>. QED BY <1>3, <1>4

(* A step of a load within it. *)
LEMMA Continues ==
  ASSUME LoaderInv, NEW c \in Cpus, NEW l, load' = [load EXCEPT ![c] = l],
         UNCHANGED <<jobs, registry, g_next_id, task_lock>>, DOMAIN l = LoadFields, RightPlace(l),
         IsPending(l) <=> IsPending(load[c]), IsPending(l) => l.id = load[c].id,
         Loading(c), l.pc # "done"
  PROVE  LoaderInv'
BY Stays, KeepsTurn DEF LoaderInv

(* What the invariant says of one load and of the jobs. *)
LEMMA LoadFacts ==
  ASSUME LoaderInv, NEW c \in Cpus
  PROVE  /\ DOMAIN load[c] = LoadFields /\ RightPlace(load[c])
         /\ jobs \in Seq([kind : Kinds, cpu : Cpus, size : Nat, bss : Seq(Nat)])
         /\ DOMAIN jobs \subseteq Nat /\ \A i \in DOMAIN jobs : jobs[i].kind \in Kinds
<1>. DEFINE J == [kind : Kinds, cpu : Cpus, size : Nat, bss : Seq(Nat)]
<1>1. DOMAIN load[c] = LoadFields /\ RightPlace(load[c]) /\ jobs \in Seq(J)
  BY DEF LoaderInv, Forms
<1>2. \A j \in J : j.kind \in Kinds
  OBVIOUS
<1>. HIDE DEF J
<1>3. DOMAIN jobs \subseteq Nat /\ \A i \in DOMAIN jobs : jobs[i] \in J
  BY <1>1
<1>. QED BY <1>1, <1>2, <1>3 DEF J

(* Records with the pc, and more, replaced. *)
LEMMA NewPc ==
  ASSUME NEW e, DOMAIN e = LoadFields, NEW p, NEW l, l = [e EXCEPT !.pc = p]
  PROVE  DOMAIN l = LoadFields /\ l.pc = p /\ l.job = e.job /\ l.id = e.id
BY DEF LoadFields

(* A load that ends without a slot. *)
LEMMA Finishes ==
  ASSUME LoaderInv, NEW c \in Cpus, Finished(c), Loading(c), ~ IsPending(load[c]),
         UNCHANGED <<jobs, registry, g_next_id, task_lock>>
  PROVE  LoaderInv'
<1>. DEFINE j == load[c].job
            p == IF Job(c).kind = "payload" THEN "payloads" ELSE "scan"
            l == [NoLoad EXCEPT !.job = j, !.pc = p]
<1>1. load' = [load EXCEPT ![c] = l]
  BY DEF Finished, Become
<1>2. p \in {"payloads", "scan"}
  OBVIOUS
<1>. HIDE DEF p, j
<1>3. DOMAIN l = LoadFields /\ l.pc = p
  BY DEF NoLoad, LoadFields
<1>. HIDE DEF l
<1>4. RightPlace(l) /\ ~ IsPending(l) /\ l.pc # "done"
  BY <1>2, <1>3 DEF RightPlace, IsPending
<1>. QED BY <1>1, <1>3, <1>4, Continues

(* A load that goes to another place of the same sort. *)
LEMMA Goes ==
  ASSUME LoaderInv, NEW c \in Cpus, NEW p, Goto(c, p), Loading(c), p # "done",
         UNCHANGED <<jobs, registry, g_next_id, task_lock>>,
         \A l : l.pc = p /\ l.job = load[c].job =>
            RightPlace(l) /\ (IsPending(l) <=> IsPending(load[c]))
  PROVE  LoaderInv'
<1>. DEFINE l == [load[c] EXCEPT !.pc = p]
<1>1. load' = [load EXCEPT ![c] = l]
  BY DEF Goto, Become
<1>2. DOMAIN l = LoadFields /\ l.pc = p /\ l.job = load[c].job /\ l.id = load[c].id
  BY LoadFacts, NewPc
<1>. HIDE DEF l
<1>. QED BY <1>1, <1>2, Continues

(* The next payload, or the end of their list. *)
LEMMA PayloadKeeps ==
  ASSUME LoaderInv, NEW c \in Cpus, NEW present \in BOOLEAN, NextPayload(c, present)
  PROVE  LoaderInv'
<1>. DEFINE rest == {i \in DOMAIN jobs : i > load[c].job /\ jobs[i].kind = "payload"}
            i == Min(rest)
            p == IF present THEN "check" ELSE "payloads"
            l == IF rest = {} THEN NoLoad ELSE [NoLoad EXCEPT !.job = i, !.pc = p]
<1>1. /\ load[c].pc = "payloads" /\ load' = [load EXCEPT ![c] = l]
      /\ UNCHANGED <<jobs, registry, g_next_id, task_lock>>
  BY DEF NextPayload, At, Become, fixed
<1>2. rest # {} => jobs[i].kind = "payload"
  <2>1. rest \subseteq Nat
    BY LoadFacts
  <2>2. rest # {} => i \in rest
    BY <2>1, LeastIs
  <2>. QED BY <2>2
<1>3. p \in {"check", "payloads"}
  OBVIOUS
<1>. HIDE DEF p, i, rest
<1>4. /\ DOMAIN l = LoadFields /\ l.pc \in {"start", "check", "payloads"}
      /\ l.pc = "check" => l.job = i /\ rest # {}
  BY <1>3 DEF NoLoad, LoadFields
<1>. HIDE DEF l
<1>5. RightPlace(l) /\ ~ IsPending(l) /\ l.pc # "done"
  BY <1>2, <1>4 DEF RightPlace, IsPending, KindOf
<1>6. ~ IsPending(load[c]) /\ Loading(c)
  BY <1>1 DEF IsPending, Loading
<1>. QED BY <1>1, <1>4, <1>5, <1>6, Continues

(* The next task of this CPU. *)
LEMMA TaskKeeps ==
  ASSUME LoaderInv, NEW c \in Cpus, NEW present \in BOOLEAN, NextTask(c, present)
  PROVE  LoaderInv'
<1>. DEFINE i == Min(Mine(c))
<1>1. PICK v, p :
        /\ load[c].pc = "scan" /\ Mine(c) # {}
        /\ load' = [load EXCEPT ![c] = [NoLoad EXCEPT !.job = i, !.argv = v, !.pc = p]]
        /\ p = IF v = NULL THEN "scan" ELSE IF jobs[i].kind = "driver" THEN "check" ELSE "copy"
        /\ UNCHANGED <<jobs, registry, g_next_id, task_lock>>
  BY DEF NextTask, At, Become, fixed
<1>2. jobs[i].kind \in {"driver", "thread"}
  <2>1. Mine(c) \subseteq Nat /\ \A k \in Mine(c) : jobs[k].kind \in Kinds /\ jobs[k].kind # "payload"
    BY LoadFacts DEF Mine
  <2>2. i \in Mine(c)
    BY <1>1, <2>1, LeastIs
  <2>. QED BY <2>1, <2>2 DEF Kinds
<1>. HIDE DEF i
<1>. DEFINE l == [NoLoad EXCEPT !.job = i, !.argv = v, !.pc = p]
<1>3. DOMAIN l = LoadFields /\ l.pc = p /\ l.job = i
  BY DEF NoLoad, LoadFields
<1>4. load' = [load EXCEPT ![c] = l]
  BY <1>1
<1>. HIDE DEF l
<1>5. RightPlace(l) /\ ~ IsPending(l) /\ l.pc # "done"
  BY <1>1, <1>2, <1>3 DEF RightPlace, IsPending, KindOf
<1>6. ~ IsPending(load[c]) /\ Loading(c)
  BY <1>1 DEF IsPending, Loading
<1>. QED BY <1>1, <1>3, <1>4, <1>5, <1>6, Continues

(* The scan starts with task_lock, and ends without it. *)
LEMMA ScanKeeps ==
  ASSUME LoaderInv, NEW c \in Cpus, ClaimCpu(c) \/ ScanDone(c)
  PROVE  LoaderInv'
<1>1. PICK p \in {"scan", "done"} :
        /\ load' = [load EXCEPT ![c] = [load[c] EXCEPT !.pc = p]]
        /\ load[c].pc \in {"start", "scan"}
        /\ UNCHANGED <<jobs, registry, g_next_id>>
  BY DEF ClaimCpu, ScanDone, At, Goto, Become, fixed
<1>. DEFINE l == [load[c] EXCEPT !.pc = p]
<1>2. DOMAIN l = LoadFields /\ l.pc = p
  BY LoadFacts, NewPc
<1>3. load' = [load EXCEPT ![c] = l]
  BY <1>1
<1>. HIDE DEF l
<1>4. RightPlace(l) /\ ~ IsPending(l) /\ ~ IsPending(load[c])
  BY <1>1, <1>2 DEF RightPlace, IsPending
<1>5. Forms' /\ Ids'
  BY <1>1, <1>2, <1>3, <1>4, Stays
<1>6. DOMAIN load = Cpus /\ Turns /\ Bsp \in Cpus /\ NoCpu \notin Cpus
  BY LoaderAssumption DEF LoaderInv, Forms
<1>7. load'[c] = l /\ \A d \in Cpus : d # c => load'[d] = load[d]
  BY <1>3, <1>6
<1>8. CASE ClaimCpu(c)
  <2>1. /\ task_lock = NoCpu /\ task_lock' = c /\ load[c].pc = "start"
        /\ c # Bsp => load[Bsp].pc = "done"
    BY <1>8 DEF ClaimCpu, At
  <2>2. l.pc = "scan"
    <3>1. load' = [load EXCEPT ![c] = [load[c] EXCEPT !.pc = "scan"]]
      BY <1>8 DEF ClaimCpu, Goto, Become
    <3>2. load'[c] = [load[c] EXCEPT !.pc = "scan"]
      BY <1>6, <3>1
    <3>. QED BY <1>7, <3>2, LoadFacts, NewPc
  <2>3. \A d \in Cpus \ {Bsp} : load[d].pc \in {"start", "done"}
    BY <1>6, <2>1 DEF Turns, Loading
  <2>4. Turns'
    <3>1. CASE c = Bsp
      <4>1. \A d \in Cpus \ {Bsp} : load'[d].pc = "start"
        BY <1>6, <1>7, <2>1, <2>3, <3>1 DEF Turns
      <4>. QED BY <4>1 DEF Turns, Loading
    <3>2. CASE c # Bsp
      BY <1>6, <1>7, <2>1, <2>2, <2>3, <3>2 DEF Turns, Loading
    <3>. QED BY <3>1, <3>2
  <2>. QED BY <1>5, <2>4 DEF LoaderInv
<1>9. CASE ScanDone(c)
  <2>1. load[c].pc = "scan"
    BY <1>9 DEF ScanDone, At
  <2>2. l.pc = "done"
    <3>1. load' = [load EXCEPT ![c] = [load[c] EXCEPT !.pc = "done"]]
      BY <1>9 DEF ScanDone, Goto, Become
    <3>2. load'[c] = [load[c] EXCEPT !.pc = "done"]
      BY <1>6, <3>1
    <3>. QED BY <1>7, <3>2, LoadFacts, NewPc
  <2>3. Turns'
    <3>1. CASE c = Bsp
      <4>1. \A d \in Cpus \ {Bsp} : load'[d].pc = "start"
        BY <1>6, <1>7, <2>1, <3>1 DEF Turns, Loading
      <4>. QED BY <4>1 DEF Turns, Loading
    <3>2. CASE c # Bsp
      <4>1. task_lock = c /\ load'[Bsp].pc = "done"
        BY <1>6, <1>7, <2>1, <3>2 DEF Turns, Loading
      <4>2. \A d \in Cpus \ {Bsp} : load'[d].pc \in {"start", "done"}
        BY <1>6, <1>7, <2>2, <4>1 DEF Turns, Loading
      <4>. QED BY <4>1, <4>2 DEF Turns, Loading
    <3>. QED BY <3>1, <3>2
  <2>. QED BY <1>5, <2>3 DEF LoaderInv
<1>. QED BY <1>8, <1>9

(* A driver or payload up to its reservation, and after its cancellation. *)
LEMMA ModuleKeeps ==
  ASSUME LoaderInv, NEW c \in Cpus,
         \/ \E valid \in Verdicts : Checkpoint(c, valid)
         \/ AllocPart(c) \/ Rollback(c)
         \/ \E resolved \in BOOLEAN : Link(c, resolved)
  PROVE  LoaderInv'
<1>0. /\ UNCHANGED <<jobs, registry, g_next_id, task_lock>>
      /\ load[c].pc \in {"check", "alloc", "link", "rollback"}
  BY DEF Checkpoint, AllocPart, Rollback, Link, At, fixed
<1>1. /\ KindOf(load[c]) \in {"payload", "driver"} /\ Loading(c) /\ ~ IsPending(load[c])
      /\ DOMAIN load[c] = LoadFields
  BY <1>0, LoadFacts DEF RightPlace, Loading, IsPending
<1>2. CASE Finished(c)
  BY <1>0, <1>1, <1>2, Finishes
<1>3. CASE \E p \in {"reserve", "rollback"} : Goto(c, p)
  <2>1. PICK p \in {"reserve", "rollback"} : Goto(c, p)
    BY <1>3
  <2>2. \A l : l.pc = p /\ l.job = load[c].job =>
            RightPlace(l) /\ (IsPending(l) <=> IsPending(load[c]))
    BY <1>1 DEF RightPlace, IsPending, KindOf
  <2>. QED BY <1>0, <1>1, <2>1, <2>2, Goes
<1>4. ASSUME NEW l, load' = [load EXCEPT ![c] = l], DOMAIN l = LoadFields,
             l.pc \in {"alloc", "link"}, l.job = load[c].job
      PROVE  LoaderInv'
  <2>1. RightPlace(l) /\ ~ IsPending(l) /\ l.pc # "done"
    BY <1>1, <1>4 DEF RightPlace, IsPending, KindOf
  <2>. QED BY <1>0, <1>1, <1>4, <2>1, Continues
<1>5. CASE \E valid \in Verdicts : Checkpoint(c, valid)
  <2>. DEFINE k == module_alloc_checkpoint(m)
              l == [load[c] EXCEPT !.pc = "alloc", !.check = k]
  <2>1. Finished(c) \/ load' = [load EXCEPT ![c] = l]
    BY <1>5 DEF Checkpoint, Failed, Become
  <2>. HIDE DEF k
  <2>2. DOMAIN l = LoadFields /\ l.pc = "alloc" /\ l.job = load[c].job
    BY <1>1 DEF LoadFields
  <2>. HIDE DEF l
  <2>. QED BY <1>2, <1>4, <2>1, <2>2
<1>6. CASE AllocPart(c)
  <2>1. \/ Goto(c, "rollback")
        \/ \E q, p : /\ load' = [load EXCEPT ![c] = [load[c] EXCEPT !.parts = q, !.pc = p]]
                     /\ p \in {"link", "alloc"}
    BY <1>6 DEF AllocPart, Become
  <2>2. ASSUME NEW q, NEW p \in {"link", "alloc"},
               load' = [load EXCEPT ![c] = [load[c] EXCEPT !.parts = q, !.pc = p]]
        PROVE  LoaderInv'
    <3>. DEFINE l == [load[c] EXCEPT !.parts = q, !.pc = p]
    <3>1. DOMAIN l = LoadFields /\ l.pc = p /\ l.job = load[c].job
      BY <1>1 DEF LoadFields
    <3>2. load' = [load EXCEPT ![c] = l]
      BY <2>2
    <3>. HIDE DEF l
    <3>. QED BY <1>4, <3>1, <3>2
  <2>. QED BY <1>3, <2>1, <2>2
<1>7. CASE \E resolved \in BOOLEAN : Link(c, resolved)
  BY <1>3, <1>7 DEF Link
<1>8. CASE Rollback(c)
  BY <1>2, <1>8 DEF Rollback, Failed
<1>. QED BY <1>5, <1>6, <1>7, <1>8

(* An executable, and the thread of either. *)
LEMMA ExecKeeps ==
  ASSUME LoaderInv, NEW c \in Cpus,
         \/ \E valid \in Verdicts : CopyExec(c, valid)
         \/ ReusePage(c) \/ LoadPage(c)
  PROVE  LoaderInv'
<1>0. /\ UNCHANGED <<jobs, registry, g_next_id, task_lock>>
      /\ load[c].pc \in {"copy", "segments"}
  BY ZenonT(60) DEF CopyExec, ReusePage, LoadPage, At, fixed
<1>1. /\ KindOf(load[c]) = "thread" /\ Loading(c) /\ ~ IsPending(load[c])
      /\ DOMAIN load[c] = LoadFields
  BY <1>0, LoadFacts DEF RightPlace, Loading, IsPending
<1>2. ASSUME NEW l, load' = [load EXCEPT ![c] = l], DOMAIN l = LoadFields,
             l.pc \in {"segments", "tcb"}, l.job = load[c].job
      PROVE  LoaderInv'
  <2>1. RightPlace(l) /\ ~ IsPending(l) /\ l.pc # "done"
    BY <1>1, <1>2 DEF RightPlace, IsPending, KindOf
  <2>. QED BY <1>0, <1>1, <1>2, <2>1, Continues
<1>3. ASSUME NEW v, load' = [load EXCEPT ![c] = [load[c] EXCEPT !.pc = "segments", !.elf = v]]
      PROVE  LoaderInv'
  <2>. DEFINE l == [load[c] EXCEPT !.pc = "segments", !.elf = v]
  <2>1. DOMAIN l = LoadFields /\ l.pc = "segments" /\ l.job = load[c].job
    BY <1>1 DEF LoadFields
  <2>2. load' = [load EXCEPT ![c] = l]
    BY <1>3
  <2>. HIDE DEF l
  <2>. QED BY <1>2, <2>1, <2>2
<1>4. CASE SegmentDone(c)
  <2>. DEFINE n == load[c].page + 1
              p == IF load[c].page = Len(ExecImage) THEN "tcb" ELSE "segments"
              l == [load[c] EXCEPT !.page = n, !.pc = p]
  <2>1. load' = [load EXCEPT ![c] = l]
    BY <1>4 DEF SegmentDone, Become
  <2>2. p \in {"segments", "tcb"}
    OBVIOUS
  <2>. HIDE DEF n, p
  <2>3. DOMAIN l = LoadFields /\ l.pc = p /\ l.job = load[c].job
    BY <1>1 DEF LoadFields
  <2>. HIDE DEF l
  <2>. QED BY ZenonT(60), <1>2, <2>1, <2>2, <2>3
<1>5. \/ Finished(c) \/ SegmentDone(c)
      \/ \E v : load' = [load EXCEPT ![c] = [load[c] EXCEPT !.pc = "segments", !.elf = v]]
  BY ZenonT(60) DEF CopyExec, ReusePage, LoadPage, Failed, Become
<1>. QED BY <1>0, <1>1, <1>3, <1>4, <1>5, Finishes

(* selftest_init() and thread_create_common(). *)
LEMMA ThreadKeeps ==
  ASSUME LoaderInv, NEW c \in Cpus,
         \/ \E registers, ok \in BOOLEAN : RunInit(c, registers, ok)
         \/ CreateTcb(c) \/ CreateStack(c)
  PROVE  LoaderInv'
<1>0. /\ UNCHANGED <<jobs, registry, g_next_id, task_lock>>
      /\ load[c].pc \in {"init", "tcb", "stack"}
  BY DEF RunInit, CreateTcb, CreateStack, At, fixed
<1>1. /\ Loading(c) /\ DOMAIN load[c] = LoadFields /\ RightPlace(load[c])
      /\ IsPending(load[c]) <=> KindOf(load[c]) # "thread"
  BY <1>0, LoadFacts DEF Loading, IsPending
<1>2. ASSUME NEW p \in {"commit", "cancel"}, Goto(c, p), KindOf(load[c]) \in {"payload", "driver"}
      PROVE  LoaderInv'
  <2>1. \A l : l.pc = p /\ l.job = load[c].job =>
            RightPlace(l) /\ (IsPending(l) <=> IsPending(load[c]))
    BY <1>1, <1>2 DEF RightPlace, IsPending, KindOf
  <2>2. p # "done"
    BY <1>2
  <2>. QED BY <1>0, <1>1, <1>2, <2>1, <2>2, Goes
<1>3. ASSUME NEW v, load[c].pc = "tcb",
             load' = [load EXCEPT ![c] = [load[c] EXCEPT !.pc = "stack", !.tcb = v]]
      PROVE  LoaderInv'
  <2>. DEFINE l == [load[c] EXCEPT !.pc = "stack", !.tcb = v]
  <2>1. DOMAIN l = LoadFields /\ l.pc = "stack" /\ l.job = load[c].job /\ l.id = load[c].id
    BY <1>1 DEF LoadFields
  <2>2. load' = [load EXCEPT ![c] = l]
    BY <1>3
  <2>. HIDE DEF l
  <2>3. RightPlace(l) /\ (IsPending(l) <=> IsPending(load[c])) /\ l.pc # "done"
    BY <1>1, <1>3, <2>1 DEF RightPlace, IsPending, KindOf
  <2>. QED BY <1>0, <1>1, <2>1, <2>2, <2>3, Continues
<1>4. CASE \E registers, ok \in BOOLEAN : RunInit(c, registers, ok)
  <2>1. load[c].pc = "init" /\ (Goto(c, "commit") \/ Goto(c, "cancel"))
    BY <1>4 DEF RunInit, At
  <2>2. KindOf(load[c]) \in {"payload", "driver"}
    BY <1>1, <2>1 DEF RightPlace
  <2>. QED BY <1>2, <2>1, <2>2
<1>5. CASE CreateTcb(c)
  <2>1. load[c].pc = "tcb" /\ KindOf(load[c]) \in {"driver", "thread"}
    BY <1>1, <1>5 DEF CreateTcb, At, RightPlace
  <2>2. \/ \E v : load' = [load EXCEPT ![c] = [load[c] EXCEPT !.pc = "stack", !.tcb = v]]
        \/ KindOf(load[c]) = "driver" /\ Goto(c, "cancel")
        \/ KindOf(load[c]) # "driver" /\ Finished(c)
    BY <1>5 DEF CreateTcb, Become, Failed, Job, KindOf
  <2>3. CASE KindOf(load[c]) # "driver" /\ Finished(c)
    BY <1>0, <1>1, <2>1, <2>3, Finishes
  <2>. QED BY <1>2, <1>3, <2>1, <2>2, <2>3
<1>6. CASE CreateStack(c)
  <2>1. load[c].pc = "stack" /\ KindOf(load[c]) \in {"driver", "thread"}
    BY <1>1, <1>6 DEF CreateStack, At, RightPlace
  <2>2. \/ load' = load
        \/ KindOf(load[c]) = "driver" /\ Goto(c, "commit")
        \/ KindOf(load[c]) # "driver" /\ Finished(c)
    BY <1>6 DEF CreateStack, Job, KindOf
  <2>3. CASE KindOf(load[c]) # "driver" /\ Finished(c)
    BY <1>0, <1>1, <2>1, <2>3, Finishes
  <2>4. CASE load' = load
    BY <1>0, <2>4 DEF LoaderInv, Forms, Ids, Turns, IsPending, RightPlace, KindOf, Loading, RegistrySlots
  <2>. QED BY <1>2, <2>1, <2>2, <2>3, <2>4
<1>. QED BY <1>4, <1>5, <1>6

(* module_registry_reserve(): a fresh id for the slot and the load. *)
LEMMA ReserveKeeps ==
  ASSUME LoaderInv, NEW c \in Cpus, module_registry_reserve(c) PROVE LoaderInv'
<1>. DEFINE s == Min(FreeSlots)
<1>0. /\ UNCHANGED <<jobs, task_lock>> /\ load[c].pc = "reserve"
  BY DEF module_registry_reserve, At, fixed
<1>1. /\ Loading(c) /\ DOMAIN load[c] = LoadFields /\ ~ IsPending(load[c])
      /\ KindOf(load[c]) \in {"payload", "driver"}
  BY <1>0, LoadFacts DEF Loading, IsPending, RightPlace
<1>2. CASE Goto(c, "rollback") /\ UNCHANGED <<registry, g_next_id>>
  <2>1. \A l : l.pc = "rollback" /\ l.job = load[c].job =>
            RightPlace(l) /\ (IsPending(l) <=> IsPending(load[c]))
    BY <1>1 DEF RightPlace, IsPending, KindOf
  <2>. QED BY <1>0, <1>1, <1>2, <2>1, Goes
<1>3. ASSUME NEW name, NEW parts, NEW frames, NEW p,
             registry' = [registry EXCEPT ![s] =
               [state |-> "reserved", id |-> g_next_id, name |-> name, parts |-> parts,
                frames |-> frames]],
             g_next_id' = g_next_id + 1, FreeSlots # {},
             load' = [load EXCEPT ![c] = [load[c] EXCEPT !.id = g_next_id, !.pc = p]],
             p = IF KindOf(load[c]) = "payload" THEN "init" ELSE "tcb"
      PROVE  LoaderInv'
  <2>1. s \in RegistrySlots /\ registry[s].state = "free"
    <3>1. FreeSlots \subseteq Nat
      BY DEF FreeSlots, RegistrySlots
    <3>2. s \in FreeSlots
      BY <1>3, <3>1, LeastIs
    <3>. QED BY <3>2 DEF FreeSlots
  <2>. DEFINE l == [load[c] EXCEPT !.id = g_next_id, !.pc = p]
              r == [state |-> "reserved", id |-> g_next_id, name |-> name, parts |-> parts,
                    frames |-> frames]
  <2>2. DOMAIN l = LoadFields /\ l.pc = p /\ l.job = load[c].job /\ l.id = g_next_id
    BY <1>1 DEF LoadFields
  <2>3. r.state = "reserved" /\ r.id = g_next_id /\ {"state", "id"} \subseteq DOMAIN r
    OBVIOUS
  <2>4. load' = [load EXCEPT ![c] = l] /\ registry' = [registry EXCEPT ![s] = r]
    BY <1>3
  <2>. HIDE DEF l, r, s
  <2>5. /\ Forms /\ Ids /\ DOMAIN load = Cpus /\ DOMAIN registry = RegistrySlots
        /\ g_next_id \in Nat /\ RegistrySlots' = RegistrySlots
    BY DEF LoaderInv, Forms, RegistrySlots
  <2>6. /\ DOMAIN load' = Cpus /\ load'[c] = l /\ \A d \in Cpus : d # c => load'[d] = load[d]
        /\ DOMAIN registry' = RegistrySlots /\ registry'[s] = r
        /\ \A t \in RegistrySlots : t # s => registry'[t] = registry[t]
    BY <2>1, <2>4, <2>5
  <2>7. RightPlace(load[c])' /\ IsPending(load[c])'
    BY <1>0, <1>1, <1>3, <2>2, <2>6 DEF RightPlace, IsPending, KindOf
  <2>8. \A d \in Cpus : d # c => /\ RightPlace(load[d])' /\ DOMAIN load'[d] = LoadFields
                                 /\ IsPending(load[d])' <=> IsPending(load[d])
    BY <1>0, <2>5, <2>6 DEF Forms, RightPlace, IsPending, KindOf
  <2>9. Forms'
    BY <1>0, <1>3, <2>1, <2>2, <2>3, <2>5, <2>6, <2>7, <2>8 DEF Forms
  <2>10. Ids'
    <3>. DEFINE pend == {d \in Cpus : IsPending(load[d])}
    <3>1. /\ \A d \in Cpus : IsPending(load[d]) <=> d \in pend
          /\ \A d \in Cpus : IsPending(load[d])' <=> d \in pend \/ d = c
          /\ c \notin pend
      BY <1>1, <2>7, <2>8
    <3>. HIDE DEF pend
    <3>2. \A d \in pend : load[d].id \in Nat /\ load[d].id < g_next_id
      BY <2>5, <3>1 DEF Ids, Forms, pend
    <3>. DEFINE n == g_next_id
    <3>3. n \in Nat /\ g_next_id' = n + 1 /\ g_next_id = n
      BY <1>3, <2>5
    <3>. HIDE DEF n
    <3>4. \A t \in RegistrySlots : registry'[t].state # "free" =>
             registry'[t].id \in Nat /\ registry'[t].id < n + 1
      BY <2>1, <2>3, <2>5, <2>6, <3>3 DEF Ids
    <3>5. \A t, u \in RegistrySlots :
             t # u /\ registry'[t].state # "free" /\ registry'[u].state # "free"
               => registry'[t].id # registry'[u].id
      BY <2>1, <2>3, <2>5, <2>6, <3>3 DEF Ids
    <3>6. \A d \in Cpus : d \in pend \/ d = c =>
             \E t \in RegistrySlots : registry'[t].state = "reserved" /\ registry'[t].id = load'[d].id
      BY <2>1, <2>2, <2>3, <2>5, <2>6, <3>1, <3>3 DEF Ids
    <3>7. \A t \in RegistrySlots : registry'[t].state = "reserved" =>
             \E d \in Cpus : (d \in pend \/ d = c) /\ registry'[t].id = load'[d].id
      BY <2>1, <2>2, <2>3, <2>5, <2>6, <3>1, <3>3 DEF Ids
    <3>8. \A d, e \in Cpus : d # e /\ (d \in pend \/ d = c) /\ (e \in pend \/ e = c) =>
             load'[d].id # load'[e].id
      BY <2>2, <2>5, <2>6, <3>1, <3>2, <3>3 DEF Ids
    <3>. QED BY <2>5, <3>1, <3>3, <3>4, <3>5, <3>6, <3>7, <3>8 DEF Ids
  <2>11. l.pc # "done"
    BY <1>3, <2>2
  <2>12. Turns'
    BY <1>0, <1>1, <2>4, <2>11, KeepsTurn
  <2>. QED BY <2>9, <2>10, <2>12 DEF LoaderInv
<1>4. \/ Goto(c, "rollback") /\ UNCHANGED <<registry, g_next_id>>
      \/ \E name, parts, frames, p :
           /\ registry' = [registry EXCEPT ![s] =
                [state |-> "reserved", id |-> g_next_id, name |-> name, parts |-> parts,
                 frames |-> frames]]
           /\ g_next_id' = g_next_id + 1 /\ FreeSlots # {}
           /\ load' = [load EXCEPT ![c] = [load[c] EXCEPT !.id = g_next_id, !.pc = p]]
           /\ p = IF KindOf(load[c]) = "payload" THEN "init" ELSE "tcb"
  <2>1. PICK a \in {IF FreeSlots = {} THEN [m |-> m, ret |-> NULL]
                    ELSE kmalloc(m, kernel_pml4, NameUnits)} :
         IF a.ret = NULL
         THEN Goto(c, "rollback") /\ UNCHANGED <<registry, g_next_id>>
         ELSE /\ registry' = [registry EXCEPT ![s] =
                   [state |-> "reserved", id |-> g_next_id, name |-> a.ret,
                    parts |-> load[c].parts, frames |-> Backing(load[c].parts)]]
              /\ g_next_id' = g_next_id + 1
              /\ Become(c, [load[c] EXCEPT !.id = g_next_id,
                   !.pc = IF Job(c).kind = "payload" THEN "init" ELSE "tcb"])
    BY DEF module_registry_reserve
  <2>2. a.ret # NULL => FreeSlots # {}
    BY <2>1
  <2>. HIDE DEF s
  <2>. QED BY <2>1, <2>2 DEF Become, Job, KindOf
<1>. QED BY <1>2, <1>3, <1>4

(* The end of a reservation: the slots that leave the state reserved are   *)
(* those of the load that stops to be pending.                             *)
LEMMA Settles ==
  ASSUME LoaderInv, NEW c \in Cpus, IsPending(load[c]), NEW l, load' = [load EXCEPT ![c] = l],
         UNCHANGED <<jobs, g_next_id, task_lock>>, DOMAIN l = LoadFields, RightPlace(l),
         ~ IsPending(l), Loading(c), l.pc # "done",
         DOMAIN registry' = RegistrySlots,
         \A s \in RegistrySlots :
            /\ {"state", "id"} \subseteq DOMAIN registry'[s]
            /\ s \notin SlotOf(c) => registry'[s] = registry[s]
            /\ s \in SlotOf(c) => \/ registry'[s].state = "free"
                                  \/ registry'[s].state = "committed" /\ registry'[s].id = registry[s].id
  PROVE  LoaderInv'
<1>1. /\ Forms /\ Ids /\ DOMAIN load = Cpus /\ RegistrySlots' = RegistrySlots
  BY DEF LoaderInv, Forms, RegistrySlots
<1>2. /\ DOMAIN load' = Cpus /\ load'[c] = l /\ \A d \in Cpus : d # c => load'[d] = load[d]
  BY <1>1
<1>3. RightPlace(load[c])' /\ ~ IsPending(load[c])'
  BY <1>2 DEF RightPlace, IsPending, KindOf
<1>4. \A d \in Cpus : d # c => /\ RightPlace(load[d])' /\ DOMAIN load'[d] = LoadFields
                               /\ IsPending(load[d])' <=> IsPending(load[d])
  BY <1>1, <1>2 DEF Forms, RightPlace, IsPending, KindOf
<1>5. Forms'
  BY <1>1, <1>2, <1>3, <1>4 DEF Forms
<1>6. Ids'
  <2>. DEFINE pend == {d \in Cpus : IsPending(load[d])}
              mine == SlotOf(c)
  <2>1. /\ \A d \in Cpus : IsPending(load[d]) <=> d \in pend
        /\ \A d \in Cpus : IsPending(load[d])' <=> d \in pend /\ d # c
        /\ c \in pend
    BY <1>3, <1>4
  <2>2. \A s \in RegistrySlots :
           s \in mine <=> registry[s].state = "reserved" /\ registry[s].id = load[c].id
    BY DEF SlotOf
  <2>. HIDE DEF pend, mine
  <2>3. \A s \in RegistrySlots :
           /\ s \notin mine => registry'[s] = registry[s]
           /\ s \in mine => /\ registry'[s].state # "reserved"
                            /\ registry'[s].state # "free" => registry'[s].id = registry[s].id
    BY DEF mine
  <2>4. \A s \in RegistrySlots : registry'[s].state # "free" =>
           registry[s].state # "free" /\ registry'[s].id = registry[s].id
    BY <2>2, <2>3
  <2>5. \A s \in RegistrySlots : registry'[s].state = "reserved" =>
           registry[s].state = "reserved" /\ s \notin mine /\ registry'[s].id = registry[s].id
    BY <2>3
  <2>6. \A d \in Cpus : d \in pend /\ d # c =>
           \E s \in RegistrySlots : registry'[s].state = "reserved" /\ registry'[s].id = load'[d].id
    <3>1. SUFFICES ASSUME NEW d \in Cpus, d \in pend, d # c
                   PROVE  \E s \in RegistrySlots : registry'[s].state = "reserved" /\ registry'[s].id = load'[d].id
      OBVIOUS
    <3>2. PICK s \in RegistrySlots : registry[s].state = "reserved" /\ registry[s].id = load[d].id
      BY <1>1, <2>1, <3>1 DEF Ids
    <3>3. load[d].id # load[c].id
      BY <1>1, <2>1, <3>1 DEF Ids
    <3>. QED BY <1>2, <2>2, <2>3, <3>1, <3>2, <3>3
  <2>7. \A s \in RegistrySlots : registry'[s].state = "reserved" =>
           \E d \in Cpus : (d \in pend /\ d # c) /\ registry'[s].id = load'[d].id
    <3>1. SUFFICES ASSUME NEW s \in RegistrySlots, registry'[s].state = "reserved"
                   PROVE  \E d \in Cpus : (d \in pend /\ d # c) /\ registry'[s].id = load'[d].id
      OBVIOUS
    <3>2. PICK d \in Cpus : d \in pend /\ registry[s].id = load[d].id
      BY <1>1, <2>1, <2>5, <3>1 DEF Ids
    <3>3. d # c
      BY <2>2, <2>5, <3>1, <3>2
    <3>. QED BY <1>2, <2>5, <3>1, <3>2, <3>3
  <2>8. \A d, e \in Cpus : d # e /\ (d \in pend /\ d # c) /\ (e \in pend /\ e # c) =>
           load'[d].id # load'[e].id
    BY <1>1, <1>2, <2>1 DEF Ids
  <2>9. \A s \in RegistrySlots : registry'[s].state # "free" =>
           registry'[s].id \in Nat /\ registry'[s].id < g_next_id
    BY <1>1, <2>4 DEF Ids
  <2>10. \A r, s \in RegistrySlots :
           r # s /\ registry'[r].state # "free" /\ registry'[s].state # "free"
             => registry'[r].id # registry'[s].id
    BY <1>1, <2>4 DEF Ids
  <2>. QED BY <1>1, <2>1, <2>6, <2>7, <2>8, <2>9, <2>10 DEF Ids
<1>7. Turns'
  BY KeepsTurn
<1>. QED BY <1>5, <1>6, <1>7 DEF LoaderInv

(* module_registry_commit(). *)
LEMMA CommitKeeps ==
  ASSUME LoaderInv, NEW c \in Cpus, module_registry_commit(c) PROVE LoaderInv'
<1>0. /\ UNCHANGED <<jobs, g_next_id, task_lock>> /\ load[c].pc = "commit" /\ Finished(c)
      /\ registry' = [s \in RegistrySlots |->
           IF s \in SlotOf(c) THEN [registry[s] EXCEPT !.state = "committed"] ELSE registry[s]]
  BY DEF module_registry_commit, At, fixed
<1>1. Loading(c) /\ IsPending(load[c]) /\ Forms
  BY <1>0, LoadFacts DEF Loading, IsPending, RightPlace, LoaderInv
<1>. DEFINE j == load[c].job
            p == IF Job(c).kind = "payload" THEN "payloads" ELSE "scan"
            l == [NoLoad EXCEPT !.job = j, !.pc = p]
<1>2. load' = [load EXCEPT ![c] = l]
  BY <1>0 DEF Finished, Become
<1>3. p \in {"payloads", "scan"}
  OBVIOUS
<1>. HIDE DEF p, j
<1>4. DOMAIN l = LoadFields /\ l.pc = p
  BY DEF NoLoad, LoadFields
<1>. HIDE DEF l
<1>5. RightPlace(l) /\ ~ IsPending(l) /\ l.pc # "done"
  BY <1>3, <1>4 DEF RightPlace, IsPending
<1>6. DOMAIN registry' = RegistrySlots
  BY <1>0
<1>7. ASSUME NEW s \in RegistrySlots
      PROVE  /\ {"state", "id"} \subseteq DOMAIN registry'[s]
             /\ s \notin SlotOf(c) => registry'[s] = registry[s]
             /\ s \in SlotOf(c) => \/ registry'[s].state = "free"
                                   \/ registry'[s].state = "committed" /\ registry'[s].id = registry[s].id
  <2>1. {"state", "id"} \subseteq DOMAIN registry[s]
    BY <1>1 DEF Forms
  <2>2. registry'[s] = IF s \in SlotOf(c) THEN [registry[s] EXCEPT !.state = "committed"] ELSE registry[s]
    BY <1>0
  <2>. DEFINE e == registry[s]
              f == [e EXCEPT !.state = "committed"]
  <2>3. /\ {"state", "id"} \subseteq DOMAIN f /\ f.state = "committed" /\ f.id = e.id
    BY <2>1
  <2>. HIDE DEF f
  <2>4. registry'[s] = IF s \in SlotOf(c) THEN f ELSE e
    BY <2>2 DEF f
  <2>. QED BY <2>1, <2>3, <2>4
<1>. QED BY <1>0, <1>1, <1>2, <1>4, <1>5, <1>6, <1>7, Settles

(* module_registry_cancel(). *)
LEMMA CancelKeeps ==
  ASSUME LoaderInv, NEW c \in Cpus, module_registry_cancel(c) PROVE LoaderInv'
<1>0. /\ UNCHANGED <<jobs, g_next_id, task_lock>> /\ load[c].pc = "cancel" /\ Goto(c, "rollback")
      /\ registry' = [s \in RegistrySlots |-> IF s \in SlotOf(c) THEN REG_FREE ELSE registry[s]]
  BY DEF module_registry_cancel, At, fixed, ClearedSlots
<1>1. /\ Loading(c) /\ IsPending(load[c]) /\ Forms /\ DOMAIN load[c] = LoadFields
      /\ KindOf(load[c]) \in {"payload", "driver"}
  BY <1>0, LoadFacts DEF Loading, IsPending, RightPlace, LoaderInv
<1>. DEFINE l == [load[c] EXCEPT !.pc = "rollback"]
<1>2. load' = [load EXCEPT ![c] = l]
  BY <1>0 DEF Goto, Become
<1>3. DOMAIN l = LoadFields /\ l.pc = "rollback" /\ l.job = load[c].job
  BY <1>1, NewPc
<1>. HIDE DEF l
<1>4. RightPlace(l) /\ ~ IsPending(l) /\ l.pc # "done"
  BY <1>1, <1>3 DEF RightPlace, IsPending, KindOf
<1>5. DOMAIN registry' = RegistrySlots
  BY <1>0
<1>6. {"state", "id"} \subseteq DOMAIN REG_FREE /\ REG_FREE.state = "free"
  BY DEF REG_FREE
<1>7. ASSUME NEW s \in RegistrySlots
      PROVE  /\ {"state", "id"} \subseteq DOMAIN registry'[s]
             /\ s \notin SlotOf(c) => registry'[s] = registry[s]
             /\ s \in SlotOf(c) => registry'[s].state = "free"
  <2>1. {"state", "id"} \subseteq DOMAIN registry[s]
    BY <1>1 DEF Forms
  <2>2. registry'[s] = IF s \in SlotOf(c) THEN REG_FREE ELSE registry[s]
    BY <1>0
  <2>. QED BY <1>6, <2>1, <2>2
<1>. QED BY <1>0, <1>1, <1>2, <1>3, <1>4, <1>5, <1>7, Settles

(* At first nothing is reserved, and the BSP has its payloads to load. *)
LEMMA LoaderInvInit == Init => LoaderInv
<1>. SUFFICES ASSUME Init PROVE LoaderInv
  OBVIOUS
<1>1. jobs \in Seq([kind : Kinds, cpu : Cpus, size : Nat, bss : Seq(Nat)])
  BY LoaderAssumption DEF Init
<1>2. /\ registry = [s \in RegistrySlots |-> REG_FREE] /\ g_next_id = 0
      /\ load = [c \in Cpus |-> [NoLoad EXCEPT !.pc = IF c = Bsp THEN "payloads" ELSE "start"]]
  BY DEF Init
<1>3. /\ DOMAIN load = Cpus
      /\ \A c \in Cpus : DOMAIN load[c] = LoadFields /\ load[c].pc = IF c = Bsp THEN "payloads" ELSE "start"
  BY <1>2 DEF NoLoad, LoadFields
<1>4. \A c \in Cpus : RightPlace(load[c]) /\ ~ IsPending(load[c])
  BY <1>3 DEF RightPlace, IsPending
<1>5. {"state", "id"} \subseteq DOMAIN REG_FREE /\ REG_FREE.state = "free"
  BY DEF REG_FREE
<1>6. Forms
  BY <1>1, <1>2, <1>3, <1>4, <1>5 DEF Forms
<1>7. Ids
  BY <1>2, <1>4, <1>5 DEF Ids
<1>8. Turns
  BY <1>3 DEF Turns, Loading
<1>. QED BY <1>6, <1>7, <1>8 DEF LoaderInv

(* Every step keeps the invariant. *)
LEMMA LoaderInvStep == LoaderInv /\ [Next]_vars => LoaderInv'
<1>. SUFFICES ASSUME LoaderInv, [Next]_vars PROVE LoaderInv'
  OBVIOUS
<1>1. CASE \E c \in Cpus : LoadStep(c)
  <2>1. PICK c \in Cpus : LoadStep(c)
    BY <1>1
  <2>2. CASE \E present \in BOOLEAN : NextPayload(c, present) \/ NextTask(c, present)
    BY <2>2, PayloadKeeps, TaskKeeps
  <2>3. CASE \E valid \in Verdicts : Checkpoint(c, valid) \/ CopyExec(c, valid)
    BY <2>3, ModuleKeeps, ExecKeeps
  <2>4. CASE AllocPart(c) \/ Rollback(c) \/ \E resolved \in BOOLEAN : Link(c, resolved)
    BY <2>4, ModuleKeeps
  <2>5. CASE (\E registers, ok \in BOOLEAN : RunInit(c, registers, ok)) \/ CreateTcb(c) \/ CreateStack(c)
    BY <2>5, ThreadKeeps
  <2>. QED BY <2>1, <2>2, <2>3, <2>4, <2>5, ScanKeeps, ReserveKeeps, CommitKeeps, CancelKeeps,
              ExecKeeps DEF LoadStep
<1>2. CASE (\E i \in DOMAIN jobs : Reap(i)) \/ Quiet \/ UNCHANGED vars
  <2>1. UNCHANGED <<jobs, registry, g_next_id, task_lock, load>>
    BY <1>2 DEF Reap, Quiet, vars, fixed
  <2>. QED BY <2>1 DEF LoaderInv, Forms, Ids, Turns, IsPending, RightPlace, KindOf, Loading,
                      RegistrySlots
<1>. QED BY <1>1, <1>2 DEF Next

(* The ids of module.c, the places of elf_loader.c and the turns of task.c *)
(* stay in step however loads fail.                                        *)
THEOREM LoaderInvariant == Spec => []LoaderInv
BY LoaderInvInit, LoaderInvStep, PTL DEF Spec

(* module.c: no two modules have the same id, and a slot is reserved       *)
(* exactly while its load is between module_registry_reserve() and the     *)
(* commit or cancel, whatever fails in between.                            *)
THEOREM RegistryStaysConsistent == Spec => []RegistryConsistent
<1>1. LoaderInv => RegistryConsistent
  <2>. SUFFICES ASSUME LoaderInv PROVE RegistryConsistent
    OBVIOUS
  <2>1. Ids /\ \A c \in Cpus : Pending(c) <=> IsPending(load[c])
    BY DEF LoaderInv, Pending, IsPending, Job, KindOf
  <2>2. \A x : x \in {registry[s].id : s \in {y \in RegistrySlots : registry[y].state = "reserved"}}
               <=> x \in {load[c].id : c \in {y \in Cpus : Pending(y)}}
    BY <2>1 DEF Ids
  <2>. QED BY <2>1, <2>2 DEF RegistryConsistent, Ids
<1>. QED BY <1>1, LoaderInvariant, PTL

(* The boot order and task_lock keep loads apart on any number of CPUs, so *)
(* that module_alloc_rollback() only ever takes back its own load.         *)
THEOREM LoadsTakeTurns == Spec => []LoadsExclusive
<1>1. LoaderInv => LoadsExclusive
  BY DEF LoaderInv, Turns, LoadsExclusive, Loading
<1>. QED BY <1>1, LoaderInvariant, PTL
----------------------------------------------------------------------------
(* The first n pages of the module region are backed by frames that are in *)
(* use, hold no page table and back one such page each.                    *)
RegionPages(n) == MODULE_VBASE .. MODULE_VBASE + n - 1
FramesApart(T, pm, root, n) ==
    \A va \in RegionPages(n) : \A x : Maps(T, root, va, x) =>
      /\ x \notin Avail(pm) /\ x \notin DOMAIN T
      /\ \A vb \in RegionPages(n) : Maps(T, root, vb, x) => vb = va

(* The page tables below root and the page allocator. *)
VmOK(pm, T, root, n) ==
    /\ PmOK(pm) /\ DOMAIN T \cap Avail(pm) = {} /\ root \in DOMAIN T
    /\ \E lev, at : Shaped(T, lev, at) /\ lev[root] = Levels
    /\ pm.panic = "none" => FramesApart(T, pm, root, n)

VmKept(T, T2, root) == \A va \in Nat : \A x : Maps(T, root, va, x) => Maps(T2, root, va, x)

(* The page table tells the pages of the region apart. *)
LEMMA RegionFacts ==
  ASSUME NEW n \in 0 .. ModulePages
  PROVE  /\ RegionPages(n) \subseteq Nat
         /\ \A va, vb \in RegionPages(n) : SameSlots(va, vb) => va = vb
<1>1. MODULE_VBASE \in Nat /\ ModulePages \in Nat /\ MODULE_VBASE + ModulePages <= Span[Levels]
  BY RegionAssumption
<1>2. Span[Levels] \in Nat
  BY Spans, LevelsAssumption
<1>3. \A va \in RegionPages(n) : va \in Nat /\ va < Span[Levels]
  BY <1>1, <1>2 DEF RegionPages
<1>4. ASSUME NEW va \in RegionPages(n), NEW vb \in RegionPages(n), SameSlots(va, vb) PROVE va = vb
  BY <1>3, <1>4, SameIndexes DEF SameSlots
<1>. QED BY <1>3, <1>4

(* A page from the allocator is mapped, the next one of the region or any  *)
(* other; if that fails it can be given back.                              *)
LEMMA MapFresh ==
  ASSUME NEW pm, NEW T, NEW root, NEW n \in 0 .. ModulePages, VmOK(pm, T, root, n),
         NEW new, new = pmm_alloc(pm), new.ret # NULL, NEW va \in Nat,
         NEW v, v = vmm_map([pm |-> new.pm, tables |-> T], root, va, new.ret, {"W"}),
         NEW n2 \in 0 .. ModulePages, n2 = n \/ (n2 = n + 1 /\ va = MODULE_VBASE + n)
  PROVE  /\ VmOK(v.m.pm, v.m.tables, root, n2) /\ PmStep(pm, v.m.pm) /\ VmKept(T, v.m.tables, root)
         /\ ~ v.ok => /\ VmOK(pmm_free(v.m.pm, new.ret), v.m.tables, root, n)
                      /\ PmStep(pm, pmm_free(v.m.pm, new.ret))
         /\ v.m = [pm |-> v.m.pm, tables |-> v.m.tables]
<1>. DEFINE x0 == new.ret
            pm1 == new.pm
            T2 == v.m.tables
            pm2 == v.m.pm
            mm1 == [pm |-> pm1, tables |-> T]
<1>1. /\ x0 \in Avail(pm) /\ x0 \in Nat
      /\ PmStep(pm, pm1) /\ pm1.panic = pm.panic /\ Avail(pm1) = Avail(pm) \ {x0}
  <2>1. PmOK(pm)
    BY DEF VmOK
  <2>. QED BY <2>1, Allocates
<1>2. PICK lev, at : Shaped(T, lev, at) /\ lev[root] = Levels
  BY DEF VmOK
<1>3. DOMAIN T \cap Avail(pm) = {} /\ root \in DOMAIN T
  BY DEF VmOK
<1>4. MapResult(v, pm1, T, lev, at, root, va, x0)
  <2>1. DOMAIN T \cap Avail(pm1) = {} /\ PmOK(pm1)
    BY <1>1, <1>3 DEF PmStep
  <2>2. {"W"} \in Perms
    BY DEF Perms
  <2>3. mm1 = [pm |-> pm1, tables |-> T] /\ v = vmm_map(mm1, root, va, x0, {"W"})
    OBVIOUS
  <2>. HIDE DEF mm1, x0, pm1
  <2>. QED BY <1>1, <1>2, <1>3, <2>1, <2>2, <2>3, MapWorks
<1>. HIDE DEF x0, pm1, T2, pm2, mm1
<1>5. /\ PmStep(pm1, pm2) /\ Avail(pm2) \subseteq Avail(pm1)
      /\ DOMAIN T2 \subseteq DOMAIN T \cup (Avail(pm1) \ Avail(pm2))
      /\ Kept(T, T2)
      /\ \A vb \in Nat : \A x : Maps(T2, root, vb, x) =>
           Maps(T, root, vb, x) \/ (v.ok /\ x = x0 /\ SameSlots(va, vb))
      /\ \A x : Maps(T, root, va, x) => pm2.panic # "none"
  BY <1>4 DEF MapResult, T2, pm2
<1>6. \E lev2, at2 : Shaped(T2, lev2, at2) /\ lev2[root] = Levels
  <2>1. PICK lev2, at2 : Shaped(T2, lev2, at2) /\ \A f \in DOMAIN T : lev2[f] = lev[f] /\ at2[f] = at[f]
    BY <1>4 DEF MapResult, T2
  <2>. QED BY <1>2, <1>3, <2>1
<1>7. root \in DOMAIN T2 /\ DOMAIN T2 \cap Avail(pm2) = {} /\ x0 \notin DOMAIN T2 /\ x0 \notin Avail(pm2)
  BY <1>1, <1>3, <1>5 DEF Kept
<1>8. PmStep(pm, pm2)
  BY <1>1, <1>5 DEF PmStep
<1>9. ASSUME NEW vb \in Nat, NEW x, Maps(T, root, vb, x) PROVE Maps(T2, root, vb, x)
  BY <1>5, <1>9, KeptMaps
<1>10. ASSUME pm2.panic = "none" PROVE FramesApart(T, pm, root, n)
  BY <1>8, <1>10 DEF VmOK, PmStep
<1>11. RegionPages(n) \subseteq RegionPages(n2) /\ RegionPages(n2) \subseteq Nat
  <2>1. MODULE_VBASE \in Nat /\ ModulePages \in Nat
    BY RegionAssumption
  <2>. QED BY <2>1 DEF RegionPages
<1>12. ASSUME NEW vb \in RegionPages(n2), NEW x, Maps(T, root, vb, x), pm2.panic = "none"
       PROVE  vb \in RegionPages(n)
  <2>1. MODULE_VBASE \in Nat /\ ModulePages \in Nat
    BY RegionAssumption
  <2>2. vb # va
    BY <1>5, <1>12
  <2>. QED BY <2>1, <2>2 DEF RegionPages
<1>13. ASSUME pm2.panic = "none", NEW vb \in RegionPages(n2), NEW x, Maps(T2, root, vb, x)
       PROVE  /\ x \notin Avail(pm2) /\ x \notin DOMAIN T2
              /\ \A vc \in RegionPages(n2) : Maps(T2, root, vc, x) => vc = vb
              /\ ~ v.ok => x # x0
  <2>1. vb \in Nat
    BY <1>11
  <2>2. CASE Maps(T, root, vb, x)
    <3>1. vb \in RegionPages(n)
      BY <1>12, <1>13, <2>2
    <3>2. /\ x \notin Avail(pm) /\ x \notin DOMAIN T
          /\ \A vc \in RegionPages(n) : Maps(T, root, vc, x) => vc = vb
      BY <1>10, <1>13, <2>2, <3>1 DEF FramesApart
    <3>3. x # x0
      BY <1>1, <3>2
    <3>4. ASSUME NEW vc \in RegionPages(n2), Maps(T2, root, vc, x) PROVE vc = vb
      <4>1. Maps(T, root, vc, x)
        BY <1>5, <1>11, <3>3, <3>4
      <4>2. vc \in RegionPages(n)
        BY <1>12, <1>13, <4>1
      <4>. QED BY <3>2, <4>1, <4>2
    <3>. QED BY <1>1, <1>5, <3>2, <3>3, <3>4
  <2>3. CASE v.ok /\ x = x0 /\ SameSlots(va, vb)
    <3>1. ASSUME NEW vc \in RegionPages(n2), Maps(T2, root, vc, x) PROVE vc = vb
      <4>1. ~ Maps(T, root, vc, x)
        <5>1. SUFFICES ASSUME Maps(T, root, vc, x) PROVE FALSE
          OBVIOUS
        <5>2. vc \in RegionPages(n)
          BY <1>12, <1>13, <5>1
        <5>. QED BY <1>1, <1>10, <1>13, <2>3, <5>1, <5>2 DEF FramesApart
      <4>2. SameSlots(va, vc)
        BY <1>5, <1>11, <3>1, <4>1
      <4>3. SameSlots(vb, vc)
        BY <2>3, <4>2 DEF SameSlots
      <4>. QED BY <4>3, RegionFacts
    <3>. QED BY <1>7, <2>3, <3>1
  <2>. QED BY <1>5, <1>13, <2>1, <2>2, <2>3
<1>14. VmOK(pm2, T2, root, n2)
  BY <1>6, <1>7, <1>8, <1>13 DEF VmOK, FramesApart, PmStep
<1>15. VmKept(T, T2, root)
  BY <1>9 DEF VmKept
<1>16. ASSUME ~ v.ok PROVE VmOK(pmm_free(pm2, x0), T2, root, n) /\ PmStep(pm, pmm_free(pm2, x0))
  <2>. DEFINE pm3 == pmm_free(pm2, x0)
  <2>1. PmStep(pm2, pm3) /\ Avail(pm3) \subseteq Avail(pm2) \cup {x0}
    <3>1. PmOK(pm2)
      BY <1>8 DEF PmStep
    <3>. QED BY <1>1, <3>1, Frees
  <2>. HIDE DEF pm3
  <2>2. PmStep(pm, pm3)
    BY <1>8, <2>1 DEF PmStep
  <2>3. ASSUME pm3.panic = "none" PROVE FramesApart(T2, pm3, root, n)
    <3>1. pm2.panic = "none"
      BY <2>1, <2>3 DEF PmStep
    <3>2. ASSUME NEW vb \in RegionPages(n), NEW x, Maps(T2, root, vb, x)
          PROVE  /\ x \notin Avail(pm3) /\ x \notin DOMAIN T2
                 /\ \A vc \in RegionPages(n) : Maps(T2, root, vc, x) => vc = vb
      BY <1>11, <1>13, <1>16, <2>1, <3>1, <3>2
    <3>. QED BY <3>2 DEF FramesApart
  <2>4. VmOK(pm3, T2, root, n)
    BY <1>6, <1>7, <2>1, <2>2, <2>3 DEF VmOK, PmStep
  <2>. QED BY <2>2, <2>4 DEF pm3
<1>17. v.m = [pm |-> v.m.pm, tables |-> v.m.tables]
  BY <1>4 DEF MapResult
<1>. QED BY <1>8, <1>14, <1>15, <1>16, <1>17 DEF T2, pm2, x0

(* One turn of kheap_expand_to_addr(). *)
HeapTurn(s, root, addr) ==
    IF ~ s.ok \/ s.m.hp.max >= UpToPage(addr) THEN s
    ELSE IF vmm_is_mapped(s.m.tables, root, PageOf(s.m.hp.max)) THEN [s EXCEPT !.m = Grown(@)]
    ELSE AddHeapPage(s.m, root, pmm_alloc(s.m.pm))

(* Its turns. *)
HeapLoop(step, mm, root, addr) ==
    /\ kheap_expand_to_addr(mm, root, addr) = step[HeapMaxPages]
    /\ step[0] = [m |-> mm, ok |-> UpToPage(addr) <= heap_limit]
    /\ \A n \in 1 .. HeapMaxPages : step[n] = HeapTurn(step[n - 1], root, addr)

(* The turns of kheap_expand_to_addr(). *)
LEMMA HeapTurns ==
  ASSUME NEW mm, NEW root, NEW addr PROVE \E step : HeapLoop(step, mm, root, addr)
<1>0. HeapMaxPages \in Nat
  BY HeapAssumption
<1>. DEFINE first == [m |-> mm, ok |-> UpToPage(addr) <= heap_limit]
            Body(s, n) == HeapTurn(s, root, addr)
            IsStep(g, k) == g = [n \in 0 .. k |-> IF n = 0 THEN first ELSE Body(g[n - 1], n)]
            S == {k \in 0 .. HeapMaxPages : \E g : IsStep(g, k)}
            step == CHOOSE g : IsStep(g, HeapMaxPages)
<1>1. kheap_expand_to_addr(mm, root, addr) = step[HeapMaxPages]
  BY DEF kheap_expand_to_addr, HeapTurn
<1>. HIDE DEF first, Body
<1>2. 0 \in S
  <2>1. IsStep([n \in 0 .. 0 |-> first], 0)
    OBVIOUS
  <2>2. \E g : IsStep(g, 0)
    BY <2>1
  <2>. QED BY <1>0, <2>2
<1>3. ASSUME NEW k \in 0 .. HeapMaxPages, k \in S, k < HeapMaxPages PROVE k + 1 \in S
  <2>1. PICK g : IsStep(g, k)
    BY <1>3
  <2>. DEFINE h == [n \in 0 .. k + 1 |-> IF n = k + 1 THEN Body(g[k], k + 1) ELSE g[n]]
  <2>2. \A n \in 0 .. k : g[n] = IF n = 0 THEN first ELSE Body(g[n - 1], n)
    BY <2>1
  <2>3. ASSUME NEW n \in 0 .. k + 1 PROVE h[n] = IF n = 0 THEN first ELSE Body(h[n - 1], n)
    <3>1. CASE n = k + 1
      <4>1. n # 0 /\ h[n] = Body(g[k], k + 1) /\ h[n - 1] = g[k]
        BY <1>0, <3>1
      <4>. QED BY <3>1, <4>1
    <3>2. CASE n # k + 1
      <4>1. n \in 0 .. k /\ h[n] = g[n] /\ (n # 0 => h[n - 1] = g[n - 1])
        BY <1>0, <3>2
      <4>. QED BY <2>2, <4>1
    <3>. QED BY <3>1, <3>2
  <2>4. IsStep(h, k + 1)
    BY <2>3
  <2>5. \E f : IsStep(f, k + 1)
    BY <2>4
  <2>. QED BY <1>0, <1>3, <2>5
<1>4. IsStep(step, HeapMaxPages)
  <2>1. S \in SUBSET (0 .. HeapMaxPages)
    OBVIOUS
  <2>. HIDE DEF S
  <2>2. HeapMaxPages \in S
    BY <1>0, <1>2, <1>3, <2>1, UpFrom
  <2>3. \E g : IsStep(g, HeapMaxPages)
    BY <2>2 DEF S
  <2>. HIDE DEF IsStep
  <2>. QED BY <2>3
<1>. HIDE DEF step
<1>5. \A n \in 0 .. HeapMaxPages : step[n] = IF n = 0 THEN first ELSE Body(step[n - 1], n)
  BY <1>4
<1>6. step[0] = first /\ \A n \in 1 .. HeapMaxPages : step[n] = Body(step[n - 1], n)
  BY <1>0, <1>5
<1>7. HeapLoop(step, mm, root, addr)
  BY <1>1, <1>6, Zenon DEF HeapLoop, first, Body
<1>. QED BY <1>7

(* The kernel's memory, module region included. *)
MemFields == {"pm", "tables", "hp", "brk", "mapped", "lost"}
Mapped(mm, n) == n \in 0 .. ModulePages /\ mm.mapped = n * UnitsPerPage
MemOK(mm, root) ==
    /\ DOMAIN mm = MemFields /\ DOMAIN mm.hp = {"max", "blocks"} /\ mm.hp.max \in Nat
    /\ mm.brk \in Nat /\ mm.brk <= mm.mapped
    /\ \E n : Mapped(mm, n) /\ VmOK(mm.pm, mm.tables, root, n)

(* What a step that does not concern the module region keeps. *)
MemKept(mm, mm2, root) ==
    /\ PmStep(mm.pm, mm2.pm) /\ VmKept(mm.tables, mm2.tables, root)
    /\ mm2.brk = mm.brk /\ mm2.mapped = mm.mapped
MemStep(mm, mm2, root) == MemOK(mm2, root) /\ MemKept(mm, mm2, root)

(* Two steps. *)
LEMMA MemTwice ==
  ASSUME NEW mm, NEW mm1, NEW mm2, NEW root, MemStep(mm, mm1, root), MemStep(mm1, mm2, root)
  PROVE  MemStep(mm, mm2, root)
BY DEF MemStep, MemKept, VmKept, PmStep

(* No step. *)
LEMMA MemSame == ASSUME NEW mm, NEW root, MemOK(mm, root) PROVE MemStep(mm, mm, root)
BY DEF MemStep, MemKept, VmKept, PmStep, MemOK, VmOK

(* Only the heap's records change, or the kernel panics. *)
LEMMA MemHeap ==
  ASSUME NEW mm, NEW root, MemOK(mm, root), NEW hp, DOMAIN hp = {"max", "blocks"}, hp.max \in Nat
  PROVE  MemStep(mm, [mm EXCEPT !.hp = hp], root)
<1>. DEFINE mm2 == [mm EXCEPT !.hp = hp]
<1>1. /\ DOMAIN mm2 = MemFields /\ mm2.hp = hp /\ mm2.pm = mm.pm /\ mm2.tables = mm.tables
      /\ mm2.brk = mm.brk /\ mm2.mapped = mm.mapped
  BY DEF MemOK, MemFields
<1>. HIDE DEF mm2
<1>2. MemOK(mm2, root)
  BY <1>1 DEF MemOK, Mapped
<1>3. MemKept(mm, mm2, root)
  BY <1>1 DEF MemKept, VmKept, PmStep, MemOK, VmOK
<1>. QED BY <1>2, <1>3 DEF MemStep, mm2

(* A panic leaves memory as it is. *)
LEMMA MemPanic ==
  ASSUME NEW mm, NEW root, MemOK(mm, root), NEW what, what # "none"
  PROVE  MemStep(mm, [mm EXCEPT !.pm = Panic(@, what)], root)
<1>. DEFINE pm2 == Panic(mm.pm, what)
            mm2 == [mm EXCEPT !.pm = pm2]
<1>0. PICK n : Mapped(mm, n) /\ VmOK(mm.pm, mm.tables, root, n)
  BY DEF MemOK
<1>1. DOMAIN pm2 = DOMAIN mm.pm /\ pm2.total = mm.pm.total /\ pm2.used = mm.pm.used /\ pm2.panic = what
  BY <1>0 DEF VmOK, PmOK, Panic
<1>. HIDE DEF pm2
<1>2. /\ DOMAIN mm2 = MemFields /\ mm2.hp = mm.hp /\ mm2.pm = pm2 /\ mm2.tables = mm.tables
      /\ mm2.brk = mm.brk /\ mm2.mapped = mm.mapped
  BY DEF MemOK, MemFields
<1>. HIDE DEF mm2
<1>3. Avail(pm2) = Avail(mm.pm)
  BY <1>1 DEF Avail
<1>4. VmOK(pm2, mm.tables, root, n) /\ PmStep(mm.pm, pm2)
  BY <1>0, <1>1, <1>3 DEF VmOK, PmOK, PmStep
<1>5. MemOK(mm2, root)
  BY <1>0, <1>2, <1>4 DEF MemOK, Mapped
<1>6. MemKept(mm, mm2, root)
  BY <1>2, <1>4 DEF MemKept, VmKept
<1>. QED BY <1>5, <1>6 DEF MemStep, mm2, pm2

(* The tables and the allocator change. *)
LEMMA MemVmm ==
  ASSUME NEW mm, NEW root, MemOK(mm, root), NEW v, NEW n, Mapped(mm, n), VmOK(v.pm, v.tables, root, n),
         PmStep(mm.pm, v.pm), VmKept(mm.tables, v.tables, root)
  PROVE  MemStep(mm, WithVmm(mm, v), root)
<1>. DEFINE mm2 == WithVmm(mm, v)
<1>1. /\ DOMAIN mm2 = MemFields /\ mm2.hp = mm.hp /\ mm2.pm = v.pm /\ mm2.tables = v.tables
      /\ mm2.brk = mm.brk /\ mm2.mapped = mm.mapped
  BY DEF MemOK, MemFields, WithVmm
<1>. HIDE DEF mm2
<1>2. MemOK(mm2, root)
  BY <1>1 DEF MemOK, Mapped
<1>3. MemKept(mm, mm2, root)
  BY <1>1 DEF MemKept
<1>. QED BY <1>2, <1>3 DEF MemStep, mm2

(* The heap counts one more page. *)
LEMMA HeapGrown == ASSUME NEW mm, NEW root, MemOK(mm, root) PROVE MemStep(mm, Grown(mm), root)
<1>. DEFINE hp == [mm.hp EXCEPT !.max = @ + UnitsPerPage]
<1>1. UnitsPerPage \in Nat
  BY HeapAssumption
<1>2. DOMAIN hp = {"max", "blocks"} /\ hp.max \in Nat
  BY <1>1 DEF MemOK
<1>3. Grown(mm) = [mm EXCEPT !.hp = hp]
  BY DEF Grown
<1>. HIDE DEF hp
<1>. QED BY <1>2, <1>3, MemHeap

(* An address has a page. *)
LEMMA PageNumber == ASSUME NEW a \in Nat PROVE a \div UnitsPerPage \in Nat /\ PageOf(a) \in Nat
<1>1. UnitsPerPage \in Nat \ {0} /\ KHEAP_VBASE \in Nat
  BY HeapAssumption
<1>2. \A u \in Nat \ {0} : a \div u \in Nat
  OBVIOUS
<1>. QED BY <1>1, <1>2 DEF PageOf

(* A page is mapped for the heap, or the frame is given back. *)
LEMMA HeapPageAdded ==
  ASSUME NEW mm, NEW root, MemOK(mm, root)
  PROVE  LET r == AddHeapPage(mm, root, pmm_alloc(mm.pm)) IN
         MemStep(mm, r.m, root) /\ DOMAIN r = {"m", "ok"}
<1>. DEFINE new == pmm_alloc(mm.pm)
            va == PageOf(mm.hp.max)
            v == vmm_map([pm |-> new.pm, tables |-> mm.tables], root, va, new.ret, {"W"})
            r == AddHeapPage(mm, root, new)
<1>0. PICK n : Mapped(mm, n) /\ VmOK(mm.pm, mm.tables, root, n)
  BY DEF MemOK
<1>1. CASE new.ret = NULL
  <2>1. r.m = mm /\ DOMAIN r = {"m", "ok"}
    BY <1>1 DEF AddHeapPage
  <2>. QED BY <2>1, MemSame
<1>2. CASE new.ret # NULL
  <2>1. va \in Nat
    BY PageNumber DEF MemOK
  <2>2. /\ VmOK(v.m.pm, v.m.tables, root, n) /\ PmStep(mm.pm, v.m.pm) /\ VmKept(mm.tables, v.m.tables, root)
        /\ ~ v.ok => /\ VmOK(pmm_free(v.m.pm, new.ret), v.m.tables, root, n)
                     /\ PmStep(mm.pm, pmm_free(v.m.pm, new.ret))
        /\ v.m = [pm |-> v.m.pm, tables |-> v.m.tables]
    <3>. HIDE DEF new, va, v
    <3>1. n \in 0 .. ModulePages
      BY <1>0 DEF Mapped
    <3>2. new = pmm_alloc(mm.pm) /\ v = vmm_map([pm |-> new.pm, tables |-> mm.tables], root, va, new.ret, {"W"})
      BY DEF new, v
    <3>. QED BY <1>0, <1>2, <2>1, <3>1, <3>2, MapFresh
  <2>3. r = MapHeapPage(mm, new.ret, v)
    BY <1>2 DEF AddHeapPage
  <2>. HIDE DEF v, r, new
  <2>4. CASE v.ok
    <3>1. MemStep(mm, WithVmm(mm, v.m), root)
      BY <1>0, <2>2, MemVmm
    <3>2. MemStep(WithVmm(mm, v.m), Grown(WithVmm(mm, v.m)), root)
      BY <3>1, HeapGrown DEF MemStep
    <3>3. r.m = Grown(WithVmm(mm, v.m)) /\ DOMAIN r = {"m", "ok"}
      BY <2>3, <2>4 DEF MapHeapPage
    <3>. QED BY <3>1, <3>2, <3>3, MemTwice DEF r, new
  <2>5. CASE ~ v.ok
    <3>. DEFINE w == [v.m EXCEPT !.pm = pmm_free(@, new.ret)]
    <3>1. w.pm = pmm_free(v.m.pm, new.ret) /\ w.tables = v.m.tables
      <4>1. DOMAIN v.m = {"pm", "tables"}
        BY <2>2
      <4>. QED BY <4>1
    <3>2. r.m = WithVmm(mm, w) /\ DOMAIN r = {"m", "ok"}
      BY <2>3, <2>5 DEF MapHeapPage
    <3>. HIDE DEF w
    <3>3. MemStep(mm, WithVmm(mm, w), root)
      BY <1>0, <2>2, <2>5, <3>1, MemVmm
    <3>. QED BY <3>2, <3>3 DEF r, new
  <2>. QED BY <2>4, <2>5
<1>. QED BY <1>1, <1>2

(* kheap_expand_to_addr(). *)
LEMMA HeapExpands ==
  ASSUME NEW mm, NEW root, MemOK(mm, root), NEW addr
  PROVE  MemStep(mm, kheap_expand_to_addr(mm, root, addr).m, root)
<1>0. HeapMaxPages \in Nat
  BY HeapAssumption
<1>1. PICK step : HeapLoop(step, mm, root, addr)
  BY HeapTurns
<1>. DEFINE OK(s) == MemStep(mm, s.m, root) /\ DOMAIN s = {"m", "ok"}
            S == {n \in 0 .. HeapMaxPages : OK(step[n])}
<1>2. 0 \in S
  <2>1. step[0].m = mm /\ DOMAIN step[0] = {"m", "ok"}
    BY <1>1 DEF HeapLoop
  <2>. QED BY <1>0, <2>1, MemSame
<1>3. ASSUME NEW n \in 0 .. HeapMaxPages, n \in S, n < HeapMaxPages PROVE n + 1 \in S
  <2>. DEFINE s == step[n]
  <2>1. n + 1 \in 1 .. HeapMaxPages /\ (n + 1) - 1 = n
    BY <1>0, <1>3
  <2>2. step[n + 1] = HeapTurn(s, root, addr)
    BY <1>1, <2>1 DEF HeapLoop
  <2>3. OK(s)
    BY <1>3
  <2>. HIDE DEF s
  <2>4. OK(HeapTurn(s, root, addr))
    <3>0. MemOK(s.m, root)
      BY <2>3 DEF MemStep
    <3>1. CASE HeapTurn(s, root, addr) = s
      BY <2>3, <3>1
    <3>2. CASE HeapTurn(s, root, addr) = [s EXCEPT !.m = Grown(@)]
      <4>1. [s EXCEPT !.m = Grown(@)].m = Grown(s.m) /\ DOMAIN [s EXCEPT !.m = Grown(@)] = {"m", "ok"}
        BY <2>3
      <4>2. MemStep(mm, Grown(s.m), root)
        BY <2>3, <3>0, HeapGrown, MemTwice
      <4>. QED BY <3>2, <4>1, <4>2
    <3>3. CASE HeapTurn(s, root, addr) = AddHeapPage(s.m, root, pmm_alloc(s.m.pm))
      <4>. DEFINE r == AddHeapPage(s.m, root, pmm_alloc(s.m.pm))
      <4>1. MemStep(s.m, r.m, root) /\ DOMAIN r = {"m", "ok"}
        BY <3>0, HeapPageAdded
      <4>. HIDE DEF r
      <4>2. OK(r)
        BY <2>3, <4>1, MemTwice
      <4>. QED BY <3>3, <4>2 DEF r
    <3>. QED BY <3>1, <3>2, <3>3 DEF HeapTurn
  <2>. HIDE DEF OK
  <2>. QED BY <2>1, <2>2, <2>4
<1>4. S \in SUBSET (0 .. HeapMaxPages)
  OBVIOUS
<1>. HIDE DEF S
<1>5. HeapMaxPages \in S
  BY <1>0, <1>2, <1>3, <1>4, UpFrom
<1>6. OK(step[HeapMaxPages])
  BY <1>5 DEF S
<1>7. kheap_expand_to_addr(mm, root, addr) = step[HeapMaxPages]
  BY <1>1 DEF HeapLoop
<1>. QED BY <1>6, <1>7

(* The list of blocks changes. *)
LEMMA HeapBlocks ==
  ASSUME NEW mm, NEW root, MemOK(mm, root), NEW bs
  PROVE  MemStep(mm, [mm EXCEPT !.hp.blocks = bs], root)
<1>. DEFINE hp == [mm.hp EXCEPT !.blocks = bs]
<1>1. DOMAIN hp = {"max", "blocks"} /\ hp.max \in Nat
  BY DEF MemOK
<1>2. [mm EXCEPT !.hp.blocks = bs] = [mm EXCEPT !.hp = hp]
  OBVIOUS
<1>. HIDE DEF hp
<1>. QED BY <1>1, <1>2, MemHeap

(* kmalloc() disturbs no mapping. *)
LEMMA Kmallocs ==
  ASSUME NEW mm, NEW root, MemOK(mm, root), NEW size
  PROVE  MemStep(mm, kmalloc(mm, root, size).m, root)
<1>. DEFINE r == kmalloc(mm, root, size)
            needed == size + HEADER
            bs == mm.hp.blocks
            fits == {i \in DOMAIN bs : bs[i].free /\ bs[i].size >= needed}
            top == bs[Len(bs)].addr + bs[Len(bs)].size
<1>1. \/ r = [m |-> mm, ret |-> NULL]
      \/ r = TakeBlock(mm, Min(fits), needed)
      \/ r = AppendBlock(mm, root, top, needed)
  BY DEF kmalloc
<1>. HIDE DEF r, fits, top, needed
<1>2. CASE r = [m |-> mm, ret |-> NULL]
  BY <1>2, MemSame DEF r
<1>3. CASE r = TakeBlock(mm, Min(fits), needed)
  <2>1. r.m = [mm EXCEPT !.hp.blocks = Take(mm.hp.blocks, Min(fits), needed)]
    BY <1>3 DEF TakeBlock
  <2>. QED BY <2>1, HeapBlocks DEF r
<1>4. CASE r = AppendBlock(mm, root, top, needed)
  <2>. DEFINE g == kheap_expand_to_addr(mm, root, top + needed)
  <2>1. \/ r = [m |-> mm, ret |-> NULL]
        \/ r = [m |-> g.m, ret |-> NULL]
        \/ r = [m |-> [g.m EXCEPT !.hp.blocks = Append(g.m.hp.blocks, Used(top, needed))], ret |-> top + HEADER]
    BY <1>4 DEF AppendBlock, NewBlock
  <2>2. MemStep(mm, g.m, root)
    BY HeapExpands
  <2>. HIDE DEF g
  <2>3. MemStep(g.m, [g.m EXCEPT !.hp.blocks = Append(g.m.hp.blocks, Used(top, needed))], root)
    BY <2>2, HeapBlocks DEF MemStep
  <2>4. MemStep(mm, [g.m EXCEPT !.hp.blocks = Append(g.m.hp.blocks, Used(top, needed))], root)
    BY <2>2, <2>3, MemTwice
  <2>. QED BY SMTT(60), <1>2, <2>1, <2>2, <2>4 DEF r
<1>. QED BY <1>1, <1>2, <1>3, <1>4

(* Nor does kfree(). *)
LEMMA Kfrees ==
  ASSUME NEW mm, NEW root, MemOK(mm, root), NEW ptr
  PROVE  MemStep(mm, kfree(mm, ptr), root)
<1>. DEFINE r == kfree(mm, ptr)
            bs == mm.hp.blocks
            at == {i \in DOMAIN bs : bs[i].addr = ptr - HEADER}
<1>1. \/ r = mm
      \/ r = [mm EXCEPT !.pm = Panic(@, "kfree of no block")]
      \/ r = [mm EXCEPT !.pm = Panic(@, "kfree twice")]
      \/ r = [mm EXCEPT !.hp.blocks = MergeBlocks(mm.hp.blocks, Min(at))]
  BY DEF kfree
<1>. HIDE DEF r, at
<1>2. CASE r = mm
  BY <1>2, MemSame DEF r
<1>3. CASE r = [mm EXCEPT !.pm = Panic(@, "kfree of no block")]
  BY ZenonT(60), <1>3, MemPanic DEF r
<1>4. CASE r = [mm EXCEPT !.pm = Panic(@, "kfree twice")]
  BY ZenonT(60), <1>4, MemPanic DEF r
<1>5. CASE r = [mm EXCEPT !.hp.blocks = MergeBlocks(mm.hp.blocks, Min(at))]
  BY <1>5, HeapBlocks DEF r
<1>. QED BY <1>1, <1>2, <1>3, <1>4, <1>5

(* Nor thread_destroy(). *)
LEMMA Destroys ==
  ASSUME NEW mm, NEW root, MemOK(mm, root), NEW t
  PROVE  MemStep(mm, thread_destroy(mm, t), root)
<1>. DEFINE a == kfree(mm, t.argv)
            b == kfree(a, t.elf)
            c == kfree(b, t.kstack)
            d == kfree(c, t.tcb)
<1>0. thread_destroy(mm, t) = d
  BY DEF thread_destroy
<1>1. MemStep(mm, a, root)
  BY Kfrees
<1>. HIDE DEF a
<1>2. MemStep(mm, b, root)
  BY <1>1, Kfrees, MemTwice DEF MemStep
<1>. HIDE DEF b
<1>3. MemStep(mm, c, root)
  BY <1>2, Kfrees, MemTwice DEF MemStep
<1>. HIDE DEF c
<1>4. MemStep(mm, d, root)
  BY <1>3, Kfrees, MemTwice DEF MemStep
<1>. QED BY <1>0, <1>4

(* Pages and units. *)
LEMMA MulDiv == ASSUME NEW n \in Nat, NEW u \in Nat \ {0} PROVE (n * u) \div u = n
<1>. DEFINE q == (n * u) \div u
<1>1. n * u \in Nat
  OBVIOUS
<1>2. \A a \in Nat : a \div u \in Nat /\ u * (a \div u) <= a /\ a < u * (a \div u) + u
  OBVIOUS
<1>3. q \in Nat /\ u * q <= n * u /\ n * u < u * q + u
  BY <1>1, <1>2
<1>. HIDE DEF q
<1>4. CASE q < n
  <2>1. u * (q + 1) <= u * n
    BY <1>3, <1>4
  <2>. QED BY <1>3, <2>1
<1>5. CASE q > n
  <2>1. u * (n + 1) <= u * q
    BY <1>3, <1>5
  <2>. QED BY <1>3, <2>1
<1>. QED BY <1>3, <1>4, <1>5 DEF q

(* The page of an address below a whole number of pages. *)
LEMMA DivLess ==
  ASSUME NEW a \in Nat, NEW n \in Nat, NEW u \in Nat \ {0}, a < n * u PROVE a \div u \in Nat /\ a \div u < n
<1>. DEFINE q == a \div u
<1>1. q \in Nat /\ u * q <= a
  OBVIOUS
<1>. HIDE DEF q
<1>2. CASE q >= n
  <2>1. u * n <= u * q
    BY <1>1, <1>2
  <2>. QED BY <1>1, <2>1
<1>. QED BY <1>1, <1>2 DEF q

(* A higher address has no lower page. *)
LEMMA DivMono ==
  ASSUME NEW a \in Nat, NEW b \in Nat, NEW u \in Nat \ {0}, a <= b PROVE a \div u <= b \div u
<1>. DEFINE p == a \div u
            q == b \div u
<1>1. p \in Nat /\ u * p <= a /\ q \in Nat /\ b < u * q + u
  OBVIOUS
<1>. HIDE DEF p, q
<1>2. CASE p > q
  <2>1. u * (q + 1) <= u * p
    BY <1>1, <1>2
  <2>. QED BY <1>1, <2>1
<1>. QED BY <1>1, <1>2 DEF p, q

(* Rounding up to pages. *)
LEMMA UpBounds ==
  ASSUME NEW t \in Nat PROVE UpToPage(t) \in Nat /\ t <= UpToPage(t) /\ \A n \in Nat : t <= n * UnitsPerPage => UpToPage(t) <= n * UnitsPerPage
<1>. DEFINE u == UnitsPerPage
            q == (t + u - 1) \div u
<1>0. u \in Nat \ {0}
  BY HeapAssumption
<1>1. UpToPage(t) = q * u
  BY DEF UpToPage
<1>. HIDE DEF u
<1>2. q \in Nat /\ u * q <= t + u - 1 /\ t + u - 1 < u * q + u
  <2>1. t + u - 1 \in Nat
    BY <1>0
  <2>2. \A a \in Nat : a \div u \in Nat /\ u * (a \div u) <= a /\ a < u * (a \div u) + u
    BY <1>0
  <2>. QED BY <2>1, <2>2
<1>. HIDE DEF q
<1>3. q * u \in Nat /\ q * u = u * q
  BY <1>0, <1>2
<1>4. ASSUME NEW n \in Nat, t <= n * u PROVE q * u <= n * u
  <2>1. n * u \in Nat /\ n * u = u * n
    BY <1>0
  <2>2. CASE q > n
    <3>1. u * (n + 1) <= u * q
      BY <1>0, <1>2, <2>2
    <3>2. u * (n + 1) = n * u + u
      BY <1>0, <2>1
    <3>. QED BY <1>0, <1>2, <1>4, <2>1, <3>1, <3>2
  <2>3. CASE q <= n
    <3>1. u * q <= u * n
      BY <1>0, <1>2, <2>3
    <3>. QED BY <1>3, <2>1, <3>1
  <2>. QED BY <1>2, <2>2, <2>3
<1>. QED BY <1>0, <1>1, <1>2, <1>3, <1>4 DEF u

(* One turn of module_expand_to(). *)
RegionTurn(s, target) ==
    IF ~ s.ok \/ s.m.mapped >= UpToPage(target) THEN s
    ELSE IF s.m.mapped > module_max - (UnitsPerPage - 1) THEN [s EXCEPT !.ok = FALSE]
    ELSE AddModulePage(s, pmm_alloc(s.m.pm))

(* Its turns. *)
RegionLoop(step, mm, target) ==
    /\ module_expand_to(mm, target) = step[ModulePages]
    /\ step[0] = [m |-> mm, ok |-> TRUE]
    /\ \A n \in 1 .. ModulePages : step[n] = RegionTurn(step[n - 1], target)

(* The turns of module_expand_to(). *)
LEMMA RegionTurns ==
  ASSUME NEW mm, NEW target PROVE \E step : RegionLoop(step, mm, target)
<1>0. ModulePages \in Nat
  BY RegionAssumption
<1>. DEFINE first == [m |-> mm, ok |-> TRUE]
            Body(s, n) == RegionTurn(s, target)
            IsStep(g, k) == g = [n \in 0 .. k |-> IF n = 0 THEN first ELSE Body(g[n - 1], n)]
            S == {k \in 0 .. ModulePages : \E g : IsStep(g, k)}
            step == CHOOSE g : IsStep(g, ModulePages)
<1>1. module_expand_to(mm, target) = step[ModulePages]
  BY DEF module_expand_to, RegionTurn
<1>. HIDE DEF first, Body
<1>2. 0 \in S
  <2>1. IsStep([n \in 0 .. 0 |-> first], 0)
    OBVIOUS
  <2>2. \E g : IsStep(g, 0)
    BY <2>1
  <2>. QED BY <1>0, <2>2
<1>3. ASSUME NEW k \in 0 .. ModulePages, k \in S, k < ModulePages PROVE k + 1 \in S
  <2>1. PICK g : IsStep(g, k)
    BY <1>3
  <2>. DEFINE h == [n \in 0 .. k + 1 |-> IF n = k + 1 THEN Body(g[k], k + 1) ELSE g[n]]
  <2>2. \A n \in 0 .. k : g[n] = IF n = 0 THEN first ELSE Body(g[n - 1], n)
    BY <2>1
  <2>3. ASSUME NEW n \in 0 .. k + 1 PROVE h[n] = IF n = 0 THEN first ELSE Body(h[n - 1], n)
    <3>1. CASE n = k + 1
      <4>1. n # 0 /\ h[n] = Body(g[k], k + 1) /\ h[n - 1] = g[k]
        BY <1>0, <3>1
      <4>. QED BY <3>1, <4>1
    <3>2. CASE n # k + 1
      <4>1. n \in 0 .. k /\ h[n] = g[n] /\ (n # 0 => h[n - 1] = g[n - 1])
        BY <1>0, <3>2
      <4>. QED BY <2>2, <4>1
    <3>. QED BY <3>1, <3>2
  <2>4. IsStep(h, k + 1)
    BY <2>3
  <2>5. \E f : IsStep(f, k + 1)
    BY <2>4
  <2>. QED BY <1>0, <1>3, <2>5
<1>4. IsStep(step, ModulePages)
  <2>1. S \in SUBSET (0 .. ModulePages)
    OBVIOUS
  <2>. HIDE DEF S
  <2>2. ModulePages \in S
    BY <1>0, <1>2, <1>3, <2>1, UpFrom
  <2>3. \E g : IsStep(g, ModulePages)
    BY <2>2 DEF S
  <2>. HIDE DEF IsStep
  <2>. QED BY <2>3
<1>. HIDE DEF step
<1>5. \A n \in 0 .. ModulePages : step[n] = IF n = 0 THEN first ELSE Body(step[n - 1], n)
  BY <1>4
<1>6. step[0] = first /\ \A n \in 1 .. ModulePages : step[n] = Body(step[n - 1], n)
  BY <1>0, <1>5
<1>7. RegionLoop(step, mm, target)
  BY <1>1, <1>6, Zenon DEF RegionLoop, first, Body
<1>. QED BY <1>7

(* One turn of module_alloc_rollback(). *)
BackTurn(s, n, mm, check) ==
    IF n > (mm.mapped - check[2]) \div UnitsPerPage THEN s
    ELSE FreeModulePage(s, ModulePage(check[2]) + n - 1,
           vmm_get_phys(mm.tables, kernel_pml4, ModulePage(check[2]) + n - 1))

(* Its turns. *)
BackLoop(step, mm, check) ==
    /\ module_alloc_rollback(mm, check) = (IF check[1] > mm.brk \/ check[2] > mm.mapped \/ check[2] < check[1] THEN mm ELSE step[ModulePages])
    /\ step[0] = Restored(mm, check)
    /\ \A n \in 1 .. ModulePages : step[n] = BackTurn(step[n - 1], n, mm, check)

(* The turns of module_alloc_rollback(). *)
LEMMA BackTurns ==
  ASSUME NEW mm, NEW check PROVE \E step : BackLoop(step, mm, check)
<1>0. ModulePages \in Nat
  BY RegionAssumption
<1>. DEFINE first == Restored(mm, check)
            Body(s, n) == BackTurn(s, n, mm, check)
            IsStep(g, k) == g = [n \in 0 .. k |-> IF n = 0 THEN first ELSE Body(g[n - 1], n)]
            S == {k \in 0 .. ModulePages : \E g : IsStep(g, k)}
            step == CHOOSE g : IsStep(g, ModulePages)
<1>1. module_alloc_rollback(mm, check) = (IF check[1] > mm.brk \/ check[2] > mm.mapped \/ check[2] < check[1] THEN mm ELSE step[ModulePages])
  BY DEF module_alloc_rollback, BackTurn
<1>. HIDE DEF first, Body
<1>2. 0 \in S
  <2>1. IsStep([n \in 0 .. 0 |-> first], 0)
    OBVIOUS
  <2>2. \E g : IsStep(g, 0)
    BY <2>1
  <2>. QED BY <1>0, <2>2
<1>3. ASSUME NEW k \in 0 .. ModulePages, k \in S, k < ModulePages PROVE k + 1 \in S
  <2>1. PICK g : IsStep(g, k)
    BY <1>3
  <2>. DEFINE h == [n \in 0 .. k + 1 |-> IF n = k + 1 THEN Body(g[k], k + 1) ELSE g[n]]
  <2>2. \A n \in 0 .. k : g[n] = IF n = 0 THEN first ELSE Body(g[n - 1], n)
    BY <2>1
  <2>3. ASSUME NEW n \in 0 .. k + 1 PROVE h[n] = IF n = 0 THEN first ELSE Body(h[n - 1], n)
    <3>1. CASE n = k + 1
      <4>1. n # 0 /\ h[n] = Body(g[k], k + 1) /\ h[n - 1] = g[k]
        BY <1>0, <3>1
      <4>. QED BY <3>1, <4>1
    <3>2. CASE n # k + 1
      <4>1. n \in 0 .. k /\ h[n] = g[n] /\ (n # 0 => h[n - 1] = g[n - 1])
        BY <1>0, <3>2
      <4>. QED BY <2>2, <4>1
    <3>. QED BY <3>1, <3>2
  <2>4. IsStep(h, k + 1)
    BY <2>3
  <2>5. \E f : IsStep(f, k + 1)
    BY <2>4
  <2>. QED BY <1>0, <1>3, <2>5
<1>4. IsStep(step, ModulePages)
  <2>1. S \in SUBSET (0 .. ModulePages)
    OBVIOUS
  <2>. HIDE DEF S
  <2>2. ModulePages \in S
    BY <1>0, <1>2, <1>3, <2>1, UpFrom
  <2>3. \E g : IsStep(g, ModulePages)
    BY <2>2 DEF S
  <2>. HIDE DEF IsStep
  <2>. QED BY <2>3
<1>. HIDE DEF step
<1>5. \A n \in 0 .. ModulePages : step[n] = IF n = 0 THEN first ELSE Body(step[n - 1], n)
  BY <1>4
<1>6. step[0] = first /\ \A n \in 1 .. ModulePages : step[n] = Body(step[n - 1], n)
  BY <1>0, <1>5
<1>7. BackLoop(step, mm, check)
  BY <1>1, <1>6, Zenon DEF BackLoop, first, Body
<1>. QED BY <1>7

(* The module region may have grown. *)
Grew(mm, mm2) ==
    /\ MemOK(mm2, kernel_pml4) /\ PmStep(mm.pm, mm2.pm) /\ VmKept(mm.tables, mm2.tables, kernel_pml4)
    /\ mm2.brk >= mm.brk /\ mm2.mapped >= mm.mapped

(* The next page of the region, mapped or lost. *)
LEMMA MapPage ==
  ASSUME NEW mm, MemOK(mm, kernel_pml4), NEW n, Mapped(mm, n), n < ModulePages,
         VmOK(mm.pm, mm.tables, kernel_pml4, n), NEW new, new = pmm_alloc(mm.pm), new.ret # NULL,
         NEW mm2, mm2 = MapModulePage(mm, new.ret,
                          vmm_map([pm |-> new.pm, tables |-> mm.tables], kernel_pml4,
                                  ModulePage(mm.mapped), new.ret, {"W"}))
  PROVE  Grew(mm, mm2) /\ mm2.brk = mm.brk /\ mm2.mapped = mm.mapped + UnitsPerPage
<1>0. UnitsPerPage \in Nat \ {0} /\ MODULE_VBASE \in Nat /\ ModulePages \in Nat
  BY HeapAssumption, RegionAssumption
<1>. DEFINE va == ModulePage(mm.mapped)
            v == vmm_map([pm |-> new.pm, tables |-> mm.tables], kernel_pml4, va, new.ret, {"W"})
<1>1. n \in 0 .. ModulePages /\ n + 1 \in 0 .. ModulePages /\ mm.mapped = n * UnitsPerPage /\ n \in Nat
  BY <1>0 DEF Mapped
<1>2. va = MODULE_VBASE + n /\ va \in Nat
  BY <1>0, <1>1, MulDiv DEF ModulePage
<1>. HIDE DEF va
<1>3. /\ VmOK(v.m.pm, v.m.tables, kernel_pml4, n + 1) /\ PmStep(mm.pm, v.m.pm)
      /\ VmKept(mm.tables, v.m.tables, kernel_pml4)
  <2>1. v = vmm_map([pm |-> new.pm, tables |-> mm.tables], kernel_pml4, va, new.ret, {"W"})
    OBVIOUS
  <2>. HIDE DEF v
  <2>. QED BY ZenonT(60), <1>1, <1>2, <2>1, MapFresh
<1>4. mm2 = [WithVmm(mm, v.m) EXCEPT !.mapped = @ + UnitsPerPage,
                                     !.lost = IF v.ok THEN @ ELSE @ \cup {new.ret}]
  BY DEF MapModulePage, va
<1>. HIDE DEF v
<1>5. /\ DOMAIN mm2 = MemFields /\ mm2.hp = mm.hp /\ mm2.pm = v.m.pm /\ mm2.tables = v.m.tables
      /\ mm2.brk = mm.brk /\ mm2.mapped = mm.mapped + UnitsPerPage
  BY <1>4 DEF MemOK, MemFields, WithVmm
<1>6. mm2.mapped = (n + 1) * UnitsPerPage /\ mm.mapped \in Nat
  BY SMTT(60), <1>0, <1>1, <1>5
<1>7. MemOK(mm2, kernel_pml4)
  <2>1. Mapped(mm2, n + 1)
    BY <1>1, <1>6 DEF Mapped
  <2>2. mm.brk \in Nat /\ mm.brk <= mm.mapped
    BY DEF MemOK
  <2>3. mm2.brk <= mm2.mapped
    BY <1>0, <1>5, <1>6, <2>2
  <2>4. \E k : Mapped(mm2, k) /\ VmOK(mm2.pm, mm2.tables, kernel_pml4, k)
    BY <1>3, <1>5, <2>1
  <2>. QED BY <1>5, <2>2, <2>3, <2>4 DEF MemOK
<1>8. mm2.brk >= mm.brk /\ mm2.mapped >= mm.mapped
  BY <1>0, <1>5, <1>6 DEF MemOK
<1>. QED BY <1>3, <1>5, <1>7, <1>8 DEF Grew

(* module_expand_to() maps at least up to its target, or fails. *)
LEMMA Expands ==
  ASSUME NEW mm, MemOK(mm, kernel_pml4), NEW target \in Nat, target <= module_max + 1,
         NEW r, r = module_expand_to(mm, target)
  PROVE  /\ Grew(mm, r.m) /\ r.m.brk = mm.brk /\ DOMAIN r = {"m", "ok"}
         /\ r.ok => r.m.mapped >= target
<1>0. /\ UnitsPerPage \in Nat \ {0} /\ ModulePages \in Nat /\ ModulePages * UnitsPerPage \in Nat
      /\ module_max = ModulePages * UnitsPerPage - 1 /\ module_max + 1 = ModulePages * UnitsPerPage
  BY HeapAssumption, RegionAssumption DEF module_max
<1>1. PICK step : RegionLoop(step, mm, target)
  BY RegionTurns
<1>2. UpToPage(target) \in Nat /\ target <= UpToPage(target) /\ UpToPage(target) <= ModulePages * UnitsPerPage
  BY <1>0, UpBounds
<1>. DEFINE OK(s, n) == /\ Grew(mm, s.m) /\ s.m.brk = mm.brk /\ DOMAIN s = {"m", "ok"}
                        /\ s.ok => s.m.mapped >= UpToPage(target) \/ s.m.mapped >= n * UnitsPerPage
            S == {n \in 0 .. ModulePages : OK(step[n], n)}
<1>3. 0 \in S
  <2>1. step[0].m = mm /\ DOMAIN step[0] = {"m", "ok"}
    BY <1>1 DEF RegionLoop
  <2>2. mm.mapped \in Nat /\ mm.brk \in Nat
    BY <1>0 DEF MemOK, Mapped
  <2>3. Grew(mm, mm) /\ mm.mapped >= 0 * UnitsPerPage
    BY <1>0, <2>2 DEF Grew, VmKept, MemOK, VmOK, PmStep
  <2>. QED BY <1>0, <2>1, <2>3
<1>4. ASSUME NEW n \in 0 .. ModulePages, n \in S, n < ModulePages PROVE n + 1 \in S
  <2>. DEFINE s == step[n]
              t == RegionTurn(s, target)
  <2>1. n + 1 \in 1 .. ModulePages /\ (n + 1) - 1 = n
    BY <1>0, <1>4
  <2>2. step[n + 1] = t
    BY <1>1, <2>1 DEF RegionLoop
  <2>3. OK(s, n)
    BY <1>4
  <2>4. PICK k : Mapped(s.m, k) /\ VmOK(s.m.pm, s.m.tables, kernel_pml4, k)
    BY <2>3 DEF Grew, MemOK
  <2>. HIDE DEF s
  <2>5. s.m.mapped = k * UnitsPerPage /\ k \in Nat /\ k <= ModulePages /\ s.m.mapped \in Nat
    BY <1>0, <2>4 DEF Mapped
  <2>6. OK(t, n + 1)
    <3>1. CASE ~ s.ok \/ s.m.mapped >= UpToPage(target)
      <4>1. t = s
        BY <3>1 DEF RegionTurn
      <4>. QED BY <2>3, <3>1, <4>1
    <3>2. CASE s.ok /\ ~ (s.m.mapped >= UpToPage(target)) /\ s.m.mapped > module_max - (UnitsPerPage - 1)
      <4>1. t = [s EXCEPT !.ok = FALSE]
        BY <3>2 DEF RegionTurn
      <4>2. t.m = s.m /\ t.ok = FALSE /\ DOMAIN t = {"m", "ok"}
        BY <2>3, <4>1
      <4>. HIDE DEF t
      <4>. QED BY <2>3, <4>2
    <3>3. CASE s.ok /\ ~ (s.m.mapped >= UpToPage(target)) /\ ~ (s.m.mapped > module_max - (UnitsPerPage - 1))
      <4>. DEFINE new == pmm_alloc(s.m.pm)
      <4>1. t = AddModulePage(s, new)
        BY <3>3 DEF RegionTurn
      <4>2. CASE new.ret = NULL
        <5>1. t = [s EXCEPT !.ok = FALSE]
          BY <4>1, <4>2 DEF AddModulePage
        <5>2. t.m = s.m /\ t.ok = FALSE /\ DOMAIN t = {"m", "ok"}
          BY <2>3, <5>1
        <5>. HIDE DEF t
        <5>. QED BY <2>3, <5>2
      <4>3. CASE new.ret # NULL
        <5>. DEFINE mm2 == MapModulePage(s.m, new.ret,
                             vmm_map([pm |-> new.pm, tables |-> s.m.tables], kernel_pml4,
                                     ModulePage(s.m.mapped), new.ret, {"W"}))
        <5>1. t = [s EXCEPT !.m = mm2]
          BY <4>1, <4>3 DEF AddModulePage
        <5>2. k < ModulePages
          <6>1. k * UnitsPerPage + UnitsPerPage <= ModulePages * UnitsPerPage
            <7>1. s.m.mapped + UnitsPerPage <= ModulePages * UnitsPerPage
              BY <1>0, <2>5, <3>3
            <7>. QED BY <2>5, <7>1
          <6>2. CASE k >= ModulePages
            <7>1. ModulePages * UnitsPerPage <= k * UnitsPerPage
              BY <1>0, <2>5, <6>2
            <7>. QED BY <1>0, <2>5, <6>1, <7>1
          <6>. QED BY <1>0, <2>5, <6>2
        <5>3. Grew(s.m, mm2) /\ mm2.brk = s.m.brk /\ mm2.mapped = s.m.mapped + UnitsPerPage
          <6>1. mm2 = MapModulePage(s.m, new.ret,
                             vmm_map([pm |-> new.pm, tables |-> s.m.tables], kernel_pml4,
                                     ModulePage(s.m.mapped), new.ret, {"W"})) /\ new = pmm_alloc(s.m.pm)
            OBVIOUS
          <6>2. MemOK(s.m, kernel_pml4)
            BY <2>3 DEF Grew
          <6>. HIDE DEF mm2, new
          <6>. QED BY <2>4, <4>3, <5>2, <6>1, <6>2, MapPage
        <5>4. t.m = mm2 /\ t.ok = s.ok /\ DOMAIN t = {"m", "ok"}
          <6>. HIDE DEF mm2
          <6>. QED BY <2>3, <5>1
        <5>. HIDE DEF mm2, t
        <5>5. Grew(mm, mm2) /\ mm2.brk = mm.brk
          <6>1. mm.brk \in Nat /\ mm.mapped \in Nat
            BY <1>0 DEF MemOK, Mapped
          <6>2. mm2.mapped >= mm.mapped
            BY <1>0, <2>3, <2>5, <5>3, <6>1 DEF Grew
          <6>. QED BY <2>3, <5>3, <6>1, <6>2 DEF Grew, VmKept, PmStep
        <5>6. mm2.mapped >= (n + 1) * UnitsPerPage
          <6>1. s.m.mapped >= n * UnitsPerPage
            BY <2>3, <3>3
          <6>. QED BY <1>0, <2>5, <5>3, <6>1
        <5>. QED BY <5>4, <5>5, <5>6
      <4>. QED BY <4>2, <4>3
    <3>. QED BY <3>1, <3>2, <3>3
  <2>. HIDE DEF OK, t
  <2>7. n + 1 \in 0 .. ModulePages
    BY <2>1
  <2>. QED BY <2>2, <2>6, <2>7
<1>5. S \in SUBSET (0 .. ModulePages)
  OBVIOUS
<1>. HIDE DEF S
<1>6. ModulePages \in S
  BY <1>0, <1>3, <1>4, <1>5, UpFrom
<1>7. OK(step[ModulePages], ModulePages)
  BY <1>6 DEF S
<1>8. r = step[ModulePages]
  BY <1>1 DEF RegionLoop
<1>9. r.m.mapped \in Nat
  BY <1>0, <1>7, <1>8 DEF Grew, MemOK, Mapped
<1>. QED BY <1>0, <1>2, <1>7, <1>8, <1>9

(* module_alloc() moves brk by the size asked for, or not at all. *)
LEMMA ModuleAllocs ==
  ASSUME NEW mm, MemOK(mm, kernel_pml4), NEW size \in Nat, NEW r, r = module_alloc(mm, size)
  PROVE  /\ Grew(mm, r.m)
         /\ r.ok => r.m.brk = mm.brk + size /\ size > 0
<1>0. UnitsPerPage \in Nat \ {0} /\ ModulePages \in Nat /\ module_max \in Int /\ mm.brk \in Nat /\ mm.mapped \in Nat
  BY HeapAssumption, RegionAssumption DEF module_max, MemOK, Mapped
<1>1. CASE size = 0 \/ size - 1 > module_max - mm.brk
  <2>1. r = [m |-> mm, ok |-> FALSE]
    BY <1>1 DEF module_alloc
  <2>2. r.m = mm /\ r.ok = FALSE
    BY <2>1
  <2>. QED BY <1>0, <2>2 DEF Grew, VmKept, MemOK, VmOK, PmStep
<1>2. CASE ~ (size = 0 \/ size - 1 > module_max - mm.brk)
  <2>. DEFINE s == module_expand_to(mm, mm.brk + size)
  <2>1. r = IF s.ok THEN [s EXCEPT !.m.brk = @ + size] ELSE s
    BY <1>2 DEF module_alloc
  <2>2. mm.brk + size \in Nat /\ mm.brk + size <= module_max + 1 /\ size > 0
    BY <1>0, <1>2
  <2>3. /\ Grew(mm, s.m) /\ s.m.brk = mm.brk /\ DOMAIN s = {"m", "ok"}
        /\ s.ok => s.m.mapped >= mm.brk + size
    <3>1. s = module_expand_to(mm, mm.brk + size)
      OBVIOUS
    <3>. HIDE DEF s
    <3>. QED BY <2>2, <3>1, Expands
  <2>. HIDE DEF s
  <2>4. CASE ~ s.ok
    BY <2>1, <2>3, <2>4
  <2>5. CASE s.ok
    <3>. DEFINE mm2 == [s.m EXCEPT !.brk = @ + size]
    <3>1. r.m = mm2
      BY <2>1, <2>3, <2>5
    <3>2. MemOK(s.m, kernel_pml4)
      BY <2>3 DEF Grew
    <3>3. /\ DOMAIN mm2 = MemFields /\ mm2.hp = s.m.hp /\ mm2.pm = s.m.pm /\ mm2.tables = s.m.tables
          /\ mm2.brk = mm.brk + size /\ mm2.mapped = s.m.mapped
      BY <2>3, <3>2 DEF MemOK, MemFields
    <3>. HIDE DEF mm2
    <3>4. MemOK(mm2, kernel_pml4)
      BY <2>2, <2>3, <2>5, <3>2, <3>3 DEF MemOK, Mapped
    <3>5. mm2.brk >= mm.brk
      BY <1>0, <2>2, <3>3
    <3>. QED BY <2>2, <2>3, <3>1, <3>3, <3>4, <3>5 DEF Grew
  <2>. QED BY <2>4, <2>5
<1>. QED BY <1>1, <1>2

(* A part's pages lie below what is mapped. *)
LEMMA PartPages ==
  ASSUME NEW p, p.addr \in Nat, p.size \in Nat \ {0}, NEW n \in Nat, p.addr + p.size <= n * UnitsPerPage
  PROVE  PagesOf(p) \subseteq RegionPages(n)
<1>0. UnitsPerPage \in Nat \ {0} /\ MODULE_VBASE \in Nat
  BY HeapAssumption, RegionAssumption
<1>. DEFINE e == p.addr + p.size - 1
<1>1. e \in Nat /\ e < n * UnitsPerPage
  BY <1>0
<1>2. e \div UnitsPerPage \in Nat /\ e \div UnitsPerPage < n
  BY <1>0, <1>1, DivLess
<1>3. p.addr \div UnitsPerPage \in Nat
  BY PageNumber
<1>. HIDE DEF e
<1>. QED BY <1>0, <1>2, <1>3 DEF PagesOf, ModulePage, RegionPages, e

(* Part of a rollback of mm to k pages: what it has unmapped and freed     *)
(* are pages from the k-th on, the first n of them.                        *)
Taken(mm, k, n0) == {y \in Nat : \E vb \in RegionPages(n0) :
                       vb >= MODULE_VBASE + k /\ Maps(mm.tables, kernel_pml4, vb, y)}
GoneBack(s, mm, check, k, n0, n) ==
    /\ DOMAIN s = MemFields /\ s.hp = mm.hp /\ s.brk = check[1] /\ s.mapped = check[2]
    /\ PmStep(mm.pm, s.pm) /\ DOMAIN s.tables = DOMAIN mm.tables
    /\ \E lev, at : Shaped(s.tables, lev, at) /\ lev[kernel_pml4] = Levels
    /\ Avail(s.pm) \subseteq Avail(mm.pm) \cup Taken(mm, k, n0)
    /\ \A vb \in RegionPages(n0) : \A y :
         /\ Maps(s.tables, kernel_pml4, vb, y) => Maps(mm.tables, kernel_pml4, vb, y)
         /\ Maps(mm.tables, kernel_pml4, vb, y) /\ (vb < MODULE_VBASE + k \/ vb >= MODULE_VBASE + k + n)
              => Maps(s.tables, kernel_pml4, vb, y)

(* One page of a rollback: its frame is in no other page and no table, so  *)
(* it may be freed.                                                        *)
LEMMA BackStep ==
  ASSUME NEW mm, MemOK(mm, kernel_pml4), NEW n0, Mapped(mm, n0), VmOK(mm.pm, mm.tables, kernel_pml4, n0),
         NEW check, NEW k \in 0 .. n0, check[2] = k * UnitsPerPage,
         NEW n \in 0 .. ModulePages, n < ModulePages, NEW s, GoneBack(s, mm, check, k, n0, n)
  PROVE  GoneBack(BackTurn(s, n + 1, mm, check), mm, check, k, n0, n + 1)
<1>0. UnitsPerPage \in Nat \ {0} /\ MODULE_VBASE \in Nat /\ ModulePages \in Nat
  BY HeapAssumption, RegionAssumption
<1>1. n0 \in 0 .. ModulePages /\ n0 \in Nat /\ k \in Nat /\ k <= n0 /\ mm.mapped = n0 * UnitsPerPage
  BY <1>0 DEF Mapped
<1>2. (mm.mapped - check[2]) \div UnitsPerPage = n0 - k
  <2>1. mm.mapped - check[2] = (n0 - k) * UnitsPerPage /\ n0 - k \in Nat
    BY <1>0, <1>1
  <2>. QED BY <1>0, <2>1, MulDiv
<1>3. ModulePage(check[2]) = MODULE_VBASE + k
  BY <1>0, <1>1, MulDiv DEF ModulePage
<1>. DEFINE va == MODULE_VBASE + k + n
            T == mm.tables
            root == kernel_pml4
            frame == vmm_get_phys(T, root, va)
            t == BackTurn(s, n + 1, mm, check)
<1>4. ModulePage(check[2]) + (n + 1) - 1 = va /\ va \in Nat
  BY <1>0, <1>1, <1>3
<1>5. t = IF n + 1 > n0 - k THEN s ELSE FreeModulePage(s, va, frame)
  BY <1>2, <1>4 DEF BackTurn
<1>6. CASE n + 1 > n0 - k
  <2>1. t = s
    BY <1>5, <1>6
  <2>2. \A vb \in RegionPages(n0) : vb >= MODULE_VBASE + k + (n + 1) => vb >= MODULE_VBASE + k + n
    BY <1>0, <1>1 DEF RegionPages
  <2>. HIDE DEF t
  <2>3. GoneBack(t, mm, check, k, n0, n + 1)
    BY <2>1, <2>2 DEF GoneBack
  <2>. QED BY <2>3 DEF t
<1>7. CASE ~ (n + 1 > n0 - k)
  <2>1. va \in RegionPages(n0)
    BY <1>0, <1>1, <1>7 DEF RegionPages
  <2>2. RegionPages(n0) \subseteq Nat /\ \A vb, vc \in RegionPages(n0) : SameSlots(vb, vc) => vb = vc
    BY <1>1, RegionFacts
  <2>3. \A vb \in RegionPages(n0) : vb >= MODULE_VBASE + k + (n + 1) => vb >= MODULE_VBASE + k + n /\ vb # va
    BY <1>0, <1>1 DEF RegionPages
  <2>3a. \A vb \in RegionPages(n0) : vb < MODULE_VBASE + k => vb # va
    BY <1>0, <1>1 DEF RegionPages
  <2>4. CASE frame = NULL
    <3>1. t = s
      BY <1>5, <1>7, <2>4 DEF FreeModulePage
    <3>. HIDE DEF t
    <3>2. GoneBack(t, mm, check, k, n0, n + 1)
      BY <2>3, <3>1 DEF GoneBack
    <3>. QED BY <3>2 DEF t
  <2>5. CASE frame # NULL
    <3>1. Maps(T, root, va, frame) /\ frame \in Nat
      <4>1. PICK lev, at : Shaped(T, lev, at) /\ lev[root] = Levels
        BY DEF VmOK
      <4>2. root \in DOMAIN T
        BY DEF VmOK
      <4>3. Maps(T, root, va, frame)
        BY <1>4, <2>5, <4>1, <4>2, PhysFound
      <4>4. frame \in Nat
        BY <1>4, <4>1, <4>3, PhysIs
      <4>. QED BY <4>3, <4>4
    <3>. HIDE DEF frame
    <3>2. Maps(s.tables, root, va, frame)
      BY <1>0, <1>1, <2>1, <3>1 DEF GoneBack
    <3>3. PICK lev, at : Shaped(s.tables, lev, at) /\ lev[root] = Levels
      BY DEF GoneBack
    <3>. DEFINE w == AsVmm(s)
    <3>4. w = [pm |-> s.pm, tables |-> s.tables]
      BY DEF AsVmm
    <3>. HIDE DEF w
    <3>5a. PICK T2 : UnmapResult(vmm_unmap(w, root, va).m, T2, s.pm, s.tables, lev, at, root, va)
      <4>. HIDE DEF va, root
      <4>. QED BY <1>4, <3>2, <3>3, <3>4, Unmaps
    <3>5. /\ vmm_unmap(w, root, va).m = [pm |-> s.pm, tables |-> T2]
          /\ DOMAIN T2 = DOMAIN s.tables /\ Shaped(T2, lev, at)
          /\ \A vb \in Nat : \A y :
               /\ Maps(T2, root, vb, y) => Maps(s.tables, root, vb, y)
               /\ Maps(s.tables, root, vb, y) /\ ~ SameSlots(va, vb) => Maps(T2, root, vb, y)
      BY <3>5a DEF UnmapResult
    <3>. DEFINE pm2 == pmm_free(s.pm, frame)
    <3>6. t = WithVmm(s, [pm |-> pm2, tables |-> T2])
      <4>1. t = WithVmm(s, [vmm_unmap(w, root, va).m EXCEPT !.pm = pmm_free(@, frame)])
        BY <1>5, <1>7, <2>5 DEF FreeModulePage, w
      <4>2. [vmm_unmap(w, root, va).m EXCEPT !.pm = pmm_free(@, frame)] = [pm |-> pm2, tables |-> T2]
        <5>. DEFINE u == [pm |-> s.pm, tables |-> T2]
        <5>1. u.pm = s.pm
          OBVIOUS
        <5>2. \A x : [u EXCEPT !.pm = x] = [pm |-> x, tables |-> T2]
          OBVIOUS
        <5>3. [u EXCEPT !.pm = pmm_free(@, frame)] = [pm |-> pm2, tables |-> T2]
          <6>. HIDE DEF u
          <6>. QED BY <5>1, <5>2
        <5>. HIDE DEF u, pm2
        <5>. QED BY <3>5, <5>3 DEF u
      <4>. HIDE DEF t, pm2
      <4>. QED BY <4>1, <4>2
    <3>7. PmStep(s.pm, pm2) /\ Avail(pm2) \subseteq Avail(s.pm) \cup {frame}
      <4>1. PmOK(s.pm)
        BY DEF GoneBack, PmStep
      <4>. QED BY <3>1, <4>1, Frees
    <3>. HIDE DEF pm2, t
    <3>8. /\ DOMAIN t = MemFields /\ t.hp = s.hp /\ t.brk = s.brk /\ t.mapped = s.mapped
          /\ t.pm = pm2 /\ t.tables = T2
      BY <3>6 DEF GoneBack, MemFields, WithVmm
    <3>9. frame \in Taken(mm, k, n0)
      <4>1. va >= MODULE_VBASE + k
        BY <1>0, <1>1
      <4>. QED BY <2>1, <3>1, <4>1 DEF Taken
    <3>10. Avail(pm2) \subseteq Avail(mm.pm) \cup Taken(mm, k, n0)
      BY <3>7, <3>9 DEF GoneBack
    <3>11. PmStep(mm.pm, pm2)
      BY <3>7 DEF GoneBack, PmStep
    <3>12. ASSUME NEW vb \in RegionPages(n0), NEW y
           PROVE  /\ Maps(T2, root, vb, y) => Maps(T, root, vb, y)
                  /\ Maps(T, root, vb, y) /\ (vb < MODULE_VBASE + k \/ vb >= MODULE_VBASE + k + (n + 1))
                       => Maps(T2, root, vb, y)
      <4>1. vb \in Nat
        BY <2>2
      <4>2. Maps(T2, root, vb, y) => Maps(T, root, vb, y)
        BY <3>5, <4>1 DEF GoneBack
      <4>3. ASSUME Maps(T, root, vb, y), vb < MODULE_VBASE + k \/ vb >= MODULE_VBASE + k + (n + 1)
            PROVE  Maps(T2, root, vb, y)
        <5>1. vb # va /\ (vb < MODULE_VBASE + k \/ vb >= MODULE_VBASE + k + n)
          BY <2>3, <2>3a, <4>3
        <5>2. Maps(s.tables, root, vb, y)
          BY <4>3, <5>1 DEF GoneBack
        <5>3. ~ SameSlots(va, vb)
          BY <2>1, <2>2, <5>1
        <5>. QED BY <3>5, <4>1, <5>2, <5>3
      <4>. QED BY <4>2, <4>3
    <3>13. \E lev2, at2 : Shaped(T2, lev2, at2) /\ lev2[root] = Levels
      BY <3>3, <3>5
    <3>14. GoneBack(t, mm, check, k, n0, n + 1)
      BY <3>5, <3>8, <3>10, <3>11, <3>12, <3>13 DEF GoneBack
    <3>. QED BY <3>14 DEF t
  <2>. QED BY <2>4, <2>5
<1>. QED BY <1>6, <1>7

(* A rollback brings brk and mapped back and keeps the pages below. *)
LEMMA RollsBack ==
  ASSUME NEW mm, MemOK(mm, kernel_pml4), mm.pm.panic = "none", NEW check, check[1] \in Nat,
         check[1] <= mm.brk, check[1] <= check[2], check[2] <= mm.mapped,
         NEW k \in Nat, check[2] = k * UnitsPerPage,
         NEW r, r = module_alloc_rollback(mm, check)
  PROVE  /\ MemOK(r, kernel_pml4) /\ PmStep(mm.pm, r.pm) /\ r.brk = check[1] /\ r.mapped = check[2]
         /\ \A va \in RegionPages(k) : \A x :
              Maps(mm.tables, kernel_pml4, va, x) => Maps(r.tables, kernel_pml4, va, x)
<1>0. UnitsPerPage \in Nat \ {0} /\ MODULE_VBASE \in Nat /\ ModulePages \in Nat
  BY HeapAssumption, RegionAssumption
<1>1. PICK n0 : Mapped(mm, n0) /\ VmOK(mm.pm, mm.tables, kernel_pml4, n0)
  BY DEF MemOK
<1>2. n0 \in Nat /\ n0 <= ModulePages /\ mm.mapped = n0 * UnitsPerPage /\ mm.brk \in Nat
  BY <1>0, <1>1 DEF Mapped, MemOK
<1>3. k \in 0 .. n0 /\ k \in 0 .. ModulePages
  <2>1. CASE k > n0
    <3>1. (n0 + 1) * UnitsPerPage <= k * UnitsPerPage
      BY <1>0, <1>2, <2>1
    <3>2. (n0 + 1) * UnitsPerPage = n0 * UnitsPerPage + UnitsPerPage /\ n0 * UnitsPerPage \in Nat
          /\ k * UnitsPerPage \in Nat
      BY <1>0, <1>2
    <3>. QED BY <1>0, <1>2, <3>1, <3>2
  <2>. QED BY <1>0, <1>2, <2>1
<1>4. PICK step : BackLoop(step, mm, check)
  BY BackTurns
<1>5. r = step[ModulePages]
  <2>1. check[2] \in Nat /\ mm.mapped \in Nat
    BY <1>0, <1>2
  <2>2. ~ (check[1] > mm.brk \/ check[2] > mm.mapped \/ check[2] < check[1])
    BY <1>2, <2>1
  <2>. QED BY <1>4, <2>2 DEF BackLoop
<1>. DEFINE S == {n \in 0 .. ModulePages : GoneBack(step[n], mm, check, k, n0, n)}
<1>6. 0 \in S
  <2>. DEFINE s == step[0]
  <2>1. s = Restored(mm, check)
    BY <1>4 DEF BackLoop
  <2>2. /\ DOMAIN s = MemFields /\ s.hp = mm.hp /\ s.brk = check[1] /\ s.mapped = check[2]
        /\ s.pm = mm.pm /\ s.tables = mm.tables
    BY <2>1 DEF Restored, MemOK, MemFields
  <2>. HIDE DEF s
  <2>3. GoneBack(s, mm, check, k, n0, 0)
    BY <1>1, <2>2 DEF GoneBack, VmOK, PmStep
  <2>. QED BY <1>0, <2>3 DEF s
<1>7. ASSUME NEW n \in 0 .. ModulePages, n \in S, n < ModulePages PROVE n + 1 \in S
  <2>1. n + 1 \in 1 .. ModulePages /\ n + 1 \in 0 .. ModulePages /\ (n + 1) - 1 = n
    BY <1>0, <1>7
  <2>2. step[n + 1] = BackTurn(step[n], n + 1, mm, check)
    BY <1>4, <2>1 DEF BackLoop
  <2>3. GoneBack(step[n], mm, check, k, n0, n)
    BY <1>7
  <2>4. GoneBack(BackTurn(step[n], n + 1, mm, check), mm, check, k, n0, n + 1)
    BY <1>1, <1>3, <1>7, <2>3, BackStep
  <2>. QED BY <2>1, <2>2, <2>4
<1>8. S \in SUBSET (0 .. ModulePages)
  OBVIOUS
<1>. HIDE DEF S
<1>9. ModulePages \in S
  BY <1>0, <1>6, <1>7, <1>8, UpFrom
<1>10. GoneBack(r, mm, check, k, n0, ModulePages)
  BY <1>5, <1>9 DEF S
<1>11. FramesApart(mm.tables, mm.pm, kernel_pml4, n0)
  BY <1>1 DEF VmOK
<1>12. RegionPages(k) \subseteq RegionPages(n0) /\ \A va \in RegionPages(k) : va < MODULE_VBASE + k
  BY <1>0, <1>2, <1>3 DEF RegionPages
<1>13. DOMAIN r.tables \cap Avail(r.pm) = {}
  BY <1>1, <1>10, <1>11 DEF GoneBack, Taken, FramesApart, VmOK
<1>14. FramesApart(r.tables, r.pm, kernel_pml4, k)
  <2>1. ASSUME NEW va \in RegionPages(k), NEW x, Maps(r.tables, kernel_pml4, va, x)
        PROVE  /\ x \notin Avail(r.pm) /\ x \notin DOMAIN r.tables
               /\ \A vb \in RegionPages(k) : Maps(r.tables, kernel_pml4, vb, x) => vb = va
    <3>1. va \in RegionPages(n0) /\ Maps(mm.tables, kernel_pml4, va, x)
      BY <1>10, <1>12, <2>1 DEF GoneBack
    <3>2. /\ x \notin Avail(mm.pm) /\ x \notin DOMAIN mm.tables
          /\ \A vb \in RegionPages(n0) : Maps(mm.tables, kernel_pml4, vb, x) => vb = va
      BY <1>11, <3>1 DEF FramesApart
    <3>3. x \notin Taken(mm, k, n0)
      <4>1. SUFFICES ASSUME x \in Taken(mm, k, n0) PROVE FALSE
        OBVIOUS
      <4>2. PICK vb \in RegionPages(n0) : vb >= MODULE_VBASE + k /\ Maps(mm.tables, kernel_pml4, vb, x)
        BY <4>1 DEF Taken
      <4>3. vb = va
        BY <3>2, <4>2
      <4>4. va \in Nat
        BY <1>0, <1>3 DEF RegionPages
      <4>. QED BY <1>0, <1>12, <4>2, <4>3, <4>4
    <3>4. x \notin Avail(r.pm) /\ x \notin DOMAIN r.tables
      BY <1>10, <3>2, <3>3 DEF GoneBack
    <3>5. ASSUME NEW vb \in RegionPages(k), Maps(r.tables, kernel_pml4, vb, x) PROVE vb = va
      <4>1. vb \in RegionPages(n0) /\ Maps(mm.tables, kernel_pml4, vb, x)
        BY <1>10, <1>12, <3>5 DEF GoneBack
      <4>. QED BY <3>2, <4>1
    <3>. QED BY <3>4, <3>5
  <2>. QED BY <2>1 DEF FramesApart
<1>15. VmOK(r.pm, r.tables, kernel_pml4, k)
  <2>1. kernel_pml4 \in DOMAIN r.tables
    BY <1>1, <1>10 DEF GoneBack, VmOK
  <2>. QED BY <1>10, <1>13, <1>14, <2>1 DEF GoneBack, VmOK, PmStep
<1>16. MemOK(r, kernel_pml4)
  <2>1. Mapped(r, k)
    BY <1>3, <1>10 DEF Mapped, GoneBack
  <2>2. r.brk \in Nat /\ r.brk <= r.mapped
    BY <1>10 DEF GoneBack
  <2>. QED BY <1>10, <1>15, <2>1, <2>2 DEF MemOK, GoneBack
<1>17. \A va \in RegionPages(k) : \A x :
         Maps(mm.tables, kernel_pml4, va, x) => Maps(r.tables, kernel_pml4, va, x)
  BY <1>10, <1>12 DEF GoneBack
<1>. QED BY <1>10, <1>16, <1>17 DEF GoneBack

(* The memory map has a last page. *)
LEMMA LastPage ==
  ASSUME NEW mmap \in Seq([base : Nat, length : Nat, usable : BOOLEAN]), UsableEntries(mmap) # {}
  PROVE  MaxEnd(mmap) \in Nat
<1>. DEFINE End(i) == mmap[i].base + mmap[i].length
            E == {End(i) : i \in UsableEntries(mmap)}
            N == Len(mmap)
            S == {n \in 0 .. N : \E b \in Nat : \A i \in 1 .. n : End(i) <= b}
<1>1. N \in Nat /\ DOMAIN mmap = 1 .. N /\ \A i \in 1 .. N : End(i) \in Nat
  <2>1. N \in Nat /\ DOMAIN mmap = 1 .. N
    OBVIOUS
  <2>2. \A i \in 1 .. N : mmap[i] \in [base : Nat, length : Nat, usable : BOOLEAN]
    <3>. DEFINE R == [base : Nat, length : Nat, usable : BOOLEAN]
    <3>1. mmap \in Seq(R)
      OBVIOUS
    <3>. HIDE DEF R
    <3>2. \A i \in 1 .. Len(mmap) : mmap[i] \in R
      BY <3>1
    <3>. QED BY <3>2 DEF R
  <2>. QED BY <2>1, <2>2
<1>. HIDE DEF End, N
<1>2. 0 \in S
  BY <1>1
<1>3. ASSUME NEW n \in 0 .. N, n \in S, n < N PROVE n + 1 \in S
  <2>1. PICK b \in Nat : \A i \in 1 .. n : End(i) <= b
    BY <1>3
  <2>2. b + End(n + 1) \in Nat /\ \A i \in 1 .. n + 1 : End(i) <= b + End(n + 1)
    <3>1. n + 1 \in 1 .. N /\ End(n + 1) \in Nat
      BY <1>1, <1>3
    <3>2. ASSUME NEW i \in 1 .. n + 1 PROVE End(i) <= b + End(n + 1)
      <4>1. CASE i = n + 1
        BY <3>1, <4>1
      <4>2. CASE i # n + 1
        <5>1. i \in 1 .. n /\ i \in 1 .. N
          BY <1>1, <1>3, <4>2
        <5>2. End(i) <= b /\ End(i) \in Nat
          BY <1>1, <2>1, <5>1
        <5>. QED BY <3>1, <5>2
      <4>. QED BY <4>1, <4>2
    <3>. QED BY <3>1, <3>2
  <2>. QED BY <1>1, <1>3, <2>2
<1>4. S \in SUBSET (0 .. N)
  OBVIOUS
<1>5. PICK b \in Nat : \A i \in 1 .. N : End(i) <= b
  <2>. HIDE DEF S
  <2>1. N \in S
    <3>1. N \in Nat /\ N \in 0 .. N
      BY <1>1
    <3>2. \A n \in 0 .. N : n \in S /\ n < N => n + 1 \in S
      BY <1>3
    <3>3. \A n \in 0 .. N : n \in S
      BY ONLY <1>2, <1>4, <3>1, <3>2, UpFrom
    <3>. QED BY <3>1, <3>3
  <2>. QED BY <2>1 DEF S
<1>6. E \subseteq Nat /\ E # {} /\ \A e \in E : e <= b
  BY <1>1, <1>5 DEF UsableEntries
<1>. HIDE DEF E
<1>. DEFINE D == {d \in Nat : b - d \in E}
<1>7. D \in SUBSET Nat /\ D # {}
  <2>1. PICK e \in E : TRUE
    BY <1>6
  <2>2. b - e \in Nat /\ b - (b - e) = e
    BY <1>6, <2>1
  <2>. QED BY <2>1, <2>2
<1>8. PICK d \in D : \A y \in D : d <= y
  BY <1>7, LeastNatural
<1>9. ASSUME NEW y \in E PROVE b - d >= y
  <2>1. b - y \in Nat /\ b - (b - y) = y
    BY <1>6
  <2>2. b - y \in D
    BY <2>1
  <2>3. d <= b - y /\ d \in Nat /\ y \in Nat
    BY <1>6, <1>8, <2>2
  <2>. QED BY <2>1, <2>3
<1>10. b - d \in E
  BY <1>8
<1>11. Max(E) \in E
  <2>1. \E x \in E : \A y \in E : x >= y
    BY <1>9, <1>10
  <2>. QED BY <2>1 DEF Max
<1>12. MaxEnd(mmap) = Max(E)
  BY DEF MaxEnd, E, End
<1>. QED BY <1>6, <1>11, <1>12

(* pmm_init_from_memmap() hands out usable pages only. *)
LEMMA PmmStarts ==
  ASSUME NEW mmap \in Seq([base : Nat, length : Nat, usable : BOOLEAN]),
         NEW pm, pm = pmm_init_from_memmap(mmap)
  PROVE  PmOK(pm) /\ Avail(pm) \subseteq UNION {EntryPages(mmap[i]) : i \in UsableEntries(mmap)}
<1>. DEFINE usable == UNION {EntryPages(mmap[i]) : i \in UsableEntries(mmap)}
            Fields == {"total", "used", "panic", "page"}
            a == pmm_scan(mmap)
<1>1. DOMAIN a = Fields /\ a.total = 0 /\ a.panic = "none"
  BY DEF pmm_scan
<1>. HIDE DEF a
<1>2. CASE UsableEntries(mmap) = {}
  <2>1. pm = [a EXCEPT !.panic = "no usable entry"]
    BY <1>2 DEF pmm_init_from_memmap, Panic, a
  <2>2. DOMAIN pm = Fields /\ pm.total = 0
    BY <1>1, <2>1
  <2>. QED BY <2>2 DEF PmOK, Avail
<1>3. CASE UsableEntries(mmap) # {}
  <2>. DEFINE b == pmm_install_bitmap(a, mmap)
              rel == pmm_release_usable(b, mmap)
              c == AccountInit(rel, mmap)
  <2>1. pm = IF b.panic # "none" THEN b ELSE pmm_mark_protected(c, mmap)
    BY <1>3 DEF pmm_init_from_memmap, ReleaseAll, a
  <2>2. \/ b = [a EXCEPT !.panic = "bitmap"]
        \/ b = [a EXCEPT !.total = MaxEnd(mmap), !.used = 0 .. MaxEnd(mmap) - 1]
    BY DEF pmm_install_bitmap, Panic
  <2>3. CASE b = [a EXCEPT !.panic = "bitmap"]
    <3>1. DOMAIN b = Fields /\ b.total = 0 /\ b.panic = "bitmap"
      BY <1>1, <2>3
    <3>. HIDE DEF b
    <3>2. pm = b
      BY <2>1, <3>1
    <3>. QED BY <3>1, <3>2 DEF PmOK, Avail
  <2>4. CASE b = [a EXCEPT !.total = MaxEnd(mmap), !.used = 0 .. MaxEnd(mmap) - 1]
    <3>1. MaxEnd(mmap) \in Nat
      BY <1>3, LastPage
    <3>2. /\ DOMAIN b = Fields /\ b.total = MaxEnd(mmap) /\ b.panic = "none"
          /\ b.used = 0 .. MaxEnd(mmap) - 1
      BY <1>1, <2>4
    <3>. HIDE DEF b
    <3>3. \E low : rel.pm = [b EXCEPT !.used = @ \ (usable \ low)]
      BY DEF pmm_release_usable
    <3>4. PICK low : rel.pm = [b EXCEPT !.used = @ \ (usable \ low)]
      BY <3>3
    <3>. HIDE DEF usable, rel
    <3>5. /\ DOMAIN rel.pm = Fields /\ rel.pm.total = b.total
          /\ rel.pm.used = (0 .. MaxEnd(mmap) - 1) \ (usable \ low)
      BY <3>2, <3>4
    <3>6. DOMAIN c = Fields /\ c.total = b.total /\ c.used = rel.pm.used \cup Bitmap(mmap)
      BY <3>5 DEF AccountInit
    <3>. HIDE DEF c
    <3>7. pm = c \/ pm = [c EXCEPT !.panic = "protected page is free"]
      BY <2>1, <3>2 DEF pmm_mark_protected, Panic
    <3>8. DOMAIN pm = Fields /\ pm.total = MaxEnd(mmap) /\ pm.used = c.used
      BY <3>2, <3>6, <3>7
    <3>9. Avail(pm) \subseteq usable
      BY <3>5, <3>6, <3>8 DEF Avail
    <3>. QED BY <3>1, <3>8, <3>9 DEF PmOK, usable
  <2>. QED BY <2>2, <2>3, <2>4
<1>. QED BY <1>2, <1>3

(* Before there is a module region. *)
BootOK(v, root) == v = [pm |-> v.pm, tables |-> v.tables] /\ VmOK(v.pm, v.tables, root, 0)

(* An empty region. *)
LEMMA NoPages == RegionPages(0) = {}
BY RegionAssumption DEF RegionPages

(* Without a region the frames need not be apart. *)
LEMMA BootShape ==
  ASSUME NEW pm, NEW T, NEW root, PmOK(pm), DOMAIN T \cap Avail(pm) = {}, root \in DOMAIN T,
         \E lev, at : Shaped(T, lev, at) /\ lev[root] = Levels
  PROVE  VmOK(pm, T, root, 0)
BY NoPages DEF VmOK, FramesApart

(* A mapping made while booting. *)
LEMMA BootMaps ==
  ASSUME NEW v, NEW root, BootOK(v, root), NEW va \in Nat, NEW frame \in Nat
  PROVE  BootOK(vmm_map(v, root, va, frame, {"W"}).m, root)
<1>. DEFINE w == vmm_map(v, root, va, frame, {"W"})
<1>1. PICK lev, at : Shaped(v.tables, lev, at) /\ lev[root] = Levels
  BY DEF BootOK, VmOK
<1>2. /\ PmOK(v.pm) /\ root \in DOMAIN v.tables /\ DOMAIN v.tables \cap Avail(v.pm) = {}
      /\ v = [pm |-> v.pm, tables |-> v.tables] /\ {"W"} \in Perms
  BY DEF BootOK, VmOK, Perms
<1>3. w = vmm_map(v, root, va, frame, {"W"})
  OBVIOUS
<1>. HIDE DEF w
<1>4. MapResult(w, v.pm, v.tables, lev, at, root, va, frame)
  BY <1>1, <1>2, <1>3, MapWorks
<1>5. \E lev2, at2 : Shaped(w.m.tables, lev2, at2) /\ lev2[root] = Levels
  <2>1. PICK lev2, at2 : Shaped(w.m.tables, lev2, at2)
                         /\ \A f \in DOMAIN v.tables : lev2[f] = lev[f] /\ at2[f] = at[f]
    BY <1>4 DEF MapResult
  <2>. QED BY <1>1, <1>2, <2>1
<1>6. /\ w.m = [pm |-> w.m.pm, tables |-> w.m.tables] /\ PmOK(w.m.pm) /\ root \in DOMAIN w.m.tables
      /\ DOMAIN w.m.tables \cap Avail(w.m.pm) = {}
  BY <1>2, <1>4 DEF MapResult, Kept, PmStep
<1>7. VmOK(w.m.pm, w.m.tables, root, 0)
  BY <1>5, <1>6, BootShape
<1>8. BootOK(w.m, root)
  BY <1>6, <1>7 DEF BootOK
<1>. QED BY <1>8 DEF w

(* A page is taken from the allocator. *)
LEMMA BootTakes ==
  ASSUME NEW v, NEW root, BootOK(v, root)
  PROVE  BootOK([v EXCEPT !.pm = pmm_alloc(v.pm).pm], root)
<1>. DEFINE pm2 == pmm_alloc(v.pm).pm
            w == [v EXCEPT !.pm = pm2]
<1>1. PmOK(pm2) /\ Avail(pm2) \subseteq Avail(v.pm)
  <2>1. PmOK(v.pm)
    BY DEF BootOK, VmOK
  <2>. QED BY <2>1, Allocates DEF PmStep
<1>. HIDE DEF pm2
<1>2. w = [pm |-> pm2, tables |-> v.tables]
  BY DEF BootOK
<1>3. w.pm = pm2 /\ w.tables = v.tables /\ w = [pm |-> w.pm, tables |-> w.tables]
  BY <1>2
<1>. HIDE DEF w
<1>4. VmOK(pm2, v.tables, root, 0)
  <2>1. DOMAIN v.tables \cap Avail(pm2) = {} /\ root \in DOMAIN v.tables
    BY <1>1 DEF BootOK, VmOK
  <2>2. \E lev, at : Shaped(v.tables, lev, at) /\ lev[root] = Levels
    BY DEF BootOK, VmOK
  <2>. QED BY <1>1, <2>1, <2>2, BootShape
<1>5. BootOK(w, root)
  BY <1>3, <1>4 DEF BootOK
<1>. QED BY <1>5 DEF w, pm2

(* Both roots are empty to begin with. *)
LEMMA BootRoots ==
  ASSUME NEW pm, PmOK(pm), OldRoot \notin Avail(pm), NEW new, new = pmm_alloc(pm),
         NEW m0, m0 = [pm |-> pm, tables |-> [f \in {OldRoot} |-> EmptyTable]]
  PROVE  BootOK(vmm_init_bsp(m0, OldRoot, new), new.ret)
<1>. DEFINE root == new.ret
            T0 == [f \in {OldRoot, root} |-> EmptyTable]
            cloned == [i \in Slots |-> IF i = 0 \/ i \in KernelSlots THEN m0.tables[OldRoot][i] ELSE NoEntry]
            mm == [pm |-> new.pm, tables |-> T0]
            v == vmm_map(mm, OldRoot, root, root, {"W"})
<1>0. Levels \in Nat \ {0} /\ OldRoot \in Nat \ {0} /\ Entries \in Nat \ {0}
  BY LevelsAssumption, BootAssumption, EntriesAssumption
<1>1. /\ root \in Nat /\ PmOK(new.pm) /\ Avail(new.pm) = Avail(pm) \ {root}
      /\ root # NULL => root \in Avail(pm)
  BY Allocates DEF PmStep
<1>2. root # OldRoot
  BY <1>0, <1>1 DEF NULL
<1>3. cloned = EmptyTable
  <2>1. m0.tables[OldRoot] = EmptyTable
    OBVIOUS
  <2>. QED BY <2>1 DEF EmptyTable
<1>4. AddTable(m0, new, cloned) = mm
  <2>1. m0.tables = [f \in {OldRoot} |-> EmptyTable] /\ DOMAIN m0.tables = {OldRoot}
    OBVIOUS
  <2>2. [f \in DOMAIN m0.tables \cup {root} |-> IF f = root THEN EmptyTable ELSE m0.tables[f]] = T0
    BY <2>1
  <2>. QED BY <1>3, <2>2 DEF AddTable
<1>5. vmm_init_bsp(m0, OldRoot, new) = v.m
  BY <1>4 DEF vmm_init_bsp
<1>. DEFINE lev == [f \in {OldRoot, root} |-> Levels]
            at == [f \in {OldRoot, root} |-> [k \in 1 .. Levels |-> 0]]
<1>6. Shaped(T0, lev, at) /\ lev[OldRoot] = Levels /\ lev[root] = Levels /\ DOMAIN T0 = {OldRoot, root}
  <2>1. NoEntry \in Entry /\ ~ NoEntry.present /\ ~ NoEntry.leaf
    BY DEF NoEntry, Entry, NULL
  <2>2. EmptyTable \in [Slots -> Entry] /\ \A i \in Slots : EmptyTable[i] = NoEntry
    BY <2>1 DEF EmptyTable
  <2>3. 0 \in Slots
    BY <1>0 DEF Slots
  <2>4. DOMAIN T0 = {OldRoot, root} /\ \A f \in DOMAIN T0 : T0[f] = EmptyTable
    OBVIOUS
  <2>5. T0 \in [DOMAIN T0 -> [Slots -> Entry]]
    BY <2>2
  <2>6. lev \in [DOMAIN T0 -> 1 .. Levels] /\ at \in [DOMAIN T0 -> [1 .. Levels -> Slots]]
    BY <1>0, <2>3
  <2>7. lev[OldRoot] = Levels /\ lev[root] = Levels
    OBVIOUS
  <2>. HIDE DEF T0, lev, at
  <2>8. Shaped(T0, lev, at)
    BY <2>1, <2>2, <2>4, <2>5, <2>6 DEF Shaped
  <2>. QED BY <2>4, <2>7, <2>8
<1>. HIDE DEF T0, lev, at
<1>7. DOMAIN T0 \cap Avail(new.pm) = {}
  BY <1>1, <1>6
<1>8. MapResult(v, new.pm, T0, lev, at, OldRoot, root, root)
  <2>1. mm = [pm |-> new.pm, tables |-> T0] /\ v = vmm_map(mm, OldRoot, root, root, {"W"}) /\ {"W"} \in Perms
    BY DEF Perms
  <2>2. OldRoot \in DOMAIN T0
    BY <1>6
  <2>. HIDE DEF mm, v, root
  <2>. QED BY <1>1, <1>6, <1>7, <2>1, <2>2, MapWorks
<1>. HIDE DEF v, root
<1>9. \E lev2, at2 : Shaped(v.m.tables, lev2, at2) /\ lev2[root] = Levels
  <2>1. PICK lev2, at2 : Shaped(v.m.tables, lev2, at2)
                         /\ \A f \in DOMAIN T0 : lev2[f] = lev[f] /\ at2[f] = at[f]
    BY <1>8 DEF MapResult
  <2>. QED BY <1>6, <2>1
<1>10. /\ v.m = [pm |-> v.m.pm, tables |-> v.m.tables] /\ PmOK(v.m.pm) /\ root \in DOMAIN v.m.tables
       /\ DOMAIN v.m.tables \cap Avail(v.m.pm) = {}
  BY <1>6, <1>7, <1>8 DEF MapResult, Kept, PmStep
<1>11. BootOK(v.m, root)
  BY <1>9, <1>10, BootShape DEF BootOK
<1>. QED BY <1>5, <1>11 DEF root

(* vmm_test_secret_base(). *)
LEMMA BootSecret ==
  ASSUME NEW v, NEW root, BootOK(v, root)
  PROVE  BootOK(vmm_test_secret_base(v, pmm_alloc(v.pm), root, Secret, Alias), root)
<1>. DEFINE page == pmm_alloc(v.pm)
            w == [v EXCEPT !.pm = page.pm]
            first == vmm_map(w, root, Secret, page.ret, {"W"})
            second == vmm_map(first.m, root, Alias, page.ret, {"W"})
<1>0. Secret \in Nat /\ Alias \in Nat
  BY BootAssumption
<1>1. page.ret \in Nat
  BY Allocates DEF BootOK, VmOK
<1>2. BootOK(w, root)
  BY BootTakes
<1>3. vmm_test_secret_base(v, page, root, Secret, Alias) = IF page.ret = NULL THEN v ELSE second.m
  BY DEF vmm_test_secret_base
<1>. HIDE DEF page, w
<1>4. BootOK(first.m, root)
  BY <1>0, <1>1, <1>2, BootMaps
<1>. HIDE DEF first
<1>5. BootOK(second.m, root)
  BY <1>0, <1>1, <1>4, BootMaps
<1>. HIDE DEF second
<1>. QED BY <1>3, <1>5 DEF page

(* One entry of the kernel's upper half. *)
FillEntry(acc, i, new, root) ==
    IF new.ret = NULL THEN acc
    ELSE [AddTable(acc, new, EmptyTable) EXCEPT !.tables[root][i] = Pointer(new.ret, {"W"})]
FillTurn(acc, n, root) ==
    IF acc.tables[root][Entries \div 2 + n - 1].present THEN acc
    ELSE FillEntry(acc, Entries \div 2 + n - 1, pmm_alloc(acc.pm), root)

(* The turns of vmm_preallocate_kernel_range(). *)
FillLoop(step, mm, root) ==
    /\ vmm_preallocate_kernel_range(mm, root) = step[Entries \div 2]
    /\ step[0] = mm
    /\ \A n \in 1 .. Entries \div 2 : step[n] = FillTurn(step[n - 1], n, root)

(* There are such turns. *)
LEMMA FillTurns ==
  ASSUME NEW mm, NEW root PROVE \E step : FillLoop(step, mm, root)
<1>0. Entries \div 2 \in Nat
  BY EntriesAssumption
<1>. DEFINE first == mm
            Body(s, n) == FillTurn(s, n, root)
            IsStep(g, k) == g = [n \in 0 .. k |-> IF n = 0 THEN first ELSE Body(g[n - 1], n)]
            S == {k \in 0 .. Entries \div 2 : \E g : IsStep(g, k)}
            step == CHOOSE g : IsStep(g, Entries \div 2)
<1>1. vmm_preallocate_kernel_range(mm, root) = step[Entries \div 2]
  BY DEF vmm_preallocate_kernel_range, FillTurn, FillEntry
<1>. HIDE DEF first, Body
<1>2. 0 \in S
  <2>1. IsStep([n \in 0 .. 0 |-> first], 0)
    OBVIOUS
  <2>2. \E g : IsStep(g, 0)
    BY <2>1
  <2>. QED BY <1>0, <2>2
<1>3. ASSUME NEW k \in 0 .. Entries \div 2, k \in S, k < Entries \div 2 PROVE k + 1 \in S
  <2>1. PICK g : IsStep(g, k)
    BY <1>3
  <2>. DEFINE h == [n \in 0 .. k + 1 |-> IF n = k + 1 THEN Body(g[k], k + 1) ELSE g[n]]
  <2>2. \A n \in 0 .. k : g[n] = IF n = 0 THEN first ELSE Body(g[n - 1], n)
    BY <2>1
  <2>3. ASSUME NEW n \in 0 .. k + 1 PROVE h[n] = IF n = 0 THEN first ELSE Body(h[n - 1], n)
    <3>1. CASE n = k + 1
      <4>1. n # 0 /\ h[n] = Body(g[k], k + 1) /\ h[n - 1] = g[k]
        BY <1>0, <3>1
      <4>. QED BY <3>1, <4>1
    <3>2. CASE n # k + 1
      <4>1. n \in 0 .. k /\ h[n] = g[n] /\ (n # 0 => h[n - 1] = g[n - 1])
        BY <1>0, <3>2
      <4>. QED BY <2>2, <4>1
    <3>. QED BY <3>1, <3>2
  <2>4. IsStep(h, k + 1)
    BY <2>3
  <2>5. \E f : IsStep(f, k + 1)
    BY <2>4
  <2>. QED BY <1>0, <1>3, <2>5
<1>4. IsStep(step, Entries \div 2)
  <2>1. S \in SUBSET (0 .. Entries \div 2)
    OBVIOUS
  <2>. HIDE DEF S
  <2>2. Entries \div 2 \in S
    BY <1>0, <1>2, <1>3, <2>1, UpFrom
  <2>3. \E g : IsStep(g, Entries \div 2)
    BY <2>2 DEF S
  <2>. HIDE DEF IsStep
  <2>. QED BY <2>3
<1>. HIDE DEF step
<1>5. \A n \in 0 .. Entries \div 2 : step[n] = IF n = 0 THEN first ELSE Body(step[n - 1], n)
  BY <1>4
<1>6. step[0] = first /\ \A n \in 1 .. Entries \div 2 : step[n] = Body(step[n - 1], n)
  BY <1>0, <1>5
<1>7. FillLoop(step, mm, root)
  BY <1>1, <1>6, Zenon DEF FillLoop, first, Body
<1>. QED BY <1>7

(* One entry of the upper half is filled in, if there is a frame. *)
LEMMA BootFills ==
  ASSUME NEW v, NEW root, BootOK(v, root), NEW n \in 1 .. Entries \div 2
  PROVE  BootOK(FillTurn(v, n, root), root)
<1>. DEFINE i == Entries \div 2 + n - 1
            new == pmm_alloc(v.pm)
            T == v.tables
            e == Pointer(new.ret, {"W"})
            T2 == LinkTable(T, root, i, new.ret, e)
<1>0. Levels \in Nat /\ Levels > 1
  BY LevelsAssumption
<1>1. i \in Slots
  <2>1. Entries \in Nat \ {0} /\ Entries % 2 = 0
    BY EntriesAssumption
  <2>2. Entries = 2 * (Entries \div 2) /\ Entries \div 2 \in Nat
    BY <2>1
  <2>. QED BY <2>2 DEF Slots
<1>. HIDE DEF i
<1>2. PICK lev, at : Shaped(T, lev, at) /\ lev[root] = Levels
  BY DEF BootOK, VmOK
<1>3. /\ PmOK(v.pm) /\ root \in DOMAIN T /\ DOMAIN T \cap Avail(v.pm) = {}
      /\ v = [pm |-> v.pm, tables |-> T]
  BY DEF BootOK, VmOK
<1>4. /\ new.ret \in Nat /\ PmOK(new.pm) /\ Avail(new.pm) = Avail(v.pm) \ {new.ret}
      /\ new.ret # NULL => new.ret \in Avail(v.pm)
  BY <1>3, Allocates DEF PmStep
<1>5. FillTurn(v, n, root) = IF T[root][i].present THEN v ELSE FillEntry(v, i, new, root)
  BY DEF FillTurn, i
<1>6. CASE T[root][i].present \/ new.ret = NULL
  <2>1. FillTurn(v, n, root) = v
    BY <1>5, <1>6 DEF FillEntry
  <2>. QED BY <2>1
<1>7. CASE ~ T[root][i].present /\ new.ret # NULL
  <2>1. FillTurn(v, n, root) = [AddTable(v, new, EmptyTable) EXCEPT !.tables[root][i] = e]
    BY <1>5, <1>7 DEF FillEntry
  <2>2. [AddTable(v, new, EmptyTable) EXCEPT !.tables[root][i] = e] = [pm |-> new.pm, tables |-> T2]
    <3>. DEFINE A == [f \in DOMAIN T \cup {new.ret} |-> IF f = new.ret THEN EmptyTable ELSE T[f]]
    <3>1. AddTable(v, new, EmptyTable) = [pm |-> new.pm, tables |-> A]
      BY DEF AddTable
    <3>2. T2 = [A EXCEPT ![root][i] = e]
      BY DEF LinkTable, SetSlot
    <3>3. \A x, y : [[pm |-> x, tables |-> y] EXCEPT !.tables[root][i] = e]
                      = [pm |-> x, tables |-> [y EXCEPT ![root][i] = e]]
      OBVIOUS
    <3>. HIDE DEF A, e, T2
    <3>. QED BY <3>1, <3>2, <3>3
  <2>3. e \in Entry /\ e.present /\ e.frame = new.ret /\ ~ e.leaf
    BY <1>4 DEF Pointer, Entry
  <2>4. new.ret \notin DOMAIN T
    BY <1>3, <1>4, <1>7
  <2>. HIDE DEF e
  <2>5. Grows(T, lev, at, T2) /\ DOMAIN T2 = DOMAIN T \cup {new.ret}
    <3>1. Shaped(T, lev, at) /\ root \in DOMAIN T /\ i \in Slots /\ lev[root] > 1 /\ ~ T[root][i].present
      BY <1>0, <1>1, <1>2, <1>3, <1>7
    <3>2. new.ret \in Nat
      BY <1>4
    <3>. DEFINE fr == new.ret
    <3>3. T2 = LinkTable(T, root, i, fr, e) /\ fr \in Nat /\ fr \notin DOMAIN T /\ e.frame = fr
      BY <2>3, <2>4, <3>2
    <3>. HIDE DEF new, T, i, fr, T2
    <3>4. Grows(T, lev, at, LinkTable(T, root, i, fr, e))
      BY ONLY <2>3, <3>1, <3>3, Links
    <3>5. DOMAIN LinkTable(T, root, i, fr, e) = DOMAIN T \cup {fr}
      BY DEF LinkTable, SetSlot
    <3>. QED BY <3>3, <3>4, <3>5 DEF fr
  <2>. HIDE DEF T2
  <2>6. \E lev2, at2 : Shaped(T2, lev2, at2) /\ lev2[root] = Levels
    BY <1>2, <1>3, <2>5 DEF Grows, Extends
  <2>7. DOMAIN T2 \cap Avail(new.pm) = {} /\ root \in DOMAIN T2
    BY <1>3, <1>4, <2>5
  <2>8. VmOK(new.pm, T2, root, 0)
    BY <1>4, <2>6, <2>7, BootShape
  <2>. DEFINE w == [pm |-> new.pm, tables |-> T2]
  <2>9. w.pm = new.pm /\ w.tables = T2 /\ w = [pm |-> w.pm, tables |-> w.tables]
    OBVIOUS
  <2>10. FillTurn(v, n, root) = w
    BY <2>1, <2>2
  <2>. HIDE DEF w
  <2>. QED BY <2>8, <2>9, <2>10 DEF BootOK
<1>. QED BY <1>6, <1>7

(* vmm_preallocate_kernel_range(). *)
LEMMA BootPreallocates ==
  ASSUME NEW v, NEW root, BootOK(v, root) PROVE BootOK(vmm_preallocate_kernel_range(v, root), root)
<1>. DEFINE N == Entries \div 2
<1>0. N \in Nat
  BY EntriesAssumption
<1>1. PICK step : FillLoop(step, v, root)
  BY FillTurns
<1>2. /\ vmm_preallocate_kernel_range(v, root) = step[N] /\ step[0] = v
      /\ \A n \in 1 .. N : step[n] = FillTurn(step[n - 1], n, root)
  BY <1>1 DEF FillLoop
<1>3. ASSUME NEW n \in 1 .. N, NEW w, BootOK(w, root) PROVE BootOK(FillTurn(w, n, root), root)
  BY <1>3, BootFills
<1>. HIDE DEF N
<1>. DEFINE S == {n \in 0 .. N : BootOK(step[n], root)}
<1>4. 0 \in S
  BY <1>0, <1>2
<1>5. ASSUME NEW n \in 0 .. N, n \in S, n < N PROVE n + 1 \in S
  <2>1. n + 1 \in 1 .. N /\ n + 1 \in 0 .. N /\ (n + 1) - 1 = n
    BY <1>0, <1>5
  <2>2. step[n + 1] = FillTurn(step[n], n + 1, root)
    BY <1>2, <2>1
  <2>3. BootOK(FillTurn(step[n], n + 1, root), root)
    BY <1>3, <1>5, <2>1
  <2>. QED BY <2>1, <2>2, <2>3
<1>6. S \in SUBSET (0 .. N)
  OBVIOUS
<1>. HIDE DEF S
<1>7. N \in S
  BY <1>0, <1>4, <1>5, <1>6, UpFrom
<1>. QED BY <1>2, <1>7 DEF S

(* The kernel boots with its memory in order. *)
LEMMA Boots ==
  ASSUME NEW mmap \in Seq([base : Nat, length : Nat, usable : BOOLEAN]),
         \A e \in UsableEntries(mmap) : OldRoot \notin EntryPages(mmap[e]),
         NEW pm, pm = pmm_init_from_memmap(mmap)
  PROVE  MemOK(Boot(pm), pmm_alloc(pm).ret)
<1>. DEFINE root == pmm_alloc(pm).ret
            m0 == [pm |-> pm, tables |-> [f \in {OldRoot} |-> EmptyTable]]
            v1 == vmm_init_bsp(m0, OldRoot, pmm_alloc(m0.pm))
            v2 == vmm_test_secret_base(v1, pmm_alloc(v1.pm), root, Secret, Alias)
            v3 == vmm_preallocate_kernel_range(v2, root)
            hp == [max |-> 0, blocks |-> <<>>]
            mm == [pm |-> v3.pm, tables |-> v3.tables, hp |-> hp, brk |-> 0, mapped |-> 0, lost |-> {}]
            first == kheap_expand_to_addr([mm EXCEPT !.hp = hp], root, UnitsPerPage)
<1>1. PmOK(pm) /\ OldRoot \notin Avail(pm)
  BY PmmStarts
<1>2. BootOK(v1, root)
  <2>1. m0.pm = pm /\ m0 = [pm |-> pm, tables |-> [f \in {OldRoot} |-> EmptyTable]]
    OBVIOUS
  <2>2. v1 = vmm_init_bsp(m0, OldRoot, pmm_alloc(pm))
    BY <2>1
  <2>. HIDE DEF m0, v1
  <2>. QED BY <1>1, <2>1, <2>2, BootRoots
<1>3. vmm_init(m0, OldRoot, Secret, Alias) = v3
  <2>1. m0.pm = pm
    OBVIOUS
  <2>. HIDE DEF m0
  <2>2. pmm_alloc(m0.pm).ret = root
    BY <2>1
  <2>. HIDE DEF root
  <2>. QED BY <2>2 DEF vmm_init
<1>4. Boot(pm) = FirstBlock(first)
  BY <1>3 DEF Boot, kheap_init
<1>. HIDE DEF m0, v1, root
<1>5. BootOK(v2, root)
  BY <1>2, BootSecret
<1>. HIDE DEF v2
<1>6. BootOK(v3, root)
  BY <1>5, BootPreallocates
<1>. HIDE DEF v3
<1>7. MemOK(mm, root)
  <2>1. /\ DOMAIN mm = MemFields /\ mm.hp = hp /\ mm.brk = 0 /\ mm.mapped = 0
        /\ mm.pm = v3.pm /\ mm.tables = v3.tables
    BY DEF MemFields
  <2>2. DOMAIN hp = {"max", "blocks"} /\ hp.max \in Nat
    OBVIOUS
  <2>3. Mapped(mm, 0)
    BY <2>1, HeapAssumption, RegionAssumption DEF Mapped
  <2>. HIDE DEF mm, hp
  <2>. QED BY <1>6, <2>1, <2>2, <2>3 DEF MemOK, BootOK
<1>8. MemOK([mm EXCEPT !.hp = hp], root)
  <2>1. DOMAIN hp = {"max", "blocks"} /\ hp.max \in Nat
    OBVIOUS
  <2>. HIDE DEF mm, hp
  <2>. QED BY <1>7, <2>1, MemHeap DEF MemStep
<1>. HIDE DEF mm, hp
<1>9. MemOK(first.m, root)
  BY <1>8, HeapExpands DEF MemStep
<1>. HIDE DEF first
<1>10. \/ FirstBlock(first) = [first.m EXCEPT !.hp.blocks = <<Free(0, UnitsPerPage)>>]
       \/ FirstBlock(first) = [first.m EXCEPT !.pm = Panic(@, "kheap_init")]
  BY DEF FirstBlock
<1>11. /\ MemOK([first.m EXCEPT !.hp.blocks = <<Free(0, UnitsPerPage)>>], root)
       /\ MemOK([first.m EXCEPT !.pm = Panic(@, "kheap_init")], root)
  BY <1>9, HeapBlocks, MemPanic DEF MemStep
<1>. QED BY <1>4, <1>10, <1>11 DEF root

(* Where the parts of modules lie, and where loads stand. *)
Part == [addr : Nat, size : Nat \ {0}]
PagesOfAll(parts) == UNION {PagesOf(parts[i]) : i \in DOMAIN parts}
Within(parts, low, high) ==
    \A i \in DOMAIN parts : low <= parts[i].addr /\ parts[i].addr + parts[i].size <= high
PartsApart(ps, qs) ==
    \A i \in DOMAIN ps, j \in DOMAIN qs :
      \/ ps[i].addr + ps[i].size <= qs[j].addr
      \/ qs[j].addr + qs[j].size <= ps[i].addr

(* A load works on a job of the list; its parts are in order; an           *)
(* executable's page is one of its image.                                  *)
ModulePlaces == {"alloc", "link", "reserve", "init", "tcb", "stack", "commit", "cancel", "rollback"}
InModule(l) == l.pc \in ModulePlaces /\ KindOf(l) # "thread"
Placed(l) ==
    /\ l.pc \in PCs /\ l.parts \in Seq(Part)
    /\ l.pc \notin {"payloads", "start", "scan", "done"} => l.job \in DOMAIN jobs
    /\ l.pc = "check" => l.parts = <<>>
    /\ l.pc = "alloc" => Len(l.parts) <= Len(jobs[l.job].bss)
    /\ l.pc \in {"copy", "segments"} => l.page \in DOMAIN ExecImage

SlotFields == {"state", "id", "name", "parts", "frames"}
SlotTyped(r) == /\ DOMAIN r = SlotFields /\ r.parts \in Seq(Part)
                /\ r.state \in {"free", "reserved", "committed"}
Typed ==
    /\ \A c \in Cpus : Placed(load[c])
    /\ \A s \in RegistrySlots : SlotTyped(registry[s])
    /\ task_lock \in Cpus \cup {NoCpu}
    /\ DOMAIN thread = DOMAIN jobs
    /\ \A i \in DOMAIN jobs : thread[i].state \in {"none", "ready"}

(* A slot in use has its parts below brk and every page of them is backed  *)
(* by the frame it was loaded into.                                        *)
SlotIntact(r, mm) ==
    /\ Within(r.parts, 0, mm.brk) /\ DOMAIN r.frames = PagesOfAll(r.parts)
    /\ \A va \in DOMAIN r.frames : Maps(mm.tables, kernel_pml4, va, r.frames[va])
SlotsIntact ==
    /\ \A s \in RegistrySlots : registry[s].state # "free" => SlotIntact(registry[s], m)
    /\ \A r, s \in RegistrySlots : r # s /\ registry[r].state # "free" /\ registry[s].state # "free"
         => PartsApart(registry[r].parts, registry[s].parts)

(* The checkpoint of a load lies between the committed modules and its own *)
(* parts, at most a page below what was mapped then.                       *)
CheckOK(l, mm) ==
    /\ l.check[1] \in Nat /\ l.check[1] <= mm.brk
    /\ l.check[1] <= l.check[2] /\ l.check[2] <= mm.mapped
    /\ \E k \in Nat : l.check[2] = k * UnitsPerPage
    /\ Within(l.parts, l.check[1], mm.brk)
    /\ \A va \in PagesOfAll(l.parts) : \E x : Maps(mm.tables, kernel_pml4, va, x)
Above(l) ==
    \A s \in RegistrySlots : registry[s].state = "committed" => Within(registry[s].parts, 0, l.check[1])
LoadsOnTop == \A c \in Cpus : InModule(load[c]) => CheckOK(load[c], m) /\ Above(load[c])

Layout == SlotsIntact /\ LoadsOnTop

(* Memory in order, every variable of its type, and the modules in place. *)
MemInv == MemOK(m, kernel_pml4) /\ Typed /\ (Running => Layout)
----------------------------------------------------------------------------
(* A step that leaves the region alone. *)
LEMMA StepGrows ==
  ASSUME NEW mm, NEW mm2, MemOK(mm, kernel_pml4), MemStep(mm, mm2, kernel_pml4) PROVE Grew(mm, mm2)
<1>1. mm.brk \in Nat /\ mm.mapped \in Int
  BY HeapAssumption DEF MemOK, Mapped
<1>2. mm2.brk = mm.brk /\ mm2.mapped = mm.mapped
  BY DEF MemStep, MemKept
<1>. QED BY <1>1, <1>2 DEF Grew, MemStep, MemKept

(* Growing twice. *)
LEMMA GrewTwice ==
  ASSUME NEW mm, NEW mm1, NEW mm2, MemOK(mm, kernel_pml4), Grew(mm, mm1), Grew(mm1, mm2) PROVE Grew(mm, mm2)
<1>1. /\ mm.brk \in Nat /\ mm1.brk \in Nat /\ mm2.brk \in Nat
      /\ mm.mapped \in Int /\ mm1.mapped \in Int /\ mm2.mapped \in Int
  BY HeapAssumption DEF Grew, MemOK, Mapped
<1>2. PmStep(mm.pm, mm2.pm)
  BY DEF Grew, PmStep
<1>3. VmKept(mm.tables, mm2.tables, kernel_pml4)
  BY DEF Grew, VmKept
<1>4. mm2.brk >= mm.brk /\ mm2.mapped >= mm.mapped
  BY <1>1 DEF Grew
<1>. QED BY <1>2, <1>3, <1>4 DEF Grew

(* The history of lost frames changes. *)
LEMMA MemLost ==
  ASSUME NEW mm, MemOK(mm, kernel_pml4), NEW lost
  PROVE  MemStep(mm, [mm EXCEPT !.lost = lost], kernel_pml4)
<1>. DEFINE mm2 == [mm EXCEPT !.lost = lost]
<1>1. DOMAIN mm = MemFields
  BY DEF MemOK
<1>2. /\ DOMAIN mm2 = MemFields /\ mm2.pm = mm.pm /\ mm2.tables = mm.tables /\ mm2.hp = mm.hp
      /\ mm2.brk = mm.brk /\ mm2.mapped = mm.mapped
  BY <1>1 DEF MemFields
<1>. HIDE DEF mm2
<1>3. MemOK(mm2, kernel_pml4)
  BY <1>2 DEF MemOK, Mapped
<1>4. PmStep(mm.pm, mm2.pm) /\ VmKept(mm.tables, mm2.tables, kernel_pml4)
  BY <1>2 DEF PmStep, VmKept, MemOK, VmOK
<1>. QED BY <1>2, <1>3, <1>4 DEF MemStep, MemKept, mm2

(* A page of an executable is mapped. *)
LEMMA MapsImage ==
  ASSUME NEW mm, MemOK(mm, kernel_pml4), NEW va \in Nat, NEW new, new = pmm_alloc(mm.pm), new.ret # NULL,
         NEW v, v = vmm_map([pm |-> new.pm, tables |-> mm.tables], kernel_pml4, va, new.ret, {"W"}),
         NEW lost
  PROVE  MemStep(mm, [WithVmm(mm, v.m) EXCEPT !.lost = lost], kernel_pml4)
<1>1. PICK n : Mapped(mm, n) /\ VmOK(mm.pm, mm.tables, kernel_pml4, n)
  BY DEF MemOK
<1>2. n \in 0 .. ModulePages
  BY <1>1 DEF Mapped
<1>3. VmOK(v.m.pm, v.m.tables, kernel_pml4, n) /\ PmStep(mm.pm, v.m.pm) /\ VmKept(mm.tables, v.m.tables, kernel_pml4)
  BY <1>1, <1>2, MapFresh
<1>. DEFINE w == v.m
            mm1 == WithVmm(mm, w)
<1>. HIDE DEF w
<1>4. MemStep(mm, mm1, kernel_pml4)
  BY <1>1, <1>3, MemVmm DEF w
<1>5. MemOK(mm1, kernel_pml4)
  BY <1>4 DEF MemStep
<1>. HIDE DEF mm1
<1>6. MemStep(mm1, [mm1 EXCEPT !.lost = lost], kernel_pml4)
  BY <1>5, MemLost
<1>7. MemStep(mm, [mm1 EXCEPT !.lost = lost], kernel_pml4)
  BY <1>4, <1>6, MemTwice
<1>. QED BY <1>7 DEF mm1, w

(* Writing a part: without a fault every page of it is mapped. *)
LEMMA Touches ==
  ASSUME NEW mm, MemOK(mm, kernel_pml4), NEW p \in Part, NEW r, r = Touch(mm, p)
  PROVE  /\ MemStep(mm, r, kernel_pml4)
         /\ r.pm.panic = "none" => \A va \in PagesOf(p) : \E x : Maps(r.tables, kernel_pml4, va, x)
<1>. DEFINE ok == \A va \in PagesOf(p) : vmm_is_mapped(mm.tables, kernel_pml4, va)
<1>1. CASE ok
  <2>1. r = mm
    BY <1>1 DEF Touch
  <2>2. PICK n, lev, at : VmOK(mm.pm, mm.tables, kernel_pml4, n) /\ Shaped(mm.tables, lev, at) /\ lev[kernel_pml4] = Levels
    BY DEF MemOK, VmOK
  <2>3. PagesOf(p) \subseteq Nat
    <3>1. p.addr \in Nat /\ p.addr + p.size - 1 \in Nat
      BY DEF Part
    <3>2. \A a \in Nat : ModulePage(a) \in Nat
      <4>1. SUFFICES ASSUME NEW a \in Nat PROVE ModulePage(a) \in Nat
        OBVIOUS
      <4>. DEFINE q == a \div UnitsPerPage
      <4>2. q \in Nat
        BY PageNumber
      <4>3. ModulePage(a) = MODULE_VBASE + q
        BY DEF ModulePage
      <4>. HIDE DEF q
      <4>. QED BY <4>2, <4>3, RegionAssumption
    <3>. QED BY <3>1, <3>2 DEF PagesOf
  <2>4. ASSUME NEW va \in PagesOf(p) PROVE \E x : Maps(mm.tables, kernel_pml4, va, x)
    <3>1. va \in Nat /\ vmm_is_mapped(mm.tables, kernel_pml4, va)
      BY <1>1, <2>3
    <3>2. kernel_pml4 \in DOMAIN mm.tables
      BY <2>2 DEF VmOK
    <3>3. Maps(mm.tables, kernel_pml4, va, vmm_get_phys(mm.tables, kernel_pml4, va))
      BY <2>2, <3>1, <3>2, PhysFound
    <3>. QED BY <3>3
  <2>. QED BY <2>1, <2>4, MemSame
<1>2. CASE ~ ok
  <2>1. r = [mm EXCEPT !.pm = Panic(@, "kernel page fault")]
    BY <1>2 DEF Touch, PageFault
  <2>2. MemStep(mm, r, kernel_pml4)
    <3>. DEFINE what == "kernel page fault"
    <3>1. what # "none"
      OBVIOUS
    <3>. HIDE DEF what
    <3>2. MemStep(mm, [mm EXCEPT !.pm = Panic(@, what)], kernel_pml4)
      BY <3>1, MemPanic
    <3>. QED BY <2>1, <3>2 DEF what
  <2>3. r.pm.panic = "kernel page fault"
    <3>1. "pm" \in DOMAIN mm /\ "panic" \in DOMAIN mm.pm
      BY DEF MemOK, VmOK, PmOK, MemFields
    <3>. QED BY <2>1, <3>1 DEF Panic
  <2>. QED BY <2>2, <2>3
<1>. QED BY <1>1, <1>2

(* A part has an address and a size. *)
LEMMA PartNumbers ==
  ASSUME NEW parts \in Seq(Part)
  PROVE  \A i \in DOMAIN parts : parts[i] \in Part /\ parts[i].addr \in Nat /\ parts[i].size \in Nat \ {0}
<1>1. \A i \in DOMAIN parts : parts[i] \in Part
  OBVIOUS
<1>2. \A p \in Part : p.addr \in Nat /\ p.size \in Nat \ {0}
  BY DEF Part
<1>. QED BY <1>1, <1>2

(* Parts within bounds are within wider ones. *)
LEMMA WithinWider ==
  ASSUME NEW parts \in Seq(Part), NEW low \in Nat, NEW high \in Nat, Within(parts, low, high),
         NEW low2 \in Nat, NEW high2 \in Nat, low2 <= low, high <= high2
  PROVE  Within(parts, low2, high2)
<1>1. SUFFICES ASSUME NEW i \in DOMAIN parts
               PROVE  low2 <= parts[i].addr /\ parts[i].addr + parts[i].size <= high2
  BY DEF Within
<1>. DEFINE a == parts[i].addr
            s == parts[i].size
<1>2. a \in Nat /\ s \in Nat
  BY PartNumbers
<1>3. low <= a /\ a + s <= high
  BY DEF Within
<1>. HIDE DEF a, s
<1>4. low2 <= a /\ a + s <= high2
  BY <1>2, <1>3
<1>. QED BY <1>4 DEF a, s

(* A part's pages are pages. *)
LEMMA PagesAreNumbers ==
  ASSUME NEW parts \in Seq(Part) PROVE PagesOfAll(parts) \subseteq Nat
<1>1. ASSUME NEW i \in DOMAIN parts PROVE PagesOf(parts[i]) \subseteq Nat
  <2>. DEFINE p == parts[i]
              n == p.addr + p.size
  <2>1. p.addr \in Nat /\ p.size \in Nat \ {0} /\ UnitsPerPage \in Nat \ {0}
    BY PartNumbers, HeapAssumption
  <2>2. n \in Nat /\ p.addr + p.size <= n * UnitsPerPage
    <3>1. n \in Nat
      BY <2>1
    <3>. HIDE DEF p
    <3>2. n <= n * UnitsPerPage
      <4>1. UnitsPerPage - 1 \in Nat /\ n * UnitsPerPage = n + n * (UnitsPerPage - 1)
        BY <2>1, <3>1
      <4>. HIDE DEF n
      <4>2. n * (UnitsPerPage - 1) \in Nat
        BY <3>1, <4>1
      <4>. QED BY <3>1, <4>1, <4>2
    <3>. QED BY <3>1, <3>2
  <2>. HIDE DEF p, n
  <2>3. PagesOf(p) \subseteq RegionPages(n)
    BY <2>1, <2>2, PartPages
  <2>4. RegionPages(n) \subseteq Nat
    BY <2>2, RegionAssumption DEF RegionPages
  <2>. QED BY <2>3, <2>4 DEF p
<1>. QED BY <1>1 DEF PagesOfAll

(* A slot stays intact while memory only grows. *)
LEMMA SlotStays ==
  ASSUME NEW r, r.parts \in Seq(Part), NEW mm, NEW mm2, MemOK(mm, kernel_pml4), Grew(mm, mm2),
         SlotIntact(r, mm)
  PROVE  SlotIntact(r, mm2)
<1>1. mm.brk \in Nat /\ mm2.brk \in Nat /\ mm.brk <= mm2.brk
  BY DEF Grew, MemOK
<1>2. Within(r.parts, 0, mm2.brk)
  <2>1. Within(r.parts, 0, mm.brk)
    BY DEF SlotIntact
  <2>. QED BY <1>1, <2>1, WithinWider
<1>3. \A va \in DOMAIN r.frames : va \in Nat
  BY PagesAreNumbers DEF SlotIntact
<1>4. \A va \in DOMAIN r.frames : Maps(mm2.tables, kernel_pml4, va, r.frames[va])
  BY <1>3 DEF SlotIntact, Grew, VmKept
<1>. QED BY <1>2, <1>4 DEF SlotIntact

(* A checkpoint stays good while memory only grows. *)
LEMMA CheckStays ==
  ASSUME NEW l, l.parts \in Seq(Part), NEW mm, NEW mm2, MemOK(mm, kernel_pml4), Grew(mm, mm2),
         CheckOK(l, mm)
  PROVE  CheckOK(l, mm2)
<1>. DEFINE a == l.check[1]
            b == l.check[2]
<1>1. /\ mm.brk \in Nat /\ mm2.brk \in Nat /\ mm.brk <= mm2.brk
      /\ mm.mapped \in Int /\ mm2.mapped \in Int /\ mm.mapped <= mm2.mapped
  BY HeapAssumption DEF Grew, MemOK, Mapped
<1>2. a \in Nat /\ a <= mm.brk /\ a <= b /\ b <= mm.mapped /\ Within(l.parts, a, mm.brk)
  BY DEF CheckOK
<1>3. PICK k \in Nat : b = k * UnitsPerPage
  BY DEF CheckOK
<1>4. b \in Int
  BY <1>3, HeapAssumption
<1>5. a <= mm2.brk /\ b <= mm2.mapped
  <2>. HIDE DEF a, b
  <2>. QED BY <1>1, <1>2, <1>4
<1>6. Within(l.parts, a, mm2.brk)
  <2>. HIDE DEF a
  <2>. QED BY <1>1, <1>2, WithinWider
<1>7. \A va \in PagesOfAll(l.parts) : \E x : Maps(mm2.tables, kernel_pml4, va, x)
  <2>1. PagesOfAll(l.parts) \subseteq Nat
    BY PagesAreNumbers
  <2>2. \A va \in PagesOfAll(l.parts) : \E x : Maps(mm.tables, kernel_pml4, va, x)
    BY DEF CheckOK
  <2>. QED BY <2>1, <2>2 DEF Grew, VmKept
<1>. QED BY <1>2, <1>3, <1>5, <1>6, <1>7 DEF CheckOK

(* Nothing of the registry changes, and no load gets a checkpoint. *)
LEMMA LayoutStays ==
  ASSUME MemInv, Layout, Grew(m, m'), UNCHANGED <<jobs, registry, kernel_pml4>>,
         \A d \in Cpus : InModule(load[d])' =>
            InModule(load[d]) /\ load'[d].check = load[d].check /\ load'[d].parts = load[d].parts
  PROVE  Layout'
<1>1. MemOK(m, kernel_pml4) /\ Typed /\ RegistrySlots' = RegistrySlots /\ kernel_pml4' = kernel_pml4
  BY DEF MemInv, RegistrySlots
<1>2. \A s \in RegistrySlots : registry[s].parts \in Seq(Part)
  BY <1>1 DEF Typed, SlotTyped
<1>3. ASSUME NEW s \in RegistrySlots, registry[s].state # "free" PROVE SlotIntact(registry[s], m')
  BY <1>1, <1>2, <1>3, SlotStays DEF Layout, SlotsIntact
<1>4. SlotsIntact'
  <2>1. \A s \in RegistrySlots : registry[s].state # "free" => SlotIntact(registry[s], m)'
    BY <1>1, <1>3 DEF SlotIntact
  <2>. QED BY <1>1, <2>1 DEF Layout, SlotsIntact
<1>5. ASSUME NEW c \in Cpus, InModule(load[c])' PROVE CheckOK(load[c], m)' /\ Above(load[c])'
  <2>1. InModule(load[c]) /\ load'[c].check = load[c].check /\ load'[c].parts = load[c].parts
    BY <1>5
  <2>2. CheckOK(load[c], m) /\ Above(load[c]) /\ load[c].parts \in Seq(Part)
    BY <1>1, <2>1 DEF Layout, LoadsOnTop, Typed, Placed
  <2>3. CheckOK(load[c], m')
    BY <1>1, <2>2, CheckStays
  <2>4. CheckOK(load[c], m)'
    BY <1>1, <2>1, <2>3 DEF CheckOK
  <2>5. Above(load[c])'
    BY <1>1, <2>1, <2>2 DEF Above
  <2>. QED BY <2>4, <2>5
<1>6. LoadsOnTop'
  BY <1>5 DEF LoadsOnTop
<1>. QED BY <1>4, <1>6 DEF Layout

(* What is not memory, the registry or loads has its type. *)
Rest == /\ task_lock \in Cpus \cup {NoCpu} /\ DOMAIN thread = DOMAIN jobs
        /\ \A i \in DOMAIN jobs : thread[i].state \in {"none", "ready"}

(* A load moves on, without a new checkpoint. *)
LEMMA Moves ==
  ASSUME LoaderInv, MemInv, NEW c \in Cpus, NEW l, load' = [load EXCEPT ![c] = l],
         UNCHANGED <<jobs, registry, kernel_pml4>>, Grew(m, m'), Placed(l), Rest',
         InModule(l) => InModule(load[c]) /\ l.check = load[c].check /\ l.parts = load[c].parts
  PROVE  MemInv'
<1>1. DOMAIN load = Cpus /\ MemOK(m, kernel_pml4) /\ Typed /\ RegistrySlots' = RegistrySlots
  BY DEF LoaderInv, Forms, MemInv, RegistrySlots
<1>2. load'[c] = l /\ \A d \in Cpus : d # c => load'[d] = load[d]
  BY <1>1
<1>3. \A d \in Cpus : Placed(load[d])'
  <2>1. Placed(load[c])'
    BY <1>2 DEF Placed
  <2>2. \A d \in Cpus : d # c => Placed(load[d])'
    BY <1>1, <1>2 DEF Placed, Typed
  <2>. QED BY <2>1, <2>2
<1>4. \A d \in Cpus : InModule(load[d])' =>
            InModule(load[d]) /\ load'[d].check = load[d].check /\ load'[d].parts = load[d].parts
  BY <1>2 DEF InModule, KindOf
<1>5. MemOK(m, kernel_pml4)'
  BY DEF Grew
<1>6. Typed'
  BY <1>1, <1>3 DEF Typed, Rest
<1>7. Running' => Running
  BY DEF Running, Grew, PmStep
<1>8. Running' => Layout'
  BY <1>4, <1>7, LayoutStays DEF MemInv
<1>. QED BY <1>5, <1>6, <1>8 DEF MemInv

(* Nothing happens to memory. *)
LEMMA GrewSame == ASSUME MemInv PROVE Grew(m, m)
BY MemSame, StepGrows DEF MemInv

(* An allocation, or none. *)
LEMMA GrewKmalloc ==
  ASSUME MemInv, NEW size, NEW a, a = kmalloc(m, kernel_pml4, size) \/ a = [m |-> m, ret |-> NULL]
  PROVE  Grew(m, a.m)
<1>1. MemOK(m, kernel_pml4)
  BY DEF MemInv
<1>2. CASE a = kmalloc(m, kernel_pml4, size)
  <2>1. MemStep(m, kmalloc(m, kernel_pml4, size).m, kernel_pml4)
    BY <1>1, Kmallocs
  <2>. QED BY <1>1, <1>2, <2>1, StepGrows
<1>3. CASE a = [m |-> m, ret |-> NULL]
  <2>1. a.m = m
    BY <1>3
  <2>. QED BY <2>1, GrewSame
<1>. QED BY <1>2, <1>3

(* A block is given back. *)
LEMMA GrewKfree ==
  ASSUME MemInv, NEW mm, Grew(m, mm), NEW ptr PROVE Grew(m, kfree(mm, ptr))
<1>1. MemOK(m, kernel_pml4) /\ MemOK(mm, kernel_pml4)
  BY DEF MemInv, Grew
<1>2. Grew(mm, kfree(mm, ptr))
  BY <1>1, Kfrees, StepGrows
<1>. QED BY <1>1, <1>2, GrewTwice

(* Fields a load keeps when its place changes. *)
LEMMA NewPlace ==
  ASSUME NEW e, DOMAIN e = LoadFields, NEW p, NEW l, l = [e EXCEPT !.pc = p]
  PROVE  /\ l.pc = p /\ l.job = e.job /\ l.parts = e.parts /\ l.check = e.check /\ l.page = e.page
BY DEF LoadFields

(* The rest is as it was. *)
LEMMA RestStays ==
  ASSUME MemInv, UNCHANGED <<jobs, task_lock, thread>> PROVE Rest'
<1>1. Rest
  BY DEF MemInv, Typed, Rest
<1>. QED BY <1>1 DEF Rest

(* What a load starts with. *)
LEMMA NoParts == <<>> \in Seq(Part) /\ 1 \in DOMAIN ExecImage
<1>1. <<>> \in Seq(Part)
  OBVIOUS
<1>2. ExecImage \in Seq(Nat) /\ ExecImage # <<>>
  BY RegionAssumption
<1>3. Len(ExecImage) \in Nat /\ Len(ExecImage) # 0 /\ DOMAIN ExecImage = 1 .. Len(ExecImage)
  BY <1>2
<1>. QED BY <1>1, <1>3

(* A load that is over. *)
LEMMA MemFinishes ==
  ASSUME LoaderInv, MemInv, NEW c \in Cpus, Finished(c), Grew(m, m'), Rest',
         UNCHANGED <<jobs, registry, kernel_pml4>>
  PROVE  MemInv'
<1>. DEFINE j == load[c].job
            p == IF Job(c).kind = "payload" THEN "payloads" ELSE "scan"
            l == [NoLoad EXCEPT !.job = j, !.pc = p]
<1>1. load' = [load EXCEPT ![c] = l]
  BY DEF Finished, Become
<1>2. p \in {"payloads", "scan"}
  OBVIOUS
<1>. HIDE DEF p, j
<1>3. l.pc = p /\ l.parts = <<>>
  BY DEF NoLoad
<1>. HIDE DEF l
<1>4. Placed(l) /\ ~ InModule(l)
  BY <1>2, <1>3, NoParts DEF Placed, InModule, PCs, ModulePlaces
<1>. QED BY <1>1, <1>4, Moves

(* A load that goes to another place, with a checkpoint only if it had one. *)
LEMMA MemGoes ==
  ASSUME LoaderInv, MemInv, NEW c \in Cpus, NEW p \in PCs, Goto(c, p), Grew(m, m'), Rest',
         UNCHANGED <<jobs, registry, kernel_pml4>>, p \notin {"check", "alloc", "copy", "segments"},
         p \in {"scan", "done"} \/ load[c].pc \in ModulePlaces
  PROVE  MemInv'
<1>. DEFINE l == [load[c] EXCEPT !.pc = p]
<1>1. load' = [load EXCEPT ![c] = l]
  BY DEF Goto, Become
<1>2. l.pc = p /\ l.job = load[c].job /\ l.parts = load[c].parts /\ l.check = load[c].check
  BY LoadFacts, NewPlace
<1>. HIDE DEF l
<1>3. Placed(load[c])
  BY DEF MemInv, Typed
<1>4. Placed(l)
  BY <1>2, <1>3 DEF Placed, ModulePlaces
<1>5. InModule(l) => InModule(load[c])
  BY <1>2 DEF InModule, ModulePlaces, KindOf
<1>. QED BY <1>1, <1>2, <1>4, <1>5, Moves

(* The next payload, or the end of their list. *)
LEMMA PayloadMem ==
  ASSUME LoaderInv, MemInv, NEW c \in Cpus, NEW present \in BOOLEAN, NextPayload(c, present)
  PROVE  MemInv'
<1>. DEFINE rest == {i \in DOMAIN jobs : i > load[c].job /\ jobs[i].kind = "payload"}
            i == Min(rest)
            p == IF present THEN "check" ELSE "payloads"
            l == IF rest = {} THEN NoLoad ELSE [NoLoad EXCEPT !.job = i, !.pc = p]
<1>1. /\ load' = [load EXCEPT ![c] = l]
      /\ UNCHANGED <<m, jobs, registry, kernel_pml4, task_lock, thread>>
  BY DEF NextPayload, Become, fixed
<1>2. rest # {} => i \in DOMAIN jobs
  <2>1. rest \subseteq Nat
    BY LoadFacts
  <2>2. rest # {} => i \in rest
    BY <2>1, LeastIs
  <2>. QED BY <2>2
<1>3. p \in {"check", "payloads"}
  OBVIOUS
<1>. HIDE DEF p, i, rest
<1>4. /\ l.pc \in {"start", "check", "payloads"} /\ l.parts = <<>>
      /\ l.pc = "check" => l.job = i /\ rest # {}
  BY <1>3 DEF NoLoad
<1>. HIDE DEF l
<1>5. Placed(l) /\ ~ InModule(l)
  BY <1>2, <1>4, NoParts DEF Placed, InModule, PCs, ModulePlaces
<1>6. Rest' /\ Grew(m, m')
  BY <1>1, RestStays, GrewSame
<1>. QED BY <1>1, <1>5, <1>6, Moves

(* The next task of this CPU. *)
LEMMA TaskMem ==
  ASSUME LoaderInv, MemInv, NEW c \in Cpus, NEW present \in BOOLEAN, NextTask(c, present)
  PROVE  MemInv'
<1>. DEFINE i == Min(Mine(c))
<1>1. PICK a :
        /\ Mine(c) # {} /\ m' = a.m
        /\ a = kmalloc(m, kernel_pml4, ArgvUnits) \/ a = [m |-> m, ret |-> NULL]
        /\ load' = [load EXCEPT ![c] = [NoLoad EXCEPT !.job = i, !.argv = a.ret,
               !.pc = IF a.ret = NULL THEN "scan"
                      ELSE IF jobs[i].kind = "driver" THEN "check" ELSE "copy"]]
        /\ UNCHANGED <<jobs, registry, kernel_pml4, task_lock, thread>>
  BY DEF NextTask, Become, fixed
<1>2. i \in DOMAIN jobs
  <2>1. Mine(c) \subseteq DOMAIN jobs /\ DOMAIN jobs \subseteq Nat
    BY LoadFacts DEF Mine
  <2>2. i \in Mine(c)
    BY <1>1, <2>1, LeastIs
  <2>. QED BY <2>1, <2>2
<1>. HIDE DEF i
<1>. DEFINE v == a.ret
            p == IF v = NULL THEN "scan" ELSE IF jobs[i].kind = "driver" THEN "check" ELSE "copy"
            l == [NoLoad EXCEPT !.job = i, !.argv = v, !.pc = p]
<1>3. p \in {"scan", "check", "copy"} /\ load' = [load EXCEPT ![c] = l]
  BY <1>1
<1>. HIDE DEF p, v
<1>4. l.pc = p /\ l.job = i /\ l.parts = <<>> /\ l.page = 1
  BY DEF NoLoad
<1>. HIDE DEF l
<1>5. Placed(l) /\ ~ InModule(l)
  BY <1>2, <1>3, <1>4, NoParts DEF Placed, InModule, PCs, ModulePlaces
<1>6. Rest' /\ Grew(m, m')
  BY <1>1, RestStays, GrewKmalloc
<1>. QED BY <1>1, <1>3, <1>5, <1>6, Moves

(* The scan starts and ends. *)
LEMMA ScanMem ==
  ASSUME LoaderInv, MemInv, NEW c \in Cpus, ClaimCpu(c) \/ ScanDone(c)
  PROVE  MemInv'
<1>1. PICK p \in {"scan", "done"} :
        /\ Goto(c, p) /\ task_lock' \in {c, NoCpu}
        /\ UNCHANGED <<m, jobs, registry, kernel_pml4, thread>>
  BY DEF ClaimCpu, ScanDone, fixed
<1>2. Rest'
  <2>1. Rest
    BY DEF MemInv, Typed, Rest
  <2>. QED BY <1>1, <2>1 DEF Rest
<1>3. p \in PCs /\ p \notin {"check", "alloc", "copy", "segments"}
  BY <1>1 DEF PCs
<1>. QED BY <1>1, <1>2, <1>3, GrewSame, MemGoes

(* Relocation succeeds or fails. *)
LEMMA LinkMem ==
  ASSUME LoaderInv, MemInv, NEW c \in Cpus, NEW resolved \in BOOLEAN, Link(c, resolved)
  PROVE  MemInv'
<1>1. PICK p \in {"reserve", "rollback"} :
        /\ Goto(c, p) /\ load[c].pc = "link"
        /\ UNCHANGED <<m, jobs, registry, kernel_pml4, task_lock, thread>>
  BY DEF Link, At, fixed
<1>2. p \in PCs /\ p \notin {"check", "alloc", "copy", "segments"} /\ load[c].pc \in ModulePlaces
  BY <1>1 DEF PCs, ModulePlaces
<1>. QED BY <1>1, <1>2, RestStays, GrewSame, MemGoes

(* selftest_init(). *)
LEMMA InitMem ==
  ASSUME LoaderInv, MemInv, NEW c \in Cpus, NEW registers \in BOOLEAN, NEW ok \in BOOLEAN,
         RunInit(c, registers, ok)
  PROVE  MemInv'
<1>0. PICK a : m' = a.m /\ (a = kmalloc(m, kernel_pml4, TestUnits) \/ a = [m |-> m, ret |-> NULL])
  BY DEF RunInit
<1>1. PICK p \in {"commit", "cancel"} :
        /\ Goto(c, p) /\ load[c].pc = "init"
        /\ UNCHANGED <<jobs, registry, kernel_pml4, task_lock, thread>>
  BY DEF RunInit, At, fixed
<1>2. p \in PCs /\ p \notin {"check", "alloc", "copy", "segments"} /\ load[c].pc \in ModulePlaces
  BY <1>1 DEF PCs, ModulePlaces
<1>3. Grew(m, m')
  BY <1>0, GrewKmalloc
<1>. QED BY <1>1, <1>2, <1>3, RestStays, MemGoes

(* No load moves. *)
LEMMA MemRests ==
  ASSUME MemInv, Grew(m, m'), Rest', UNCHANGED <<load, jobs, registry, kernel_pml4>>
  PROVE  MemInv'
<1>1. Typed /\ RegistrySlots' = RegistrySlots
  BY DEF MemInv, RegistrySlots
<1>2. Typed'
  BY <1>1 DEF Typed, Rest, Placed
<1>3. Running' => Running /\ Layout
  BY DEF Running, Grew, PmStep, MemInv
<1>4. \A d \in Cpus : InModule(load[d])' => InModule(load[d])
  BY DEF InModule, KindOf
<1>5. Running' => Layout'
  BY <1>3, <1>4, LayoutStays
<1>6. MemOK(m, kernel_pml4)'
  BY DEF Grew
<1>. QED BY <1>2, <1>5, <1>6 DEF MemInv

(* A failed task. *)
LEMMA MemFails ==
  ASSUME LoaderInv, MemInv, NEW c \in Cpus, NEW mm, Grew(m, mm), Failed(c, mm),
         UNCHANGED <<jobs, registry, kernel_pml4, task_lock, thread>>
  PROVE  MemInv'
<1>1. m' = kfree(mm, load[c].argv) /\ Finished(c)
  BY DEF Failed
<1>2. Grew(m, m')
  BY <1>1, GrewKfree
<1>. QED BY <1>1, <1>2, RestStays, MemFinishes

(* The copy of an executable. *)
LEMMA CopyMem ==
  ASSUME LoaderInv, MemInv, NEW c \in Cpus, NEW valid \in Verdicts, CopyExec(c, valid)
  PROVE  MemInv'
<1>0. load[c].pc = "copy" /\ UNCHANGED <<jobs, registry, kernel_pml4, task_lock, thread>>
  BY DEF CopyExec, At, fixed
<1>1. PICK a : /\ a = kmalloc(m, kernel_pml4, ElfUnits) \/ a = [m |-> m, ret |-> NULL]
               /\ IF a.ret = NULL THEN Failed(c, a.m)
                  ELSE m' = a.m /\ Become(c, [load[c] EXCEPT !.pc = "segments", !.elf = a.ret])
  BY DEF CopyExec
<1>2. Grew(m, a.m)
  BY <1>1, GrewKmalloc
<1>3. CASE a.ret = NULL
  BY <1>0, <1>1, <1>2, <1>3, MemFails
<1>4. CASE a.ret # NULL
  <2>. DEFINE v == a.ret
              l == [load[c] EXCEPT !.pc = "segments", !.elf = v]
  <2>1. load' = [load EXCEPT ![c] = l] /\ m' = a.m
    BY <1>1, <1>4 DEF Become
  <2>. HIDE DEF v
  <2>2. DOMAIN load[c] = LoadFields
    BY LoadFacts
  <2>3. l.pc = "segments" /\ l.job = load[c].job /\ l.parts = load[c].parts /\ l.page = load[c].page
    BY <2>2 DEF LoadFields
  <2>. HIDE DEF l
  <2>4. Placed(load[c])
    BY DEF MemInv, Typed
  <2>5. Placed(l) /\ ~ InModule(l)
    BY <1>0, <2>3, <2>4 DEF Placed, InModule, ModulePlaces, PCs
  <2>. QED BY <1>0, <1>2, <2>1, <2>5, RestStays, Moves
<1>. QED BY <1>3, <1>4

(* The next page of an image. *)
LEMMA SegmentMem ==
  ASSUME LoaderInv, MemInv, NEW c \in Cpus, load[c].pc = "segments", SegmentDone(c), Grew(m, m'),
         UNCHANGED <<jobs, registry, kernel_pml4, task_lock, thread>>
  PROVE  MemInv'
<1>. DEFINE n == load[c].page + 1
            p == IF load[c].page = Len(ExecImage) THEN "tcb" ELSE "segments"
            l == [load[c] EXCEPT !.page = n, !.pc = p]
<1>1. load' = [load EXCEPT ![c] = l]
  BY DEF SegmentDone, Become
<1>2. Placed(load[c]) /\ DOMAIN load[c] = LoadFields /\ KindOf(load[c]) = "thread"
  BY LoadFacts DEF MemInv, Typed, RightPlace
<1>3. p \in {"tcb", "segments"} /\ (p = "segments" => n \in DOMAIN ExecImage)
  <2>1. load[c].page \in DOMAIN ExecImage
    BY <1>2 DEF Placed
  <2>2. Len(ExecImage) \in Nat /\ DOMAIN ExecImage = 1 .. Len(ExecImage)
    BY RegionAssumption
  <2>. QED BY <2>1, <2>2
<1>. HIDE DEF n, p
<1>4. l.pc = p /\ l.job = load[c].job /\ l.parts = load[c].parts /\ l.page = n
  BY <1>2 DEF LoadFields
<1>. HIDE DEF l
<1>5. Placed(l)
  BY <1>2, <1>3, <1>4 DEF Placed, PCs
<1>6. ~ InModule(l)
  BY <1>2, <1>4 DEF InModule, KindOf
<1>. QED BY <1>1, <1>5, <1>6, RestStays, Moves

(* A page of an executable. *)
LEMMA ImageMem ==
  ASSUME LoaderInv, MemInv, NEW c \in Cpus, ReusePage(c) \/ LoadPage(c)
  PROVE  MemInv'
<1>0. load[c].pc = "segments" /\ UNCHANGED <<jobs, registry, kernel_pml4, task_lock, thread>>
  BY ZenonT(60) DEF ReusePage, LoadPage, At, fixed
<1>1. CASE ReusePage(c)
  <2>1. SegmentDone(c) /\ m' = m
    BY <1>1 DEF ReusePage
  <2>. QED BY <1>0, <2>1, GrewSame, SegmentMem
<1>2. CASE LoadPage(c)
  <2>. DEFINE va == ExecImage[load[c].page]
              new == pmm_alloc(m.pm)
              v == vmm_map([pm |-> new.pm, tables |-> m.tables], kernel_pml4, va, new.ret, {"W"})
  <2>1. IF new.ret = NULL THEN Failed(c, kfree(m, load[c].elf))
        ELSE /\ m' = [WithVmm(m, v.m) EXCEPT !.lost = IF v.ok THEN @ ELSE @ \cup {new.ret}]
             /\ SegmentDone(c)
    BY <1>2, ZenonT(60) DEF LoadPage
  <2>2. CASE new.ret = NULL
    <3>1. Failed(c, kfree(m, load[c].elf))
      BY <2>1, <2>2
    <3>2. Grew(m, kfree(m, load[c].elf))
      BY GrewSame, GrewKfree
    <3>. QED BY <1>0, <3>1, <3>2, MemFails
  <2>3. CASE new.ret # NULL
    <3>1. va \in Nat
      <4>1. Placed(load[c])
        BY SMTT(60) DEF MemInv, Typed
      <4>. QED BY <1>0, <4>1, RegionAssumption DEF Placed
    <3>2. PICK lost : m' = [WithVmm(m, v.m) EXCEPT !.lost = lost]
      BY <2>1, <2>3
    <3>3. MemOK(m, kernel_pml4)
      BY DEF MemInv
    <3>. HIDE DEF va
    <3>4. MemStep(m, m', kernel_pml4)
      BY <2>3, <3>1, <3>2, <3>3, MapsImage
    <3>5. SegmentDone(c)
      BY <2>1, <2>3
    <3>. QED BY <1>0, <3>3, <3>4, <3>5, StepGrows, SegmentMem
  <2>. QED BY <2>2, <2>3
<1>. QED BY <1>1, <1>2

(* thread_create_common() up to the TCB. *)
LEMMA TcbMem ==
  ASSUME LoaderInv, MemInv, NEW c \in Cpus, CreateTcb(c)
  PROVE  MemInv'
<1>0. load[c].pc = "tcb" /\ UNCHANGED <<jobs, registry, kernel_pml4, task_lock, thread>>
  BY DEF CreateTcb, At, fixed
<1>. DEFINE a == kmalloc(m, kernel_pml4, TcbUnits)
<1>1. \/ m' = a.m /\ Become(c, [load[c] EXCEPT !.pc = "stack", !.tcb = a.ret])
      \/ m' = a.m /\ Goto(c, "cancel")
      \/ Failed(c, a.m)
  BY DEF CreateTcb
<1>2. Grew(m, a.m)
  BY GrewKmalloc
<1>3. CASE Failed(c, a.m)
  BY <1>0, <1>2, <1>3, MemFails
<1>4. CASE m' = a.m /\ Goto(c, "cancel")
  <2>1. "cancel" \in PCs /\ "cancel" \notin {"check", "alloc", "copy", "segments"} /\ load[c].pc \in ModulePlaces
    BY <1>0 DEF PCs, ModulePlaces
  <2>. QED BY <1>0, <1>2, <1>4, <2>1, RestStays, MemGoes
<1>5. CASE m' = a.m /\ Become(c, [load[c] EXCEPT !.pc = "stack", !.tcb = a.ret])
  <2>. DEFINE v == a.ret
              l == [load[c] EXCEPT !.pc = "stack", !.tcb = v]
  <2>1. load' = [load EXCEPT ![c] = l]
    BY <1>5 DEF Become
  <2>. HIDE DEF v
  <2>2. Placed(load[c]) /\ DOMAIN load[c] = LoadFields
    BY LoadFacts DEF MemInv, Typed
  <2>3. l.pc = "stack" /\ l.job = load[c].job /\ l.parts = load[c].parts /\ l.check = load[c].check
    BY <2>2 DEF LoadFields
  <2>. HIDE DEF l
  <2>4. Placed(l) /\ (InModule(l) => InModule(load[c]))
    BY <1>0, <2>2, <2>3 DEF Placed, InModule, ModulePlaces, PCs, KindOf
  <2>. HIDE DEF a
  <2>. QED BY <1>0, <1>2, <1>5, <2>1, <2>3, <2>4, RestStays, Moves
<1>. QED BY <1>1, <1>3, <1>4, <1>5

(* And the stack. *)
LEMMA StackMem ==
  ASSUME LoaderInv, MemInv, NEW c \in Cpus, CreateStack(c)
  PROVE  MemInv'
<1>. DEFINE a == kmalloc(m, kernel_pml4, StackUnits)
            t == [state |-> "ready", argv |-> load[c].argv, elf |-> load[c].elf,
                  kstack |-> a.ret, tcb |-> load[c].tcb]
<1>0. load[c].pc = "stack" /\ UNCHANGED <<jobs, registry, kernel_pml4, task_lock>>
  BY DEF CreateStack, At, fixed
<1>1. \/ m' = [a.m EXCEPT !.pm = Panic(@, "kmalloc(kernel_stack_base)")] /\ UNCHANGED <<load, thread>>
      \/ /\ m' = a.m /\ thread' = [thread EXCEPT ![load[c].job] = t]
         /\ Goto(c, "commit") \/ Finished(c)
  BY DEF CreateStack
<1>2. Grew(m, a.m)
  BY GrewKmalloc
<1>. HIDE DEF a
<1>3. CASE m' = [a.m EXCEPT !.pm = Panic(@, "kmalloc(kernel_stack_base)")] /\ UNCHANGED <<load, thread>>
  <2>. DEFINE what == "kmalloc(kernel_stack_base)"
              mm == a.m
  <2>1. what # "none" /\ m' = [mm EXCEPT !.pm = Panic(@, what)]
    BY <1>3
  <2>. HIDE DEF what, mm
  <2>2. Grew(m, mm) /\ MemOK(mm, kernel_pml4) /\ MemOK(m, kernel_pml4)
    BY <1>2 DEF mm, Grew, MemInv
  <2>3. MemStep(mm, m', kernel_pml4)
    BY <2>1, <2>2, MemPanic
  <2>4. Grew(m, m')
    BY <2>2, <2>3, StepGrows, GrewTwice
  <2>. QED BY <1>0, <1>3, <2>4, RestStays, MemRests
<1>4. CASE m' = a.m /\ thread' = [thread EXCEPT ![load[c].job] = t] /\ (Goto(c, "commit") \/ Finished(c))
  <2>1. t.state = "ready"
    OBVIOUS
  <2>. HIDE DEF t
  <2>2. Rest'
    <3>1. Rest
      BY DEF MemInv, Typed, Rest
    <3>2. DOMAIN thread' = DOMAIN thread
      BY <1>4
    <3>3. \A i \in DOMAIN thread : thread'[i] = thread[i] \/ thread'[i] = t
      BY <1>4
    <3>. QED BY <1>0, <2>1, <3>1, <3>2, <3>3 DEF Rest
  <2>3. CASE Finished(c)
    BY <1>0, <1>2, <1>4, <2>2, <2>3, MemFinishes
  <2>4. CASE Goto(c, "commit")
    <3>1. "commit" \in PCs /\ "commit" \notin {"check", "alloc", "copy", "segments"} /\ load[c].pc \in ModulePlaces
      BY <1>0 DEF PCs, ModulePlaces
    <3>. QED BY <1>0, <1>2, <1>4, <2>2, <2>4, <3>1, MemGoes
  <2>. QED BY <1>4, <2>3, <2>4
<1>. QED BY <1>1, <1>3, <1>4

(* thread_destroy(). *)
LEMMA ReapMem ==
  ASSUME LoaderInv, MemInv, NEW i \in DOMAIN jobs, Reap(i)
  PROVE  MemInv'
<1>1. /\ m' = thread_destroy(m, thread[i]) /\ thread' = [thread EXCEPT ![i] = NoThread]
      /\ UNCHANGED <<jobs, registry, kernel_pml4, task_lock, load>>
  BY DEF Reap, fixed
<1>2. MemOK(m, kernel_pml4)
  BY DEF MemInv
<1>3. Grew(m, m')
  BY <1>1, <1>2, Destroys, StepGrows
<1>4. Rest'
  <2>1. Rest
    BY DEF MemInv, Typed, Rest
  <2>2. DOMAIN thread' = DOMAIN thread /\ NoThread.state = "none"
    BY <1>1 DEF NoThread
  <2>3. \A j \in DOMAIN thread : thread'[j] = thread[j] \/ thread'[j] = NoThread
    BY <1>1
  <2>. QED BY <1>1, <2>1, <2>2, <2>3 DEF Rest
<1>. QED BY <1>1, <1>3, <1>4, MemRests

(* A job has a size and sections. *)
LEMMA JobFacts ==
  ASSUME LoaderInv, NEW i \in DOMAIN jobs
  PROVE  jobs[i].size \in Nat /\ jobs[i].bss \in Seq(Nat) /\ Len(jobs[i].bss) \in Nat
<1>. DEFINE J == [kind : Kinds, cpu : Cpus, size : Nat, bss : Seq(Nat)]
<1>1. \A j \in J : j.size \in Nat /\ j.bss \in Seq(Nat)
  OBVIOUS
<1>2. jobs \in Seq(J)
  BY DEF LoaderInv, Forms
<1>. HIDE DEF J
<1>3. jobs[i] \in J
  BY <1>2
<1>. QED BY <1>1, <1>3

(* While one load is under way there is no other; a slot is reserved only  *)
(* while it is pending.                                                    *)
LEMMA Alone ==
  ASSUME LoaderInv, NEW c \in Cpus, Loading(c)
  PROVE  /\ \A d \in Cpus : d # c => ~ InModule(load[d])
         /\ ~ IsPending(load[c]) => \A s \in RegistrySlots : registry[s].state # "reserved"
<1>1. Turns /\ Ids
  BY DEF LoaderInv
<1>2. \A d \in Cpus : d # c => ~ Loading(d)
  BY <1>1 DEF Turns, Loading
<1>3. \A d \in Cpus : InModule(load[d]) => Loading(d)
  BY DEF InModule, ModulePlaces, Loading
<1>4. \A d \in Cpus : IsPending(load[d]) => Loading(d)
  BY DEF IsPending, Loading
<1>. QED BY <1>1, <1>2, <1>3, <1>4 DEF Ids

(* Only load c changes, and the others have no checkpoint. *)
LEMMA OneMoves ==
  ASSUME LoaderInv, MemInv, NEW c \in Cpus, Loading(c), NEW l, load' = [load EXCEPT ![c] = l],
         jobs' = jobs, Placed(l), Rest', \A s \in RegistrySlots : SlotTyped(registry'[s])
  PROVE  /\ Typed' /\ load'[c] = l
         /\ \A d \in Cpus : InModule(load[d])' => d = c /\ InModule(l)
<1>1. DOMAIN load = Cpus /\ Typed /\ RegistrySlots' = RegistrySlots
  BY DEF LoaderInv, Forms, MemInv, RegistrySlots
<1>2. load'[c] = l /\ \A d \in Cpus : d # c => load'[d] = load[d]
  BY <1>1
<1>3. \A d \in Cpus : Placed(load[d])'
  <2>1. Placed(load[c])'
    BY <1>2 DEF Placed
  <2>2. \A d \in Cpus : d # c => Placed(load[d])'
    BY <1>1, <1>2 DEF Placed, Typed
  <2>. QED BY <2>1, <2>2
<1>4. Typed'
  BY <1>1, <1>3 DEF Typed, Rest, SlotTyped
<1>5. ASSUME NEW d \in Cpus, InModule(load[d])' PROVE d = c /\ InModule(l)
  <2>1. \A e \in Cpus : e # c => ~ InModule(load[e])
    BY Alone
  <2>. QED BY <1>2, <1>5, <2>1 DEF InModule, KindOf
<1>. QED BY <1>2, <1>4, <1>5

(* The slots stay intact while memory only grows. *)
LEMMA SlotsStay ==
  ASSUME MemInv, Layout, Grew(m, m'), UNCHANGED <<registry, kernel_pml4>>
  PROVE  SlotsIntact'
<1>1. MemOK(m, kernel_pml4) /\ Typed /\ RegistrySlots' = RegistrySlots /\ kernel_pml4' = kernel_pml4
  BY DEF MemInv, RegistrySlots
<1>2. \A s \in RegistrySlots : registry[s].parts \in Seq(Part)
  BY <1>1 DEF Typed, SlotTyped
<1>3. ASSUME NEW s \in RegistrySlots, registry[s].state # "free" PROVE SlotIntact(registry[s], m')
  BY <1>1, <1>2, <1>3, SlotStays DEF Layout, SlotsIntact
<1>4. \A s \in RegistrySlots : registry[s].state # "free" => SlotIntact(registry[s], m)'
  BY <1>1, <1>3 DEF SlotIntact
<1>. QED BY <1>1, <1>4 DEF Layout, SlotsIntact

(* No parts, no pages. *)
LEMMA NoPartsPages == PagesOfAll(<<>>) = {} /\ \A x, y : Within(<<>>, x, y)
BY DEF PagesOfAll, Within

(* module_alloc_checkpoint(). *)
LEMMA CheckpointMem ==
  ASSUME LoaderInv, MemInv, NEW c \in Cpus, NEW valid \in Verdicts, Checkpoint(c, valid)
  PROVE  MemInv'
<1>0. load[c].pc = "check" /\ Running /\ UNCHANGED <<jobs, registry, kernel_pml4, task_lock, thread>>
  BY DEF Checkpoint, At, fixed
<1>. DEFINE k == <<m.brk, m.mapped>>
            l == [load[c] EXCEPT !.pc = "alloc", !.check = k]
<1>1. Failed(c, m) \/ (load' = [load EXCEPT ![c] = l] /\ m' = m)
  BY DEF Checkpoint, Become, module_alloc_checkpoint
<1>2. CASE Failed(c, m)
  BY <1>0, <1>2, GrewSame, MemFails
<1>3. CASE load' = [load EXCEPT ![c] = l] /\ m' = m
  <2>1. /\ Placed(load[c]) /\ DOMAIN load[c] = LoadFields /\ MemOK(m, kernel_pml4) /\ Layout /\ Typed
    BY <1>0, LoadFacts DEF MemInv, Typed
  <2>2. load[c].parts = <<>> /\ load[c].job \in DOMAIN jobs
    BY <1>0, <2>1 DEF Placed
  <2>3. k[1] = m.brk /\ k[2] = m.mapped
    OBVIOUS
  <2>. HIDE DEF k
  <2>4. l.pc = "alloc" /\ l.job = load[c].job /\ l.parts = <<>> /\ l.check = k
    BY <2>1, <2>2 DEF LoadFields
  <2>5. load' = [load EXCEPT ![c] = l]
    BY <1>3
  <2>. HIDE DEF l
  <2>6. Placed(l)
    <3>1. Len(jobs[l.job].bss) \in Nat
      BY <2>2, <2>4, JobFacts
    <3>2. Len(l.parts) <= Len(jobs[l.job].bss)
      BY <2>4, <3>1
    <3>. QED BY <2>2, <2>4, <3>2, NoParts DEF Placed, PCs
  <2>7. Rest' /\ Loading(c)
    BY <1>0, RestStays DEF Loading
  <2>8. \A s \in RegistrySlots : SlotTyped(registry'[s])
    BY <1>0, <2>1 DEF Typed
  <2>9. Typed' /\ load'[c] = l /\ \A d \in Cpus : InModule(load[d])' => d = c
    BY <1>0, <2>5, <2>6, <2>7, <2>8, OneMoves
  <2>10. CheckOK(l, m)
    <3>1. PICK n \in Nat : m.mapped = n * UnitsPerPage
      BY <2>1 DEF MemOK, Mapped
    <3>2. m.brk \in Nat /\ m.brk <= m.mapped /\ m.mapped \in Int
      BY <2>1, <3>1, HeapAssumption DEF MemOK
    <3>3. m.brk <= m.brk /\ m.mapped <= m.mapped
      BY <3>2
    <3>. QED BY <2>3, <2>4, <3>1, <3>2, <3>3, NoPartsPages DEF CheckOK
  <2>11. Above(l)
    BY <2>1, <2>3, <2>4 DEF Above, Layout, SlotsIntact, SlotIntact
  <2>12. LoadsOnTop'
    <3>1. CheckOK(load[c], m)'
      BY <1>0, <1>3, <2>9, <2>10 DEF CheckOK
    <3>2. Above(load[c])'
      BY <1>0, <2>9, <2>11 DEF Above, RegistrySlots
    <3>. QED BY <2>9, <3>1, <3>2 DEF LoadsOnTop
  <2>13. SlotsIntact' /\ MemOK(m, kernel_pml4)'
    BY <1>0, <1>3, <2>1, GrewSame, SlotsStay
  <2>. QED BY <2>9, <2>12, <2>13 DEF MemInv, Layout
<1>. QED BY <1>1, <1>2, <1>3

(* One more part. *)
LEMMA AppendPart ==
  ASSUME NEW parts \in Seq(Part), NEW p \in Part, NEW q, q = Append(parts, p)
  PROVE  /\ q \in Seq(Part) /\ Len(q) = Len(parts) + 1 /\ Len(parts) \in Nat
         /\ \A i \in DOMAIN q : (i \in DOMAIN parts /\ q[i] = parts[i]) \/ q[i] = p
<1>1. Len(parts) \in Nat /\ DOMAIN parts = 1 .. Len(parts)
  OBVIOUS
<1>2. q \in Seq(Part) /\ Len(q) = Len(parts) + 1
  OBVIOUS
<1>3. \A i \in 1 .. Len(parts) + 1 : q[i] = IF i = Len(parts) + 1 THEN p ELSE parts[i]
  OBVIOUS
<1>4. DOMAIN q = 1 .. Len(parts) + 1
  BY <1>1, <1>2
<1>. QED BY <1>1, <1>2, <1>3, <1>4

(* The parts grow at the top. *)
LEMMA CheckGrows ==
  ASSUME NEW l, l.parts \in Seq(Part), NEW mm, MemOK(mm, kernel_pml4), CheckOK(l, mm),
         NEW p \in Part, p.addr = mm.brk, NEW mm2, Grew(mm, mm2), mm2.brk = mm.brk + p.size,
         \A va \in PagesOf(p) : \E x : Maps(mm2.tables, kernel_pml4, va, x),
         NEW l2, l2.check = l.check, l2.parts = Append(l.parts, p)
  PROVE  CheckOK(l2, mm2)
<1>1. CheckOK(l, mm2)
  BY CheckStays
<1>. DEFINE q == l2.parts
            a == l.check[1]
            b == mm.brk
            e == mm2.brk
            z == p.size
<1>2. /\ q \in Seq(Part)
      /\ \A i \in DOMAIN q : (i \in DOMAIN l.parts /\ q[i] = l.parts[i]) \/ q[i] = p
  BY AppendPart
<1>3. a \in Nat /\ b \in Nat /\ e \in Nat /\ z \in Nat /\ a <= b /\ e = b + z /\ p.addr = b
  BY DEF CheckOK, MemOK, Grew, Part
<1>4. Within(l.parts, a, e)
  BY <1>1 DEF CheckOK
<1>5. Within(q, a, e)
  <2>1. ASSUME NEW i \in DOMAIN q PROVE a <= q[i].addr /\ q[i].addr + q[i].size <= e
    <3>1. CASE i \in DOMAIN l.parts /\ q[i] = l.parts[i]
      BY <1>4, <3>1 DEF Within
    <3>2. CASE q[i] = p
      <4>1. a <= b /\ b + z <= e
        <5>. HIDE DEF a, b, e, z
        <5>. QED BY <1>3
      <4>. QED BY <3>2, <4>1
    <3>. QED BY <1>2, <3>1, <3>2
  <2>. QED BY <2>1 DEF Within
<1>6. \A va \in PagesOfAll(q) : \E x : Maps(mm2.tables, kernel_pml4, va, x)
  <2>1. \A va \in PagesOfAll(l.parts) : \E x : Maps(mm2.tables, kernel_pml4, va, x)
    BY <1>1 DEF CheckOK
  <2>2. ASSUME NEW va \in PagesOfAll(q) PROVE va \in PagesOfAll(l.parts) \/ va \in PagesOf(p)
    <3>1. PICK i \in DOMAIN q : va \in PagesOf(q[i])
      BY DEF PagesOfAll
    <3>. HIDE DEF q
    <3>. QED BY <1>2, <3>1 DEF PagesOfAll
  <2>. QED BY <2>1, <2>2
<1>. QED BY <1>1, <1>5, <1>6 DEF CheckOK

(* The next part of a module. *)
LEMMA AllocMem ==
  ASSUME LoaderInv, MemInv, NEW c \in Cpus, AllocPart(c)
  PROVE  MemInv'
<1>. DEFINE k == Len(load[c].parts) + 1
            size == PartSize(Job(c), k)
            part == [addr |-> m.brk, size |-> size]
            a == module_alloc(m, size)
<1>0. load[c].pc = "alloc" /\ Running /\ UNCHANGED <<jobs, registry, kernel_pml4, task_lock, thread>>
  BY DEF AllocPart, At, fixed
<1>1. /\ Placed(load[c]) /\ DOMAIN load[c] = LoadFields /\ MemOK(m, kernel_pml4) /\ Layout /\ Typed
      /\ KindOf(load[c]) # "thread" /\ load[c].job \in DOMAIN jobs
      /\ load[c].parts \in Seq(Part) /\ Len(load[c].parts) <= Len(jobs[load[c].job].bss)
  BY <1>0, LoadFacts DEF MemInv, Typed, Placed, RightPlace
<1>2. k \in Nat \ {0} /\ size \in Nat
  <2>1. Len(load[c].parts) \in Nat
    BY <1>1
  <2>. DEFINE j == jobs[load[c].job]
              bss == j.bss
  <2>2. j.size \in Nat /\ bss \in Seq(Nat) /\ Len(bss) \in Nat
    BY <1>1, JobFacts
  <2>3. k = 1 \/ k - 1 \in DOMAIN bss
    <3>. HIDE DEF bss, j
    <3>1. Len(load[c].parts) <= Len(bss)
      BY <1>1 DEF bss, j
    <3>. QED BY <2>1, <2>2, <3>1
  <2>4. \A x \in Nat : UpToPage(x) \in Nat
    <3>1. SUFFICES ASSUME NEW x \in Nat PROVE UpToPage(x) \in Nat
      OBVIOUS
    <3>. DEFINE q == (x + UnitsPerPage - 1) \div UnitsPerPage
    <3>2. x + UnitsPerPage - 1 \in Nat /\ UnitsPerPage \in Nat
      BY HeapAssumption
    <3>3. q \in Nat
      BY <3>2, PageNumber
    <3>4. UpToPage(x) = q * UnitsPerPage
      BY DEF UpToPage
    <3>. HIDE DEF q
    <3>. QED BY <3>2, <3>3, <3>4
  <2>5. size = IF k = 1 THEN j.size ELSE UpToPage(bss[k - 1])
    BY DEF PartSize, Job
  <2>. HIDE DEF size, k, j, bss
  <2>6. k \in Nat \ {0}
    BY <2>1 DEF k
  <2>. QED BY <2>2, <2>3, <2>4, <2>5, <2>6
<1>3. \/ Goto(c, "rollback") /\ (m' = m \/ m' = a.m)
      \/ /\ a.ok /\ m' = Touch(a.m, part)
         /\ \E p \in {"link", "alloc"} :
              /\ load' = [load EXCEPT ![c] = [load[c] EXCEPT !.parts = Append(@, part), !.pc = p]]
              /\ p = "alloc" => ~ (k > Len(Job(c).bss))
  BY DEF AllocPart, Become
<1>. HIDE DEF size
<1>4. Grew(m, a.m) /\ (a.ok => a.m.brk = m.brk + size /\ size > 0)
  BY <1>1, <1>2, ModuleAllocs
<1>. HIDE DEF a
<1>5. CASE Goto(c, "rollback") /\ (m' = m \/ m' = a.m)
  <2>1. Grew(m, m')
    BY <1>4, <1>5, GrewSame
  <2>2. "rollback" \in PCs /\ "rollback" \notin {"check", "alloc", "copy", "segments"} /\ load[c].pc \in ModulePlaces
    BY <1>0 DEF PCs, ModulePlaces
  <2>. QED BY <1>0, <1>5, <2>1, <2>2, RestStays, MemGoes
<1>6. ASSUME a.ok, m' = Touch(a.m, part), NEW p \in {"link", "alloc"},
             load' = [load EXCEPT ![c] = [load[c] EXCEPT !.parts = Append(@, part), !.pc = p]],
             p = "alloc" => ~ (k > Len(Job(c).bss))
      PROVE  MemInv'
  <2>. DEFINE q == Append(load[c].parts, part)
              l == [load[c] EXCEPT !.parts = q, !.pc = p]
  <2>1. part \in Part /\ part.addr = m.brk /\ part.size = size
    BY <1>1, <1>2, <1>4, <1>6 DEF Part, MemOK
  <2>. HIDE DEF part
  <2>2. load' = [load EXCEPT ![c] = l]
    BY <1>6
  <2>3. q \in Seq(Part) /\ Len(q) = k
    BY <1>1, <2>1, AppendPart
  <2>. HIDE DEF q
  <2>4. l.pc = p /\ l.job = load[c].job /\ l.parts = q /\ l.check = load[c].check
    BY <1>1 DEF LoadFields
  <2>. HIDE DEF l
  <2>5. Placed(l)
    <3>1. p = "alloc" => Len(q) <= Len(jobs[load[c].job].bss)
      <4>. DEFINE n == Len(jobs[load[c].job].bss)
      <4>1. n \in Nat
        BY <1>1, JobFacts
      <4>2. p = "alloc" => ~ (k > n)
        BY <1>6 DEF Job
      <4>. HIDE DEF n, k
      <4>3. p = "alloc" => k <= n
        BY <1>2, <4>1, <4>2
      <4>. QED BY <2>3, <4>3 DEF n
    <3>. QED BY <1>1, <1>6, <2>3, <2>4, <3>1 DEF Placed, PCs
  <2>6. /\ MemOK(a.m, kernel_pml4) /\ MemStep(a.m, m', kernel_pml4)
        /\ m'.pm.panic = "none" => \A va \in PagesOf(part) : \E x : Maps(m'.tables, kernel_pml4, va, x)
    <3>1. MemOK(a.m, kernel_pml4)
      BY <1>4 DEF Grew
    <3>. DEFINE am == a.m
    <3>. HIDE DEF am
    <3>2. m' = Touch(am, part) /\ MemOK(am, kernel_pml4)
      BY <1>6, <3>1 DEF am
    <3>3. MemStep(am, m', kernel_pml4)
      BY <2>1, <3>2, Touches
    <3>4. m'.pm.panic = "none" => \A va \in PagesOf(part) : \E x : Maps(m'.tables, kernel_pml4, va, x)
      BY <2>1, <3>2, Touches
    <3>. QED BY <3>1, <3>3, <3>4 DEF am
  <2>7. Grew(m, m') /\ m'.brk = m.brk + size
    <3>1. Grew(a.m, m')
      BY <2>6, StepGrows
    <3>2. Grew(m, m')
      BY <1>1, <1>4, <3>1, GrewTwice
    <3>3. m'.brk = a.m.brk
      BY <2>6 DEF MemStep, MemKept
    <3>. QED BY <1>4, <1>6, <3>2, <3>3
  <2>8. Rest' /\ Loading(c) /\ \A s \in RegistrySlots : SlotTyped(registry'[s])
    BY <1>0, <1>1, RestStays DEF Loading, Typed
  <2>9. Typed' /\ load'[c] = l /\ \A d \in Cpus : InModule(load[d])' => d = c
    BY <1>0, <2>2, <2>5, <2>8, OneMoves
  <2>10. InModule(load[c])
    BY <1>0, <1>1 DEF InModule, ModulePlaces
  <2>11. CheckOK(load[c], m) /\ Above(load[c])
    BY <1>1, <2>10 DEF Layout, LoadsOnTop
  <2>12. Running' => CheckOK(l, m')
    <3>1. SUFFICES ASSUME Running' PROVE CheckOK(l, m')
      OBVIOUS
    <3>2. \A va \in PagesOf(part) : \E x : Maps(m'.tables, kernel_pml4, va, x)
      BY <2>6, <3>1 DEF Running
    <3>3. l.parts = Append(load[c].parts, part)
      BY <2>4 DEF q
    <3>. QED BY <1>1, <2>1, <2>4, <2>7, <2>11, <3>2, <3>3, CheckGrows
  <2>13. Running' => LoadsOnTop'
    <3>1. Running' => CheckOK(load[c], m)'
      BY <1>0, <2>9, <2>12 DEF CheckOK
    <3>2. Above(load[c])'
      BY <1>0, <2>4, <2>9, <2>11 DEF Above, RegistrySlots
    <3>. QED BY <2>9, <3>1, <3>2 DEF LoadsOnTop
  <2>14. SlotsIntact'
    BY <1>0, <1>1, <2>7, SlotsStay
  <2>15. MemOK(m, kernel_pml4)'
    BY <1>0, <2>7 DEF Grew
  <2>. QED BY <2>9, <2>13, <2>14, <2>15 DEF MemInv, Layout
<1>. QED BY <1>3, <1>5, <1>6

(* The frames that back the parts are what the walk finds. *)
LEMMA BackingMaps ==
  ASSUME NEW mm, MemOK(mm, kernel_pml4), NEW va \in Nat, NEW x, Maps(mm.tables, kernel_pml4, va, x)
  PROVE  vmm_get_phys(mm.tables, kernel_pml4, va) = x
<1>1. PICK lev, at : Shaped(mm.tables, lev, at)
  BY DEF MemOK, VmOK
<1>. QED BY <1>1, PhysIs

(* Parts below a bound and parts above it are apart. *)
LEMMA BelowAbove ==
  ASSUME NEW ps \in Seq(Part), NEW qs \in Seq(Part), NEW b \in Nat, NEW e \in Nat,
         Within(ps, 0, b), Within(qs, b, e)
  PROVE  PartsApart(ps, qs) /\ PartsApart(qs, ps)
<1>1. ASSUME NEW i \in DOMAIN ps, NEW j \in DOMAIN qs PROVE ps[i].addr + ps[i].size <= qs[j].addr
  <2>. DEFINE x == ps[i].addr
              y == ps[i].size
              z == qs[j].addr
  <2>1. x \in Nat /\ y \in Nat /\ z \in Nat
    BY PartNumbers
  <2>2. x + y <= b /\ b <= z
    BY DEF Within
  <2>. HIDE DEF x, y, z
  <2>3. x + y <= z
    BY <2>1, <2>2
  <2>. QED BY <2>3 DEF x, y, z
<1>. QED BY <1>1 DEF PartsApart

(* module_registry_reserve(). *)
LEMMA ReserveMem ==
  ASSUME LoaderInv, MemInv, NEW c \in Cpus, module_registry_reserve(c)
  PROVE  MemInv'
<1>. DEFINE s == Min(FreeSlots)
            parts == load[c].parts
            frames == Backing(parts)
<1>0. load[c].pc = "reserve" /\ Running /\ UNCHANGED <<jobs, kernel_pml4, task_lock, thread>>
  BY DEF module_registry_reserve, At, fixed
<1>1. /\ Placed(load[c]) /\ DOMAIN load[c] = LoadFields /\ MemOK(m, kernel_pml4) /\ Layout /\ Typed
      /\ KindOf(load[c]) # "thread" /\ parts \in Seq(Part) /\ Loading(c)
      /\ InModule(load[c]) /\ ~ IsPending(load[c])
  BY <1>0, LoadFacts DEF MemInv, Typed, Placed, RightPlace, Loading, InModule, ModulePlaces, IsPending
<1>2. PICK a :
        /\ a = kmalloc(m, kernel_pml4, NameUnits) \/ a = [m |-> m, ret |-> NULL]
        /\ a.ret # NULL => FreeSlots # {}
        /\ m' = a.m
        /\ IF a.ret = NULL
           THEN Goto(c, "rollback") /\ UNCHANGED registry
           ELSE /\ registry' = [registry EXCEPT ![s] =
                     [state |-> "reserved", id |-> g_next_id, name |-> a.ret,
                      parts |-> parts, frames |-> frames]]
                /\ \E p \in {"init", "tcb"} :
                     load' = [load EXCEPT ![c] = [load[c] EXCEPT !.id = g_next_id, !.pc = p]]
  <2>1. PICK a \in {IF FreeSlots = {} THEN [m |-> m, ret |-> NULL]
                    ELSE kmalloc(m, kernel_pml4, NameUnits)} :
         /\ m' = a.m
         /\ IF a.ret = NULL
            THEN Goto(c, "rollback") /\ UNCHANGED <<registry, g_next_id>>
            ELSE /\ registry' = [registry EXCEPT ![s] =
                      [state |-> "reserved", id |-> g_next_id, name |-> a.ret,
                       parts |-> load[c].parts, frames |-> Backing(load[c].parts)]]
                 /\ g_next_id' = g_next_id + 1
                 /\ Become(c, [load[c] EXCEPT !.id = g_next_id,
                      !.pc = IF Job(c).kind = "payload" THEN "init" ELSE "tcb"])
    BY DEF module_registry_reserve
  <2>2. a.ret # NULL => FreeSlots # {}
    BY <2>1
  <2>3. a = kmalloc(m, kernel_pml4, NameUnits) \/ a = [m |-> m, ret |-> NULL]
    BY <2>1
  <2>. HIDE DEF s
  <2>. QED BY <2>1, <2>2, <2>3 DEF Become
<1>3. Grew(m, m')
  BY <1>2, GrewKmalloc
<1>4. CASE a.ret = NULL
  <2>1. "rollback" \in PCs /\ "rollback" \notin {"check", "alloc", "copy", "segments"} /\ load[c].pc \in ModulePlaces
    BY <1>0 DEF PCs, ModulePlaces
  <2>. QED BY <1>0, <1>2, <1>3, <1>4, <2>1, RestStays, MemGoes
<1>5. CASE a.ret # NULL
  <2>1. PICK p \in {"init", "tcb"} :
          load' = [load EXCEPT ![c] = [load[c] EXCEPT !.id = g_next_id, !.pc = p]]
    BY <1>2, <1>5
  <2>. DEFINE name == a.ret
              r == [state |-> "reserved", id |-> g_next_id, name |-> name, parts |-> parts, frames |-> frames]
              l == [load[c] EXCEPT !.id = g_next_id, !.pc = p]
  <2>2. s \in RegistrySlots /\ registry[s].state = "free"
    <3>1. FreeSlots \subseteq Nat
      BY DEF FreeSlots, RegistrySlots
    <3>2. s \in FreeSlots
      BY <1>2, <1>5, <3>1, LeastIs
    <3>. QED BY <3>2 DEF FreeSlots
  <2>3. registry' = [registry EXCEPT ![s] = r] /\ load' = [load EXCEPT ![c] = l]
    BY <1>2, <1>5, <2>1
  <2>. HIDE DEF s, name, parts, frames
  <2>4. r.state = "reserved" /\ r.parts = parts /\ r.frames = frames /\ DOMAIN r = SlotFields
    BY DEF SlotFields
  <2>5. l.pc = p /\ l.job = load[c].job /\ l.parts = parts /\ l.check = load[c].check
    BY <1>1 DEF LoadFields, parts
  <2>. HIDE DEF r, l
  <2>6. Placed(l) /\ InModule(l)
    BY <1>0, <1>1, <2>1, <2>5 DEF Placed, PCs, InModule, ModulePlaces, KindOf, parts
  <2>7. /\ DOMAIN registry = RegistrySlots /\ RegistrySlots' = RegistrySlots
        /\ registry'[s] = r /\ \A t \in RegistrySlots : t # s => registry'[t] = registry[t]
    BY <2>2, <2>3 DEF LoaderInv, Forms, RegistrySlots
  <2>8. \A t \in RegistrySlots : SlotTyped(registry'[t])
    BY <1>1, <2>4, <2>7 DEF Typed, SlotTyped
  <2>9. Typed' /\ load'[c] = l /\ \A d \in Cpus : InModule(load[d])' => d = c
    BY <1>0, <1>1, <2>3, <2>6, <2>8, RestStays, OneMoves
  <2>10. CheckOK(load[c], m) /\ Above(load[c])
    BY <1>1 DEF Layout, LoadsOnTop
  <2>. DEFINE b == load[c].check[1]
              e == m.brk
  <2>11. b \in Nat /\ e \in Nat /\ Within(parts, b, e)
    BY <1>1, <2>10 DEF CheckOK, MemOK, parts
  <2>12. SlotIntact(r, m)
    <3>1. Within(parts, 0, e)
      <4>. HIDE DEF b, e
      <4>1. 0 <= b /\ e <= e
        BY <2>11
      <4>. QED BY <1>1, <2>11, <4>1, WithinWider
    <3>2. DOMAIN frames = PagesOfAll(parts) /\ \A va \in DOMAIN frames :
             frames[va] = vmm_get_phys(m.tables, kernel_pml4, va)
      BY DEF frames, Backing, PagesOfAll
    <3>3. ASSUME NEW va \in DOMAIN frames PROVE Maps(m.tables, kernel_pml4, va, frames[va])
      <4>1. PICK x : Maps(m.tables, kernel_pml4, va, x)
        BY <2>10, <3>2 DEF CheckOK, parts
      <4>2. va \in Nat
        BY <1>1, <3>2, PagesAreNumbers
      <4>3. vmm_get_phys(m.tables, kernel_pml4, va) = x
        BY <1>1, <4>1, <4>2, BackingMaps
      <4>. QED BY <3>2, <4>1, <4>3
    <3>. QED BY <2>4, <3>1, <3>2, <3>3 DEF SlotIntact
  <2>13. SlotIntact(r, m')
    BY <1>1, <1>3, <2>4, <2>12, SlotStays
  <2>14. \A t \in RegistrySlots : t # s /\ registry[t].state # "free" =>
            /\ SlotIntact(registry[t], m') /\ registry[t].state = "committed"
            /\ registry[t].parts \in Seq(Part) /\ Within(registry[t].parts, 0, b)
    <3>1. SUFFICES ASSUME NEW t \in RegistrySlots, registry[t].state # "free"
                   PROVE  /\ SlotIntact(registry[t], m') /\ registry[t].state = "committed"
                          /\ registry[t].parts \in Seq(Part) /\ Within(registry[t].parts, 0, b)
      OBVIOUS
    <3>2. registry[t].parts \in Seq(Part) /\ registry[t].state \in {"free", "reserved", "committed"}
      BY <1>1 DEF Typed, SlotTyped
    <3>3. SlotIntact(registry[t], m')
      BY <1>1, <1>3, <3>1, <3>2, SlotStays DEF Layout, SlotsIntact
    <3>4. registry[t].state = "committed"
      BY <1>1, <3>1, <3>2, Alone
    <3>. QED BY <2>10, <3>2, <3>3, <3>4 DEF Above
  <2>15. \A t \in RegistrySlots : t # s /\ registry[t].state # "free" =>
            PartsApart(registry[t].parts, parts) /\ PartsApart(parts, registry[t].parts)
    <3>. HIDE DEF b, e
    <3>. QED BY <1>1, <2>11, <2>14, BelowAbove
  <2>16. SlotsIntact'
    <3>1. \A t \in RegistrySlots : registry'[t].state # "free" => SlotIntact(registry[t], m)'
      <4>1. \A t \in RegistrySlots : registry'[t].state # "free" => SlotIntact(registry'[t], m')
        BY <2>7, <2>13, <2>14
      <4>. QED BY <1>0, <4>1 DEF SlotIntact
    <3>2. \A t, u \in RegistrySlots :
             t # u /\ registry[t].state # "free" /\ registry[u].state # "free"
               => PartsApart(registry[t].parts, registry[u].parts)
      BY <1>1 DEF Layout, SlotsIntact
    <3>3. \A t, u \in RegistrySlots :
             t # u /\ registry'[t].state # "free" /\ registry'[u].state # "free"
               => PartsApart(registry'[t].parts, registry'[u].parts)
      BY <2>4, <2>7, <2>15, <3>2
    <3>. QED BY <2>7, <3>1, <3>3 DEF SlotsIntact
  <2>17. CheckOK(load[c], m)'
    <3>1. CheckOK(load[c], m')
      BY <1>1, <1>3, <2>10, CheckStays DEF parts
    <3>. QED BY <1>0, <2>5, <2>9, <3>1 DEF CheckOK, parts
  <2>18. Above(load[c])'
    BY <2>4, <2>5, <2>7, <2>9, <2>10 DEF Above
  <2>19. LoadsOnTop'
    BY <2>9, <2>17, <2>18 DEF LoadsOnTop
  <2>20. MemOK(m, kernel_pml4)'
    BY <1>0, <1>3 DEF Grew
  <2>. QED BY <2>9, <2>16, <2>19, <2>20 DEF MemInv, Layout
<1>. QED BY <1>4, <1>5

(* Slots in use keep what they have; some may be given up. *)
LEMMA SlotsFewer ==
  ASSUME MemInv, Layout, Grew(m, m'), kernel_pml4' = kernel_pml4,
         \A s \in RegistrySlots : registry'[s].state # "free" =>
            /\ registry[s].state # "free"
            /\ registry'[s].parts = registry[s].parts /\ registry'[s].frames = registry[s].frames
  PROVE  SlotsIntact'
<1>1. MemOK(m, kernel_pml4) /\ Typed /\ RegistrySlots' = RegistrySlots
  BY DEF MemInv, RegistrySlots
<1>2. ASSUME NEW s \in RegistrySlots, registry'[s].state # "free" PROVE SlotIntact(registry[s], m)'
  <2>1. registry[s].parts \in Seq(Part) /\ SlotIntact(registry[s], m)
    BY <1>1, <1>2 DEF Typed, SlotTyped, Layout, SlotsIntact
  <2>2. SlotIntact(registry[s], m')
    BY <1>1, <2>1, SlotStays
  <2>. QED BY <1>2, <2>2 DEF SlotIntact
<1>. QED BY <1>1, <1>2 DEF Layout, SlotsIntact

(* module_registry_commit(). *)
LEMMA CommitMem ==
  ASSUME LoaderInv, MemInv, NEW c \in Cpus, module_registry_commit(c)
  PROVE  MemInv'
<1>0. /\ load[c].pc = "commit" /\ Running /\ UNCHANGED <<m, jobs, kernel_pml4, task_lock, thread>>
      /\ registry' = [s \in RegistrySlots |->
           IF s \in SlotOf(c) THEN [registry[s] EXCEPT !.state = "committed"] ELSE registry[s]]
      /\ Finished(c)
  BY DEF module_registry_commit, At, fixed
<1>1. Typed /\ Layout /\ Loading(c)
  BY <1>0 DEF MemInv, Loading
<1>2. ASSUME NEW s \in RegistrySlots
      PROVE  /\ SlotTyped(registry'[s])
             /\ registry'[s].state # "free" => registry[s].state # "free"
             /\ registry'[s].parts = registry[s].parts /\ registry'[s].frames = registry[s].frames
  <2>. DEFINE e == registry[s]
              f == [e EXCEPT !.state = "committed"]
  <2>1. SlotTyped(e)
    BY <1>1 DEF Typed
  <2>2. f.state = "committed" /\ f.parts = e.parts /\ f.frames = e.frames /\ DOMAIN f = SlotFields
    BY <2>1 DEF SlotTyped, SlotFields
  <2>3. registry'[s] = IF s \in SlotOf(c) THEN f ELSE e
    BY <1>0
  <2>4. s \in SlotOf(c) => e.state # "free"
    BY DEF SlotOf
  <2>5. SlotTyped(f)
    BY <2>1, <2>2 DEF SlotTyped
  <2>. HIDE DEF e, f
  <2>6. /\ SlotTyped(registry'[s])
        /\ registry'[s].state # "free" => e.state # "free"
        /\ registry'[s].parts = e.parts /\ registry'[s].frames = e.frames
    BY <2>1, <2>2, <2>3, <2>4, <2>5
  <2>. QED BY <2>6 DEF e
<1>. DEFINE j == load[c].job
            p == IF Job(c).kind = "payload" THEN "payloads" ELSE "scan"
            l == [NoLoad EXCEPT !.job = j, !.pc = p]
<1>3. load' = [load EXCEPT ![c] = l]
  BY <1>0 DEF Finished, Become
<1>4. p \in {"payloads", "scan"}
  OBVIOUS
<1>. HIDE DEF p, j
<1>5. l.pc = p /\ l.parts = <<>>
  BY DEF NoLoad
<1>. HIDE DEF l
<1>6. Placed(l) /\ ~ InModule(l)
  BY <1>4, <1>5, NoParts DEF Placed, InModule, PCs, ModulePlaces
<1>7. Rest'
  BY <1>0, RestStays
<1>8. Typed' /\ \A d \in Cpus : ~ InModule(load[d])'
  BY <1>0, <1>1, <1>2, <1>3, <1>6, <1>7, OneMoves
<1>9. SlotsIntact' /\ MemOK(m, kernel_pml4)'
  BY <1>0, <1>1, <1>2, GrewSame, SlotsFewer DEF MemInv
<1>. QED BY <1>8, <1>9 DEF MemInv, Layout, LoadsOnTop

(* module_registry_cancel(). *)
LEMMA CancelMem ==
  ASSUME LoaderInv, MemInv, NEW c \in Cpus, module_registry_cancel(c)
  PROVE  MemInv'
<1>0. /\ load[c].pc = "cancel" /\ Running /\ UNCHANGED <<jobs, kernel_pml4, task_lock, thread>>
      /\ registry' = [s \in RegistrySlots |-> IF s \in SlotOf(c) THEN REG_FREE ELSE registry[s]]
      /\ m' = CancelledNames(c, m) /\ Goto(c, "rollback")
  BY DEF module_registry_cancel, At, fixed, ClearedSlots
<1>1. /\ Typed /\ Layout /\ Loading(c) /\ MemOK(m, kernel_pml4) /\ Placed(load[c])
      /\ DOMAIN load[c] = LoadFields
  BY <1>0, LoadFacts DEF MemInv, Loading, Typed
<1>2. Grew(m, m')
  <2>1. m' = m \/ \E ptr : m' = kfree(m, ptr)
    BY <1>0 DEF CancelledNames
  <2>. QED BY <2>1, GrewSame, GrewKfree
<1>3. REG_FREE.state = "free" /\ SlotTyped(REG_FREE)
  BY DEF REG_FREE, SlotTyped, SlotFields
<1>4. ASSUME NEW s \in RegistrySlots
      PROVE  /\ SlotTyped(registry'[s])
             /\ registry'[s].state # "free" => registry'[s] = registry[s]
  <2>1. registry'[s] = IF s \in SlotOf(c) THEN REG_FREE ELSE registry[s]
    BY <1>0
  <2>2. SlotTyped(registry[s])
    BY <1>1 DEF Typed
  <2>. QED BY <1>3, <2>1, <2>2
<1>. DEFINE l == [load[c] EXCEPT !.pc = "rollback"]
<1>5. load' = [load EXCEPT ![c] = l]
  BY <1>0 DEF Goto, Become
<1>6. l.pc = "rollback" /\ l.job = load[c].job /\ l.parts = load[c].parts /\ l.check = load[c].check
  BY <1>1, NewPlace
<1>. HIDE DEF l
<1>7. Placed(l) /\ (InModule(l) => InModule(load[c]))
  BY <1>0, <1>1, <1>6 DEF Placed, PCs, InModule, ModulePlaces, KindOf
<1>8. Typed' /\ load'[c] = l /\ \A d \in Cpus : InModule(load[d])' => d = c /\ InModule(l)
  BY <1>0, <1>1, <1>4, <1>5, <1>7, RestStays, OneMoves
<1>9. SlotsIntact' /\ MemOK(m, kernel_pml4)'
  <2>1. SlotsIntact'
    BY <1>0, <1>1, <1>2, <1>4, SlotsFewer
  <2>. QED BY <1>0, <1>2, <2>1 DEF Grew
<1>10. InModule(l) => CheckOK(load[c], m)' /\ Above(load[c])'
  <2>1. SUFFICES ASSUME InModule(l) PROVE CheckOK(load[c], m)' /\ Above(load[c])'
    OBVIOUS
  <2>2. CheckOK(load[c], m) /\ Above(load[c])
    BY <1>1, <1>7, <2>1 DEF Layout, LoadsOnTop
  <2>3. CheckOK(load[c], m')
    BY <1>1, <1>2, <2>2, CheckStays DEF Placed
  <2>4. CheckOK(load[c], m)'
    BY <1>0, <1>6, <1>8, <2>3 DEF CheckOK
  <2>5. RegistrySlots' = RegistrySlots
    BY DEF RegistrySlots
  <2>6. Above(load[c])'
    BY <1>4, <1>6, <1>8, <2>2, <2>5 DEF Above
  <2>. QED BY <2>4, <2>6
<1>. QED BY <1>8, <1>9, <1>10 DEF MemInv, Layout, LoadsOnTop

(* module_alloc_rollback(): it takes back the load's own parts, and no     *)
(* page of a committed module.                                             *)
LEMMA RollbackMem ==
  ASSUME LoaderInv, MemInv, NEW c \in Cpus, Rollback(c)
  PROVE  MemInv'
<1>. DEFINE check == load[c].check
            b == check[1]
            r == module_alloc_rollback(m, check)
<1>0. /\ load[c].pc = "rollback" /\ Running /\ UNCHANGED <<jobs, registry, kernel_pml4, task_lock, thread>>
      /\ m' = kfree(r, load[c].argv) /\ Finished(c)
  BY DEF Rollback, Failed, At, fixed
<1>1. /\ Typed /\ Layout /\ Loading(c) /\ MemOK(m, kernel_pml4) /\ m.pm.panic = "none"
      /\ InModule(load[c]) /\ ~ IsPending(load[c])
  BY <1>0, LoadFacts DEF MemInv, Loading, Typed, Running, InModule, ModulePlaces, RightPlace, IsPending
<1>2. CheckOK(load[c], m) /\ Above(load[c])
  BY <1>1 DEF Layout, LoadsOnTop
<1>3. PICK k \in Nat : check[2] = k * UnitsPerPage
  BY <1>2 DEF CheckOK
<1>4. /\ b \in Nat /\ b <= m.brk /\ b <= check[2] /\ check[2] <= m.mapped
  BY <1>2 DEF CheckOK
<1>5. /\ MemOK(r, kernel_pml4) /\ PmStep(m.pm, r.pm) /\ r.brk = b
      /\ \A va \in RegionPages(k) : \A x :
           Maps(m.tables, kernel_pml4, va, x) => Maps(r.tables, kernel_pml4, va, x)
  <2>. DEFINE ch == check
  <2>1. /\ ch[1] \in Nat /\ ch[1] <= m.brk /\ ch[1] <= ch[2] /\ ch[2] <= m.mapped
        /\ ch[2] = k * UnitsPerPage /\ r = module_alloc_rollback(m, ch)
    BY <1>3, <1>4
  <2>. HIDE DEF ch, r
  <2>2. MemOK(r, kernel_pml4) /\ PmStep(m.pm, r.pm) /\ r.brk = ch[1]
    BY <1>1, <2>1, RollsBack
  <2>3. \A va \in RegionPages(k) : \A x :
           Maps(m.tables, kernel_pml4, va, x) => Maps(r.tables, kernel_pml4, va, x)
    BY <1>1, <2>1, RollsBack
  <2>. QED BY <2>2, <2>3 DEF ch
<1>. HIDE DEF r
<1>6. Grew(r, m')
  BY <1>0, <1>5, Kfrees, StepGrows
<1>7. Typed' /\ \A d \in Cpus : ~ InModule(load[d])'
  <2>. DEFINE j == load[c].job
              p == IF Job(c).kind = "payload" THEN "payloads" ELSE "scan"
              l == [NoLoad EXCEPT !.job = j, !.pc = p]
  <2>1. load' = [load EXCEPT ![c] = l]
    BY <1>0 DEF Finished, Become
  <2>2. p \in {"payloads", "scan"}
    OBVIOUS
  <2>. HIDE DEF p, j
  <2>3. l.pc = p /\ l.parts = <<>>
    BY DEF NoLoad
  <2>. HIDE DEF l
  <2>4. Placed(l) /\ ~ InModule(l)
    BY <2>2, <2>3, NoParts DEF Placed, InModule, PCs, ModulePlaces
  <2>5. \A s \in RegistrySlots : SlotTyped(registry'[s])
    BY <1>0, <1>1 DEF Typed
  <2>. QED BY <1>0, <1>1, <2>1, <2>4, <2>5, RestStays, OneMoves
<1>8. ASSUME NEW s \in RegistrySlots, registry[s].state # "free" PROVE SlotIntact(registry[s], m')
  <2>. DEFINE e == registry[s]
              parts == e.parts
  <2>1. SlotTyped(e) /\ SlotIntact(e, m) /\ e.state # "free"
    BY <1>1, <1>8 DEF Typed, Layout, SlotsIntact
  <2>2. e.state = "committed" /\ parts \in Seq(Part)
    BY <1>1, <2>1, Alone DEF SlotTyped
  <2>3. Within(parts, 0, b)
    BY <1>2, <2>2 DEF Above
  <2>4. ASSUME NEW i \in DOMAIN parts PROVE PagesOf(parts[i]) \subseteq RegionPages(k)
    <3>. DEFINE q == parts[i]
    <3>1. q.addr \in Nat /\ q.size \in Nat \ {0}
      BY <2>2, PartNumbers
    <3>2. q.addr + q.size <= b
      BY <2>3 DEF Within
    <3>3. q.addr + q.size <= k * UnitsPerPage
      <4>. DEFINE x == q.addr
                  y == q.size
                  z == k * UnitsPerPage
      <4>1. x \in Nat /\ y \in Nat /\ x + y <= b /\ b <= z /\ b \in Nat /\ z \in Int
        BY <1>3, <1>4, <3>1, <3>2, HeapAssumption
      <4>. HIDE DEF x, y, z, b
      <4>2. x + y <= z
        BY <4>1
      <4>. QED BY <4>2 DEF x, y, z
    <3>. HIDE DEF q
    <3>4. PagesOf(q) \subseteq RegionPages(k)
      BY <3>1, <3>3, PartPages
    <3>. QED BY <3>4 DEF q
  <2>5. PagesOfAll(parts) \subseteq RegionPages(k)
    BY <2>4 DEF PagesOfAll
  <2>6. SlotIntact(e, r)
    BY <1>5, <2>1, <2>3, <2>5 DEF SlotIntact
  <2>. HIDE DEF e
  <2>7. SlotIntact(e, m')
    BY <1>5, <1>6, <2>2, <2>6, SlotStays
  <2>. QED BY <2>7 DEF e
<1>9. SlotsIntact'
  <2>1. \A s \in RegistrySlots : registry[s].state # "free" => SlotIntact(registry[s], m)'
    BY <1>0, <1>8 DEF SlotIntact
  <2>2. RegistrySlots' = RegistrySlots
    BY DEF RegistrySlots
  <2>. QED BY <1>0, <1>1, <2>1, <2>2 DEF Layout, SlotsIntact
<1>10. MemOK(m, kernel_pml4)'
  BY <1>0, <1>6 DEF Grew
<1>. QED BY <1>7, <1>9, <1>10 DEF MemInv, Layout, LoadsOnTop

(* The kernel has booted. *)
LEMMA MemInvInit == Init => MemInv
<1>. SUFFICES ASSUME Init PROVE MemInv
  OBVIOUS
<1>1. MemOK(m, kernel_pml4)
  <2>1. PICK i \in Instances : \E pm \in {pmm_init_from_memmap(i[1])} :
          m = Boot(pm) /\ kernel_pml4 = pmm_alloc(pm).ret
    BY DEF Init
  <2>. DEFINE mmap == i[1]
              pm == pmm_init_from_memmap(mmap)
  <2>2. m = Boot(pm) /\ kernel_pml4 = pmm_alloc(pm).ret
    BY <2>1
  <2>3. /\ mmap \in Seq([base : Nat, length : Nat, usable : BOOLEAN])
        /\ \A e \in UsableEntries(mmap) : OldRoot \notin EntryPages(mmap[e])
    BY BootAssumption
  <2>. HIDE DEF mmap
  <2>4. MemOK(Boot(pm), pmm_alloc(pm).ret)
    BY <2>3, Boots
  <2>. QED BY <2>2, <2>4
<1>2. /\ registry = [s \in RegistrySlots |-> REG_FREE] /\ task_lock = NoCpu
      /\ load = [c \in Cpus |-> [NoLoad EXCEPT !.pc = IF c = Bsp THEN "payloads" ELSE "start"]]
      /\ thread = [i \in DOMAIN jobs |-> NoThread]
  BY DEF Init
<1>3. \A c \in Cpus : load[c].pc \in {"payloads", "start"} /\ load[c].parts = <<>>
  BY <1>2 DEF NoLoad
<1>4. \A s \in RegistrySlots : registry[s].state = "free" /\ SlotTyped(registry[s])
  <2>1. REG_FREE.state = "free" /\ SlotTyped(REG_FREE)
    BY DEF REG_FREE, SlotTyped, SlotFields
  <2>. QED BY <1>2, <2>1
<1>5. \A c \in Cpus : Placed(load[c]) /\ ~ InModule(load[c])
  BY <1>3, NoParts DEF Placed, PCs, InModule, ModulePlaces
<1>6. Typed
  BY <1>2, <1>4, <1>5 DEF Typed, NoThread
<1>7. Layout
  BY <1>4, <1>5 DEF Layout, SlotsIntact, LoadsOnTop
<1>. QED BY <1>1, <1>6, <1>7 DEF MemInv

(* Every step keeps memory in order and the modules in place. *)
LEMMA MemInvStep == LoaderInv /\ MemInv /\ [Next]_vars => MemInv'
<1>. SUFFICES ASSUME LoaderInv, MemInv, [Next]_vars PROVE MemInv'
  OBVIOUS
<1>1. CASE \E c \in Cpus : LoadStep(c)
  <2>1. PICK c \in Cpus : LoadStep(c)
    BY <1>1
  <2>2. CASE \E present \in BOOLEAN : NextPayload(c, present) \/ NextTask(c, present)
    BY <2>2, PayloadMem, TaskMem
  <2>3. CASE \E valid \in Verdicts : Checkpoint(c, valid) \/ CopyExec(c, valid)
    BY <2>3, CheckpointMem, CopyMem
  <2>4. CASE \E resolved \in BOOLEAN : Link(c, resolved)
    BY <2>4, LinkMem
  <2>5. CASE \E registers, ok \in BOOLEAN : RunInit(c, registers, ok)
    BY <2>5, InitMem
  <2>6. CASE AllocPart(c) \/ Rollback(c) \/ ClaimCpu(c) \/ ScanDone(c)
    BY <2>6, AllocMem, RollbackMem, ScanMem
  <2>7. CASE module_registry_reserve(c) \/ module_registry_commit(c) \/ module_registry_cancel(c)
    BY <2>7, ReserveMem, CommitMem, CancelMem
  <2>8. CASE ReusePage(c) \/ LoadPage(c) \/ CreateTcb(c) \/ CreateStack(c)
    BY <2>8, ImageMem, TcbMem, StackMem
  <2>. QED BY <2>1, <2>2, <2>3, <2>4, <2>5, <2>6, <2>7, <2>8 DEF LoadStep
<1>2. CASE \E i \in DOMAIN jobs : Reap(i)
  BY <1>2, ReapMem
<1>3. CASE Quiet \/ UNCHANGED vars
  <2>1. UNCHANGED <<m, jobs, registry, task_lock, load, thread, kernel_pml4>>
    BY <1>3 DEF Quiet, vars
  <2>. QED BY <2>1, GrewSame, RestStays, MemRests
<1>. QED BY <1>1, <1>2, <1>3 DEF Next

(* Memory, the region and the loads stay in order however loads fail. *)
THEOREM LoaderMemoryInvariant == Spec => []MemInv
BY LoaderInvariant, MemInvInit, MemInvStep, PTL DEF Spec

(* Every variable of the loaders has its type, and brk never passes mapped *)
(* nor mapped the end of the region.                                       *)
THEOREM LoaderTypeCorrect == Spec => []TypeOK
<1>1. LoaderInv /\ MemInv => TypeOK
  <2>. SUFFICES ASSUME LoaderInv, MemInv PROVE TypeOK
    OBVIOUS
  <2>1. MemOK(m, kernel_pml4) /\ Typed /\ g_next_id \in Nat
    BY DEF MemInv, LoaderInv, Forms
  <2>2. m.tables \in Tables(DOMAIN m.tables)
    BY <2>1 DEF MemOK, VmOK, Shaped, Tables, Entry
  <2>3. 0 <= m.brk /\ m.brk <= m.mapped /\ m.mapped <= module_max + 1
    <3>1. PICK n \in 0 .. ModulePages : m.mapped = n * UnitsPerPage
      BY <2>1 DEF MemOK, Mapped
    <3>2. m.brk \in Nat /\ m.brk <= m.mapped
      BY <2>1 DEF MemOK
    <3>3. n * UnitsPerPage <= ModulePages * UnitsPerPage
      <4>1. ModulePages \in Nat /\ UnitsPerPage \in Nat /\ n \in Nat /\ ModulePages - n \in Nat
        BY RegionAssumption, HeapAssumption
      <4>2. (ModulePages - n) * UnitsPerPage \in Nat
        BY <4>1
      <4>3. ModulePages * UnitsPerPage = n * UnitsPerPage + (ModulePages - n) * UnitsPerPage
        BY <4>1
      <4>4. n * UnitsPerPage \in Nat
        BY <4>1
      <4>. QED BY <4>2, <4>3, <4>4
    <3>4. module_max + 1 = ModulePages * UnitsPerPage
      BY RegionAssumption, HeapAssumption DEF module_max
    <3>. QED BY <3>1, <3>2, <3>3, <3>4
  <2>. QED BY <2>1, <2>2, <2>3 DEF TypeOK, Typed, Placed, SlotTyped
<1>. QED BY <1>1, LoaderInvariant, LoaderMemoryInvariant, PTL

(* module_alloc.c, elf_loader.c: a failed load gives back its own pages    *)
(* and no others, for every sequence of loads and every point of failure:  *)
(* each committed module lies below brk, apart from the others, and every  *)
(* page of it is backed by the frame it was loaded into.                   *)
THEOREM ModulesStayIntact == Spec => []ModulesIntact
<1>1. MemInv => ModulesIntact
  <2>. SUFFICES ASSUME MemInv, Running, NEW s \in Committed
                PROVE  /\ \A i \in DOMAIN registry[s].parts :
                            registry[s].parts[i].addr + registry[s].parts[i].size <= m.brk
                       /\ \A va \in DOMAIN registry[s].frames :
                            vmm_get_phys(m.tables, kernel_pml4, va) = registry[s].frames[va]
                       /\ \A r \in Committed \ {s} : PartsApart(registry[s].parts, registry[r].parts)
    BY DEF ModulesIntact, PartsApart
  <2>1. MemOK(m, kernel_pml4) /\ Typed /\ Layout
    BY DEF MemInv
  <2>2. s \in RegistrySlots /\ registry[s].state # "free" /\ registry[s].parts \in Seq(Part)
    BY <2>1 DEF Committed, Typed, SlotTyped
  <2>3. SlotIntact(registry[s], m)
    BY <2>1, <2>2 DEF Layout, SlotsIntact
  <2>4. ASSUME NEW va \in DOMAIN registry[s].frames
        PROVE  vmm_get_phys(m.tables, kernel_pml4, va) = registry[s].frames[va]
    <3>1. va \in Nat /\ Maps(m.tables, kernel_pml4, va, registry[s].frames[va])
      BY <2>2, <2>3, PagesAreNumbers DEF SlotIntact
    <3>. QED BY <2>1, <3>1, BackingMaps
  <2>5. \A r \in Committed \ {s} : PartsApart(registry[s].parts, registry[r].parts)
    BY <2>1, <2>2 DEF Layout, SlotsIntact, Committed
  <2>. QED BY <2>3, <2>4, <2>5 DEF SlotIntact, Within
<1>. QED BY <1>1, LoaderMemoryInvariant, PTL
=============================================================================
