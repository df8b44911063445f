---------------------------- MODULE StartupProofs ----------------------------
(***************************************************************************)
(* Proof that the boot barrier and the boot phases do what they are for,   *)
(* for every machine the boot loader can hand over. BootBarrier speaks of  *)
(* the state after the barrier only; the inductive invariant BootInv adds  *)
(* how it comes about: which CPUs the counter online has counted           *)
(* (Arrivals), when a CPU's context is there (Installed), what must hold   *)
(* before each phase (Barrier) and what the bootstrap CPU has read and     *)
(* claimed by then (Configured).                                           *)
(*                                                                         *)
(* The second part proves TasksLaunchedOnce and SelftestsInTurn from       *)
(* LaunchInv, which is inductive beside BootInv: where each launch loop is *)
(* and what lies behind it, who holds which argument block, and in which   *)
(* list each self-test instance is. BootBarrier comes last: that no        *)
(* self-test is configured before the barrier (Awaited) needs both.        *)
(***************************************************************************)
EXTENDS Startup, FiniteSetTheorems, WellFoundedInduction, TLAPS

-----------------------------------------------------------------------------
(* Where the bootstrap CPU, and another CPU, may be. *)
BspPlaces == {"memory", "unit", "devices", "smp", "tasks", "parse", "testtasks", "runtime",
              "arrive", "wait", "tests", "load", "apply", "launch", "scan", "create", "ready",
              "run", "panic"}
ApPlaces == {"off", "starting", "arrive", "wait", "services", "launch", "scan", "create", "ready",
             "run", "panic"}
(* While the bootstrap CPU is alone; before a CPU is counted; while it     *)
(* launches its tasks; and where the bootstrap CPU is past the barrier.    *)
Alone == {"memory", "unit", "devices", "smp"}
Coming == Alone \cup {"off", "starting", "tasks", "parse", "testtasks", "runtime", "arrive"}
Launching == {"scan", "create", "ready", "run"}
Up == {"tests", "load", "apply", "launch"} \cup Launching
Confs == {"task", "test"}

(* A configuration has the fields of NoConf. *)
IsConf(c) ==
    c = [initialized |-> c.initialized, parsed |-> c.parsed, purpose |-> c.purpose,
         files |-> c.files, head |-> c.head, directives |-> c.directives,
         module_missing_panic |-> c.module_missing_panic, started_cpus |-> c.started_cpus,
         tests_started |-> c.tests_started]

(* task_conf_parse_ctx() has come to its end. *)
Parsed(c) == c.initialized /\ c.parsed

(* The types of the variables, and which of them a place gives a value. *)
Shapes ==
    /\ machine \in Machines /\ phase \in 0 .. 6 /\ online \in Nat /\ ctx \subseteq Cpus
    /\ pc \in [Cpus -> BspPlaces \cup ApPlaces] /\ DOMAIN rq = Cpus /\ DOMAIN scan = Cpus
    /\ pc[Bsp] \in BspPlaces /\ \A c \in Cpus : c # Bsp => pc[c] \in ApPlaces
    /\ DOMAIN conf = Confs /\ \A k \in Confs : IsConf(conf[k])
    /\ pc[Bsp] = "parse" => /\ parse.conf \in Confs /\ conf[parse.conf].initialized
                            /\ parse = [conf |-> parse.conf, lines |-> parse.lines]
    /\ pc[Bsp] # "parse" => parse = NULL
    /\ \A c \in Cpus : pc[c] \in {"scan", "create"} => scan[c].conf \in Confs

(* online counts a set A of CPUs with a context: those past their          *)
(* increment, and of those that stopped the ones that did so after it.     *)
Arrivals ==
    \E A \in SUBSET ctx :
        /\ online = Cardinality(A)
        /\ \A c \in Cpus : pc[c] # "panic" => (c \in A <=> pc[c] \notin Coming)

(* A CPU past its start, or with a thread, has its context; before         *)
(* start_smp() the others are off.                                         *)
Installed ==
    /\ \A c \in Cpus : pc[c] \notin Alone \cup {"off", "starting", "panic"} => c \in ctx
    /\ \A c \in Cpus : rq[c] # <<>> => c \in ctx
    /\ pc[Bsp] \in Alone => \A c \in Cpus : c # Bsp => pc[c] = "off"

(* What each phase waits for: all CPUs before the self-tests, and the      *)
(* bootstrap CPU's SERVICES_READY before another CPU launches.             *)
Barrier ==
    /\ pc[Bsp] \in Up => online = machine.cpus
    /\ phase = 6 => pc[Bsp] = "run"
    /\ \A c \in Cpus : c # Bsp /\ pc[c] \in {"launch"} \cup Launching => phase = 6

(* What the bootstrap CPU has parsed and claimed when it gets somewhere.   *)
Configured ==
    /\ pc[Bsp] \in {"testtasks", "runtime", "arrive", "wait"} \cup Up \/
          (pc[Bsp] = "parse" /\ parse.conf = "test") => Parsed(conf["task"])
    /\ pc[Bsp] \notin {"launch", "panic"} \cup Launching => scan[Bsp] = NULL
    /\ (pc[Bsp] # "panic" /\ scan[Bsp] # NULL) \/ pc[Bsp] \in Launching =>
          Bsp \in conf["task"].started_cpus
    /\ pc[Bsp] \in {"scan", "create"} /\ scan[Bsp].conf = "test" =>
          Bsp \in conf["test"].started_cpus
    /\ pc[Bsp] \in {"ready", "run"} /\ TestingBoot => Bsp \in conf["test"].started_cpus

(* The inductive invariant. *)
BootInv == Shapes /\ Arrivals /\ Installed /\ Barrier /\ Configured

(* The machine does not change. *)
LEMMA SameMachine ==
  ASSUME machine' = machine
  PROVE  Cpus' = Cpus /\ Bsp' = Bsp /\ (TestingBoot' <=> TestingBoot)
BY DEF Cpus, Bsp, TestingBoot

(* The bootstrap CPU is one of finitely many CPUs. *)
LEMMA MachineFacts ==
  ASSUME Shapes
  PROVE  /\ Bsp \in Cpus /\ Bsp < MAX_CPUS /\ machine.cpus \in Nat /\ Bsp \in Nat
         /\ IsFiniteSet(Cpus) /\ Cardinality(Cpus) = machine.cpus
<1>1. machine.cpus \in 1 .. MAX_CPUS /\ machine.bsp \in 0 .. machine.cpus - 1 /\ MAX_CPUS \in Nat
  BY MachinesAssumption, BoundsAssumption DEF Shapes
<1>2. IsFiniteSet(0 .. machine.cpus - 1) /\ Cardinality(0 .. machine.cpus - 1) = machine.cpus
  <2>1. 0 \in Int /\ machine.cpus - 1 \in Int /\ machine.cpus \in Nat /\ machine.cpus > 0
    BY <1>1
  <2>2. /\ IsFiniteSet(0 .. machine.cpus - 1)
        /\ Cardinality(0 .. machine.cpus - 1) =
              IF 0 > machine.cpus - 1 THEN 0 ELSE (machine.cpus - 1) - 0 + 1
    BY <2>1, FS_Interval
  <2>. QED BY <2>1, <2>2
<1>. QED BY <1>1, <1>2 DEF Cpus, Bsp

(* When the count is complete every CPU has arrived. *)
LEMMA AllArrived ==
  ASSUME Shapes, Arrivals, online = machine.cpus
  PROVE  ctx = Cpus /\ \A c \in Cpus : pc[c] # "panic" => pc[c] \notin Coming
<1>1. PICK A \in SUBSET ctx :
         /\ online = Cardinality(A)
         /\ \A c \in Cpus : pc[c] # "panic" => (c \in A <=> pc[c] \notin Coming)
  BY DEF Arrivals
<1>2. A \subseteq Cpus /\ ctx \subseteq Cpus
  BY DEF Shapes
<1>3. A = Cpus
  BY <1>1, <1>2, MachineFacts, FS_Subset
<1>. QED BY <1>1, <1>2, <1>3

(* One CPU moves on, or stops. *)
LEMMA Moves ==
  ASSUME BootInv, machine' = machine, NEW c \in Cpus, NEW w,
         \A d \in Cpus : pc'[d] = IF d = c THEN w ELSE pc[d],
         online' = online, ctx \subseteq ctx', ctx' \subseteq Cpus,
         w = "panic" \/ (pc[c] # "panic" /\ (w \in Coming <=> pc[c] \in Coming)),
         w \in Alone \cup {"off", "starting", "panic"} \/ c \in ctx',
         w \in Alone => pc[c] \in Alone, pc[c] # "off",
         \A d \in Cpus : rq'[d] # <<>> => d \in ctx'
  PROVE  Arrivals' /\ Installed'
<1>0. Cpus' = Cpus /\ Bsp' = Bsp /\ Bsp \in Cpus
  BY SameMachine, MachineFacts DEF BootInv
<1>1. PICK A \in SUBSET ctx :
         /\ online = Cardinality(A)
         /\ \A d \in Cpus : pc[d] # "panic" => (d \in A <=> pc[d] \notin Coming)
  BY DEF BootInv, Arrivals
<1>2. \A d \in Cpus : pc'[d] # "panic" => (d \in A <=> pc'[d] \notin Coming)
  BY <1>1
<1>3. Arrivals'
  BY <1>0, <1>1, <1>2 DEF Arrivals
<1>4. /\ \A d \in Cpus : pc[d] \notin Alone \cup {"off", "starting", "panic"} => d \in ctx
      /\ pc[Bsp] \in Alone => \A d \in Cpus : d # Bsp => pc[d] = "off"
  BY DEF BootInv, Installed
<1>5. \A d \in Cpus : pc'[d] \notin Alone \cup {"off", "starting", "panic"} => d \in ctx'
  BY <1>4
<1>6. pc'[Bsp] \in Alone => \A d \in Cpus : d # Bsp => pc'[d] = "off"
  BY <1>0, <1>4
<1>7. Installed'
  BY <1>0, <1>5, <1>6 DEF Installed
<1>. QED BY <1>3, <1>7

(* Nothing of a configuration is lost. *)
ConfGrows ==
    /\ DOMAIN conf' = Confs
    /\ \A k \in Confs : /\ IsConf(conf'[k]) /\ conf[k].started_cpus \subseteq conf'[k].started_cpus
                        /\ conf'[k].initialized = conf[k].initialized
                        /\ conf'[k].parsed = conf[k].parsed

(* A step of a CPU other than the bootstrap one. *)
LEMMA ApMoves ==
  ASSUME BootInv, machine' = machine, NEW c \in Cpus, c # Bsp, NEW w \in ApPlaces,
         pc' = [pc EXCEPT ![c] = w] \/ (pc' = pc /\ w = pc[c]),
         online' = online, ctx \subseteq ctx', ctx' \subseteq Cpus,
         w = "panic" \/ (pc[c] # "panic" /\ (w \in Coming <=> pc[c] \in Coming)),
         w \in {"off", "starting", "panic"} \/ c \in ctx', pc[c] # "off",
         DOMAIN rq' = Cpus, \A d \in Cpus : rq'[d] # <<>> => d \in ctx',
         phase' = phase, parse' = parse, tests' = tests, ConfGrows,
         w \in {"launch"} \cup Launching => phase = 6,
         DOMAIN scan' = Cpus, \A d \in Cpus : d # c => scan'[d] = scan[d],
         w \in {"scan", "create"} => scan'[c].conf \in Confs
  PROVE  BootInv'
<1>0. Cpus' = Cpus /\ Bsp' = Bsp /\ (TestingBoot' <=> TestingBoot) /\ Bsp \in Cpus
  BY SameMachine, MachineFacts DEF BootInv
<1>1. /\ \A d \in Cpus : pc'[d] = IF d = c THEN w ELSE pc[d]
      /\ pc' \in [Cpus -> BspPlaces \cup ApPlaces]
  BY DEF BootInv, Shapes
<1>2. Arrivals' /\ Installed'
  <2>1. w \in Alone => pc[c] \in Alone
    BY DEF ApPlaces, Alone
  <2>. QED BY <1>1, <2>1, Moves
<1>3. pc'[Bsp] = pc[Bsp] /\ scan'[Bsp] = scan[Bsp] /\ \A k \in Confs : IsConf(conf'[k])
  BY <1>0, <1>1 DEF ConfGrows
<1>4. Shapes'
  <2>1. \A d \in Cpus : d # Bsp => pc'[d] \in ApPlaces
    BY <1>1 DEF BootInv, Shapes
  <2>2. \A d \in Cpus : pc'[d] \in {"scan", "create"} => scan'[d].conf \in Confs
    BY <1>1 DEF BootInv, Shapes
  <2>3. pc[Bsp] = "parse" => parse.conf \in Confs /\ conf'[parse.conf].initialized
    BY DEF BootInv, Shapes, ConfGrows
  <2>. QED BY <1>0, <1>1, <1>3, <2>1, <2>2, <2>3 DEF BootInv, Shapes, ConfGrows
<1>5. Barrier'
  BY <1>0, <1>1, <1>3 DEF BootInv, Barrier
<1>6. Configured'
  BY <1>0, <1>3 DEF BootInv, Configured, ConfGrows, Parsed, Confs
<1>. QED BY <1>2, <1>4, <1>5, <1>6 DEF BootInv

(* A step of the bootstrap CPU. *)
LEMMA BspMoves ==
  ASSUME BootInv, machine' = machine, NEW w \in BspPlaces,
         pc' = [pc EXCEPT ![Bsp] = w] \/ (pc' = pc /\ w = pc[Bsp]),
         online' = online, ctx' = ctx,
         w = "panic" \/ (pc[Bsp] # "panic" /\ (w \in Coming <=> pc[Bsp] \in Coming)),
         w \in Alone \cup {"panic"} \/ Bsp \in ctx, w \in Alone => pc[Bsp] \in Alone,
         DOMAIN rq' = Cpus, \A d \in Cpus : rq'[d] # <<>> => d \in ctx,
         phase' \in 0 .. 6, phase' = 6 => w = "run", phase = 6 => phase' = 6,
         w \in Up => online = machine.cpus,
         DOMAIN conf' = Confs, \A k \in Confs : IsConf(conf'[k]),
         w = "parse" => /\ parse'.conf \in Confs /\ conf'[parse'.conf].initialized
                        /\ parse' = [conf |-> parse'.conf, lines |-> parse'.lines],
         w # "parse" => parse' = NULL,
         DOMAIN scan' = Cpus, \A d \in Cpus : d # Bsp => scan'[d] = scan[d],
         w \in {"scan", "create"} => scan'[Bsp].conf \in Confs
  PROVE  /\ Shapes' /\ Arrivals' /\ Installed' /\ Barrier'
         /\ pc'[Bsp] = w /\ Bsp' = Bsp /\ (TestingBoot' <=> TestingBoot)
<1>0. Cpus' = Cpus /\ Bsp' = Bsp /\ (TestingBoot' <=> TestingBoot) /\ Bsp \in Cpus
  BY SameMachine, MachineFacts DEF BootInv
<1>1. /\ \A d \in Cpus : pc'[d] = IF d = Bsp THEN w ELSE pc[d]
      /\ pc' \in [Cpus -> BspPlaces \cup ApPlaces] /\ pc[Bsp] \in BspPlaces /\ ctx \subseteq Cpus
  BY <1>0 DEF BootInv, Shapes
<1>2. Arrivals' /\ Installed'
  <2>1. pc[Bsp] # "off"
    BY <1>1 DEF BspPlaces
  <2>2. w \in Alone \cup {"off", "starting", "panic"} \/ Bsp \in ctx'
    OBVIOUS
  <2>. QED BY <1>0, <1>1, <2>1, <2>2, Moves
<1>3. Shapes'
  <2>1. \A d \in Cpus : d # Bsp => pc'[d] \in ApPlaces
    BY <1>1 DEF BootInv, Shapes
  <2>2. \A d \in Cpus : pc'[d] \in {"scan", "create"} => scan'[d].conf \in Confs
    BY <1>1 DEF BootInv, Shapes
  <2>3. machine' \in Machines /\ online' \in Nat /\ pc'[Bsp] = w
    BY <1>0, <1>1 DEF BootInv, Shapes
  <2>. QED BY <1>0, <1>1, <2>1, <2>2, <2>3 DEF Shapes
<1>4. Barrier'
  BY <1>0, <1>1 DEF BootInv, Barrier
<1>. QED BY <1>0, <1>1, <1>2, <1>3, <1>4

(* boot_phase_complete() at one of the steps of kmain(). *)
LEMMA BootSteps ==
  ASSUME BootInv, NEW from, NEW p, NEW next, BootStep(from, p, next),
         \/ from = "memory" /\ p = 1 /\ next = "unit"
         \/ from = "unit" /\ p = 2 /\ next = "devices"
         \/ from = "devices" /\ p = 3 /\ next = "smp"
         \/ from = "runtime" /\ p = 4 /\ next = "arrive"
  PROVE  BootInv'
<1>1. /\ pc[Bsp] = from
      /\ UNCHANGED <<machine, online, ctx, rq, conf, parse, scan, tests>>
      /\ \E w \in {next, "panic"} :
            pc' = [pc EXCEPT ![Bsp] = w] /\ ((phase' = p /\ phase = p - 1) \/ phase' = phase)
  BY DEF BootStep, boot_phase_complete, Goto, Panic, config, launching, testing
<1>2. PICK w \in {next, "panic"} :
         pc' = [pc EXCEPT ![Bsp] = w] /\ ((phase' = p /\ phase = p - 1) \/ phase' = phase)
  BY <1>1
<1>3. /\ Shapes /\ Installed /\ Barrier /\ Configured /\ Bsp \in Cpus
  BY MachineFacts DEF BootInv
<1>4. phase' \in 0 .. 6 /\ phase # 6 /\ phase' # 6
  <2>1. phase # 6 /\ phase \in 0 .. 6
    BY <1>1, <1>3 DEF Barrier, Shapes
  <2>. QED BY <1>2, <2>1
<1>5. w \in BspPlaces /\ w \notin Up /\ from \notin Up /\ w # "parse" /\ from # "panic" /\ from # "parse"
  BY <1>2 DEF BspPlaces, Up, Launching
<1>6. /\ w = "panic" \/ (w \in Coming <=> from \in Coming)
      /\ w \in Alone => from \in Alone
  BY <1>2 DEF Coming, Alone
<1>7. w \in Alone \cup {"panic"} \/ Bsp \in ctx
  BY <1>1, <1>2, <1>3 DEF Installed, Alone
<1>8. /\ DOMAIN rq' = Cpus /\ \A d \in Cpus : rq'[d] # <<>> => d \in ctx
  BY <1>1, <1>3 DEF Shapes, Installed
<1>9. /\ DOMAIN conf' = Confs /\ (\A k \in Confs : IsConf(conf'[k])) /\ parse' = NULL
      /\ DOMAIN scan' = Cpus /\ \A d \in Cpus : d # Bsp => scan'[d] = scan[d]
  BY <1>1, <1>3, <1>5 DEF Shapes
<1>11. w \notin {"scan", "create"}
  BY <1>2
<1>12. /\ Shapes' /\ Arrivals' /\ Installed' /\ Barrier'
       /\ pc'[Bsp] = w /\ Bsp' = Bsp /\ (TestingBoot' <=> TestingBoot)
  BY <1>1, <1>2, <1>4, <1>5, <1>6, <1>7, <1>8, <1>9, <1>11, BspMoves
<1>13. Configured'
  <2>1. pc[Bsp] \notin {"launch", "panic"} \cup Launching /\ w \notin {"launch"} \cup Launching
    BY <1>1, <1>2 DEF Launching
  <2>2. scan[Bsp] = NULL
    BY <1>3, <2>1 DEF Configured
  <2>3. w = "arrive" => Parsed(conf["task"])
    BY <1>1, <1>2, <1>3 DEF Configured
  <2>4. w \notin {"testtasks", "runtime", "wait"}
    BY <1>2
  <2>5. w \notin {"scan", "create", "ready", "run"}
    BY <2>1 DEF Launching
  <2>. QED BY <1>1, <1>5, <1>12, <2>1, <2>2, <2>3, <2>4, <2>5 DEF Configured
<1>. QED BY <1>12, <1>13 DEF BootInv

(* start_smp(): the other CPUs come out of reset. *)
LEMMA StartSmp == ASSUME BootInv, start_smp PROVE BootInv'
<1>0. /\ UNCHANGED <<machine, phase, online, conf, parse, scan, tests>> /\ pc[Bsp] = "smp"
      /\ InstallContext(Bsp, << <<"main", 0>> >>,
            [c \in Cpus |-> IF c = Bsp THEN "tasks" ELSE "starting"])
  BY DEF start_smp, config, launching, testing
<1>1. /\ Shapes /\ Arrivals /\ Installed /\ Barrier /\ Configured /\ Bsp \in Cpus
      /\ Cpus' = Cpus /\ Bsp' = Bsp /\ (TestingBoot' <=> TestingBoot)
  BY <1>0, SameMachine, MachineFacts DEF BootInv
<1>2. /\ \A c \in Cpus : c # Bsp => pc[c] = "off"
      /\ phase # 6 /\ parse = NULL /\ scan[Bsp] = NULL
  BY <1>0, <1>1 DEF Installed, Alone, Barrier, Shapes, Configured, Launching
<1>3. CASE /\ ctx' = ctx \cup {Bsp} /\ rq' = [rq EXCEPT ![Bsp] = << <<"main", 0>> >>]
           /\ pc' = [c \in Cpus |-> IF c = Bsp THEN "tasks" ELSE "starting"]
  <2>1. /\ pc' \in [Cpus -> BspPlaces \cup ApPlaces] /\ pc'[Bsp] = "tasks"
        /\ \A c \in Cpus : c # Bsp => pc'[c] = "starting"
    BY <1>1, <1>3 DEF BspPlaces, ApPlaces
  <2>2. Arrivals'
    <3>1. PICK A \in SUBSET ctx :
             /\ online = Cardinality(A)
             /\ \A c \in Cpus : pc[c] # "panic" => (c \in A <=> pc[c] \notin Coming)
      BY <1>1 DEF Arrivals
    <3>2. \A c \in Cpus : c \notin A /\ pc'[c] \in Coming
      BY <1>0, <1>1, <1>2, <2>1, <3>1 DEF Coming, Alone
    <3>. QED BY <1>0, <1>1, <1>3, <3>1, <3>2 DEF Arrivals
  <2>3. Installed'
    <3>1. \A c \in Cpus : rq'[c] # <<>> => c \in ctx'
      BY <1>1, <1>3 DEF Installed, Shapes
    <3>. QED BY <1>1, <1>3, <2>1, <3>1 DEF Installed, Alone
  <2>4. Shapes'
    <3>1. DOMAIN rq' = Cpus /\ ctx' \subseteq Cpus
      BY <1>1, <1>3 DEF Shapes
    <3>2. \A c \in Cpus : pc'[c] \notin {"scan", "create", "parse"}
      BY <2>1
    <3>3. \A c \in Cpus : c # Bsp => pc'[c] \in ApPlaces
      BY <2>1 DEF ApPlaces
    <3>4. pc'[Bsp] \in BspPlaces
      BY <2>1 DEF BspPlaces
    <3>. QED BY <1>0, <1>1, <1>2, <2>1, <3>1, <3>2, <3>3, <3>4 DEF Shapes
  <2>5. Barrier'
    <3>1. \A c \in Cpus : c # Bsp => pc'[c] \notin {"launch"} \cup Launching
      BY <2>1 DEF Launching
    <3>2. pc'[Bsp] \notin Up
      BY <2>1 DEF Up, Launching
    <3>. QED BY <1>0, <1>1, <1>2, <3>1, <3>2 DEF Barrier
  <2>6. Configured'
    BY <1>0, <1>1, <1>2, <2>1 DEF Configured, Up, Launching
  <2>. QED BY <2>2, <2>3, <2>4, <2>5, <2>6 DEF BootInv
<1>4. CASE pc' = [pc EXCEPT ![Bsp] = "panic"] /\ UNCHANGED <<ctx, rq>>
  <2>1. "panic" \in BspPlaces /\ "panic" \notin Up /\ "panic" \notin Alone
    BY DEF BspPlaces, Up, Alone, Launching
  <2>2. /\ Shapes' /\ Arrivals' /\ Installed' /\ Barrier'
        /\ pc'[Bsp] = "panic" /\ Bsp' = Bsp /\ (TestingBoot' <=> TestingBoot)
    <3>1. /\ DOMAIN rq' = Cpus /\ (\A d \in Cpus : rq'[d] # <<>> => d \in ctx)
          /\ phase' \in 0 .. 6 /\ DOMAIN conf' = Confs /\ (\A k \in Confs : IsConf(conf'[k]))
          /\ DOMAIN scan' = Cpus
      BY <1>0, <1>1, <1>4 DEF Shapes, Installed
    <3>. QED BY <1>0, <1>1, <1>2, <1>4, <2>1, <3>1, BspMoves
  <2>3. Configured'
    BY <1>0, <2>2 DEF Configured, Up, Launching
  <2>. QED BY <2>2, <2>3 DEF BootInv
<1>. QED BY <1>0, <1>3, <1>4 DEF InstallContext, Panic, Goto

(* A line of the file changes the records of a configuration, not its state. *)
LEMMA ParseKeeps ==
  ASSUME NEW c, IsConf(c), NEW line, task_conf_parse_v1_ctx(c, line) # NULL
  PROVE  /\ IsConf(task_conf_parse_v1_ctx(c, line))
         /\ task_conf_parse_v1_ctx(c, line).initialized = c.initialized
         /\ task_conf_parse_v1_ctx(c, line).parsed = c.parsed
         /\ task_conf_parse_v1_ctx(c, line).started_cpus = c.started_cpus
<1>. DEFINE d == task_conf_parse_v1_ctx(c, line)
<1>1. \/ d = c
      \/ \E x : d = [c EXCEPT !.module_missing_panic = x]
      \/ \E x : d = [c EXCEPT !.directives = x]
      \/ \E x : d = [c EXCEPT !.head = x]
  <2>1. CASE line.kind = "comment"
    BY <2>1 DEF task_conf_parse_v1_ctx
  <2>2. CASE line.kind = "directive"
    <3>1. d = parse_directive(c, line) /\ d # NULL
      BY <2>2 DEF task_conf_parse_v1_ctx
    <3>. HIDE DEF d
    <3>. QED BY <3>1 DEF parse_directive
  <2>3. CASE line.kind \notin {"comment", "directive"}
    <3>1. d = ParseTask(c, line) /\ d # NULL
      BY <2>3 DEF task_conf_parse_v1_ctx
    <3>. HIDE DEF d
    <3>. QED BY <3>1 DEF ParseTask
  <2>. QED BY <2>1, <2>2, <2>3
<1>. HIDE DEF d
<1>2. IsConf(d) /\ d.initialized = c.initialized /\ d.parsed = c.parsed
      /\ d.started_cpus = c.started_cpus
  <2>1. CASE d = c
    BY <2>1
  <2>2. CASE \E x : d = [c EXCEPT !.module_missing_panic = x]
    BY <2>2 DEF IsConf
  <2>3. CASE \E x : d = [c EXCEPT !.directives = x]
    BY <2>3 DEF IsConf
  <2>4. CASE \E x : d = [c EXCEPT !.head = x]
    BY <2>4 DEF IsConf
  <2>. QED BY <1>1, <2>1, <2>2, <2>3, <2>4
<1>. QED BY <1>2 DEF d

(* A context after task_conf_init_ctx(), and one that was dropped. *)
LEMMA NewConf ==
  /\ IsConf(NoConf)
  /\ \A files, purpose : /\ IsConf(task_conf_init_ctx(files, purpose))
                         /\ task_conf_init_ctx(files, purpose).initialized
<1>1. ASSUME NEW c, c = NoConf PROVE IsConf(c)
  BY <1>1 DEF IsConf, NoConf
<1>2. ASSUME NEW files, NEW purpose, NEW c, c = task_conf_init_ctx(files, purpose)
      PROVE  IsConf(c) /\ c.initialized
  BY <1>2 DEF IsConf, NoConf, task_conf_init_ctx
<1>. QED BY <1>1, <1>2

(* What the steps that read the configurations have in common. *)
LEMMA Reads ==
  ASSUME BootInv, UNCHANGED <<machine, phase, online, ctx, rq, scan, tests>>,
         pc[Bsp] \in {"tasks", "parse", "testtasks"},
         NEW w \in {"parse", "testtasks", "runtime", "panic"},
         pc' = [pc EXCEPT ![Bsp] = w] \/ (pc' = pc /\ w = pc[Bsp]),
         DOMAIN conf' = Confs, \A k \in Confs : IsConf(conf'[k]),
         w = "parse" => /\ parse'.conf \in Confs /\ conf'[parse'.conf].initialized
                        /\ parse' = [conf |-> parse'.conf, lines |-> parse'.lines],
         w # "parse" => parse' = NULL,
         w \in {"testtasks", "runtime"} \/ (w = "parse" /\ parse'.conf = "test") =>
            Parsed(conf'["task"])
  PROVE  BootInv'
<1>1. Shapes /\ Installed /\ Barrier /\ Configured /\ Bsp \in Cpus
  BY MachineFacts DEF BootInv
<1>2. /\ w \in BspPlaces /\ w \notin Up /\ pc[Bsp] # "panic" /\ pc[Bsp] \in Coming
      /\ w = "panic" \/ w \in Coming
      /\ w \notin Alone /\ w \notin {"scan", "create"} /\ w # "run"
      /\ w \notin {"launch", "arrive", "wait"} \cup Launching
      /\ pc[Bsp] \notin {"launch", "panic"} \cup Launching /\ pc[Bsp] \notin Alone
  BY DEF BspPlaces, Up, Launching, Coming, Alone
<1>3. phase # 6 /\ phase' # 6 /\ phase' \in 0 .. 6 /\ scan[Bsp] = NULL
  BY <1>1, <1>2 DEF Barrier, Configured, Shapes, Launching
<1>4. Bsp \in ctx
  BY <1>1, <1>2 DEF Installed
<1>5. /\ DOMAIN rq' = Cpus /\ (\A d \in Cpus : rq'[d] # <<>> => d \in ctx) /\ DOMAIN scan' = Cpus
  BY <1>1 DEF Shapes, Installed
<1>7. /\ Shapes' /\ Arrivals' /\ Installed' /\ Barrier'
      /\ pc'[Bsp] = w /\ Bsp' = Bsp /\ (TestingBoot' <=> TestingBoot)
  BY <1>1, <1>2, <1>3, <1>4, <1>5, BspMoves
<1>8. Configured'
  <2>1. w \notin {"scan", "create", "ready", "run"}
    BY <1>2
  <2>. QED BY <1>2, <1>3, <1>7, <2>1 DEF Configured
<1>. QED BY <1>7, <1>8 DEF BootInv

(* One configuration is replaced, the other stays. *)
LEMMA ConfUpdate ==
  ASSUME DOMAIN conf = Confs, NEW k \in Confs, NEW c, conf' = [conf EXCEPT ![k] = c]
  PROVE  DOMAIN conf' = Confs /\ conf'[k] = c /\ \A j \in Confs : j # k => conf'[j] = conf[j]
OBVIOUS

(* initialize_boot_tasks(): test_conf only after task_conf was parsed. *)
LEMMA InitTasks == ASSUME BootInv, initialize_boot_tasks PROVE BootInv'
<1>0. /\ UNCHANGED <<machine, phase, online, ctx, rq, scan, tests>>
  BY DEF initialize_boot_tasks, launching, testing
<1>1. PICK k, files, purpose, path :
         /\ k \in Confs
         /\ pc[Bsp] \in {"tasks", "testtasks"} /\ (k = "test" => pc[Bsp] = "testtasks")
         /\ task_init_ctx(k, files, purpose, path)
  BY DEF initialize_boot_tasks, Confs
<1>2. Shapes /\ Configured /\ DOMAIN conf = Confs /\ (\A j \in Confs : IsConf(conf[j]))
      /\ parse = NULL
  BY <1>1 DEF BootInv, Shapes
<1>3. CASE /\ pc' = [pc EXCEPT ![Bsp] = "panic"] /\ UNCHANGED <<conf, parse>>
  BY <1>0, <1>1, <1>2, <1>3, Reads
<1>4. ASSUME NEW lines, pc' = [pc EXCEPT ![Bsp] = "parse"],
             conf' = [conf EXCEPT ![k] = task_conf_init_ctx(files, purpose)],
             parse' = [conf |-> k, lines |-> lines], ~ conf[k].initialized
      PROVE  BootInv'
  <2>1. /\ DOMAIN conf' = Confs /\ conf'[k] = task_conf_init_ctx(files, purpose)
        /\ \A j \in Confs : j # k => conf'[j] = conf[j]
    BY <1>1, <1>2, <1>4, ConfUpdate
  <2>2. \A j \in Confs : IsConf(conf'[j])
    BY <1>2, <2>1, NewConf
  <2>3. parse'.conf = k /\ parse'.lines = lines /\ conf'[k].initialized
    BY <1>4, <2>1, NewConf
  <2>4. k = "test" => Parsed(conf'["task"])
    <3>1. k = "test" => Parsed(conf["task"]) /\ "task" \in Confs /\ k # "task"
      BY <1>1, <1>2 DEF Configured, Confs
    <3>. QED BY <2>1, <3>1
  <2>. QED BY <1>0, <1>1, <1>4, <2>1, <2>2, <2>3, <2>4, Reads
<1>. QED BY <1>1, <1>3, <1>4 DEF task_init_ctx, Goto, Panic, config

(* A line is taken, or the configuration dropped and the CPU stopped. *)
LEMMA ParseLines == ASSUME BootInv, ParseLine PROVE BootInv'
<1>0. /\ UNCHANGED <<machine, phase, online, ctx, rq, scan, tests>> /\ pc[Bsp] = "parse"
  BY DEF ParseLine, launching, testing
<1>. DEFINE k == parse.conf
            c == task_conf_parse_v1_ctx(conf[k], Head(parse.lines))
<1>2. /\ Configured /\ DOMAIN conf = Confs /\ (\A j \in Confs : IsConf(conf[j]))
      /\ k \in Confs /\ conf[k].initialized /\ parse = [conf |-> k, lines |-> parse.lines]
  BY <1>0 DEF BootInv, Shapes
<1>3. CASE /\ c # NULL /\ conf' = [conf EXCEPT ![k] = c]
           /\ parse' = [parse EXCEPT !.lines = Tail(@)] /\ pc' = pc
  <2>1. /\ IsConf(c) /\ c.initialized = conf[k].initialized
    BY <1>2, <1>3, ParseKeeps
  <2>2. parse'.conf = k /\ parse' = [conf |-> k, lines |-> parse'.lines]
    <3>. DEFINE l == parse.lines
                t == Tail(l)
    <3>. HIDE DEF k
    <3>1. parse = [conf |-> k, lines |-> l] /\ parse' = [parse EXCEPT !.lines = t]
      BY <1>2, <1>3
    <3>. HIDE DEF l, t
    <3>2. parse' = [conf |-> k, lines |-> t]
      BY <3>1
    <3>. QED BY <3>2
  <2>. HIDE DEF c, k
  <2>3. /\ DOMAIN conf' = Confs /\ conf'[k] = c
        /\ \A j \in Confs : j # k => conf'[j] = conf[j]
    BY <1>2, <1>3, ConfUpdate
  <2>4. \A j \in Confs : IsConf(conf'[j])
    BY <1>2, <2>1, <2>3
  <2>5. k = "test" => Parsed(conf'["task"])
    <3>1. k = "test" => Parsed(conf["task"]) /\ "task" \in Confs /\ k # "task"
      BY <1>0, <1>2 DEF Configured, Confs, k
    <3>. QED BY <2>3, <3>1
  <2>. QED BY <1>0, <1>2, <1>3, <2>1, <2>2, <2>3, <2>4, <2>5, Reads
<1>4. CASE /\ conf' = [conf EXCEPT ![k] = NoConf] /\ parse' = NULL
           /\ pc' = [pc EXCEPT ![Bsp] = "panic"]
  <2>1. /\ DOMAIN conf' = Confs /\ conf'[k] = NoConf /\ \A j \in Confs : j # k => conf'[j] = conf[j]
    BY <1>2, <1>4, ConfUpdate
  <2>2. \A j \in Confs : IsConf(conf'[j])
    BY <1>2, <2>1, NewConf
  <2>. QED BY <1>0, <1>4, <2>1, <2>2, Reads
<1>. QED BY <1>3, <1>4 DEF ParseLine, Panic, Goto

(* The end of the file: the configuration is parsed. *)
LEMMA ParseEnds == ASSUME BootInv, ParseEnd PROVE BootInv'
<1>. DEFINE k == parse.conf
<1>0. /\ UNCHANGED <<machine, phase, online, ctx, rq, scan, tests>> /\ pc[Bsp] = "parse"
      /\ conf' = [conf EXCEPT ![k].parsed = TRUE] /\ parse' = NULL
      /\ \E w \in {"panic", "testtasks", "runtime"} :
            /\ pc' = [pc EXCEPT ![Bsp] = w]
  <2>1. /\ UNCHANGED <<machine, phase, online, ctx, rq, scan, tests>> /\ pc[Bsp] = "parse"
        /\ conf' = [conf EXCEPT ![k].parsed = TRUE] /\ parse' = NULL
    BY DEF ParseEnd, launching, testing
  <2>. DEFINE x == IF ~ValidBase(conf[parse.conf]) THEN "panic"
                   ELSE IF TestingBoot /\ parse.conf = "task" THEN "testtasks" ELSE "runtime"
  <2>2. x \in {"panic", "testtasks", "runtime"}
    OBVIOUS
  <2>3. pc' = [pc EXCEPT ![Bsp] = x]
    BY DEF ParseEnd, Goto
  <2>. HIDE DEF x
  <2>. QED BY <2>1, <2>2, <2>3
<1>1. PICK w \in {"panic", "testtasks", "runtime"} : pc' = [pc EXCEPT ![Bsp] = w]
  BY <1>0
<1>2. /\ Configured /\ DOMAIN conf = Confs /\ (\A j \in Confs : IsConf(conf[j]))
      /\ k \in Confs /\ conf[k].initialized
  BY <1>0 DEF BootInv, Shapes
<1>3. k = "test" => Parsed(conf["task"])
  BY <1>0, <1>2 DEF Configured
<1>. HIDE DEF k
<1>. DEFINE c == [conf[k] EXCEPT !.parsed = TRUE]
<1>4. IsConf(c) /\ c.initialized = conf[k].initialized /\ c.parsed
  <2>. DEFINE e == conf[k]
  <2>1. IsConf(e)
    BY <1>2
  <2>2. c = [e EXCEPT !.parsed = TRUE]
    OBVIOUS
  <2>. HIDE DEF e, c
  <2>3. IsConf(c) /\ c.initialized = e.initialized /\ c.parsed
    BY <2>1, <2>2 DEF IsConf
  <2>. QED BY <2>3 DEF e
<1>5. conf' = [conf EXCEPT ![k] = c]
  BY <1>0, <1>2
<1>. HIDE DEF c
<1>6. /\ DOMAIN conf' = Confs /\ conf'[k] = c /\ \A j \in Confs : j # k => conf'[j] = conf[j]
  BY <1>2, <1>5, ConfUpdate
<1>7. \A j \in Confs : IsConf(conf'[j])
  BY <1>2, <1>4, <1>6
<1>8. Parsed(conf'["task"])
  <2>1. CASE k = "task"
    BY <1>2, <1>4, <1>6, <2>1 DEF Parsed
  <2>2. CASE k = "test"
    BY <1>3, <1>6, <2>2 DEF Confs
  <2>. QED BY <1>2, <2>1, <2>2 DEF Confs
<1>. QED BY <1>0, <1>1, <1>6, <1>7, <1>8, Reads

(* Changes of a configuration that lose nothing of it. *)
LEMMA Grows ==
  ASSUME BootInv, NEW k \in Confs, NEW c, conf' = [conf EXCEPT ![k] = c],
         \/ \E x : c = [conf[k] EXCEPT !.tests_started = x]
         \/ \E x : c = [conf[k] EXCEPT !.directives = x]
         \/ \E x : c = [conf[k] EXCEPT !.head = x]
         \/ \E x : conf[k].started_cpus \subseteq x /\ c = [conf[k] EXCEPT !.started_cpus = x]
  PROVE  ConfGrows
<1>. DEFINE e == conf[k]
<1>1. DOMAIN conf = Confs /\ IsConf(e) /\ \A j \in Confs : IsConf(conf[j])
  BY DEF BootInv, Shapes
<1>2. /\ DOMAIN conf' = Confs /\ conf'[k] = c /\ \A j \in Confs : j # k => conf'[j] = conf[j]
  BY <1>1, ConfUpdate
<1>3. /\ IsConf(c) /\ e.started_cpus \subseteq c.started_cpus
      /\ c.initialized = e.initialized /\ c.parsed = e.parsed
  <2>1. \/ \E x : c = [e EXCEPT !.tests_started = x]
        \/ \E x : c = [e EXCEPT !.directives = x]
        \/ \E x : c = [e EXCEPT !.head = x]
        \/ \E x : e.started_cpus \subseteq x /\ c = [e EXCEPT !.started_cpus = x]
    OBVIOUS
  <2>. HIDE DEF e
  <2>2. CASE \E x : c = [e EXCEPT !.tests_started = x]
    BY <1>1, <2>2 DEF IsConf
  <2>3. CASE \E x : c = [e EXCEPT !.directives = x]
    BY <1>1, <2>3 DEF IsConf
  <2>4. CASE \E x : c = [e EXCEPT !.head = x]
    BY <1>1, <2>4 DEF IsConf
  <2>5. CASE \E x : e.started_cpus \subseteq x /\ c = [e EXCEPT !.started_cpus = x]
    <3>1. PICK x : e.started_cpus \subseteq x /\ c = [e EXCEPT !.started_cpus = x]
      BY <2>5
    <3>2. IsConf(c) /\ c.started_cpus = x /\ c.initialized = e.initialized /\ c.parsed = e.parsed
      BY <1>1, <3>1 DEF IsConf
    <3>. QED BY <3>1, <3>2
  <2>. QED BY <2>1, <2>2, <2>3, <2>4, <2>5
<1>. QED BY <1>1, <1>2, <1>3 DEF ConfGrows

(* So does leaving both alone. *)
LEMMA GrowsNot == ASSUME BootInv, conf' = conf PROVE ConfGrows
BY DEF BootInv, Shapes, ConfGrows

(* task_build_argv() and the launch mark the record. *)
LEMMA Holds ==
  ASSUME BootInv, NEW c \in Cpus, NEW holds, HoldsArgv(c, holds), scan[c].conf \in Confs
  PROVE  ConfGrows
<1>. DEFINE k == scan[c].conf
            e == conf[k]
            x == [e.head EXCEPT ![scan[c].pos].argv = holds]
            d == [e EXCEPT !.head = x]
<1>1. conf' = [conf EXCEPT ![k] = d]
  BY DEF HoldsArgv
<1>2. \E y : d = [conf[k] EXCEPT !.head = y]
  OBVIOUS
<1>. HIDE DEF d, k
<1>. QED BY <1>1, <1>2, Grows DEF k

(* The bootstrap CPU past the barrier. *)
LEMMA BspRuns ==
  ASSUME BootInv, pc[Bsp] \in Up, UNCHANGED <<machine, online, ctx, parse>>,
         NEW w \in Up \cup {"panic"},
         pc' = [pc EXCEPT ![Bsp] = w] \/ (pc' = pc /\ w = pc[Bsp]),
         DOMAIN rq' = Cpus, ConfGrows,
         phase' \in 0 .. 6, phase' = 6 => w = "run", phase = 6 => phase' = 6,
         DOMAIN scan' = Cpus, \A d \in Cpus : d # Bsp => scan'[d] = scan[d],
         w \in {"scan", "create"} => scan'[Bsp].conf \in Confs,
         w \in {"tests", "load", "apply"} => scan'[Bsp] = NULL,
         w # "panic" /\ (scan'[Bsp] # NULL \/ w \in Launching) => Bsp \in conf'["task"].started_cpus,
         w \in {"scan", "create"} /\ scan'[Bsp].conf = "test" => Bsp \in conf'["test"].started_cpus,
         w \in {"ready", "run"} /\ TestingBoot => Bsp \in conf'["test"].started_cpus
  PROVE  BootInv'
<1>1. Shapes /\ Arrivals /\ Installed /\ Barrier /\ Configured /\ Bsp \in Cpus
  BY MachineFacts DEF BootInv
<1>2. online = machine.cpus
  BY <1>1 DEF Barrier
<1>3. ctx = Cpus
  BY <1>1, <1>2, AllArrived
<1>4. pc[Bsp] \notin {"parse", "panic"} /\ pc[Bsp] \notin Coming /\ w \notin Coming /\ w # "parse"
      /\ w \notin Alone /\ w \in BspPlaces
  BY DEF Up, Launching, Coming, Alone, BspPlaces
<1>5. parse' = NULL /\ DOMAIN conf' = Confs /\ \A k \in Confs : IsConf(conf'[k])
  BY <1>1, <1>4 DEF Shapes, ConfGrows
<1>6. /\ Shapes' /\ Arrivals' /\ Installed' /\ Barrier'
      /\ pc'[Bsp] = w /\ Bsp' = Bsp /\ (TestingBoot' <=> TestingBoot)
  BY <1>1, <1>2, <1>3, <1>4, <1>5, BspMoves
<1>7. Parsed(conf'["task"])
  BY <1>1 DEF Configured, ConfGrows, Parsed, Confs
<1>8. Configured'
  <2>1. w \in {"tests", "load", "apply", "launch", "panic"} \cup Launching
    BY DEF Up
  <2>2. w \notin {"launch", "panic"} \cup Launching => scan'[Bsp] = NULL
    BY <2>1
  <2>3. (w # "panic" /\ scan'[Bsp] # NULL) \/ w \in Launching => Bsp \in conf'["task"].started_cpus
    BY DEF Launching
  <2>. QED BY <1>6, <1>7, <2>2, <2>3 DEF Configured
<1>. QED BY <1>6, <1>8 DEF BootInv

(* Configuring, loading and starting the self-tests. *)
LEMMA TestSteps ==
  ASSUME BootInv, pc[Bsp] \in {"tests", "load", "apply"},
         UNCHANGED <<machine, phase, online, ctx, parse, scan>>,
         NEW w \in {"load", "apply", "launch"},
         pc' = [pc EXCEPT ![Bsp] = w] \/ (pc' = pc /\ w = pc[Bsp]),
         DOMAIN rq' = Cpus, ConfGrows
  PROVE  BootInv'
<1>1. Shapes /\ Barrier /\ Configured
  BY DEF BootInv
<1>2. pc[Bsp] \in Up /\ w \in Up /\ w \notin Launching /\ w \notin {"scan", "create", "ready", "run", "panic"}
      /\ pc[Bsp] \notin {"launch", "panic"} \cup Launching /\ pc[Bsp] # "run"
  BY DEF Up, Launching
<1>3. scan[Bsp] = NULL /\ phase # 6 /\ phase \in 0 .. 6 /\ DOMAIN scan = Cpus
  BY <1>1, <1>2 DEF Configured, Barrier, Shapes
<1>. QED BY <1>2, <1>3, BspRuns

(* selftest_run() adds workers to the queues there are. *)
LEMMA RunsQueue ==
  ASSUME BootInv, NEW list, NEW judged, selftest_run(list, judged)
  PROVE  DOMAIN rq' = Cpus
<1>1. DOMAIN rq = Cpus
  BY DEF BootInv, Shapes
<1>2. rq' = rq \/ \E t : rq' = WithWorkers(t, rq)
  BY DEF selftest_run
<1>. QED BY <1>1, <1>2 DEF WithWorkers

(* The steps of the self-test session before the launch of the tasks. *)
LEMMA TestsStart ==
  ASSUME BootInv,
         kernel_tests_start_config \/ LoadPayload \/ LoadEnd \/ selftest_apply_all \/ StartFirst
  PROVE  BootInv'
<1>1. DOMAIN rq = Cpus /\ TestConf \in Confs
  BY DEF BootInv, Shapes, TestConf, Confs
<1>2. CASE kernel_tests_start_config
  <2>1. /\ UNCHANGED <<machine, phase, online, ctx, rq, parse, scan>> /\ pc[Bsp] = "tests"
    BY <1>2 DEF kernel_tests_start_config, launching
  <2>2. CASE pc' = [pc EXCEPT ![Bsp] = "launch"] /\ conf' = conf
    BY <1>1, <2>1, <2>2, GrowsNot, TestSteps
  <2>3. CASE pc' = [pc EXCEPT ![Bsp] = "load"] /\ conf' = [conf EXCEPT ![TestConf].tests_started = TRUE]
    <3>. DEFINE k == TestConf
                c == [conf[k] EXCEPT !.tests_started = TRUE]
    <3>1. conf' = [conf EXCEPT ![k] = c] /\ \E x : c = [conf[k] EXCEPT !.tests_started = x]
      BY <2>3
    <3>. HIDE DEF c, k
    <3>2. ConfGrows
      BY <1>1, <3>1, Grows DEF k
    <3>. QED BY <1>1, <2>1, <2>3, <3>2, TestSteps
  <2>. QED BY <1>2, <2>2, <2>3 DEF kernel_tests_start_config, Goto
<1>3. CASE LoadPayload
  <2>1. /\ UNCHANGED <<machine, phase, pc, online, ctx, rq, parse, scan>> /\ pc[Bsp] = "load"
    BY <1>3 DEF LoadPayload, launching
  <2>2. ConfGrows
    <3>1. CASE conf' = conf
      BY <3>1, GrowsNot
    <3>2. CASE conf' = [conf EXCEPT ![TestConf].directives[Head(pending)].module_id = Head(pending)]
      <4>. DEFINE k == TestConf
                  h == Head(pending)
                  y == [conf[k].directives EXCEPT ![h].module_id = h]
                  c == [conf[k] EXCEPT !.directives = y]
      <4>1. conf' = [conf EXCEPT ![k] = c] /\ \E x : c = [conf[k] EXCEPT !.directives = x]
        BY <3>2
      <4>. HIDE DEF c, k
      <4>. QED BY <1>1, <4>1, Grows DEF k
    <3>. QED BY <1>3, <3>1, <3>2 DEF LoadPayload
  <2>. QED BY <1>1, <2>1, <2>2, TestSteps
<1>4. CASE LoadEnd
  <2>1. /\ UNCHANGED <<machine, phase, online, ctx, rq, conf, parse, scan>> /\ pc[Bsp] = "load"
        /\ pc' = [pc EXCEPT ![Bsp] = "apply"]
    BY <1>4 DEF LoadEnd, launching, config, Goto
  <2>. QED BY <1>1, <2>1, GrowsNot, TestSteps
<1>5. CASE selftest_apply_all
  <2>1. /\ UNCHANGED <<machine, phase, pc, online, ctx, rq, conf, parse, scan>> /\ pc[Bsp] = "apply"
    BY ZenonT(60), <1>5 DEF selftest_apply_all, launching, config
  <2>. QED BY SMTT(60), <1>1, <2>1, GrowsNot, TestSteps
<1>6. CASE StartFirst
  <2>1. /\ UNCHANGED <<machine, phase, online, ctx, conf, parse, scan>> /\ pc[Bsp] = "apply"
        /\ pc' = [pc EXCEPT ![Bsp] = "launch"] /\ selftest_run(tests.active, tests.judged)
    BY <1>6 DEF StartFirst, launching, config, Goto
  <2>2. DOMAIN rq' = Cpus
    BY <2>1, RunsQueue
  <2>. QED BY <2>1, <2>2, GrowsNot, TestSteps
<1>. QED BY <1>2, <1>3, <1>4, <1>5, <1>6

(* CPU 0 takes timer interrupts only when every CPU has come. *)
LEMMA TimerRuns ==
  ASSUME BootInv, selftest_tick \/ TestFinishes
  PROVE  online = machine.cpus /\ ctx = Cpus
<1>1. Shapes /\ Arrivals /\ Barrier
  BY DEF BootInv
<1>2. pc[0] = "run"
  BY DEF selftest_tick, TestFinishes
<1>3. 0 \in Cpus
  <2>1. machine.cpus \in 1 .. MAX_CPUS /\ MAX_CPUS \in Nat
    BY <1>1, MachinesAssumption, BoundsAssumption DEF Shapes
  <2>. QED BY <2>1 DEF Cpus
<1>4. pc[Bsp] = "run"
  BY <1>1, <1>2, <1>3 DEF Barrier, Launching
<1>5. online = machine.cpus
  BY <1>1, <1>4 DEF Barrier, Up, Launching
<1>. QED BY <1>1, <1>5, AllArrived

(* The timer interrupt and the answers of the tests. *)
LEMMA TestsGoOn == ASSUME BootInv, selftest_tick \/ TestFinishes PROVE BootInv'
<1>1. UNCHANGED <<machine, phase, pc, online, ctx, conf, parse, scan>>
  BY DEF selftest_tick, TestFinishes, config, launching
<1>4. Shapes /\ Arrivals /\ Installed /\ Barrier /\ Configured
  BY DEF BootInv
<1>5. online = machine.cpus /\ ctx = Cpus
  BY TimerRuns
<1>6. DOMAIN rq' = Cpus
  <2>1. CASE selftest_tick
    BY <2>1, RunsQueue DEF selftest_tick
  <2>2. CASE TestFinishes
    BY <1>4, <2>2 DEF TestFinishes, Shapes
  <2>. QED BY <2>1, <2>2
<1>7. Cpus' = Cpus /\ Bsp' = Bsp /\ (TestingBoot' <=> TestingBoot)
  BY <1>1, SameMachine
<1>8. Shapes'
  BY <1>1, <1>4, <1>6, <1>7 DEF Shapes
<1>9. Arrivals'
  BY <1>1, <1>4, <1>7 DEF Arrivals
<1>10. Installed'
  BY <1>1, <1>4, <1>5, <1>7 DEF Installed
<1>11. Barrier'
  BY <1>1, <1>4, <1>5, <1>7 DEF Barrier
<1>12. Configured'
  BY <1>1, <1>4, <1>7 DEF Configured
<1>. QED BY <1>8, <1>9, <1>10, <1>11, <1>12 DEF BootInv

(* wait_online(): the count follows the arrivals. *)
LEMMA Arrives == ASSUME BootInv, NEW c \in Cpus, wait_online(c) PROVE BootInv'
<1>1. /\ UNCHANGED <<machine, phase, ctx, rq, conf, parse, scan, tests>> /\ pc[c] = "arrive"
      /\ pc' = [pc EXCEPT ![c] = "wait"] /\ online' = online + 1
  BY DEF wait_online, config, launching, testing, Goto
<1>2. Shapes /\ Arrivals /\ Installed /\ Barrier /\ Configured /\ Bsp \in Cpus
  BY MachineFacts DEF BootInv
<1>3. Cpus' = Cpus /\ Bsp' = Bsp /\ (TestingBoot' <=> TestingBoot)
  BY <1>1, SameMachine
<1>4. /\ \A d \in Cpus : pc'[d] = IF d = c THEN "wait" ELSE pc[d]
      /\ pc' \in [Cpus -> BspPlaces \cup ApPlaces]
  BY <1>1, <1>2 DEF Shapes, BspPlaces
<1>5. online # machine.cpus
  <2>1. pc[c] # "panic" /\ pc[c] \in Coming
    BY <1>1 DEF Coming
  <2>. QED BY <1>2, <2>1, AllArrived
<1>6. Arrivals'
  <2>1. PICK A \in SUBSET ctx :
           /\ online = Cardinality(A)
           /\ \A d \in Cpus : pc[d] # "panic" => (d \in A <=> pc[d] \notin Coming)
    BY <1>2 DEF Arrivals
  <2>2. c \in ctx /\ c \notin A
    BY <1>1, <1>2, <2>1 DEF Installed, Coming, Alone
  <2>3. IsFiniteSet(A)
    <3>1. A \subseteq Cpus
      BY <1>2 DEF Shapes
    <3>. QED BY <1>2, <3>1, MachineFacts, FS_Subset
  <2>4. Cardinality(A \cup {c}) = online + 1
    BY <2>1, <2>2, <2>3, FS_AddElement
  <2>5. \A d \in Cpus : pc'[d] # "panic" => (d \in A \cup {c} <=> pc'[d] \notin Coming)
    BY <1>4, <2>1 DEF Coming, Alone
  <2>6. A \cup {c} \in SUBSET ctx'
    BY <1>1, <2>2
  <2>. QED BY <1>1, <1>3, <2>4, <2>5, <2>6 DEF Arrivals
<1>7. Installed'
  <2>1. c \in ctx
    BY <1>1, <1>2 DEF Installed, Alone
  <2>2. pc[Bsp] \notin Alone
    BY <1>1, <1>2 DEF Installed, Alone
  <2>3. pc'[Bsp] \notin Alone
    BY <1>2, <1>4, <2>2 DEF Alone
  <2>. QED BY <1>1, <1>2, <1>3, <1>4, <2>1, <2>3 DEF Installed
<1>8. Shapes'
  <2>1. online' \in Nat
    BY <1>1, <1>2 DEF Shapes
  <2>2. pc'[Bsp] \in BspPlaces /\ \A d \in Cpus : d # Bsp => pc'[d] \in ApPlaces
    BY <1>2, <1>4 DEF Shapes, BspPlaces, ApPlaces
  <2>3. /\ pc'[Bsp] = "parse" <=> pc[Bsp] = "parse"
        /\ \A d \in Cpus : pc'[d] \in {"scan", "create"} => pc[d] \in {"scan", "create"}
    BY <1>1, <1>2, <1>4
  <2>. QED BY <1>1, <1>2, <1>3, <1>4, <2>1, <2>2, <2>3 DEF Shapes
<1>9. Barrier'
  <2>1. pc[Bsp] \notin Up
    BY <1>2, <1>5 DEF Barrier
  <2>2. pc'[Bsp] \notin Up /\ phase # 6
    BY <1>2, <1>4, <2>1 DEF Up, Launching, Barrier
  <2>3. \A d \in Cpus : pc'[d] \in {"launch"} \cup Launching => pc[d] \in {"launch"} \cup Launching
    BY <1>4 DEF Launching
  <2>. QED BY <1>1, <1>2, <1>3, <2>1, <2>2, <2>3 DEF Barrier
<1>10. Configured'
  <2>1. CASE c # Bsp
    BY <1>1, <1>2, <1>3, <1>4, <2>1 DEF Configured
  <2>2. CASE c = Bsp
    <3>1. Parsed(conf["task"]) /\ scan[Bsp] = NULL
      BY <1>1, <1>2, <2>2 DEF Configured, Launching
    <3>2. pc'[Bsp] = "wait"
      BY <1>4, <2>2
    <3>. QED BY <1>1, <1>3, <3>1, <3>2 DEF Configured, Launching
  <2>. QED BY <2>1, <2>2
<1>. QED BY <1>6, <1>7, <1>8, <1>9, <1>10 DEF BootInv

(* What the invariant says of one CPU. *)
LEMMA SameFacts ==
  ASSUME BootInv, NEW c \in Cpus
  PROVE  /\ DOMAIN rq = Cpus /\ DOMAIN scan = Cpus /\ ctx \subseteq Cpus /\ phase \in 0 .. 6
         /\ \A d \in Cpus : rq[d] # <<>> => d \in ctx
         /\ pc[c] \in {"arrive", "wait", "services", "launch"} \cup Launching => c \in ctx
         /\ c # Bsp => pc[c] \in ApPlaces
         /\ pc[c] \in {"scan", "create"} => scan[c].conf \in Confs
         /\ c # Bsp /\ pc[c] \in {"launch"} \cup Launching => phase = 6
         /\ pc[Bsp] # "run" => phase # 6
BY DEF BootInv, Shapes, Installed, Barrier, Alone, Launching

(* Other CPUs, up to their launch loop. *)
LEMMA ApComes ==
  ASSUME BootInv, NEW c \in Cpus, c # Bsp,
         secondary_cpu_init(c) \/ SeeOnline(c) \/ boot_phase_wait_for(c)
  PROVE  BootInv'
<1>0. /\ UNCHANGED <<machine, phase, online, conf, parse, scan, tests>>
  BY DEF secondary_cpu_init, SeeOnline, boot_phase_wait_for, config, launching, testing
<1>1. ConfGrows
  BY <1>0, GrowsNot
<1>2. CASE secondary_cpu_init(c)
  <2>1. pc[c] = "starting"
    BY <1>2 DEF secondary_cpu_init
  <2>2. CASE ctx' = ctx \cup {c} /\ rq' = [rq EXCEPT ![c] = rq[c]] /\ pc' = [pc EXCEPT ![c] = "arrive"]
    <3>1. DOMAIN rq' = Cpus /\ \A d \in Cpus : rq'[d] # <<>> => d \in ctx'
      BY <2>2, SameFacts
    <3>2. "arrive" \in ApPlaces /\ "arrive" \in Coming /\ "starting" \in Coming
          /\ "arrive" \notin {"launch"} \cup Launching
      BY DEF ApPlaces, Coming, Launching
    <3>3. ctx \subseteq ctx' /\ ctx' \subseteq Cpus /\ c \in ctx'
      BY <2>2, SameFacts
    <3>4. DOMAIN scan' = Cpus /\ \A d \in Cpus : d # c => scan'[d] = scan[d]
      BY <1>0, SameFacts
    <3>5. "arrive" \notin {"scan", "create"} /\ pc[c] # "panic" /\ pc[c] # "off"
      BY <2>1
    <3>. QED BY <1>0, <1>1, <2>1, <2>2, <3>1, <3>2, <3>3, <3>4, <3>5, ApMoves
  <2>3. CASE ctx' = ctx /\ rq' = rq /\ pc' = [pc EXCEPT ![c] = "panic"]
    <3>1. "panic" \in ApPlaces /\ "panic" \notin {"launch"} \cup Launching
      BY DEF ApPlaces, Launching
    <3>. QED BY <1>0, <1>1, <2>1, <2>3, <3>1, SameFacts, ApMoves
  <2>. QED BY <1>2, <2>2, <2>3 DEF secondary_cpu_init, InstallContext, Panic, Goto
<1>3. CASE SeeOnline(c)
  <2>1. pc[c] = "wait" /\ pc' = [pc EXCEPT ![c] = "services"] /\ UNCHANGED <<ctx, rq>>
    BY <1>3 DEF SeeOnline, Goto
  <2>2. "services" \in ApPlaces /\ "services" \notin Coming /\ "wait" \notin Coming
        /\ "services" \notin {"launch"} \cup Launching
    BY DEF ApPlaces, Coming, Alone, Launching
  <2>. QED BY ZenonT(60), <1>0, <1>1, <2>1, <2>2, SameFacts, ApMoves
<1>4. CASE boot_phase_wait_for(c)
  <2>1. /\ pc[c] = "services" /\ pc' = [pc EXCEPT ![c] = "launch"] /\ UNCHANGED <<ctx, rq>>
        /\ phase >= 6
    BY <1>4 DEF boot_phase_wait_for, Goto
  <2>2. "launch" \in ApPlaces /\ "services" \notin Coming /\ "launch" \notin Coming
    BY DEF ApPlaces, Coming, Alone
  <2>3. phase = 6
    BY <2>1, SameFacts
  <2>4. /\ ctx \subseteq ctx' /\ ctx' \subseteq Cpus /\ c \in ctx'
        /\ DOMAIN rq' = Cpus /\ \A d \in Cpus : rq'[d] # <<>> => d \in ctx'
    BY <2>1, SameFacts
  <2>5. DOMAIN scan' = Cpus /\ \A d \in Cpus : d # c => scan'[d] = scan[d]
    BY <1>0, SameFacts
  <2>6. "launch" \notin {"scan", "create"} /\ pc[c] # "panic" /\ pc[c] # "off"
    BY <2>1
  <2>. QED BY <1>0, <1>1, <2>1, <2>2, <2>3, <2>4, <2>5, <2>6, ApMoves
<1>. QED BY <1>2, <1>3, <1>4

(* The launch loop of a CPU: ClaimCpu, ScanTask, CreateTask, ScanEnd. *)
Loops(c, w) ==
    /\ UNCHANGED <<machine, phase, online, ctx, parse, tests>>
    /\ pc' = [pc EXCEPT ![c] = w] \/ (pc' = pc /\ w = pc[c])
    /\ DOMAIN rq' = Cpus /\ \A d \in Cpus : rq'[d] # <<>> => d \in ctx
    /\ ConfGrows
    /\ DOMAIN scan' = Cpus /\ \A d \in Cpus : d # c => scan'[d] = scan[d]
    /\ w \in {"scan", "create"} => scan'[c].conf \in Confs

(* A launch loop of another CPU runs after SERVICES_READY. *)
LEMMA ApLoops ==
  ASSUME BootInv, NEW c \in Cpus, c # Bsp, NEW w \in {"launch", "scan", "create", "ready", "run", "panic"},
         pc[c] \in {"launch"} \cup Launching, Loops(c, w)
  PROVE  BootInv'
<1>1. /\ w \in ApPlaces /\ pc[c] # "off" /\ pc[c] # "panic" /\ w \notin Coming /\ pc[c] \notin Coming
  BY DEF ApPlaces, Coming, Alone, Launching
<1>2. c \in ctx /\ ctx \subseteq Cpus /\ phase = 6
  BY SameFacts
<1>. QED BY <1>1, <1>2, ApMoves DEF Loops

(* The launch loop of the bootstrap CPU runs before it. *)
LEMMA BspLoops ==
  ASSUME BootInv, NEW w \in {"launch", "scan", "create", "ready", "panic"},
         pc[Bsp] \in {"launch", "scan", "create"}, Loops(Bsp, w),
         w # "panic" => Bsp \in conf'["task"].started_cpus,
         w \in {"scan", "create"} /\ scan'[Bsp].conf = "test" => Bsp \in conf'["test"].started_cpus,
         w = "ready" /\ TestingBoot => Bsp \in conf'["test"].started_cpus
  PROVE  BootInv'
<1>1. /\ w \in Up \cup {"panic"} /\ pc[Bsp] \in Up /\ w # "run"
      /\ w \notin {"tests", "load", "apply"} /\ pc[Bsp] # "run"
  BY DEF Up, Launching
<1>2. Bsp \in Cpus
  BY MachineFacts DEF BootInv
<1>3. phase # 6 /\ phase \in 0 .. 6
  BY <1>1, <1>2, SameFacts
<1>. QED BY <1>1, <1>3, BspRuns DEF Loops

(* ScanTask: a record is passed over, stops the CPU, or gets its argv. *)
LEMMA ScanSteps ==
  ASSUME BootInv, NEW c \in Cpus, ScanTask(c)
  PROVE  /\ pc[c] = "scan" /\ scan[c].conf \in Confs
         /\ \E w \in {"scan", "create", "panic"} :
               Loops(c, w) /\ (w # "panic" => scan'[c].conf = scan[c].conf)
<1>1. /\ UNCHANGED <<machine, phase, online, ctx, parse, tests>> /\ pc[c] = "scan"
      /\ SkipTask(c) \/ LaunchPanics(c) \/ task_build_argv(c)
  BY DEF ScanTask, testing
<1>2. /\ DOMAIN rq = Cpus /\ DOMAIN scan = Cpus /\ \A d \in Cpus : rq[d] # <<>> => d \in ctx
      /\ scan[c].conf \in Confs
  BY <1>1, SameFacts
<1>3. rq' = rq
  BY <1>1 DEF SkipTask, LaunchPanics, task_build_argv
<1>4. ASSUME NextRecord(c)
      PROVE  /\ DOMAIN scan' = Cpus /\ \A d \in Cpus : d # c => scan'[d] = scan[d]
             /\ scan'[c].conf = scan[c].conf
  <2>. DEFINE e == scan[c]
              f == [e EXCEPT !.pos = @ + 1]
  <2>1. scan' = [scan EXCEPT ![c] = f]
    BY <1>4 DEF NextRecord
  <2>2. f.conf = e.conf
    OBVIOUS
  <2>. HIDE DEF f, e
  <2>3. scan'[c] = f /\ DOMAIN scan' = Cpus /\ \A d \in Cpus : d # c => scan'[d] = scan[d]
    BY <1>2, <2>1
  <2>. QED BY <2>2, <2>3 DEF e
<1>5. CASE pc' = pc /\ conf' = conf /\ NextRecord(c)
  <2>1. ConfGrows
    BY <1>5, GrowsNot
  <2>2. Loops(c, "scan")
    BY <1>1, <1>2, <1>3, <1>4, <1>5, <2>1 DEF Loops
  <2>. QED BY <1>1, <1>2, <1>4, <1>5, <2>2
<1>6. CASE pc' = [pc EXCEPT ![c] = "panic"] /\ conf' = conf /\ scan' = scan
  <2>1. ConfGrows
    BY <1>6, GrowsNot
  <2>2. Loops(c, "panic")
    BY <1>1, <1>2, <1>3, <1>6, <2>1 DEF Loops
  <2>. QED BY <1>1, <1>2, <2>2
<1>7. CASE pc' = [pc EXCEPT ![c] = "create"] /\ HoldsArgv(c, TRUE) /\ scan' = scan
  <2>1. ConfGrows
    BY <1>2, <1>7, Holds
  <2>2. Loops(c, "create")
    BY <1>1, <1>2, <1>3, <1>7, <2>1 DEF Loops
  <2>. QED BY <1>1, <1>2, <1>7, <2>2
<1>. QED BY <1>1, <1>5, <1>6, <1>7 DEF SkipTask, LaunchPanics, task_build_argv, Panic, Goto

(* CreateTask: the thread goes to the queue of this CPU. *)
LEMMA CreateSteps ==
  ASSUME BootInv, NEW c \in Cpus, CreateTask(c)
  PROVE  /\ pc[c] = "create" /\ scan[c].conf \in Confs
         /\ \E w \in {"scan", "panic"} : Loops(c, w) /\ scan'[c].conf = scan[c].conf
<1>0. /\ UNCHANGED <<machine, phase, online, ctx, parse, tests>> /\ pc[c] = "create"
  BY DEF CreateTask, testing
<1>2. /\ DOMAIN rq = Cpus /\ DOMAIN scan = Cpus /\ (\A d \in Cpus : rq[d] # <<>> => d \in ctx)
      /\ scan[c].conf \in Confs /\ c \in ctx
  BY <1>0, SameFacts DEF Launching
<1>6. CASE pc' = [pc EXCEPT ![c] = "panic"] /\ UNCHANGED <<rq, conf, scan>>
  <2>1. ConfGrows
    BY <1>6, GrowsNot
  <2>2. Loops(c, "panic")
    BY <1>0, <1>2, <1>6, <2>1 DEF Loops
  <2>. QED BY <1>0, <1>2, <1>6, <2>2
<1>. SUFFICES ASSUME ~(pc' = [pc EXCEPT ![c] = "panic"] /\ UNCHANGED <<rq, conf, scan>>)
              PROVE  Loops(c, "scan") /\ scan'[c].conf = scan[c].conf
  BY <1>0, <1>2, <1>6
<1>1. /\ rq' = [rq EXCEPT ![c] = Append(@, ThisTask(c))] \/ rq' = rq
      /\ HoldsArgv(c, FALSE) /\ NextRecord(c) /\ pc' = [pc EXCEPT ![c] = "scan"]
  BY DEF CreateTask, Goto, Panic
<1>3. /\ DOMAIN scan' = Cpus /\ (\A d \in Cpus : d # c => scan'[d] = scan[d])
      /\ scan'[c].conf = scan[c].conf
  <2>. DEFINE e == scan[c]
              f == [e EXCEPT !.pos = @ + 1]
  <2>1. scan' = [scan EXCEPT ![c] = f]
    BY <1>1 DEF NextRecord
  <2>2. f.conf = e.conf
    OBVIOUS
  <2>. HIDE DEF f, e
  <2>3. scan'[c] = f /\ DOMAIN scan' = Cpus /\ \A d \in Cpus : d # c => scan'[d] = scan[d]
    BY <1>2, <2>1
  <2>. QED BY <2>2, <2>3 DEF e
<1>4. ConfGrows
  BY <1>1, <1>2, Holds
<1>5. DOMAIN rq' = Cpus /\ \A d \in Cpus : rq'[d] # <<>> => d \in ctx
  <2>1. CASE rq' = rq
    BY <1>2, <2>1
  <2>2. CASE rq' = [rq EXCEPT ![c] = Append(@, ThisTask(c))]
    BY <1>2, <2>2
  <2>. QED BY <1>1, <2>1, <2>2
<1>. QED BY <1>0, <1>1, <1>2, <1>3, <1>4, <1>5 DEF Loops

(* ClaimCpu: the claim of a CPU is recorded, or was already. *)
LEMMA ClaimSteps ==
  ASSUME BootInv, NEW c \in Cpus, ClaimCpu(c)
  PROVE  /\ pc[c] = "launch"
         /\ \E k \in Confs, w \in {"scan", "launch", "ready", "panic"} :
               /\ Loops(c, w) /\ scan'[c].conf = k /\ (k = "test" <=> scan[c] # NULL)
               /\ \/ w = "scan" /\ c \in conf'[k].started_cpus
                  \/ /\ ~ task_conf_claim_cpu_ctx(conf[k], c) /\ conf' = conf /\ w # "scan"
                     /\ k = "test" => w = "panic"
                     /\ w = "ready" => ~ TestingBoot
<1>1. /\ UNCHANGED <<machine, phase, online, ctx, rq, parse, tests>> /\ pc[c] = "launch"
  BY DEF ClaimCpu, testing
<1>2. /\ DOMAIN rq = Cpus /\ DOMAIN scan = Cpus /\ \A d \in Cpus : rq[d] # <<>> => d \in ctx
  BY SameFacts
<1>3. PICK k \in {IF scan[c] = NULL THEN "task" ELSE "test"} :
        \/ /\ conf' = [conf EXCEPT ![k].started_cpus = @ \cup {c}]
           /\ scan' = [scan EXCEPT ![c] = [conf |-> k, pos |-> 1]]
           /\ pc' = [pc EXCEPT ![c] = "scan"]
        \/ /\ ~task_conf_claim_cpu_ctx(conf[k], c)
           /\ scan' = [scan EXCEPT ![c] = [conf |-> k, pos |-> 1]]
           /\ pc' = [pc EXCEPT ![c] = IF k = "test" THEN "panic"
                                      ELSE IF TestingBoot THEN "launch" ELSE "ready"]
           /\ conf' = conf
  BY DEF ClaimCpu, Goto
<1>4. k \in Confs /\ (k = "test" <=> scan[c] # NULL)
  BY <1>3 DEF Confs
<1>5. DOMAIN scan' = Cpus /\ scan'[c].conf = k /\ \A d \in Cpus : d # c => scan'[d] = scan[d]
  BY <1>2, <1>3
<1>6. CASE /\ conf' = [conf EXCEPT ![k].started_cpus = @ \cup {c}]
           /\ pc' = [pc EXCEPT ![c] = "scan"]
  <2>. DEFINE e == conf[k]
              x == e.started_cpus \cup {c}
              d == [e EXCEPT !.started_cpus = x]
  <2>1. conf' = [conf EXCEPT ![k] = d]
    BY <1>6
  <2>2. \E y : conf[k].started_cpus \subseteq y /\ d = [conf[k] EXCEPT !.started_cpus = y]
    OBVIOUS
  <2>3. d.started_cpus = x
    <3>1. IsConf(e)
      BY <1>4 DEF BootInv, Shapes
    <3>2. d = [e EXCEPT !.started_cpus = x]
      OBVIOUS
    <3>. HIDE DEF d, e, x
    <3>. QED BY <3>1, <3>2 DEF IsConf
  <2>4. c \in x
    OBVIOUS
  <2>. HIDE DEF d, x
  <2>5. ConfGrows
    BY <1>4, <2>1, <2>2, Grows
  <2>6. DOMAIN conf = Confs
    BY DEF BootInv, Shapes
  <2>7. c \in conf'[k].started_cpus
    BY <1>4, <2>1, <2>3, <2>4, <2>6, ConfUpdate
  <2>8. Loops(c, "scan")
    BY <1>1, <1>2, <1>4, <1>5, <1>6, <2>5 DEF Loops
  <2>. QED BY <1>1, <1>4, <1>5, <2>7, <2>8
<1>7. CASE /\ ~task_conf_claim_cpu_ctx(conf[k], c) /\ conf' = conf
           /\ pc' = [pc EXCEPT ![c] = IF k = "test" THEN "panic"
                                      ELSE IF TestingBoot THEN "launch" ELSE "ready"]
  <2>. DEFINE w == IF k = "test" THEN "panic" ELSE IF TestingBoot THEN "launch" ELSE "ready"
  <2>1. /\ w \in {"launch", "ready", "panic"} /\ (k = "test" => w = "panic")
        /\ w = "ready" => ~ TestingBoot
    OBVIOUS
  <2>2. pc' = [pc EXCEPT ![c] = w]
    BY <1>7
  <2>. HIDE DEF w
  <2>3. ConfGrows
    BY <1>7, GrowsNot
  <2>4. Loops(c, w) /\ w # "scan"
    BY <1>1, <1>2, <1>4, <1>5, <2>1, <2>2, <2>3 DEF Loops
  <2>. QED BY <1>1, <1>4, <1>5, <1>7, <2>1, <2>4
<1>. QED BY <1>3, <1>6, <1>7

(* ScanEnd: the loop is over, and the next configuration comes or none. *)
LEMMA EndSteps ==
  ASSUME BootInv, NEW c \in Cpus, ScanEnd(c)
  PROVE  /\ pc[c] = "scan" /\ scan[c].conf \in Confs /\ UNCHANGED <<conf, scan>>
         /\ \E w \in {"launch", "ready"} :
               Loops(c, w) /\ (w = "ready" /\ TestingBoot => scan[c].conf = "test")
<1>1. /\ UNCHANGED <<machine, phase, online, ctx, rq, conf, parse, scan, tests>> /\ pc[c] = "scan"
      /\ pc' = [pc EXCEPT ![c] = IF TestingBoot /\ scan[c].conf = "task" THEN "launch" ELSE "ready"]
  BY DEF ScanEnd, testing, Goto
<1>2. /\ DOMAIN rq = Cpus /\ DOMAIN scan = Cpus /\ (\A d \in Cpus : rq[d] # <<>> => d \in ctx)
      /\ scan[c].conf \in Confs
  BY <1>1, SameFacts
<1>3. PICK w \in {"launch", "ready"} :
         /\ pc' = [pc EXCEPT ![c] = w]
         /\ w = "ready" /\ TestingBoot => scan[c].conf # "task"
  BY <1>1
<1>4. ConfGrows
  BY <1>1, GrowsNot
<1>5. Loops(c, w)
  BY <1>1, <1>2, <1>3, <1>4 DEF Loops
<1>. QED BY <1>1, <1>2, <1>3, <1>5 DEF Confs

(* Every step of a launch loop. *)
LEMMA LaunchSteps ==
  ASSUME BootInv, NEW c \in Cpus, ClaimCpu(c) \/ ScanTask(c) \/ CreateTask(c) \/ ScanEnd(c)
  PROVE  BootInv'
<1>1. /\ pc[c] \in {"launch", "scan", "create"}
      /\ \E w \in {"launch", "scan", "create", "ready", "panic"} : Loops(c, w)
  BY ClaimSteps, ScanSteps, CreateSteps, EndSteps
<1>2. CASE c # Bsp
  <2>1. pc[c] \in {"launch"} \cup Launching
    BY <1>1 DEF Launching
  <2>. QED BY <1>1, <1>2, <2>1, ApLoops
<1>3. CASE c = Bsp
  <2>1. Configured /\ DOMAIN conf = Confs /\ Shapes
    BY DEF BootInv, Shapes
  <2>2. Parsed(conf["task"]) /\ Bsp < MAX_CPUS
    BY <1>1, <1>3, <2>1, MachineFacts DEF Configured, Up, Launching
  <2>3. pc[Bsp] \in {"scan", "create"} => Bsp \in conf["task"].started_cpus
    BY <2>1 DEF Configured, Launching
  <2>4. pc[Bsp] \in {"scan", "create"} /\ scan[Bsp].conf = "test" => Bsp \in conf["test"].started_cpus
    BY <2>1 DEF Configured
  <2>5. ASSUME NEW w, Loops(c, w)
        PROVE  \A k \in Confs : conf[k].started_cpus \subseteq conf'[k].started_cpus
    BY <2>5 DEF Loops, ConfGrows
  <2>6. "task" \in Confs /\ "test" \in Confs
    BY DEF Confs
  <2>7. CASE ClaimCpu(c)
    <3>1. PICK k \in Confs, w \in {"scan", "launch", "ready", "panic"} :
               /\ Loops(c, w) /\ scan'[c].conf = k /\ (k = "test" <=> scan[c] # NULL)
               /\ \/ w = "scan" /\ c \in conf'[k].started_cpus
                  \/ /\ ~ task_conf_claim_cpu_ctx(conf[k], c) /\ conf' = conf /\ w # "scan"
                     /\ k = "test" => w = "panic"
                     /\ w = "ready" => ~ TestingBoot
      BY <2>7, ClaimSteps
    <3>2. pc[c] = "launch"
      BY <2>7, ClaimSteps
    <3>3. k = "test" => Bsp \in conf["task"].started_cpus
      BY <1>3, <2>1, <3>1, <3>2 DEF Configured
    <3>4. k = "task" /\ ~ task_conf_claim_cpu_ctx(conf[k], c) => Bsp \in conf["task"].started_cpus
      BY <1>3, <2>2 DEF task_conf_claim_cpu_ctx, Parsed
    <3>5. w # "panic" => Bsp \in conf'["task"].started_cpus
      <4>1. k \in {"task", "test"}
        BY DEF Confs
      <4>2. CASE k = "test"
        BY <2>5, <2>6, <3>1, <3>3, <4>2
      <4>3. CASE k = "task"
        BY <1>3, <3>1, <3>4, <4>3
      <4>. QED BY <4>1, <4>2, <4>3
    <3>6. w \in {"scan", "create"} /\ scan'[Bsp].conf = "test" => Bsp \in conf'["test"].started_cpus
      BY <1>3, <3>1
    <3>7. w = "ready" => ~ TestingBoot
      BY <3>1
    <3>8. Loops(Bsp, w) /\ pc[Bsp] \in {"launch", "scan", "create"}
      BY <1>3, <3>1, <3>2
    <3>. QED BY <3>5, <3>6, <3>7, <3>8, BspLoops
  <2>8. CASE ScanTask(c)
    <3>1. PICK w \in {"scan", "create", "panic"} :
               Loops(c, w) /\ (w # "panic" => scan'[c].conf = scan[c].conf)
      BY <2>8, ScanSteps
    <3>2. pc[c] = "scan"
      BY <2>8, ScanSteps
    <3>3. Bsp \in conf'["task"].started_cpus
      BY <1>3, <2>3, <2>5, <2>6, <3>1, <3>2
    <3>4. w \in {"scan", "create"} /\ scan'[Bsp].conf = "test" => Bsp \in conf'["test"].started_cpus
      BY <1>3, <2>4, <2>5, <2>6, <3>1, <3>2
    <3>5. Loops(Bsp, w) /\ pc[Bsp] \in {"launch", "scan", "create"} /\ w # "ready"
      BY <1>3, <3>1, <3>2
    <3>. QED BY <3>3, <3>4, <3>5, BspLoops
  <2>9. CASE CreateTask(c)
    <3>0. PICK w \in {"scan", "panic"} : Loops(c, w) /\ scan'[c].conf = scan[c].conf
      BY <2>9, CreateSteps
    <3>1. pc[c] = "create" /\ Loops(c, w) /\ scan'[c].conf = scan[c].conf
      BY <2>9, <3>0, CreateSteps
    <3>2. Bsp \in conf'["task"].started_cpus
      BY <1>3, <2>3, <2>5, <2>6, <3>1
    <3>3. scan'[Bsp].conf = "test" => Bsp \in conf'["test"].started_cpus
      BY <1>3, <2>4, <2>5, <2>6, <3>1
    <3>4. Loops(Bsp, w) /\ pc[Bsp] \in {"launch", "scan", "create"} /\ w # "ready"
          /\ w \in {"launch", "scan", "create", "ready", "panic"}
      BY <1>3, <3>1
    <3>. QED BY <3>2, <3>3, <3>4, BspLoops
  <2>10. CASE ScanEnd(c)
    <3>1. PICK w \in {"launch", "ready"} :
               Loops(c, w) /\ (w = "ready" /\ TestingBoot => scan[c].conf = "test")
      BY <2>10, EndSteps
    <3>2. pc[c] = "scan" /\ UNCHANGED <<conf, scan>>
      BY <2>10, EndSteps
    <3>3. Bsp \in conf'["task"].started_cpus
      BY <1>3, <2>3, <3>2
    <3>4. w = "ready" /\ TestingBoot => Bsp \in conf'["test"].started_cpus
      BY <1>3, <2>4, <3>1, <3>2
    <3>5. Loops(Bsp, w) /\ pc[Bsp] \in {"launch", "scan", "create"} /\ w \notin {"scan", "create"}
      BY <1>3, <3>1, <3>2
    <3>. QED BY <3>3, <3>4, <3>5, BspLoops
  <2>. QED BY <2>7, <2>8, <2>9, <2>10
<1>. QED BY <1>2, <1>3

(* The bootstrap CPU passes the barrier. *)
LEMMA BspSees == ASSUME BootInv, SeeOnline(Bsp) PROVE BootInv'
<1>0. /\ UNCHANGED <<machine, online, ctx, rq, conf, parse, scan, tests>> /\ pc[Bsp] = "wait"
      /\ online = machine.cpus
      /\ \/ phase = 4 /\ phase' = 5 /\ pc' = [pc EXCEPT ![Bsp] = "tests"]
         \/ phase' = phase /\ pc' = [pc EXCEPT ![Bsp] = "panic"]
  <2>1. /\ UNCHANGED <<machine, online, ctx, rq, conf, parse, scan, tests>> /\ pc[Bsp] = "wait"
        /\ online = machine.cpus /\ boot_phase_complete(5, "tests")
    BY DEF SeeOnline, AllOnline, config, launching, testing
  <2>. QED BY <2>1 DEF boot_phase_complete, Goto, Panic, BootInv, Shapes
<1>1. PICK w \in {"tests", "panic"} : pc' = [pc EXCEPT ![Bsp] = w]
  BY <1>0
<1>2. Shapes /\ Installed /\ Barrier /\ Configured /\ Bsp \in Cpus
  BY MachineFacts DEF BootInv
<1>3. phase # 6 /\ phase' # 6 /\ phase' \in 0 .. 6
  <2>1. phase # 6 /\ phase \in 0 .. 6
    BY <1>0, <1>2 DEF Barrier, Shapes
  <2>. QED BY <1>0, <2>1
<1>4. w \in BspPlaces /\ w \notin Coming /\ pc[Bsp] \notin Coming /\ w \notin Alone
      /\ w \notin {"parse", "scan", "create", "ready", "run", "launch"} /\ w \notin Launching
      /\ pc[Bsp] \notin {"launch", "panic", "parse"} \cup Launching
  BY <1>0 DEF BspPlaces, Coming, Alone, Launching
<1>5. /\ Bsp \in ctx /\ scan[Bsp] = NULL /\ parse = NULL
  BY <1>0, <1>2, <1>4 DEF Installed, Alone, Configured, Shapes
<1>6. /\ DOMAIN rq' = Cpus /\ (\A d \in Cpus : rq'[d] # <<>> => d \in ctx)
      /\ DOMAIN conf' = Confs /\ (\A k \in Confs : IsConf(conf'[k])) /\ DOMAIN scan' = Cpus
  BY <1>0, <1>2 DEF Shapes, Installed
<1>7. /\ Shapes' /\ Arrivals' /\ Installed' /\ Barrier'
      /\ pc'[Bsp] = w /\ Bsp' = Bsp /\ (TestingBoot' <=> TestingBoot)
  BY <1>0, <1>1, <1>3, <1>4, <1>5, <1>6, BspMoves
<1>8. Parsed(conf["task"])
  BY <1>0, <1>2 DEF Configured
<1>9. Configured'
  BY <1>0, <1>4, <1>5, <1>7, <1>8 DEF Configured
<1>. QED BY <1>7, <1>9 DEF BootInv

(* Interrupts open; the bootstrap CPU first completes SERVICES_READY. *)
LEMMA Runs == ASSUME BootInv, NEW c \in Cpus, Run(c) PROVE BootInv'
<1>0. UNCHANGED <<machine, online, ctx, rq, conf, parse, scan, tests>> /\ pc[c] = "ready"
  BY DEF Run, config, launching, testing
<1>1. ConfGrows
  BY <1>0, GrowsNot
<1>2. CASE c # Bsp
  <2>1. pc' = [pc EXCEPT ![c] = "run"] /\ phase' = phase
    BY <1>2 DEF Run, Goto
  <2>2. Loops(c, "run")
    BY <1>0, <1>1, <2>1, SameFacts DEF Loops
  <2>3. pc[c] \in {"launch"} \cup Launching
    BY <1>0 DEF Launching
  <2>. QED BY <1>2, <2>2, <2>3, ApLoops
<1>3. CASE c = Bsp
  <2>1. /\ \/ phase = 5 /\ phase' = 6 /\ pc' = [pc EXCEPT ![Bsp] = "run"]
           \/ phase' = phase /\ pc' = [pc EXCEPT ![Bsp] = "panic"]
    <3>1. boot_phase_complete(6, "run") /\ phase \in 0 .. 6
      BY <1>3 DEF Run, BootInv, Shapes
    <3>. QED BY <3>1 DEF boot_phase_complete, Goto, Panic
  <2>2. PICK w \in {"run", "panic"} : pc' = [pc EXCEPT ![Bsp] = w] /\ (phase' = 6 \/ phase' = phase)
                                      /\ (phase' = phase \/ w = "run")
    BY <2>1
  <2>3. phase # 6 /\ phase \in 0 .. 6 /\ DOMAIN rq = Cpus /\ DOMAIN scan = Cpus
    BY <1>0, <1>3, SameFacts
  <2>4. pc[Bsp] \in Up /\ w \in Up \cup {"panic"} /\ w \notin {"tests", "load", "apply", "scan", "create"}
    BY <1>0, <1>3 DEF Up, Launching
  <2>5. /\ Bsp \in conf["task"].started_cpus
        /\ TestingBoot => Bsp \in conf["test"].started_cpus
    BY <1>0, <1>3 DEF BootInv, Configured, Launching
  <2>6. /\ phase' \in 0 .. 6 /\ (phase' = 6 => w = "run") /\ (phase = 6 => phase' = 6)
        /\ DOMAIN rq' = Cpus /\ DOMAIN scan' = Cpus /\ \A d \in Cpus : d # Bsp => scan'[d] = scan[d]
    BY <1>0, <2>2, <2>3
  <2>7. /\ Bsp \in conf'["task"].started_cpus
        /\ TestingBoot => Bsp \in conf'["test"].started_cpus
    BY <1>0, <2>5
  <2>. QED BY <1>0, <1>1, <2>2, <2>4, <2>6, <2>7, BspRuns
<1>. QED BY <1>2, <1>3

(* Reset: the bootstrap CPU is in kmain(), the others are off. *)
LEMMA BootInvInit == Init => BootInv
<1>. SUFFICES ASSUME Init PROVE BootInv
  OBVIOUS
<1>1. /\ machine \in Machines /\ Cpus = 0 .. machine.cpus - 1 /\ Bsp \in Cpus
      /\ phase = 0 /\ online = 0 /\ ctx = {} /\ parse = NULL
  BY MachinesAssumption, BoundsAssumption DEF Init, Cpus, Bsp
<1>2. /\ pc \in [Cpus -> BspPlaces \cup ApPlaces] /\ pc[Bsp] = "memory"
      /\ \A c \in Cpus : c # Bsp => pc[c] = "off"
  BY <1>1 DEF Init, BspPlaces, ApPlaces
<1>3. /\ DOMAIN rq = Cpus /\ DOMAIN scan = Cpus /\ \A c \in Cpus : rq[c] = <<>> /\ scan[c] = NULL
  BY DEF Init
<1>4. /\ DOMAIN conf = Confs /\ \A k \in Confs : IsConf(conf[k])
  <2>1. conf = [task |-> NoConf, test |-> NoConf]
    BY DEF Init
  <2>2. DOMAIN conf = Confs /\ \A k \in Confs : conf[k] = NoConf
    BY <2>1 DEF Confs
  <2>. QED BY <2>2, NewConf
<1>6. Shapes
  <2>1. pc[Bsp] \in BspPlaces /\ \A c \in Cpus : pc[c] \notin {"scan", "create", "parse"}
    BY <1>2 DEF BspPlaces
  <2>2. \A c \in Cpus : c # Bsp => pc[c] \in ApPlaces
    BY <1>2 DEF ApPlaces
  <2>. QED BY <1>1, <1>2, <1>3, <1>4, <2>1, <2>2 DEF Shapes
<1>7. Arrivals
  <2>1. \A c \in Cpus : pc[c] \in Coming
    BY <1>2 DEF Coming, Alone
  <2>2. Cardinality({}) = 0
    BY FS_EmptySet
  <2>3. {} \in SUBSET ctx
    OBVIOUS
  <2>. QED BY <1>1, <2>1, <2>2, <2>3 DEF Arrivals
<1>8. Installed
  BY <1>2, <1>3 DEF Installed, Alone
<1>9. Barrier
  <2>1. pc[Bsp] \notin Up /\ \A c \in Cpus : pc[c] \notin {"launch"} \cup Launching
    BY <1>2 DEF Up, Launching
  <2>. QED BY <1>1, <2>1 DEF Barrier
<1>10. Configured
  BY <1>1, <1>2, <1>3 DEF Configured, Up, Launching
<1>. QED BY <1>6, <1>7, <1>8, <1>9, <1>10 DEF BootInv

(* Every step keeps the invariant. *)
LEMMA BootInvStep == BootInv /\ [Next]_vars => BootInv'
<1>. SUFFICES ASSUME BootInv, [Next]_vars PROVE BootInv'
  OBVIOUS
<1>1. CASE BspStep
  <2>1. CASE InitMemory \/ kernel_tests_run_bootstrap \/ InitDevices \/ CompleteRuntime
    BY <2>1, BootSteps DEF InitMemory, kernel_tests_run_bootstrap, InitDevices, CompleteRuntime
  <2>2. CASE kernel_tests_start_config \/ LoadPayload \/ LoadEnd \/ selftest_apply_all \/ StartFirst
    BY <2>2, TestsStart
  <2>3. CASE RegisterBootTest
    <3>1. UNCHANGED <<machine, phase, pc, online, ctx, rq, conf, parse, scan>>
      BY <2>3 DEF RegisterBootTest, config, launching
    <3>2. Cpus' = Cpus /\ Bsp' = Bsp /\ (TestingBoot' <=> TestingBoot)
      BY <3>1, SameMachine
    <3>. QED BY <3>1, <3>2 DEF BootInv, Shapes, Arrivals, Installed, Barrier, Configured
  <2>. QED BY <1>1, <2>1, <2>2, <2>3, StartSmp, InitTasks, ParseLines, ParseEnds DEF BspStep
<1>2. CASE \E c \in Cpus : CpuStep(c)
  <2>1. PICK c \in Cpus : CpuStep(c)
    BY <1>2
  <2>2. CASE secondary_cpu_init(c) \/ SeeOnline(c) \/ boot_phase_wait_for(c)
    <3>1. CASE c # Bsp
      BY <2>2, <3>1, ApComes
    <3>2. CASE c = Bsp
      <4>1. pc[Bsp] \notin {"starting", "services"}
        BY DEF BootInv, Shapes, BspPlaces
      <4>2. SeeOnline(Bsp)
        BY <2>2, <3>2, <4>1 DEF secondary_cpu_init, boot_phase_wait_for
      <4>. QED BY <4>2, BspSees
    <3>. QED BY <3>1, <3>2
  <2>3. CASE ClaimCpu(c) \/ ScanTask(c) \/ CreateTask(c) \/ ScanEnd(c)
    BY <2>3, LaunchSteps
  <2>. QED BY <2>1, <2>2, <2>3, Arrives, Runs DEF CpuStep
<1>3. CASE selftest_tick \/ TestFinishes
  BY <1>3, TestsGoOn
<1>4. CASE UNCHANGED vars
  <2>1. UNCHANGED <<machine, phase, pc, online, ctx, rq, conf, parse, scan>>
    BY <1>4 DEF vars
  <2>2. Cpus' = Cpus /\ Bsp' = Bsp /\ (TestingBoot' <=> TestingBoot)
    BY <2>1, SameMachine
  <2>. QED BY <2>1, <2>2 DEF BootInv, Shapes, Arrivals, Installed, Barrier, Configured
<1>. QED BY <1>1, <1>2, <1>3, <1>4 DEF Next

(* Boot keeps the arrival count, the contexts, the phases and the          *)
(* configurations in step: kmain(), wait_online() and launch_boot_tasks()  *)
(* keep BootInv on every machine.                                          *)
THEOREM BootInvariant == Spec => []BootInv
BY BootInvInit, BootInvStep, PTL DEF Spec

-----------------------------------------------------------------------------
(* The launch loops and the self-test session. LaunchInv, inductive beside *)
(* BootInv, gives TasksLaunchedOnce and SelftestsInTurn. The two need each *)
(* other: a thread is queued once only if the tasks' positions (Launched)  *)
(* and the instances' identities (WorkersOf) both say so.                  *)

Entries == {"main", "task", "test", "worker"} \X Nat
Queued(c, e) == \E n \in DOMAIN rq[c] : rq[c][n] = e

IsSeq(s) == \E S : s \in Seq(S)
IsTask(t) == t = [cpu |-> t.cpu, module |-> t.module, named |-> t.named, type |-> t.type,
                  args |-> t.args, argv |-> t.argv]
IsInstance(t) == t = [test |-> t.test, id |-> t.id, module |-> t.module, started |-> t.started,
                      prepare_failed |-> t.prepare_failed, done |-> t.done,
                      passed |-> t.passed]

(* Where the bootstrap CPU is before it launches anything. *)
Early == Coming \cup {"wait", "tests", "load", "apply"}

(* The lists of records and the queues. *)
Lists ==
    /\ \A k \in Confs : IsSeq(conf[k].head) /\ \A i \in Tasks(k) : IsTask(conf[k].head[i])
    /\ rq \in [Cpus -> Seq(Entries)]
    /\ \A c \in Cpus : \A m, n \in DOMAIN rq[c] : m # n => rq[c][m] # rq[c][n]

(* task_lock is held by the CPU in the loop, or by one that stopped there. *)
Locked ==
    /\ lock = NULL \/ (lock \in Cpus /\ pc[lock] \in {"scan", "create", "panic"})
    /\ \A c \in Cpus : pc[c] \in {"scan", "create"} => lock = c

(* Which loop a CPU is in, how far, and which it is through. *)
PositionAt(c) ==
    /\ scan[c] # NULL => scan[c] \in [conf : Confs, pos : Nat \ {0}]
    /\ pc[c] \notin {"launch", "panic"} \cup Launching => scan[c] = NULL
    /\ pc[c] = "launch" /\ scan[c] # NULL => scan[c].conf = "task"
    /\ pc[c] \in {"scan", "create"} => scan[c] # NULL /\ c \in conf[scan[c].conf].started_cpus
    /\ pc[c] = "create" => /\ scan[c].pos \in Tasks(scan[c].conf)
                           /\ Record(c).cpu = c /\ Record(c).argv
    /\ \A k \in Confs : c \in conf[k].started_cpus =>
          /\ scan[c] # NULL /\ (k = "test" => scan[c].conf = "test")
          /\ scan[c].conf = k /\ pc[c] \notin {"scan", "create", "panic"} =>
                scan[c].pos > Len(conf[k].head)
Positions == \A c \in Cpus : PositionAt(c)

(* Has the loop of CPU c over configuration k gone past record i? *)
Past(c, k, i) == scan[c].conf = k => i < scan[c].pos

(* What is queued lies behind the loop that queued it; what lies behind it *)
(* and can run is queued, or found no memory.                              *)
QueuedBehind(c, k) ==
    \A i \in Nat : Queued(c, <<k, i>>) =>
        /\ i \in Tasks(k) /\ conf[k].head[i].cpu = c
        /\ c \in conf[k].started_cpus /\ Past(c, k, i)
BehindQueued(c, k) ==
    \A i \in Tasks(k) :
        (/\ c \in conf[k].started_cpus /\ conf[k].head[i].cpu = c
         /\ Launchable(k, i) /\ Past(c, k, i)) =>
              Queued(c, <<k, i>>) \/ <<k, i>> \in failed
Launched == \A c \in Cpus, k \in Confs : QueuedBehind(c, k) /\ BehindQueued(c, k)

(* Every argument block belongs to a thread, or to the record at which the *)
(* holder of task_lock is creating one, or stopped doing so.               *)
Held == \E k \in Confs : \E i \in Tasks(k) : conf[k].head[i].argv
Arguments ==
    /\ argv = Cardinality(TaskThreads) + IF Held THEN 1 ELSE 0
    /\ \A k \in Confs : \A i \in Tasks(k) : conf[k].head[i].argv =>
          lock \in Cpus /\ pc[lock] \in {"create", "panic"} /\ scan[lock] = [conf |-> k, pos |-> i]

(* Until the bootstrap CPU launches, nobody does. *)
Quiet ==
    /\ lock = NULL /\ argv = 0 /\ failed = {}
    /\ \A c \in Cpus : scan[c] = NULL
    /\ \A c \in Cpus, k \in Confs, i \in Nat : ~Queued(c, <<k, i>>)
    /\ \A k \in Confs : /\ conf[k].started_cpus = {}
                        /\ \A i \in Tasks(k) : ~conf[k].head[i].argv

(* The self-test lists: every instance is in one of them, once. *)
Instances ==
    /\ tests = [registry |-> tests.registry, active |-> tests.active,
                judged |-> tests.judged, made |-> tests.made]
    /\ IsSeq(tests.registry) /\ IsSeq(tests.active) /\ IsSeq(tests.judged) /\ tests.made \in Nat
    /\ \A i \in DOMAIN tests.registry :
          /\ IsInstance(tests.registry[i]) /\ tests.registry[i].id \in 1 .. tests.made
          /\ ~tests.registry[i].started
    /\ \A i \in DOMAIN tests.active :
          /\ IsInstance(tests.active[i]) /\ tests.active[i].id \in 1 .. tests.made
    /\ \A i \in DOMAIN tests.judged : tests.judged[i].id \in 1 .. tests.made

Distinct(list) == \A i, j \in DOMAIN list : i # j => list[i].id # list[j].id
Apart(list, other) == \A i \in DOMAIN list : \A j \in DOMAIN other : list[i].id # other[j].id

Identities ==
    /\ Distinct(tests.registry) /\ Distinct(tests.active) /\ Distinct(tests.judged)
    /\ Apart(tests.registry, tests.active) /\ Apart(tests.registry, tests.judged)
    /\ Apart(tests.active, tests.judged)

(* Only the head of the active list is started, and not before StartFirst. *)
HeadOnly ==
    /\ \A i \in DOMAIN tests.active : tests.active[i].started => i = 1
    /\ pc[Bsp] \in Early =>
          tests.judged = <<>> /\ \A i \in DOMAIN tests.active : ~tests.active[i].started

(* The workers of an instance are queued when it starts, and only then. *)
WorkersQueued(inst) == \A c \in Workers[inst.test] \cap Cpus : Queued(c, <<"worker", inst.id>>)
WorkersOf ==
    /\ \A i \in DOMAIN tests.active :
          tests.active[i].started /\ ~tests.active[i].prepare_failed =>
              WorkersQueued(tests.active[i])
    /\ \A i \in DOMAIN tests.judged : tests.judged[i].ok => WorkersQueued(tests.judged[i])
    /\ \A c \in Cpus : \A id \in Nat : Queued(c, <<"worker", id>>) =>
          /\ id <= tests.made
          /\ \A i \in DOMAIN tests.registry : tests.registry[i].id # id
          /\ \A i \in DOMAIN tests.active : tests.active[i].id = id => tests.active[i].started

TasksInv == Locked /\ Positions /\ Launched /\ Arguments /\ (pc[Bsp] \in Early => Quiet)
TestsInv == Instances /\ Identities /\ HeadOnly /\ WorkersOf

(* Inductive beside BootInv. *)
LaunchInv == Lists /\ TasksInv /\ TestsInv

(* Appending to a list and replacing one of its elements. *)
LEMMA AppendSeq ==
  ASSUME NEW s, NEW e, IsSeq(s)
  PROVE  /\ IsSeq(Append(s, e)) /\ Len(s) \in Nat /\ DOMAIN s = 1 .. Len(s)
         /\ DOMAIN Append(s, e) = 1 .. Len(s) + 1 /\ Len(Append(s, e)) = Len(s) + 1
         /\ Append(s, e)[Len(s) + 1] = e
         /\ \A i \in DOMAIN s : Append(s, e)[i] = s[i]
<1>1. PICK S : s \in Seq(S)
  BY DEF IsSeq
<1>. DEFINE T == S \cup {e}
<1>2. s \in Seq(T) /\ e \in T
  <2>1. s \in [1 .. Len(s) -> S] /\ Len(s) \in Nat
    BY <1>1
  <2>2. s \in [1 .. Len(s) -> T]
    BY <2>1
  <2>. QED BY <2>1, <2>2
<1>. HIDE DEF T
<1>3. Append(s, e) \in Seq(T)
  BY <1>2
<1>. QED BY <1>2, <1>3 DEF IsSeq

LEMMA ReplaceSeq ==
  ASSUME NEW s, NEW e, IsSeq(s), NEW n \in DOMAIN s, NEW t, t = [s EXCEPT ![n] = e]
  PROVE  /\ IsSeq(t) /\ DOMAIN t = DOMAIN s /\ Len(t) = Len(s) /\ t[n] = e
         /\ \A i \in DOMAIN s : i # n => t[i] = s[i]
<1>1. PICK S : s \in Seq(S)
  BY DEF IsSeq
<1>. DEFINE T == S \cup {e}
<1>2. s \in [1 .. Len(s) -> S] /\ Len(s) \in Nat /\ DOMAIN s = 1 .. Len(s)
  BY <1>1
<1>3. t \in [1 .. Len(s) -> T] /\ DOMAIN t = DOMAIN s /\ t[n] = e
      /\ \A i \in DOMAIN s : i # n => t[i] = s[i]
  BY <1>2
<1>4. t \in Seq(T) /\ Len(t) = Len(s)
  BY <1>2, <1>3
<1>. QED BY <1>3, <1>4 DEF IsSeq

LEMMA SeqFacts == ASSUME NEW s, IsSeq(s) PROVE Len(s) \in Nat /\ DOMAIN s = 1 .. Len(s)
BY DEF IsSeq

LEMMA EmptySeq == IsSeq(<<>>) /\ Len(<<>>) = 0 /\ DOMAIN <<>> = {}
<1>1. <<>> \in Seq({})
  OBVIOUS
<1>. QED BY <1>1 DEF IsSeq

(* The CPUs at "create", and the threads of tasks, are finitely many. *)
LEMMA ThreadsFinite == ASSUME Lists PROVE IsFiniteSet(TaskThreads)
<1>1. Len(conf["task"].head) \in Nat /\ Len(conf["test"].head) \in Nat
  <2>1. IsSeq(conf["task"].head) /\ IsSeq(conf["test"].head)
    BY DEF Lists, Confs
  <2>. QED BY <2>1, SeqFacts
<1>. DEFINE N == Len(conf["task"].head) + Len(conf["test"].head)
<1>2. N \in Nat
  <2>1. \A a, b \in Nat : a + b \in Nat
    OBVIOUS
  <2>. QED BY <1>1, <2>1
<1>. HIDE DEF N
<1>3. IsFiniteSet(1 .. N) /\ IsFiniteSet({"task", "test"})
  <2>1. IsFiniteSet(1 .. N)
    BY <1>2, FS_Interval
  <2>2. {"task", "test"} = ({} \cup {"task"}) \cup {"test"}
    OBVIOUS
  <2>3. IsFiniteSet({} \cup {"task"})
    BY FS_EmptySet, FS_AddElement
  <2>. QED BY ZenonT(60), <2>1, <2>2, <2>3, FS_AddElement
<1>4. IsFiniteSet({"task", "test"} \X (1 .. N))
  BY <1>3, FS_Product
<1>5. TaskThreads \subseteq {"task", "test"} \X (1 .. N)
  BY DEF TaskThreads, N
<1>. QED BY <1>4, <1>5, FS_Subset

(* Nobody is in a launch loop while the bootstrap CPU is not up there.     *)
LEMMA NobodyLaunches ==
  ASSUME BootInv, pc[Bsp] \in Early
  PROVE  phase # 6 /\ \A c \in Cpus : pc[c] \notin {"launch"} \cup Launching
<1>1. phase # 6
  BY DEF BootInv, Barrier, Early, Coming, Alone
<1>2. pc[Bsp] \notin {"launch"} \cup Launching
  BY DEF Early, Coming, Alone, Launching
<1>. QED BY <1>1, <1>2 DEF BootInv, Barrier

(* While nothing has been launched the invariant of the launch loops says  *)
(* only that.                                                              *)
LEMMA QuietTasks ==
  BootInv /\ Lists /\ Quiet /\ (\A c \in Cpus : pc[c] \notin {"scan", "create"}) => TasksInv
<1>. SUFFICES ASSUME BootInv, Lists, Quiet, \A c \in Cpus : pc[c] \notin {"scan", "create"}
              PROVE  TasksInv
  OBVIOUS
<1>1. Locked
  BY DEF Quiet, Locked
<1>2. Positions
  <2>. SUFFICES ASSUME NEW c \in Cpus PROVE PositionAt(c)
    BY DEF Positions
  <2>1. scan[c] = NULL /\ pc[c] \notin {"scan", "create"} /\ \A k \in Confs : c \notin conf[k].started_cpus
    BY DEF Quiet
  <2>. QED BY <2>1 DEF PositionAt
<1>3. Launched
  BY DEF Quiet, Launched, QueuedBehind, BehindQueued
<1>4. Arguments
  <2>1. TaskThreads = {}
    <3>. SUFFICES ASSUME NEW t \in TaskThreads PROVE FALSE
      OBVIOUS
    <3>1. PICK k \in Confs, i \in Nat : t = <<k, i>>
      BY DEF TaskThreads, Confs
    <3>2. PICK c \in Cpus : \E n \in 1 .. Len(rq[c]) : rq[c][n] = t
      BY DEF TaskThreads
    <3>3. rq[c] \in Seq(Entries)
      BY DEF Lists
    <3>4. DOMAIN rq[c] = 1 .. Len(rq[c])
      BY <3>3
    <3>5. Queued(c, <<k, i>>)
      BY <3>1, <3>2, <3>4 DEF Queued
    <3>. QED BY <3>5 DEF Quiet
  <2>2. ~Held
    BY DEF Held, Quiet
  <2>3. Cardinality({}) = 0
    BY FS_EmptySet
  <2>. QED BY <2>1, <2>2, <2>3 DEF Quiet, Arguments
<1>. QED BY <1>1, <1>2, <1>3, <1>4 DEF TasksInv

(* A step before the first launch. *)
LEMMA EarlyStep ==
  ASSUME BootInv, BootInv', LaunchInv, pc[Bsp] \in Early,
         UNCHANGED <<machine, lock, scan, argv, failed>>,
         \A k \in Confs : /\ conf'[k].started_cpus = {} /\ IsSeq(conf'[k].head)
                          /\ \A i \in DOMAIN conf'[k].head :
                                IsTask(conf'[k].head[i]) /\ ~conf'[k].head[i].argv,
         rq' \in [Cpus -> Seq(Entries)],
         \A c \in Cpus : \A m, n \in DOMAIN rq'[c] : m # n => rq'[c][m] # rq'[c][n],
         \A c \in Cpus, k \in Confs, i \in Nat : ~ \E n \in DOMAIN rq'[c] : rq'[c][n] = <<k, i>>,
         \A c \in Cpus : pc'[c] \notin {"scan", "create"}
  PROVE  Lists' /\ TasksInv'
<1>0. Cpus' = Cpus
  BY SameMachine
<1>1. Quiet
  BY DEF LaunchInv, TasksInv
<1>2. Lists'
  BY <1>0 DEF Lists, Tasks
<1>3. Quiet'
  BY <1>0, <1>1 DEF Quiet, Tasks, Queued
<1>4. (\A c \in Cpus : pc[c] \notin {"scan", "create"})'
  BY <1>0
<1>5. TasksInv'
  BY <1>2, <1>3, <1>4, QuietTasks, PTL
<1>. QED BY <1>2, <1>5

(* The configurations and the queues before the first launch. *)
LEMMA EarlyFacts ==
  ASSUME BootInv, LaunchInv, pc[Bsp] \in Early
  PROVE  /\ \A k \in Confs : /\ conf[k].started_cpus = {} /\ IsSeq(conf[k].head)
                             /\ \A i \in DOMAIN conf[k].head :
                                   IsTask(conf[k].head[i]) /\ ~conf[k].head[i].argv
         /\ rq \in [Cpus -> Seq(Entries)]
         /\ \A c \in Cpus : \A m, n \in DOMAIN rq[c] : m # n => rq[c][m] # rq[c][n]
         /\ \A c \in Cpus, k \in Confs, i \in Nat : ~ \E n \in DOMAIN rq[c] : rq[c][n] = <<k, i>>
         /\ \A c \in Cpus : pc[c] \notin {"scan", "create"}
<1>1. Quiet /\ Lists
  BY DEF LaunchInv, TasksInv
<1>2. \A c \in Cpus : pc[c] \notin {"scan", "create"}
  BY NobodyLaunches DEF Launching
<1>. QED BY <1>1, <1>2 DEF Quiet, Lists, Tasks, Queued

(* Steps that leave the configurations and the queues alone. *)
LEMMA EarlySame ==
  ASSUME BootInv, BootInv', LaunchInv, pc[Bsp] \in Early, UNCHANGED <<machine, rq, conf>>,
         UNCHANGED launching, NEW w, w \notin {"scan", "create"},
         pc' = [pc EXCEPT ![Bsp] = w] \/ pc' = pc
  PROVE  Lists' /\ TasksInv'
<1>1. \A c \in Cpus : pc'[c] \notin {"scan", "create"}
  BY EarlyFacts DEF BootInv, Shapes
<1>. QED BY <1>1, EarlyFacts, EarlyStep DEF launching

(* start_smp(): the queue of the bootstrap CPU gets its main thread. *)
LEMMA EarlySmp ==
  ASSUME BootInv, BootInv', LaunchInv, start_smp
  PROVE  Lists' /\ TasksInv'
<1>1. /\ UNCHANGED <<machine, conf>> /\ UNCHANGED launching /\ pc[Bsp] = "smp"
      /\ InstallContext(Bsp, << <<"main", 0>> >>,
            [c \in Cpus |-> IF c = Bsp THEN "tasks" ELSE "starting"])
  BY DEF start_smp, config
<1>2. pc[Bsp] \in Early /\ Bsp \in Cpus
  BY <1>1, MachineFacts DEF Early, Coming, Alone, BootInv
<1>3. CASE rq' = rq /\ pc' = [pc EXCEPT ![Bsp] = "panic"]
  <2>1. "panic" \notin {"scan", "create"}
    OBVIOUS
  <2>. QED BY ONLY BootInv, BootInv', LaunchInv, <1>1, <1>2, <1>3, <2>1, EarlySame
<1>4. CASE /\ rq' = [rq EXCEPT ![Bsp] = << <<"main", 0>> >>]
           /\ pc' = [c \in Cpus |-> IF c = Bsp THEN "tasks" ELSE "starting"]
  <2>. DEFINE q == << <<"main", 0>> >>
  <2>1. /\ q \in Seq(Entries) /\ DOMAIN q = {1} /\ q[1] = <<"main", 0>>
    BY DEF Entries
  <2>. HIDE DEF q
  <2>2. rq' \in [Cpus -> Seq(Entries)] /\ \A c \in Cpus : rq'[c] = IF c = Bsp THEN q ELSE rq[c]
    BY <1>2, <1>4, <2>1, EarlyFacts DEF q
  <2>3. \A c \in Cpus : \A m, n \in DOMAIN rq'[c] : m # n => rq'[c][m] # rq'[c][n]
    BY SMTT(60), <1>2, <2>1, <2>2, EarlyFacts
  <2>4. \A c \in Cpus, k \in Confs, i \in Nat : ~ \E n \in DOMAIN rq'[c] : rq'[c][n] = <<k, i>>
    <3>1. \A k \in Confs, i \in Nat : <<"main", 0>> # <<k, i>>
      BY DEF Confs
    <3>2. ASSUME NEW c \in Cpus, NEW k \in Confs, NEW i \in Nat, NEW n \in DOMAIN rq'[c],
                 rq'[c][n] = <<k, i>>
          PROVE  FALSE
      <4>1. CASE c = Bsp
        BY <2>1, <2>2, <3>1, <3>2, <4>1
      <4>2. CASE c # Bsp
        <5>1. rq'[c] = rq[c]
          BY <2>2, <4>2
        <5>2. ~ \E m \in DOMAIN rq[c] : rq[c][m] = <<k, i>>
          BY <1>2, EarlyFacts
        <5>. QED BY <3>2, <5>1, <5>2
      <4>. QED BY <4>1, <4>2
    <3>. QED BY <3>2
  <2>5. \A c \in Cpus : pc'[c] \notin {"scan", "create"}
    BY <1>4
  <2>. QED BY <1>1, <1>2, <2>2, <2>3, <2>4, <2>5, EarlyFacts, EarlyStep DEF launching
<1>. QED BY <1>1, <1>3, <1>4 DEF InstallContext, Panic, Goto

(* A configuration before the first launch: no CPU has claimed it, no     *)
(* record of it holds arguments.                                          *)
Fresh(c) == /\ c.started_cpus = {} /\ IsSeq(c.head)
            /\ \A i \in DOMAIN c.head : IsTask(c.head[i]) /\ ~c.head[i].argv

(* Steps that change one configuration. *)
LEMMA EarlyConf ==
  ASSUME BootInv, BootInv', LaunchInv, pc[Bsp] \in Early, UNCHANGED <<machine, rq>>,
         UNCHANGED launching, NEW w, w \notin {"scan", "create"},
         pc' = [pc EXCEPT ![Bsp] = w] \/ pc' = pc,
         NEW k \in Confs, NEW d, conf' = [conf EXCEPT ![k] = d], Fresh(conf[k]) => Fresh(d)
  PROVE  Lists' /\ TasksInv'
<1>1. \A c \in Cpus : pc'[c] \notin {"scan", "create"}
  BY EarlyFacts DEF BootInv, Shapes
<1>2. \A j \in Confs : Fresh(conf[j])
  BY EarlyFacts DEF Fresh
<1>3. \A j \in Confs : Fresh(conf'[j])
  <2>1. DOMAIN conf = Confs
    BY DEF BootInv, Shapes
  <2>. QED BY <1>2, <2>1, ConfUpdate
<1>4. \A j \in Confs : /\ conf'[j].started_cpus = {} /\ IsSeq(conf'[j].head)
                       /\ \A i \in DOMAIN conf'[j].head :
                             IsTask(conf'[j].head[i]) /\ ~conf'[j].head[i].argv
  BY <1>3 DEF Fresh
<1>. QED BY <1>1, <1>4, EarlyFacts, EarlyStep DEF launching

(* A context that task_conf_init_ctx() has made, or that was dropped. *)
LEMMA FreshConf == Fresh(NoConf) /\ \A files, purpose : Fresh(task_conf_init_ctx(files, purpose))
<1>1. ASSUME NEW c, c.head = <<>>, c.started_cpus = {} PROVE Fresh(c)
  BY <1>1, EmptySeq DEF Fresh
<1>2. NoConf.head = <<>> /\ NoConf.started_cpus = {}
  BY DEF NoConf
<1>3. ASSUME NEW files, NEW purpose, NEW c, c = task_conf_init_ctx(files, purpose)
      PROVE  c.head = <<>> /\ c.started_cpus = {}
  BY <1>3 DEF NoConf, task_conf_init_ctx
<1>. QED BY <1>1, <1>2, <1>3

(* A line appends a record without arguments, or none. *)
LEMMA FreshLine ==
  ASSUME NEW c, IsConf(c), Fresh(c), NEW line, NEW d, d = task_conf_parse_v1_ctx(c, line), d # NULL
  PROVE  Fresh(d)
<1>1. d.started_cpus = c.started_cpus
  BY ParseKeeps
<1>2. \/ d.head = c.head
      \/ \E r : d.head = Append(c.head, r) /\ IsTask(r) /\ ~r.argv
  <2>1. CASE line.kind = "comment"
    BY <2>1 DEF task_conf_parse_v1_ctx
  <2>2. CASE line.kind = "directive"
    <3>1. d = parse_directive(c, line) /\ d # NULL
      BY <2>2 DEF task_conf_parse_v1_ctx
    <3>2. \/ d = c
          \/ \E x : d = [c EXCEPT !.module_missing_panic = x]
          \/ \E x : d = [c EXCEPT !.directives = x]
      BY <3>1 DEF parse_directive
    <3>. QED BY <3>2 DEF IsConf
  <2>3. CASE line.kind \notin {"comment", "directive"}
    <3>. DEFINE r == [cpu |-> line.cpu, module |-> line.module, named |-> line.named,
                      type |-> line.type, args |-> line.args, argv |-> FALSE]
                h == Append(c.head, r)
    <3>1. d = ParseTask(c, line) /\ d # NULL
      BY <2>3 DEF task_conf_parse_v1_ctx
    <3>2. d = [c EXCEPT !.head = h]
      BY <3>1 DEF ParseTask
    <3>3. IsTask(r) /\ ~r.argv
      BY DEF IsTask
    <3>. HIDE DEF r
    <3>. HIDE DEF h
    <3>4. d.head = h
      BY <3>2 DEF IsConf
    <3>. QED BY <3>3, <3>4 DEF h
  <2>. QED BY <2>1, <2>2, <2>3
<1>3. CASE d.head = c.head
  BY <1>1, <1>3 DEF Fresh
<1>4. ASSUME NEW r, d.head = Append(c.head, r), IsTask(r), ~r.argv
      PROVE  Fresh(d)
  <2>. DEFINE s == c.head
  <2>1. /\ IsSeq(Append(s, r)) /\ DOMAIN s = 1 .. Len(s) /\ Len(s) \in Nat
        /\ DOMAIN Append(s, r) = 1 .. Len(s) + 1 /\ Append(s, r)[Len(s) + 1] = r
        /\ \A i \in DOMAIN s : Append(s, r)[i] = s[i]
    <3>1. IsSeq(s)
      BY DEF Fresh
    <3>. HIDE DEF s
    <3>. QED BY <3>1, AppendSeq
  <2>2. \A i \in DOMAIN s : IsTask(s[i]) /\ ~s[i].argv
    BY DEF Fresh
  <2>3. ASSUME NEW i \in 1 .. Len(s) + 1 PROVE i \in DOMAIN s \/ i = Len(s) + 1
    <3>. HIDE DEF s
    <3>. QED BY <2>1
  <2>4. \A i \in DOMAIN d.head : IsTask(d.head[i]) /\ ~d.head[i].argv
    BY <1>4, <2>1, <2>2, <2>3
  <2>. QED BY <1>1, <1>4, <2>1, <2>4 DEF Fresh
<1>. QED BY <1>2, <1>3, <1>4

(* The same records under another state of the parser or of the tests. *)
LEMMA FreshSame ==
  ASSUME NEW c, IsConf(c), Fresh(c), NEW d,
         \/ \E x : d = [c EXCEPT !.tests_started = x]
         \/ \E x : d = [c EXCEPT !.directives = x]
         \/ \E x : d = [c EXCEPT !.parsed = x]
  PROVE  Fresh(d)
<1>1. d.head = c.head /\ d.started_cpus = c.started_cpus
  BY DEF IsConf
<1>. QED BY <1>1 DEF Fresh

(* The steps that read the configurations. *)
LEMMA EarlyReads ==
  ASSUME BootInv, BootInv', LaunchInv, initialize_boot_tasks \/ ParseLine \/ ParseEnd
  PROVE  Lists' /\ TasksInv'
<1>1. /\ UNCHANGED <<machine, rq>> /\ UNCHANGED launching
      /\ pc[Bsp] \in {"tasks", "parse", "testtasks"}
  BY DEF initialize_boot_tasks, ParseLine, ParseEnd
<1>2. pc[Bsp] \in Early
  BY <1>1 DEF Early, Coming
<1>3. DOMAIN conf = Confs /\ (\A j \in Confs : IsConf(conf[j]))
      /\ (pc[Bsp] = "parse" => parse.conf \in Confs)
  BY DEF BootInv, Shapes
<1>4. "panic" \notin {"scan", "create"} /\ "parse" \notin {"scan", "create"}
  OBVIOUS
<1>5. ASSUME pc' = [pc EXCEPT ![Bsp] = "panic"], conf' = conf
      PROVE  Lists' /\ TasksInv'
  BY <1>1, <1>2, <1>4, <1>5, EarlySame
<1>6. CASE initialize_boot_tasks
  <2>1. PICK k, files, purpose, path : k \in Confs /\ task_init_ctx(k, files, purpose, path)
    BY <1>6 DEF initialize_boot_tasks, Confs
  <2>2. ASSUME pc' = [pc EXCEPT ![Bsp] = "parse"],
               conf' = [conf EXCEPT ![k] = task_conf_init_ctx(files, purpose)]
        PROVE  Lists' /\ TasksInv'
    <3>. DEFINE d == task_conf_init_ctx(files, purpose)
    <3>1. Fresh(d) /\ conf' = [conf EXCEPT ![k] = d]
      BY <2>2, FreshConf
    <3>. HIDE DEF d
    <3>. QED BY <1>1, <1>2, <1>4, <2>1, <2>2, <3>1, EarlyConf
  <2>. QED BY <1>5, <2>1, <2>2 DEF task_init_ctx, Goto, Panic, config
<1>7. CASE ParseLine
  <2>. DEFINE k == parse.conf
              c == task_conf_parse_v1_ctx(conf[k], Head(parse.lines))
  <2>1. k \in Confs /\ IsConf(conf[k])
    BY <1>3, <1>7 DEF ParseLine
  <2>2. ASSUME c # NULL, conf' = [conf EXCEPT ![k] = c], pc' = pc PROVE Lists' /\ TasksInv'
    <3>1. Fresh(conf[k]) => Fresh(c)
      BY <2>1, <2>2, FreshLine
    <3>. HIDE DEF c, k
    <3>. QED BY <1>1, <1>2, <1>4, <2>1, <2>2, <3>1, EarlyConf
  <2>3. ASSUME conf' = [conf EXCEPT ![k] = NoConf], pc' = [pc EXCEPT ![Bsp] = "panic"]
        PROVE  Lists' /\ TasksInv'
    <3>. HIDE DEF c, k
    <3>. QED BY <1>1, <1>2, <1>4, <2>1, <2>3, FreshConf, EarlyConf
  <2>. QED BY <1>7, <2>2, <2>3 DEF ParseLine, Panic, Goto
<1>8. CASE ParseEnd
  <2>. DEFINE k == parse.conf
              d == [conf[k] EXCEPT !.parsed = TRUE]
              w == IF ~ValidBase(conf[parse.conf]) THEN "panic"
                   ELSE IF TestingBoot /\ parse.conf = "task" THEN "testtasks" ELSE "runtime"
  <2>1. k \in Confs /\ IsConf(conf[k])
    BY <1>3, <1>8 DEF ParseEnd
  <2>2. w \notin {"scan", "create"}
    OBVIOUS
  <2>3. pc' = [pc EXCEPT ![Bsp] = w] /\ conf' = [conf EXCEPT ![k] = d]
    BY <1>8 DEF ParseEnd, Goto
  <2>4. \E x : d = [conf[k] EXCEPT !.parsed = x]
    OBVIOUS
  <2>. HIDE DEF d, w, k
  <2>5. Fresh(conf[k]) => Fresh(d)
    BY <2>1, <2>4, FreshSame
  <2>. QED BY <1>1, <1>2, <2>1, <2>2, <2>3, <2>5, EarlyConf
<1>. QED BY <1>6, <1>7, <1>8

(* The self-tests are configured and loaded. *)
LEMMA EarlyTests ==
  ASSUME BootInv, BootInv', LaunchInv, kernel_tests_start_config \/ LoadPayload
  PROVE  Lists' /\ TasksInv'
<1>1. UNCHANGED <<machine, rq>> /\ UNCHANGED launching /\ pc[Bsp] \in {"tests", "load"}
  BY DEF kernel_tests_start_config, LoadPayload
<1>2. pc[Bsp] \in Early
  BY <1>1 DEF Early
<1>3. DOMAIN conf = Confs /\ (\A j \in Confs : IsConf(conf[j])) /\ TestConf \in Confs
  BY DEF BootInv, Shapes, TestConf, Confs
<1>4. "launch" \notin {"scan", "create"} /\ "load" \notin {"scan", "create"}
  OBVIOUS
<1>5. ASSUME conf' = conf, pc' = [pc EXCEPT ![Bsp] = "launch"] \/ pc' = pc PROVE Lists' /\ TasksInv'
  BY <1>1, <1>2, <1>4, <1>5, EarlySame
<1>6. CASE kernel_tests_start_config
  <2>1. ASSUME pc' = [pc EXCEPT ![Bsp] = "load"],
               conf' = [conf EXCEPT ![TestConf].tests_started = TRUE]
        PROVE  Lists' /\ TasksInv'
    <3>. DEFINE k == TestConf
                d == [conf[k] EXCEPT !.tests_started = TRUE]
    <3>1. conf' = [conf EXCEPT ![k] = d] /\ \E x : d = [conf[k] EXCEPT !.tests_started = x]
      BY <2>1
    <3>2. k \in Confs /\ IsConf(conf[k])
      BY <1>3
    <3>. HIDE DEF d, k
    <3>3. Fresh(conf[k]) => Fresh(d)
      BY <3>1, <3>2, FreshSame
    <3>. QED BY <1>1, <1>2, <1>4, <2>1, <3>1, <3>2, <3>3, EarlyConf
  <2>. QED BY <1>5, <1>6, <2>1 DEF kernel_tests_start_config, Goto
<1>7. CASE LoadPayload
  <2>0. pc' = pc
    BY <1>7 DEF LoadPayload
  <2>1. ASSUME conf' = [conf EXCEPT ![TestConf].directives[Head(pending)].module_id = Head(pending)]
        PROVE  Lists' /\ TasksInv'
    <3>. DEFINE k == TestConf
                h == Head(pending)
                y == [conf[k].directives EXCEPT ![h].module_id = h]
                d == [conf[k] EXCEPT !.directives = y]
    <3>1. conf' = [conf EXCEPT ![k] = d] /\ \E x : d = [conf[k] EXCEPT !.directives = x]
      BY <2>1
    <3>2. k \in Confs /\ IsConf(conf[k])
      BY <1>3
    <3>. HIDE DEF d, k
    <3>3. Fresh(conf[k]) => Fresh(d)
      BY <3>1, <3>2, FreshSame
    <3>. QED BY <1>1, <1>2, <1>4, <2>0, <3>1, <3>2, <3>3, EarlyConf
  <2>. QED BY <1>5, <1>7, <2>0, <2>1 DEF LoadPayload
<1>. QED BY <1>6, <1>7

(* A CPU that is neither entering nor in a launch loop moves on. *)
LEMMA TasksStay ==
  ASSUME BootInv, LaunchInv, UNCHANGED <<machine, rq, conf>>, UNCHANGED launching,
         NEW c \in Cpus, NEW w, pc' = [pc EXCEPT ![c] = w],
         pc[c] \notin {"scan", "create", "panic"}, w \notin {"scan", "create"},
         scan[c] = NULL \/ (w # "launch" /\ w \in {"panic"} \cup Launching),
         c = Bsp /\ w \in Early => pc[c] \in Early
  PROVE  Lists' /\ TasksInv'
<1>0. /\ Cpus' = Cpus /\ Bsp' = Bsp /\ Bsp \in Cpus /\ (lock' = lock) /\ scan' = scan
      /\ argv' = argv /\ failed' = failed
      /\ \A d \in Cpus : pc'[d] = IF d = c THEN w ELSE pc[d]
  BY SameMachine, MachineFacts DEF launching, BootInv, Shapes
<1>1. Lists /\ Locked /\ Positions /\ Launched /\ Arguments /\ (pc[Bsp] \in Early => Quiet)
  BY DEF LaunchInv, TasksInv
<1>2. Lists'
  BY <1>0, <1>1 DEF Lists, Tasks
<1>3. Locked'
  BY <1>0, <1>1 DEF Locked
<1>4. Positions'
  <2>. SUFFICES ASSUME NEW d \in Cpus PROVE PositionAt(d)'
    BY <1>0 DEF Positions
  <2>1. PositionAt(d)
    BY <1>1 DEF Positions
  <2>2. CASE d # c
    BY <1>0, <2>1, <2>2 DEF PositionAt, Record, Tasks
  <2>3. CASE d = c
    BY <1>0, <2>1, <2>3 DEF PositionAt, Record, Tasks
  <2>. QED BY <2>2, <2>3
<1>5. Launched'
  <2>1. ASSUME NEW d \in Cpus, NEW k \in Confs
        PROVE  QueuedBehind(d, k)' /\ BehindQueued(d, k)'
    <3>1. QueuedBehind(d, k) /\ BehindQueued(d, k)
      BY <1>1 DEF Launched
    <3>2. \A i : Launchable(k, i)' <=> Launchable(k, i)
      BY DEF Launchable
    <3>3. QueuedBehind(d, k)'
      BY <1>0, <3>1 DEF QueuedBehind, Queued, Past, Tasks
    <3>4. BehindQueued(d, k)'
      BY <1>0, <3>1, <3>2 DEF BehindQueued, Queued, Past, Tasks
    <3>. QED BY <3>3, <3>4
  <2>. QED BY <1>0, <2>1 DEF Launched
<1>6. Arguments'
  <2>1. TaskThreads' = TaskThreads
    BY <1>0 DEF TaskThreads
  <2>2. Held' <=> Held
    BY <1>0 DEF Held, Tasks
  <2>3. \A k \in Confs : \A i \in Tasks(k)' : conf'[k].head[i].argv =>
           /\ lock' \in Cpus' /\ pc'[lock'] \in {"create", "panic"}
           /\ scan'[lock'] = [conf |-> k, pos |-> i]
    BY <1>0, <1>1 DEF Arguments, Tasks
  <2>. QED BY <1>0, <1>1, <2>1, <2>2, <2>3 DEF Arguments
<1>7. pc'[Bsp'] \in Early => Quiet'
  BY <1>0, <1>1 DEF Quiet, Tasks, Queued
<1>. QED BY <1>2, <1>3, <1>4, <1>5, <1>6, <1>7 DEF TasksInv

(* The records of the configurations are those they were; only who holds   *)
(* an argument block may have changed.                                     *)
SameTasks ==
    \A k \in Confs :
        /\ IsSeq(conf'[k].head) /\ DOMAIN conf'[k].head = DOMAIN conf[k].head
        /\ Len(conf'[k].head) = Len(conf[k].head) /\ conf'[k].files = conf[k].files
        /\ \A i \in DOMAIN conf[k].head :
              /\ IsTask(conf'[k].head[i])
              /\ conf'[k].head[i].cpu = conf[k].head[i].cpu
              /\ conf'[k].head[i].type = conf[k].head[i].type
              /\ conf'[k].head[i].args = conf[k].head[i].args
              /\ conf'[k].head[i].module = conf[k].head[i].module

LEMMA SameLaunchable ==
  ASSUME SameTasks, NEW k \in Confs
  PROVE  Tasks(k)' = Tasks(k) /\ \A i \in Tasks(k) : Launchable(k, i)' <=> Launchable(k, i)
<1>1. Tasks(k)' = Tasks(k)
  BY DEF SameTasks, Tasks
<1>2. ASSUME NEW i \in Tasks(k) PROVE Launchable(k, i)' <=> Launchable(k, i)
  <2>1. /\ conf'[k].files = conf[k].files
        /\ conf'[k].head[i].type = conf[k].head[i].type
        /\ conf'[k].head[i].args = conf[k].head[i].args
        /\ conf'[k].head[i].module = conf[k].head[i].module
    BY DEF SameTasks, Tasks
  <2>2. boot_file_lookup_in(conf'[k].files, "task", conf'[k].head[i].module)
           = boot_file_lookup_in(conf[k].files, "task", conf[k].head[i].module)
    BY <2>1
  <2>. QED BY <2>1, <2>2 DEF Launchable
<1>. QED BY <1>1, <1>2

(* task_build_argv() and the launch mark one record. *)
OthersKept(k, p) ==
    \A j \in Confs : \A i \in Tasks(j) :
        <<j, i>> # <<k, p>> => conf'[j].head[i] = conf[j].head[i]

LEMMA MarkRecord ==
  ASSUME BootInv, Lists, NEW c \in Cpus, NEW holds, HoldsArgv(c, holds),
         NEW k \in Confs, NEW p, scan[c] = [conf |-> k, pos |-> p], p \in Tasks(k)
  PROVE  /\ SameTasks
         /\ \A j \in Confs : conf'[j].started_cpus = conf[j].started_cpus
         /\ conf'[k].head[p].argv = holds
         /\ OthersKept(k, p)
<1>. DEFINE e == conf[k]
            s == e.head
            r == s[p]
            t == [r EXCEPT !.argv = holds]
            h == [s EXCEPT ![p] = t]
            d == [e EXCEPT !.head = h]
<1>1. conf' = [conf EXCEPT ![k] = d]
  <2>1. scan[c].conf = k /\ scan[c].pos = p
    OBVIOUS
  <2>. QED BY <2>1 DEF HoldsArgv
<1>2. DOMAIN conf = Confs /\ IsConf(e) /\ \A j \in Confs : IsConf(conf[j])
  BY DEF BootInv, Shapes
<1>3. IsSeq(s) /\ IsTask(r) /\ p \in DOMAIN s
  BY DEF Lists, Tasks
<1>4. /\ IsTask(t) /\ t.argv = holds /\ t.cpu = r.cpu /\ t.type = r.type /\ t.args = r.args
      /\ t.module = r.module
  <2>1. t = [r EXCEPT !.argv = holds] /\ IsTask(r)
    BY <1>3
  <2>. HIDE DEF t, r
  <2>. QED BY <2>1 DEF IsTask
<1>5. /\ IsSeq(h) /\ DOMAIN h = DOMAIN s /\ Len(h) = Len(s) /\ h[p] = t
      /\ \A i \in DOMAIN s : i # p => h[i] = s[i]
  <2>1. h = [s EXCEPT ![p] = t] /\ IsSeq(s) /\ p \in DOMAIN s
    BY <1>3
  <2>. HIDE DEF h, s, t
  <2>. QED BY <2>1, ReplaceSeq
<1>6. d.head = h /\ d.files = e.files /\ d.started_cpus = e.started_cpus
  <2>1. d = [e EXCEPT !.head = h] /\ IsConf(e)
    BY <1>2
  <2>. HIDE DEF d, e, h
  <2>. QED BY <2>1 DEF IsConf
<1>7. /\ DOMAIN conf' = Confs /\ conf'[k] = d /\ \A j \in Confs : j # k => conf'[j] = conf[j]
  <2>. HIDE DEF d
  <2>. QED BY <1>1, <1>2, ConfUpdate
<1>8. ASSUME NEW j \in Confs, j # k
      PROVE  /\ IsSeq(conf'[j].head) /\ \A i \in DOMAIN conf[j].head : IsTask(conf'[j].head[i])
             /\ conf'[j] = conf[j]
  BY <1>7, <1>8 DEF Lists, Tasks
<1>9. /\ IsSeq(conf'[k].head) /\ DOMAIN conf'[k].head = DOMAIN conf[k].head
      /\ Len(conf'[k].head) = Len(conf[k].head) /\ conf'[k].files = conf[k].files
      /\ conf'[k].started_cpus = conf[k].started_cpus
      /\ conf'[k].head[p] = t /\ conf[k].head[p] = r
      /\ \A i \in DOMAIN conf[k].head : i # p => conf'[k].head[i] = conf[k].head[i]
  <2>1. conf'[k].head = h /\ conf[k].head = s
    BY <1>6, <1>7
  <2>. HIDE DEF h, d, t
  <2>. QED BY <1>5, <1>6, <1>7, <2>1
<1>10. \A i \in DOMAIN conf[k].head : IsTask(conf[k].head[i])
  BY DEF Lists, Tasks
<1>. HIDE DEF d, h, t, r, s, e
<1>11. ASSUME NEW i \in DOMAIN conf[k].head
       PROVE  /\ IsTask(conf'[k].head[i])
              /\ conf'[k].head[i].cpu = conf[k].head[i].cpu
              /\ conf'[k].head[i].type = conf[k].head[i].type
              /\ conf'[k].head[i].args = conf[k].head[i].args
              /\ conf'[k].head[i].module = conf[k].head[i].module
  BY <1>4, <1>9, <1>10
<1>12. SameTasks
  BY <1>8, <1>9, <1>11 DEF SameTasks
<1>13. \A j \in Confs : conf'[j].started_cpus = conf[j].started_cpus
  BY <1>8, <1>9
<1>14. conf'[k].head[p].argv = holds
  BY <1>4, <1>9
<1>15. ASSUME NEW j \in Confs, NEW i \in Tasks(j), <<j, i>> # <<k, p>>
       PROVE  conf'[j].head[i] = conf[j].head[i]
  <2>1. CASE j # k
    BY <1>8, <2>1
  <2>2. CASE j = k
    BY <1>9, <1>15, <2>2 DEF Tasks
  <2>. QED BY <2>1, <2>2
<1>. QED BY <1>12, <1>13, <1>14, <1>15 DEF OthersKept

NoRepeat(q) == \A m, n \in DOMAIN q : m # n => q[m] # q[n]
InQueue(q, x) == \E n \in DOMAIN q : q[n] = x

(* One more entry at the end of a queue. *)
LEMMA QueueGrows ==
  ASSUME NEW q, NEW e, NEW r, q \in Seq(Entries), e \in Entries, r = Append(q, e),
         NoRepeat(q), ~InQueue(q, e)
  PROVE  /\ r \in Seq(Entries) /\ NoRepeat(r)
         /\ \A x : InQueue(r, x) <=> (x = e \/ InQueue(q, x))
<1>1. /\ r \in Seq(Entries) /\ Len(q) \in Nat /\ DOMAIN q = 1 .. Len(q)
      /\ DOMAIN r = 1 .. Len(q) + 1 /\ r[Len(q) + 1] = e
      /\ \A i \in 1 .. Len(q) : r[i] = q[i]
  OBVIOUS
<1>2. \A i \in DOMAIN r : i = Len(q) + 1 \/ i \in DOMAIN q
  BY <1>1
<1>3. \A i \in DOMAIN q : i \in DOMAIN r /\ i # Len(q) + 1 /\ r[i] = q[i]
  BY <1>1
<1>4. Len(q) + 1 \in DOMAIN r
  BY <1>1
<1>5. NoRepeat(r)
  BY <1>1, <1>2, <1>3, <1>4 DEF NoRepeat, InQueue
<1>6. \A x : InQueue(r, x) <=> (x = e \/ InQueue(q, x))
  BY <1>1, <1>2, <1>3, <1>4 DEF InQueue
<1>. QED BY <1>1, <1>5, <1>6

(* The number of argument blocks, by where the holder of the lock is. *)
LEMMA ArgvNow ==
  ASSUME BootInv, LaunchInv, NEW c \in Cpus, lock \in {NULL, c}, pc[c] # "panic"
  PROVE  /\ \A d \in Cpus : d # c => pc[d] \notin {"scan", "create"}
         /\ argv = Cardinality(TaskThreads) + IF pc[c] = "create" THEN 1 ELSE 0
         /\ Cardinality(TaskThreads) \in Nat
<1>1. Locked /\ Arguments /\ Lists
  BY DEF LaunchInv, TasksInv
<1>2. Cpus \subseteq Nat
  <2>1. machine.cpus \in Nat
    BY MachineFacts DEF BootInv
  <2>. QED BY <2>1 DEF Cpus
<1>3. \A d \in Cpus : d # c => pc[d] \notin {"scan", "create"}
  BY <1>1, <1>2, NullAssumption DEF Locked
<1>4. CASE pc[c] = "create"
  <2>1. PositionAt(c)
    BY DEF LaunchInv, TasksInv, Positions
  <2>2. scan[c].conf \in Confs
    BY <1>4 DEF BootInv, Shapes
  <2>3. Held
    BY <1>4, <2>1, <2>2 DEF Held, PositionAt, Record
  <2>. QED BY <1>1, <1>3, <1>4, <2>3, ThreadsFinite, FS_CardinalityType DEF Arguments
<1>5. CASE pc[c] # "create"
  <2>1. ~Held
    BY <1>1, <1>2, <1>5, NullAssumption DEF Held, Arguments
  <2>. QED BY <1>1, <1>3, <1>5, <2>1, ThreadsFinite, FS_CardinalityType DEF Arguments
<1>. QED BY <1>4, <1>5

(* What a CPU in its launch loop knows. *)
LEMMA InLoop ==
  ASSUME BootInv, LaunchInv, NEW c \in Cpus, pc[c] \in {"scan", "create"}
  PROVE  \E k \in Confs, p \in Nat \ {0} :
            /\ scan[c] = [conf |-> k, pos |-> p] /\ lock = c /\ c \in conf[k].started_cpus
            /\ pc[c] = "create" => p \in Tasks(k) /\ conf[k].head[p].cpu = c /\ conf[k].head[p].argv
<1>1. PositionAt(c) /\ lock = c
  BY DEF LaunchInv, TasksInv, Positions, Locked
<1>2. scan[c] \in [conf : Confs, pos : Nat \ {0}]
  BY <1>1 DEF PositionAt
<1>3. PICK k \in Confs, p \in Nat \ {0} : scan[c] = [conf |-> k, pos |-> p]
  BY <1>2
<1>4. scan[c].conf = k /\ scan[c].pos = p
  BY <1>3
<1>. QED BY <1>1, <1>3, <1>4 DEF PositionAt, Record

(* A step of the launch loop of CPU c: what it must show of its own queue, *)
(* position and record.                                                    *)
LEMMA LoopStep ==
  ASSUME BootInv, LaunchInv, machine' = machine, NEW c \in Cpus,
         NEW w \in {"launch", "scan", "create", "ready", "panic"},
         pc[c] \in {"launch", "scan", "create"}, pc' = [pc EXCEPT ![c] = w] \/ (pc' = pc /\ w = pc[c]),
         \A d \in Cpus : d # c => scan'[d] = scan[d] /\ rq'[d] = rq[d],
         SameTasks, failed \subseteq failed', lock \in {NULL, c},
         \A k \in Confs : \A d \in Cpus : d # c =>
            (d \in conf'[k].started_cpus <=> d \in conf[k].started_cpus),
         \/ lock' = NULL /\ w \notin {"scan", "create"}
         \/ lock' = c /\ w \in {"scan", "create", "panic"},
         rq' \in [Cpus -> Seq(Entries)], \A m, n \in DOMAIN rq'[c] : m # n => rq'[c][m] # rq'[c][n],
         PositionAt(c)', \A k \in Confs : QueuedBehind(c, k)' /\ BehindQueued(c, k)',
         argv' = Cardinality(TaskThreads') + IF w = "create" THEN 1 ELSE 0,
         Cardinality(TaskThreads') \in Nat,
         \A k \in Confs : \A i \in Tasks(k) : conf'[k].head[i].argv =>
            w = "create" /\ lock' = c /\ scan'[c] = [conf |-> k, pos |-> i]
  PROVE  Lists' /\ TasksInv'
<1>0. /\ Cpus' = Cpus /\ Bsp' = Bsp /\ Bsp \in Cpus
      /\ \A d \in Cpus : pc'[d] = IF d = c THEN w ELSE pc[d]
  BY SameMachine, MachineFacts DEF BootInv, Shapes
<1>1. Lists /\ Locked /\ Positions /\ Launched /\ Arguments
  BY DEF LaunchInv, TasksInv
<1>2. \A d \in Cpus : d # c => pc[d] \notin {"scan", "create"}
  BY ArgvNow
<1>3. \A k \in Confs : Tasks(k)' = Tasks(k)
  BY SameLaunchable
<1>4. Lists'
  <2>1. \A k \in Confs : IsSeq(conf'[k].head) /\ \A i \in DOMAIN conf'[k].head : IsTask(conf'[k].head[i])
    BY DEF SameTasks
  <2>2. \A d \in Cpus : \A m, n \in DOMAIN rq'[d] : m # n => rq'[d][m] # rq'[d][n]
    <3>1. ASSUME NEW d \in Cpus, d # c
          PROVE  \A m, n \in DOMAIN rq'[d] : m # n => rq'[d][m] # rq'[d][n]
      <4>1. rq'[d] = rq[d]
        BY <3>1
      <4>2. \A m, n \in DOMAIN rq[d] : m # n => rq[d][m] # rq[d][n]
        BY <1>1 DEF Lists
      <4>. QED BY <4>1, <4>2
    <3>. QED BY <3>1
  <2>. QED BY <1>0, <2>1, <2>2 DEF Lists, Tasks
<1>5. Locked'
  BY <1>0, <1>2 DEF Locked
<1>6. Positions'
  <2>1. ASSUME NEW d \in Cpus, d # c PROVE PositionAt(d)'
    <3>1. PositionAt(d) /\ pc[d] \notin {"scan", "create"} /\ pc'[d] = pc[d] /\ scan'[d] = scan[d]
      BY <1>0, <1>1, <1>2, <2>1 DEF Positions
    <3>2. \A k \in Confs : /\ d \in conf'[k].started_cpus <=> d \in conf[k].started_cpus
                           /\ Len(conf'[k].head) = Len(conf[k].head)
      BY <2>1 DEF SameTasks
    <3>. QED BY <3>1, <3>2 DEF PositionAt
  <2>. QED BY <1>0, <2>1 DEF Positions
<1>7. Launched'
  <2>1. ASSUME NEW d \in Cpus, d # c, NEW k \in Confs PROVE QueuedBehind(d, k)' /\ BehindQueued(d, k)'
    <3>1. /\ QueuedBehind(d, k) /\ BehindQueued(d, k) /\ Tasks(k)' = Tasks(k)
          /\ scan'[d] = scan[d] /\ rq'[d] = rq[d]
          /\ d \in conf'[k].started_cpus <=> d \in conf[k].started_cpus
      BY <1>1, <1>3, <2>1 DEF Launched
    <3>2. \A i \in Tasks(k) : /\ conf'[k].head[i].cpu = conf[k].head[i].cpu
                              /\ Launchable(k, i)' <=> Launchable(k, i)
      BY SameLaunchable DEF SameTasks, Tasks
    <3>3. QueuedBehind(d, k)'
      BY ZenonT(60), <3>1, <3>2 DEF QueuedBehind, Queued, Past
    <3>4. BehindQueued(d, k)'
      BY ZenonT(60), <3>1, <3>2 DEF BehindQueued, Queued, Past
    <3>. QED BY <3>3, <3>4
  <2>. QED BY <1>0, <2>1 DEF Launched
<1>8. Arguments'
  <2>1. Held' <=> w = "create"
    <3>1. CASE w = "create"
      <4>1. pc'[c] = "create"
        BY <1>0, <3>1
      <4>2. scan'[c] # NULL /\ scan'[c] \in [conf : Confs, pos : Nat \ {0}]
        BY <4>1 DEF PositionAt
      <4>3. scan'[c].conf \in Confs /\ scan'[c].pos \in DOMAIN conf'[scan'[c].conf].head
            /\ conf'[scan'[c].conf].head[scan'[c].pos].argv
        BY <4>1, <4>2 DEF PositionAt, Record, Tasks
      <4>. QED BY <3>1, <4>3 DEF Held, Tasks
    <3>2. CASE w # "create"
      BY <1>3, <3>2 DEF Held
    <3>. QED BY <3>1, <3>2
  <2>2. argv' = Cardinality(TaskThreads') + IF Held' THEN 1 ELSE 0
    BY <2>1
  <2>3. \A k \in Confs : \A i \in Tasks(k)' : conf'[k].head[i].argv =>
           /\ lock' \in Cpus' /\ pc'[lock'] \in {"create", "panic"}
           /\ scan'[lock'] = [conf |-> k, pos |-> i]
    BY <1>0, <1>3
  <2>. QED BY <2>2, <2>3 DEF Arguments
<1>9. pc'[Bsp'] \notin Early
  <2>1. CASE c = Bsp
    BY <1>0, <2>1 DEF Early, Coming, Alone
  <2>2. CASE c # Bsp
    <3>1. pc[Bsp] = "run"
      BY <2>2 DEF BootInv, Barrier, Launching
    <3>. QED BY <1>0, <2>2, <3>1 DEF Early, Coming, Alone
  <2>. QED BY <2>1, <2>2
<1>. QED BY <1>4, <1>5, <1>6, <1>7, <1>8, <1>9 DEF TasksInv

(* The threads of tasks are as many as before. *)
LEMMA SameThreads ==
  ASSUME Lists, SameTasks, machine' = machine, rq' = rq
  PROVE  TaskThreads' = TaskThreads
<1>1. Len(conf'["task"].head) = Len(conf["task"].head) /\ Len(conf'["test"].head) = Len(conf["test"].head)
  BY DEF SameTasks, Confs
<1>. QED BY <1>1, SameMachine DEF TaskThreads

(* Configurations that are left alone. *)
LEMMA SameConf == ASSUME Lists, conf' = conf PROVE SameTasks
BY DEF Lists, SameTasks, Tasks

(* The loop goes on to the next record, having queued this one or not. *)
LEMMA Advance ==
  ASSUME BootInv, LaunchInv, machine' = machine, NEW c \in Cpus, pc[c] \in {"scan", "create"},
         NEW k \in Confs, NEW p \in Nat \ {0}, scan[c] = [conf |-> k, pos |-> p], p \in Tasks(k),
         NextRecord(c), pc'[c] = "scan", SameTasks, failed \subseteq failed',
         \A j \in Confs : conf'[j].started_cpus = conf[j].started_cpus,
         \/ rq'[c] = rq[c]
         \/ rq'[c] = Append(rq[c], <<k, p>>) /\ conf[k].head[p].cpu = c,
         conf[k].head[p].cpu = c /\ Launchable(k, p) =>
            rq'[c] = Append(rq[c], <<k, p>>) \/ <<k, p>> \in failed'
  PROVE  /\ scan'[c] = [conf |-> k, pos |-> p + 1]
         /\ \A d \in Cpus : d # c => scan'[d] = scan[d]
         /\ PositionAt(c)' /\ \A j \in Confs : QueuedBehind(c, j)' /\ BehindQueued(c, j)'
         /\ rq'[c] \in Seq(Entries) /\ \A m, n \in DOMAIN rq'[c] : m # n => rq'[c][m] # rq'[c][n]
         /\ ~Queued(c, <<k, p>>)
<1>1. Lists /\ PositionAt(c) /\ DOMAIN scan = Cpus
      /\ \A j \in Confs : QueuedBehind(c, j) /\ BehindQueued(c, j)
  BY DEF LaunchInv, TasksInv, Positions, Launched, BootInv, Shapes
<1>2. /\ scan'[c] = [conf |-> k, pos |-> p + 1]
      /\ \A d \in Cpus : d # c => scan'[d] = scan[d]
  <2>. DEFINE e == scan[c]
              f == [e EXCEPT !.pos = @ + 1]
  <2>1. scan' = [scan EXCEPT ![c] = f]
    BY DEF NextRecord
  <2>2. f = [conf |-> k, pos |-> p + 1]
    OBVIOUS
  <2>. HIDE DEF f
  <2>. QED BY <1>1, <2>1, <2>2
<1>3. /\ scan[c].conf = k /\ scan[c].pos = p /\ scan'[c].conf = k /\ scan'[c].pos = p + 1
      /\ c \in conf[k].started_cpus
  <2>1. scan[c].conf = k /\ scan[c].pos = p /\ scan'[c].conf = k /\ scan'[c].pos = p + 1
    BY <1>2
  <2>. QED BY <1>1, <2>1 DEF PositionAt
<1>4. scan'[c] # NULL /\ scan'[c] \in [conf : Confs, pos : Nat \ {0}]
  <2>1. scan'[c] \in [conf : Confs, pos : Nat \ {0}] /\ scan'[c] \in [conf : {"task", "test"}, pos : Nat]
    BY <1>2 DEF Confs
  <2>. QED BY <2>1, NullAssumption
<1>5. PositionAt(c)'
  <2>1. \A j \in Confs : c \in conf'[j].started_cpus => (j = "test" => scan'[c].conf = "test")
    BY <1>1, <1>3 DEF PositionAt
  <2>. QED BY <1>3, <1>4, <2>1 DEF PositionAt, Launching
<1>6. ~Queued(c, <<k, p>>)
  BY <1>1, <1>3 DEF QueuedBehind, Past
<1>7. rq[c] \in Seq(Entries) /\ \A m, n \in DOMAIN rq[c] : m # n => rq[c][m] # rq[c][n]
  BY <1>1 DEF Lists
<1>8. /\ rq'[c] \in Seq(Entries) /\ (\A m, n \in DOMAIN rq'[c] : m # n => rq'[c][m] # rq'[c][n])
      /\ \A x : Queued(c, x)' <=>
            Queued(c, x) \/ (x = <<k, p>> /\ rq'[c] = Append(rq[c], <<k, p>>))
  <2>. DEFINE x0 == <<k, p>>
              q == rq[c]
              r == rq'[c]
  <2>1. CASE r = q
    <3>2. q # Append(q, x0)
      <4>1. Len(q) \in Nat /\ Len(Append(q, x0)) = Len(q) + 1
        <5>. HIDE DEF q, x0
        <5>1. q \in Seq(Entries)
          BY <1>7 DEF q
        <5>. QED BY <5>1
      <4>. HIDE DEF q, x0
      <4>. QED BY <4>1
    <3>. QED BY <1>7, <2>1, <3>2 DEF Queued
  <2>2. CASE r = Append(q, x0)
    <3>1. x0 \in Entries
      BY DEF Entries, Confs
    <3>2. ~ \E n \in DOMAIN q : q[n] = x0
      BY <1>6 DEF Queued
    <3>. HIDE DEF x0
    <3>3. /\ r \in Seq(Entries) /\ (\A m, n \in DOMAIN r : m # n => r[m] # r[n])
          /\ \A x : (\E n \in DOMAIN r : r[n] = x) <=> (x = x0 \/ \E n \in DOMAIN q : q[n] = x)
      <4>1. q \in Seq(Entries) /\ NoRepeat(q) /\ ~InQueue(q, x0)
        BY <1>7, <3>2 DEF NoRepeat, InQueue
      <4>. HIDE DEF q, r
      <4>2. r \in Seq(Entries) /\ NoRepeat(r) /\ \A x : InQueue(r, x) <=> (x = x0 \/ InQueue(q, x))
        BY <2>2, <3>1, <4>1, QueueGrows
      <4>. QED BY <4>2 DEF NoRepeat, InQueue
    <3>. QED BY <2>2, <3>3 DEF Queued, x0
  <2>. QED BY <2>1, <2>2
<1>9. ASSUME NEW j \in Confs PROVE QueuedBehind(c, j)' /\ BehindQueued(c, j)'
  <2>1. /\ Tasks(j)' = Tasks(j) /\ (\A i \in Tasks(j) : Launchable(j, i)' <=> Launchable(j, i))
        /\ \A i \in Tasks(j) : conf'[j].head[i].cpu = conf[j].head[i].cpu
    BY SameLaunchable DEF SameTasks, Tasks
  <2>2. \A i \in Nat : Past(c, j, i)' <=> Past(c, j, i) \/ (j = k /\ i = p)
    BY <1>3 DEF Past
  <2>3. QueuedBehind(c, j)'
    <3>. SUFFICES ASSUME NEW i \in Nat, Queued(c, <<j, i>>)'
                  PROVE  /\ i \in Tasks(j)' /\ conf'[j].head[i].cpu = c
                         /\ c \in conf'[j].started_cpus /\ Past(c, j, i)'
      BY DEF QueuedBehind
    <3>1. CASE Queued(c, <<j, i>>)
      BY <1>1, <2>1, <2>2, <3>1 DEF QueuedBehind
    <3>2. CASE ~Queued(c, <<j, i>>)
      <4>1. j = k /\ i = p /\ conf[k].head[p].cpu = c
        <5>1. <<j, i>> = <<k, p>> /\ rq'[c] = Append(rq[c], <<k, p>>)
          BY <1>8, <3>2
        <5>2. rq'[c] # rq[c]
          BY <1>8, <3>2 DEF Queued
        <5>. QED BY <5>1, <5>2
      <4>. QED BY <1>3, <2>1, <2>2, <4>1
    <3>. QED BY <3>1, <3>2
  <2>4. BehindQueued(c, j)'
    <3>. SUFFICES ASSUME NEW i \in Tasks(j), c \in conf[j].started_cpus, conf[j].head[i].cpu = c,
                         Launchable(j, i), Past(c, j, i)'
                  PROVE  Queued(c, <<j, i>>)' \/ <<j, i>> \in failed'
      BY <2>1 DEF BehindQueued
    <3>0. i \in Nat
      <4>1. IsSeq(conf[j].head)
        BY <1>1 DEF Lists
      <4>. QED BY <4>1, SeqFacts DEF Tasks
    <3>1. CASE Past(c, j, i)
      BY <1>1, <1>8, <3>1 DEF BehindQueued
    <3>2. CASE j = k /\ i = p
      <4>1. rq'[c] = Append(rq[c], <<k, p>>) \/ <<k, p>> \in failed'
        BY <3>2
      <4>. QED BY <1>8, <3>2, <4>1
    <3>. QED BY <2>2, <3>0, <3>1, <3>2
  <2>. QED BY <2>3, <2>4
<1>. QED BY <1>2, <1>5, <1>6, <1>8, <1>9

(* Claim of the CPU, or its refusal. *)
LEMMA TasksClaim ==
  ASSUME BootInv, LaunchInv, NEW c \in Cpus, ClaimCpu(c)
  PROVE  Lists' /\ TasksInv'
<1>1. /\ UNCHANGED <<machine, rq, argv, failed>> /\ pc[c] = "launch" /\ lock = NULL
  BY DEF ClaimCpu
<1>2. PICK k \in {IF scan[c] = NULL THEN "task" ELSE "test"} :
        \/ /\ conf' = [conf EXCEPT ![k].started_cpus = @ \cup {c}] /\ lock' = c
           /\ scan' = [scan EXCEPT ![c] = [conf |-> k, pos |-> 1]]
           /\ pc' = [pc EXCEPT ![c] = "scan"] /\ task_conf_claim_cpu_ctx(conf[k], c)
        \/ /\ scan' = [scan EXCEPT ![c] = [conf |-> k, pos |-> 1]]
           /\ pc' = [pc EXCEPT ![c] = IF k = "test" THEN "panic"
                                      ELSE IF TestingBoot THEN "launch" ELSE "ready"]
           /\ conf' = conf /\ lock' = lock
  BY DEF ClaimCpu, Goto
<1>3. k \in Confs /\ (k = "task" <=> scan[c] = NULL)
  BY <1>2 DEF Confs
<1>4. Lists /\ PositionAt(c) /\ DOMAIN scan = Cpus /\ DOMAIN conf = Confs /\ IsConf(conf[k])
      /\ \A j \in Confs : QueuedBehind(c, j) /\ BehindQueued(c, j)
  BY <1>3 DEF LaunchInv, TasksInv, Positions, Launched, BootInv, Shapes
<1>5. /\ scan'[c] = [conf |-> k, pos |-> 1] /\ scan'[c].conf = k /\ scan'[c].pos = 1
      /\ \A d \in Cpus : d # c => scan'[d] = scan[d]
  BY <1>2, <1>4
<1>6. scan'[c] # NULL /\ scan'[c] \in [conf : Confs, pos : Nat \ {0}]
  <2>1. scan'[c] \in [conf : Confs, pos : Nat \ {0}] /\ scan'[c] \in [conf : {"task", "test"}, pos : Nat]
    BY <1>3, <1>5 DEF Confs
  <2>. QED BY <2>1, NullAssumption
<1>7. c \notin conf[k].started_cpus /\ \A j \in Confs : j # k /\ c \in conf[j].started_cpus => j = "task"
  <2>1. CASE scan[c] = NULL
    BY <1>3, <1>4, <2>1 DEF PositionAt
  <2>2. CASE scan[c] # NULL
    BY <1>1, <1>3, <1>4, <2>2 DEF PositionAt, Confs
  <2>. QED BY <2>1, <2>2
<1>8. SameTasks /\ TaskThreads' = TaskThreads
      /\ (\A j \in Confs : \A i \in Tasks(j) : conf'[j].head[i].argv = conf[j].head[i].argv)
      /\ \A j \in Confs : j # k => conf'[j] = conf[j]
  <2>1. CASE conf' = conf
    BY <1>1, <1>4, <2>1, SameConf, SameThreads
  <2>2. CASE conf' = [conf EXCEPT ![k].started_cpus = @ \cup {c}]
    <3>. DEFINE e == conf[k]
                x == e.started_cpus \cup {c}
                d == [e EXCEPT !.started_cpus = x]
    <3>1. d.head = e.head /\ d.files = e.files
      <4>1. IsConf(e) /\ d = [e EXCEPT !.started_cpus = x]
        BY <1>4
      <4>. HIDE DEF d, e, x
      <4>. QED BY <4>1 DEF IsConf
    <3>2. conf' = [conf EXCEPT ![k] = d]
      BY <2>2
    <3>. HIDE DEF d
    <3>3. conf'[k].head = conf[k].head /\ conf'[k].files = conf[k].files
          /\ \A j \in Confs : j # k => conf'[j] = conf[j]
      BY <1>3, <1>4, <3>1, <3>2, ConfUpdate
    <3>4. \A j \in Confs : conf'[j].head = conf[j].head /\ conf'[j].files = conf[j].files
      BY <3>3
    <3>5. SameTasks
      BY <1>4, <3>4 DEF SameTasks, Lists, Tasks
    <3>. QED BY <1>1, <1>4, <3>3, <3>4, <3>5, SameThreads
  <2>. QED BY <1>2, <2>1, <2>2
<1>9. \A j \in Confs : \A i \in Tasks(j) : ~conf'[j].head[i].argv
  <2>1. Arguments /\ Cpus \subseteq Nat
    <3>1. machine.cpus \in Nat
      BY MachineFacts DEF BootInv
    <3>. QED BY <3>1 DEF LaunchInv, TasksInv, Cpus
  <2>. QED BY <1>1, <1>8, <2>1, NullAssumption DEF Arguments
<1>10. rq'[c] \in Seq(Entries) /\ rq' \in [Cpus -> Seq(Entries)]
       /\ \A m, n \in DOMAIN rq'[c] : m # n => rq'[c][m] # rq'[c][n]
  BY <1>1, <1>4 DEF Lists
<1>11. Cardinality(TaskThreads') \in Nat /\ argv' = Cardinality(TaskThreads') + 0
  BY <1>1, <1>8, ArgvNow
<1>12. \A x : Queued(c, x)' <=> Queued(c, x)
  BY <1>1 DEF Queued
<1>13. \A i \in Nat : ~Queued(c, <<k, i>>)
  BY <1>3, <1>4, <1>7 DEF QueuedBehind
<1>14. ASSUME NEW j \in Confs, c \in conf[j].started_cpus
       PROVE  /\ j # k /\ j = "task" /\ \A i \in Tasks(j) : Past(c, j, i)
              /\ conf'[j] = conf[j]
  <2>1. j # k /\ j = "task" /\ conf'[j] = conf[j]
    BY <1>7, <1>8, <1>14
  <2>2. scan[c].conf = "task" /\ scan[c].pos > Len(conf[j].head) /\ scan[c].pos \in Nat
    BY <1>1, <1>4, <1>14, <2>1 DEF PositionAt
  <2>3. IsSeq(conf[j].head)
    BY <1>4 DEF Lists
  <2>. QED BY <2>1, <2>2, <2>3, SeqFacts DEF Past, Tasks
<1>15. ASSUME NEW j \in Confs, c \in conf'[j].started_cpus => j = k \/ c \in conf[j].started_cpus
       PROVE  QueuedBehind(c, j)' /\ BehindQueued(c, j)'
  <2>1. /\ Tasks(j)' = Tasks(j) /\ (\A i \in Tasks(j) : Launchable(j, i)' <=> Launchable(j, i))
        /\ \A i \in Tasks(j) : conf'[j].head[i].cpu = conf[j].head[i].cpu
    BY <1>8, SameLaunchable DEF SameTasks, Tasks
  <2>2. QueuedBehind(c, j)'
    <3>. SUFFICES ASSUME NEW i \in Nat, Queued(c, <<j, i>>)
                  PROVE  /\ i \in Tasks(j) /\ conf[j].head[i].cpu = c
                         /\ c \in conf'[j].started_cpus /\ Past(c, j, i)'
      BY <1>12, <2>1 DEF QueuedBehind
    <3>1. i \in Tasks(j) /\ conf[j].head[i].cpu = c /\ c \in conf[j].started_cpus
      BY <1>4 DEF QueuedBehind
    <3>2. j # k /\ conf'[j] = conf[j]
      BY <1>14, <3>1
    <3>. QED BY <1>5, <3>1, <3>2 DEF Past
  <2>3. BehindQueued(c, j)'
    <3>. SUFFICES ASSUME NEW i \in Tasks(j), c \in conf'[j].started_cpus, conf[j].head[i].cpu = c,
                         Launchable(j, i), Past(c, j, i)'
                  PROVE  Queued(c, <<j, i>>) \/ <<j, i>> \in failed
      BY <1>1, <1>12, <2>1 DEF BehindQueued
    <3>1. CASE j = k
      <4>1. i < 1
        BY <1>5, <3>1 DEF Past
      <4>2. i \in 1 .. Len(conf[j].head) /\ Len(conf[j].head) \in Nat
        <5>1. IsSeq(conf[j].head)
          BY <1>4 DEF Lists
        <5>. QED BY <5>1, SeqFacts DEF Tasks
      <4>. QED BY <4>1, <4>2
    <3>2. CASE j # k
      <4>1. c \in conf[j].started_cpus
        BY <1>15, <3>2
      <4>2. Past(c, j, i)
        BY <1>14, <4>1
      <4>. QED BY <1>4, <4>1, <4>2 DEF BehindQueued
    <3>. QED BY <3>1, <3>2
  <2>. QED BY <2>2, <2>3
<1>16. CASE /\ conf' = [conf EXCEPT ![k].started_cpus = @ \cup {c}] /\ lock' = c
            /\ pc' = [pc EXCEPT ![c] = "scan"]
  <2>1. conf'[k].started_cpus = conf[k].started_cpus \cup {c}
    <3>. DEFINE e == conf[k]
                x == e.started_cpus \cup {c}
                d == [e EXCEPT !.started_cpus = x]
    <3>1. d.started_cpus = x
      <4>1. IsConf(e) /\ d = [e EXCEPT !.started_cpus = x]
        BY <1>4
      <4>. HIDE DEF d, e, x
      <4>. QED BY <4>1 DEF IsConf
    <3>2. conf' = [conf EXCEPT ![k] = d]
      BY <1>16
    <3>. HIDE DEF d
    <3>. QED BY <1>3, <1>4, <3>1, <3>2, ConfUpdate
  <2>2. \A j \in Confs : QueuedBehind(c, j)' /\ BehindQueued(c, j)'
    BY <1>8, <1>15
  <2>3. pc'[c] = "scan"
    BY <1>16 DEF BootInv, Shapes
  <2>4. PositionAt(c)'
    <3>1. \A j \in Confs : c \in conf'[j].started_cpus => (j = "test" => scan'[c].conf = "test")
      BY <1>5, <1>7, <1>8
    <3>. QED BY <1>5, <1>6, <2>1, <2>3, <3>1 DEF PositionAt, Launching
  <2>5. \A j \in Confs : \A d \in Cpus : d # c =>
            (d \in conf'[j].started_cpus <=> d \in conf[j].started_cpus)
    BY <1>8, <2>1
  <2>. QED BY <1>1, <1>5, <1>8, <1>9, <1>10, <1>11, <1>16, <2>2, <2>4, <2>5, LoopStep
<1>17. CASE /\ pc' = [pc EXCEPT ![c] = IF k = "test" THEN "panic"
                                      ELSE IF TestingBoot THEN "launch" ELSE "ready"]
            /\ conf' = conf /\ lock' = lock
  <2>1. PICK w \in {"panic", "launch", "ready"} :
           pc' = [pc EXCEPT ![c] = w] /\ (k = "test" => w = "panic")
    BY <1>17
  <2>2. \A j \in Confs : QueuedBehind(c, j)' /\ BehindQueued(c, j)'
    BY <1>15, <1>17
  <2>3. pc'[c] = w
    BY <2>1 DEF BootInv, Shapes
  <2>4. PositionAt(c)'
    <3>1. ASSUME NEW j \in Confs, c \in conf[j].started_cpus
          PROVE  j = "task" /\ k = "test"
      BY <1>3, <1>14, <3>1 DEF Confs
    <3>2. w = "launch" => k = "task"
      BY <1>3, <2>1 DEF Confs
    <3>3. w \in {"launch", "panic"} \cup Launching /\ w \notin {"scan", "create"}
      BY DEF Launching
    <3>. QED BY <1>5, <1>6, <1>17, <2>3, <3>1, <3>2, <3>3 DEF PositionAt
  <2>5. w \in {"launch", "scan", "create", "ready", "panic"} /\ w # "create" /\ w \notin {"scan", "create"}
    OBVIOUS
  <2>6. argv' = Cardinality(TaskThreads') + IF w = "create" THEN 1 ELSE 0
    BY <1>11, <2>5
  <2>7. lock' = NULL /\ \A j \in Confs : conf'[j].started_cpus = conf[j].started_cpus
    BY <1>1, <1>17
  <2>. QED BY <1>1, <1>5, <1>8, <1>9, <1>10, <1>11, <2>1, <2>2, <2>4, <2>5, <2>6, <2>7, LoopStep
<1>. QED BY <1>2, <1>16, <1>17

(* The end of a loop. *)
LEMMA TasksEnd ==
  ASSUME BootInv, LaunchInv, NEW c \in Cpus, ScanEnd(c)
  PROVE  Lists' /\ TasksInv'
<1>1. /\ UNCHANGED <<machine, rq, conf, scan, argv, failed>> /\ pc[c] = "scan" /\ lock' = NULL
      /\ scan[c].pos > Len(conf[scan[c].conf].head)
      /\ pc' = [pc EXCEPT ![c] = IF TestingBoot /\ scan[c].conf = "task" THEN "launch" ELSE "ready"]
  BY DEF ScanEnd, Goto
<1>2. PICK w \in {"launch", "ready"} :
         pc' = [pc EXCEPT ![c] = w] /\ (w = "launch" => scan[c].conf = "task")
  BY <1>1
<1>3. PICK k \in Confs, p \in Nat \ {0} :
         scan[c] = [conf |-> k, pos |-> p] /\ lock = c /\ c \in conf[k].started_cpus
  BY <1>1, InLoop
<1>4. Lists /\ PositionAt(c) /\ \A j \in Confs : QueuedBehind(c, j) /\ BehindQueued(c, j)
  BY DEF LaunchInv, TasksInv, Positions, Launched
<1>5. SameTasks /\ TaskThreads' = TaskThreads
  BY <1>1, <1>4, SameConf, SameThreads
<1>6. pc'[c] = w /\ w \in {"launch", "panic"} \cup Launching /\ w \notin {"scan", "create"}
  BY <1>2 DEF BootInv, Shapes, Launching
<1>7. PositionAt(c)'
  BY <1>1, <1>2, <1>4, <1>6 DEF PositionAt
<1>8. \A j \in Confs : QueuedBehind(c, j)' /\ BehindQueued(c, j)'
  <2>1. \A j \in Confs : \A i : Launchable(j, i)' <=> Launchable(j, i)
    BY <1>1 DEF Launchable
  <2>. QED BY <1>1, <1>4, <2>1 DEF QueuedBehind, BehindQueued, Queued, Past, Tasks
<1>9. Cardinality(TaskThreads') \in Nat /\ argv' = Cardinality(TaskThreads') + IF w = "create" THEN 1 ELSE 0
  BY <1>1, <1>3, <1>5, <1>6, ArgvNow
<1>10. \A j \in Confs : \A i \in Tasks(j) : ~conf'[j].head[i].argv
  BY <1>1, <1>3 DEF LaunchInv, TasksInv, Arguments
<1>11. rq' \in [Cpus -> Seq(Entries)] /\ \A m, n \in DOMAIN rq'[c] : m # n => rq'[c][m] # rq'[c][n]
  BY <1>1, <1>4 DEF Lists
<1>. QED BY <1>1, <1>2, <1>3, <1>5, <1>6, <1>7, <1>8, <1>9, <1>10, <1>11, LoopStep

(* A record: passed over, the end of this CPU, or its argv built. *)
LEMMA TasksScan ==
  ASSUME BootInv, LaunchInv, NEW c \in Cpus, ScanTask(c)
  PROVE  Lists' /\ TasksInv'
<1>1. /\ UNCHANGED <<machine, lock>> /\ pc[c] = "scan" /\ rq' = rq
      /\ scan[c].pos <= Len(conf[scan[c].conf].head)
      /\ SkipTask(c) \/ LaunchPanics(c) \/ task_build_argv(c)
  BY DEF ScanTask, SkipTask, LaunchPanics, task_build_argv
<1>2. PICK k \in Confs, p \in Nat \ {0} :
         scan[c] = [conf |-> k, pos |-> p] /\ lock = c /\ c \in conf[k].started_cpus
  BY <1>1, InLoop
<1>3. Lists /\ PositionAt(c) /\ \A j \in Confs : QueuedBehind(c, j) /\ BehindQueued(c, j)
  BY DEF LaunchInv, TasksInv, Positions, Launched
<1>4. scan[c].conf = k /\ scan[c].pos = p /\ p \in Tasks(k) /\ DOMAIN scan = Cpus
      /\ Record(c) = conf[k].head[p] /\ ThisTask(c) = <<k, p>>
  <2>1. scan[c].conf = k /\ scan[c].pos = p
    BY <1>2
  <2>2. IsSeq(conf[k].head)
    BY <1>3 DEF Lists
  <2>3. p \in Tasks(k)
    BY <1>1, <2>1, <2>2, SeqFacts DEF Tasks
  <2>. QED BY <2>1, <2>3 DEF Record, ThisTask, BootInv, Shapes
<1>5. rq' \in [Cpus -> Seq(Entries)] /\ \A m, n \in DOMAIN rq'[c] : m # n => rq'[c][m] # rq'[c][n]
  BY <1>1, <1>3 DEF Lists
<1>6. \A j \in Confs : \A i \in Tasks(j) : ~conf[j].head[i].argv
  BY <1>1, <1>2 DEF LaunchInv, TasksInv, Arguments
<1>7. Cardinality(TaskThreads) \in Nat /\ argv = Cardinality(TaskThreads)
  BY <1>1, <1>2, ArgvNow
<1>8. conf' = conf => SameTasks /\ TaskThreads' = TaskThreads
  BY <1>1, <1>3, SameConf, SameThreads
<1>9. ASSUME NextRecord(c), pc' = pc, conf' = conf, argv' = argv, failed \subseteq failed',
             conf[k].head[p].cpu = c /\ Launchable(k, p) => <<k, p>> \in failed'
      PROVE  Lists' /\ TasksInv'
  <2>1. pc'[c] = "scan" /\ rq'[c] = rq[c] /\ (\A j \in Confs : conf'[j].started_cpus = conf[j].started_cpus)
    BY <1>1, <1>9
  <2>2. /\ \A d \in Cpus : d # c => scan'[d] = scan[d]
        /\ PositionAt(c)' /\ \A j \in Confs : QueuedBehind(c, j)' /\ BehindQueued(c, j)'
    BY ZenonT(60), <1>1, <1>2, <1>4, <1>8, <1>9, <2>1, Advance
  <2>3. /\ Cardinality(TaskThreads') \in Nat
        /\ argv' = Cardinality(TaskThreads') + IF "scan" = "create" THEN 1 ELSE 0
    BY <1>7, <1>8, <1>9
  <2>4. \A j \in Confs : \A i \in Tasks(j) : ~conf'[j].head[i].argv
    BY <1>6, <1>9
  <2>5. /\ pc[c] \in {"launch", "scan", "create"} /\ "scan" \in {"launch", "scan", "create", "ready", "panic"}
        /\ lock \in {NULL, c} /\ lock' = c /\ "scan" \in {"scan", "create", "panic"}
    BY <1>1, <1>2
  <2>. QED BY <1>1, <1>5, <1>8, <1>9, <2>1, <2>2, <2>3, <2>4, <2>5, LoopStep
<1>10. CASE SkipTask(c)
  <2>1. NextRecord(c) /\ UNCHANGED <<pc, conf, argv, failed>>
    BY <1>10 DEF SkipTask
  <2>2. ~(conf[k].head[p].cpu = c /\ Launchable(k, p))
    <3>. DEFINE f == boot_file_lookup_in(conf[k].files, "task", conf[k].head[p].module)
    <3>1. Component(c) = f
      BY <1>4 DEF Component
    <3>2. Launchable(k, p) => /\ f.found = "yes" /\ conf[k].head[p].args < MAX_ARGS
                              /\ conf[k].head[p].type \in Executable
      BY DEF Launchable
    <3>. HIDE DEF f
    <3>3. \/ conf[k].head[p].cpu # c \/ conf[k].head[p].type \notin Executable
          \/ f.found = "absent" \/ ~(conf[k].head[p].args < MAX_ARGS)
      BY <1>4, <1>10, <3>1 DEF SkipTask
    <3>. QED BY <3>2, <3>3
  <2>. QED BY <1>9, <2>1, <2>2
<1>11. CASE LaunchPanics(c)
  <2>1. pc' = [pc EXCEPT ![c] = "panic"] /\ UNCHANGED <<conf, argv, failed, scan>>
    BY <1>11 DEF LaunchPanics, Panic, Goto
  <2>2. pc'[c] = "panic"
    BY <2>1 DEF BootInv, Shapes
  <2>3. PositionAt(c)'
    <3>1. \A j \in Confs : c \in conf[j].started_cpus => (j = "test" => scan[c].conf = "test")
      BY <1>3 DEF PositionAt
    <3>2. scan[c] # NULL /\ scan[c] \in [conf : Confs, pos : Nat \ {0}]
      BY <1>1, <1>3 DEF PositionAt
    <3>. QED BY <2>1, <2>2, <3>1, <3>2 DEF PositionAt
  <2>4. \A j \in Confs : QueuedBehind(c, j)' /\ BehindQueued(c, j)'
    <3>1. \A j \in Confs : \A i : Launchable(j, i)' <=> Launchable(j, i)
      BY <2>1 DEF Launchable
    <3>. QED BY <1>1, <1>3, <2>1, <3>1 DEF QueuedBehind, BehindQueued, Queued, Past, Tasks
  <2>5. /\ Cardinality(TaskThreads') \in Nat
        /\ argv' = Cardinality(TaskThreads') + IF "panic" = "create" THEN 1 ELSE 0
    BY <1>7, <1>8, <2>1
  <2>6. \A j \in Confs : \A i \in Tasks(j) : ~conf'[j].head[i].argv
    BY <1>6, <2>1
  <2>7. /\ pc[c] \in {"launch", "scan", "create"} /\ "panic" \in {"launch", "scan", "create", "ready", "panic"}
        /\ lock \in {NULL, c} /\ lock' = c /\ "panic" \in {"scan", "create", "panic"}
    BY <1>1, <1>2
  <2>. QED BY <1>1, <1>5, <1>8, <2>1, <2>3, <2>4, <2>5, <2>6, <2>7, LoopStep
<1>12. CASE task_build_argv(c)
  <2>1. conf[k].head[p].cpu = c
    BY <1>4, <1>12 DEF task_build_argv
  <2>2. CASE failed' = failed \cup {ThisTask(c)} /\ NextRecord(c) /\ UNCHANGED <<argv, conf, pc>>
    BY <1>4, <1>9, <2>2
  <2>3. CASE /\ argv' = argv + 1 /\ HoldsArgv(c, TRUE) /\ pc' = [pc EXCEPT ![c] = "create"]
             /\ UNCHANGED <<failed, scan>>
    <3>1. /\ SameTasks
          /\ \A j \in Confs : conf'[j].started_cpus = conf[j].started_cpus
          /\ conf'[k].head[p].argv
          /\ \A j \in Confs : \A i \in Tasks(j) :
                <<j, i>> # <<k, p>> => conf'[j].head[i] = conf[j].head[i]
      <4>0. PICK h : h = TRUE
        OBVIOUS
      <4>1. HoldsArgv(c, h)
        BY <2>3, <4>0
      <4>2. Lists /\ scan[c] = [conf |-> k, pos |-> p] /\ p \in Tasks(k)
        BY <1>2, <1>3, <1>4
      <4>3. SameTasks /\ \A j \in Confs : conf'[j].started_cpus = conf[j].started_cpus
        BY <4>1, <4>2, MarkRecord
      <4>4. conf'[k].head[p].argv = h
        BY <4>1, <4>2, MarkRecord
      <4>5. OthersKept(k, p)
        BY <4>1, <4>2, MarkRecord
      <4>. QED BY <4>0, <4>3, <4>4, <4>5 DEF OthersKept
    <3>2. pc'[c] = "create"
      BY <2>3 DEF BootInv, Shapes
    <3>3. TaskThreads' = TaskThreads
      BY <1>1, <1>3, <3>1, SameThreads
    <3>4. conf'[k].head[p].cpu = c /\ p \in Tasks(k)' /\ Record(c)' = conf'[k].head[p]
      <4>1. scan'[c].conf = k /\ scan'[c].pos = p
        BY <1>4, <2>3
      <4>. QED BY <1>4, <2>1, <3>1, <4>1 DEF SameTasks, Tasks, Record
    <3>5. PositionAt(c)'
      <4>1. \A j \in Confs : c \in conf'[j].started_cpus => (j = "test" => scan[c].conf = "test")
        BY <1>3, <3>1 DEF PositionAt
      <4>2. scan[c] # NULL /\ scan[c] \in [conf : Confs, pos : Nat \ {0}]
        BY <1>1, <1>3 DEF PositionAt
      <4>. QED BY <1>2, <1>4, <2>3, <3>1, <3>2, <3>4, <4>1, <4>2 DEF PositionAt, Launching
    <3>6. ASSUME NEW j \in Confs PROVE QueuedBehind(c, j)' /\ BehindQueued(c, j)'
      <4>1. /\ Tasks(j)' = Tasks(j) /\ (\A i \in Tasks(j) : Launchable(j, i)' <=> Launchable(j, i))
            /\ \A i \in Tasks(j) : conf'[j].head[i].cpu = conf[j].head[i].cpu
        BY <3>1, SameLaunchable DEF SameTasks, Tasks
      <4>. QED BY <1>1, <1>3, <2>3, <3>1, <4>1 DEF QueuedBehind, BehindQueued, Queued, Past
    <3>7. /\ Cardinality(TaskThreads') \in Nat
          /\ argv' = Cardinality(TaskThreads') + IF "create" = "create" THEN 1 ELSE 0
      BY <1>7, <2>3, <3>3
    <3>8. ASSUME NEW j \in Confs, NEW i \in Tasks(j), conf'[j].head[i].argv
          PROVE  scan'[c] = [conf |-> j, pos |-> i]
      BY <1>2, <1>6, <2>3, <3>1, <3>8
    <3>9. /\ pc[c] \in {"launch", "scan", "create"} /\ "create" \in {"launch", "scan", "create", "ready", "panic"}
          /\ lock \in {NULL, c} /\ lock' = c /\ "create" \in {"scan", "create", "panic"}
      BY <1>1, <1>2
    <3>. QED BY <1>1, <1>5, <2>3, <3>1, <3>5, <3>6, <3>7, <3>8, <3>9, LoopStep
  <2>. QED BY <1>12, <2>2, <2>3 DEF task_build_argv, Goto
<1>. QED BY <1>1, <1>10, <1>11, <1>12

(* The CPU stops while it creates the thread. *)
LEMMA TasksStopped ==
  ASSUME BootInv, LaunchInv, NEW c \in Cpus, pc[c] = "create",
         pc' = [pc EXCEPT ![c] = "panic"], UNCHANGED <<machine, rq, conf>>, UNCHANGED launching
  PROVE  Lists' /\ TasksInv'
<1>0. /\ Cpus' = Cpus /\ Bsp' = Bsp /\ Bsp \in Cpus /\ UNCHANGED <<lock, scan, argv, failed>>
      /\ \A d \in Cpus : pc'[d] = IF d = c THEN "panic" ELSE pc[d]
  BY SameMachine, MachineFacts DEF BootInv, Shapes, launching
<1>1. Lists /\ Locked /\ Positions /\ Launched /\ Arguments
  BY DEF LaunchInv, TasksInv
<1>2. Lists'
  BY <1>0, <1>1 DEF Lists, Tasks
<1>3. Locked'
  BY <1>0, <1>1 DEF Locked
<1>4. Positions'
  <2>. SUFFICES ASSUME NEW d \in Cpus PROVE PositionAt(d)'
    BY <1>0 DEF Positions
  <2>1. PositionAt(d)
    BY <1>1 DEF Positions
  <2>2. CASE d # c
    BY <1>0, <2>1, <2>2 DEF PositionAt, Record, Tasks
  <2>3. CASE d = c
    BY <1>0, <2>1, <2>3 DEF PositionAt, Record, Tasks
  <2>. QED BY <2>2, <2>3
<1>5. Launched'
  <2>. SUFFICES ASSUME NEW d \in Cpus, NEW k \in Confs PROVE QueuedBehind(d, k)' /\ BehindQueued(d, k)'
    BY <1>0 DEF Launched
  <2>1. QueuedBehind(d, k) /\ BehindQueued(d, k)
    BY <1>1 DEF Launched
  <2>2. \A i : Launchable(k, i)' <=> Launchable(k, i)
    BY DEF Launchable
  <2>3. QueuedBehind(d, k)'
    BY <1>0, <2>1 DEF QueuedBehind, Queued, Past, Tasks
  <2>4. BehindQueued(d, k)'
    BY <1>0, <2>1, <2>2 DEF BehindQueued, Queued, Past, Tasks
  <2>. QED BY <2>3, <2>4
<1>6. Arguments'
  <2>1. TaskThreads' = TaskThreads
    BY <1>0 DEF TaskThreads
  <2>2. Held' <=> Held
    BY <1>0 DEF Held, Tasks
  <2>3. \A k \in Confs : \A i \in Tasks(k)' : conf'[k].head[i].argv =>
           /\ lock' \in Cpus' /\ pc'[lock'] \in {"create", "panic"}
           /\ scan'[lock'] = [conf |-> k, pos |-> i]
    BY <1>0, <1>1 DEF Arguments, Tasks
  <2>. QED BY <1>0, <1>1, <2>1, <2>2, <2>3 DEF Arguments
<1>7. pc'[Bsp'] \notin Early
  <2>1. CASE c = Bsp
    BY <1>0, <2>1 DEF Early, Coming, Alone
  <2>2. CASE c # Bsp
    <3>1. pc[Bsp] = "run"
      BY <2>2 DEF BootInv, Barrier, Launching
    <3>. QED BY <1>0, <2>2, <3>1 DEF Early, Coming, Alone
  <2>. QED BY <2>1, <2>2
<1>. QED BY <1>2, <1>3, <1>4, <1>5, <1>6, <1>7 DEF TasksInv

(* The thread is queued with its argument block, or the block is freed, or *)
(* the CPU stops.                                                          *)
LEMMA TasksCreate ==
  ASSUME BootInv, LaunchInv, NEW c \in Cpus, CreateTask(c)
  PROVE  Lists' /\ TasksInv'
<1>0. CASE Panic(c) /\ UNCHANGED <<rq, conf, scan, argv, failed>>
  BY <1>0, TasksStopped DEF CreateTask, Panic, Goto, launching
<1>. SUFFICES ASSUME ~(Panic(c) /\ UNCHANGED <<rq, conf, scan, argv, failed>>) PROVE Lists' /\ TasksInv'
  BY <1>0
<1>1. /\ UNCHANGED <<machine, lock>> /\ pc[c] = "create" /\ HoldsArgv(c, FALSE) /\ NextRecord(c)
      /\ pc' = [pc EXCEPT ![c] = "scan"]
      /\ \/ rq' = [rq EXCEPT ![c] = Append(@, ThisTask(c))] /\ UNCHANGED <<argv, failed>>
         \/ argv' = argv - 1 /\ failed' = failed \cup {ThisTask(c)} /\ rq' = rq
  BY DEF CreateTask, Goto
<1>2. PICK k \in Confs, p \in Nat \ {0} :
         /\ scan[c] = [conf |-> k, pos |-> p] /\ lock = c /\ c \in conf[k].started_cpus
         /\ p \in Tasks(k) /\ conf[k].head[p].cpu = c /\ conf[k].head[p].argv
  BY <1>1, InLoop
<1>3. Lists /\ DOMAIN scan = Cpus /\ rq \in [Cpus -> Seq(Entries)]
  BY DEF LaunchInv, BootInv, Shapes, Lists
<1>4. ThisTask(c) = <<k, p>>
  BY <1>2 DEF ThisTask
<1>5. pc'[c] = "scan"
  BY <1>1 DEF BootInv, Shapes
<1>6. /\ SameTasks
      /\ \A j \in Confs : conf'[j].started_cpus = conf[j].started_cpus
      /\ ~conf'[k].head[p].argv
      /\ \A j \in Confs : \A i \in Tasks(j) :
            <<j, i>> # <<k, p>> => conf'[j].head[i] = conf[j].head[i]
  <2>1. PICK h : h = FALSE
    OBVIOUS
  <2>2. HoldsArgv(c, h)
    BY <1>1, <2>1
  <2>3. Lists /\ scan[c] = [conf |-> k, pos |-> p] /\ p \in Tasks(k)
    BY <1>2, <1>3
  <2>4. SameTasks /\ \A j \in Confs : conf'[j].started_cpus = conf[j].started_cpus
    BY <2>2, <2>3, MarkRecord
  <2>5. conf'[k].head[p].argv = h
    BY <2>2, <2>3, MarkRecord
  <2>6. OthersKept(k, p)
    BY <2>2, <2>3, MarkRecord
  <2>. QED BY <2>1, <2>4, <2>5, <2>6 DEF OthersKept
<1>7. \A j \in Confs : \A i \in Tasks(j) : ~conf'[j].head[i].argv
  <2>. SUFFICES ASSUME NEW j \in Confs, NEW i \in Tasks(j), conf'[j].head[i].argv PROVE FALSE
    OBVIOUS
  <2>1. <<j, i>> # <<k, p>> /\ conf[j].head[i].argv
    BY <1>6
  <2>2. scan[c] = [conf |-> j, pos |-> i]
    BY <1>2, <2>1 DEF LaunchInv, TasksInv, Arguments
  <2>3. scan[c].conf = j /\ scan[c].pos = i /\ scan[c].conf = k /\ scan[c].pos = p
    BY <1>2, <2>2
  <2>. QED BY <2>1, <2>3
<1>8. Cardinality(TaskThreads) \in Nat /\ argv = Cardinality(TaskThreads) + 1
  BY <1>1, <1>2, ArgvNow
<1>9. failed \subseteq failed' /\ \A d \in Cpus : d # c => rq'[d] = rq[d]
  BY <1>1, <1>3
<1>10. \/ rq'[c] = rq[c] /\ <<k, p>> \in failed'
       \/ rq'[c] = Append(rq[c], <<k, p>>)
  BY <1>1, <1>3, <1>4
<1>11. /\ \A d \in Cpus : d # c => scan'[d] = scan[d]
       /\ PositionAt(c)' /\ \A j \in Confs : QueuedBehind(c, j)' /\ BehindQueued(c, j)'
       /\ rq'[c] \in Seq(Entries) /\ \A m, n \in DOMAIN rq'[c] : m # n => rq'[c][m] # rq'[c][n]
       /\ ~Queued(c, <<k, p>>)
  BY ZenonT(60), <1>1, <1>2, <1>5, <1>6, <1>9, <1>10, Advance
<1>12. rq' \in [Cpus -> Seq(Entries)]
  <2>1. DOMAIN rq' = Cpus
    BY <1>1, <1>3
  <2>2. \A d \in Cpus : rq'[d] \in Seq(Entries)
    BY <1>3, <1>9, <1>11
  <2>3. rq' = [d \in Cpus |-> rq'[d]]
    BY <1>1, <1>3, <2>1
  <2>. QED BY <2>2, <2>3
<1>13. Cardinality(TaskThreads') \in Nat /\ argv' = Cardinality(TaskThreads')
  <2>1. CASE argv' = argv - 1 /\ rq' = rq
    <3>1. TaskThreads' = TaskThreads
      BY <1>1, <1>3, <1>6, <2>1, SameThreads
    <3>. QED BY <1>8, <2>1, <3>1
  <2>2. CASE argv' = argv /\ rq' = [rq EXCEPT ![c] = Append(@, <<k, p>>)]
    <3>1. Len(conf'["task"].head) = Len(conf["task"].head) /\ Len(conf'["test"].head) = Len(conf["test"].head)
      BY <1>6 DEF SameTasks, Confs
    <3>. DEFINE e == <<k, p>>
                N == Len(conf["task"].head) + Len(conf["test"].head)
    <3>2. e \in {"task", "test"} \X (1 .. N)
      <4>1. IsSeq(conf["task"].head) /\ IsSeq(conf["test"].head)
        BY <1>3 DEF Lists, Confs
      <4>2. Len(conf["task"].head) \in Nat /\ Len(conf["test"].head) \in Nat
        BY <4>1, SeqFacts
      <4>3. DOMAIN conf["task"].head = 1 .. Len(conf["task"].head)
            /\ DOMAIN conf["test"].head = 1 .. Len(conf["test"].head)
        BY <4>1, SeqFacts
      <4>4. \A a, b \in Nat : \A i : (i \in 1 .. a \/ i \in 1 .. b) => i \in 1 .. (a + b)
        OBVIOUS
      <4>5. p \in 1 .. Len(conf["task"].head) \/ p \in 1 .. Len(conf["test"].head)
        BY <1>2, <4>3 DEF Tasks, Confs
      <4>6. p \in 1 .. N
        BY <4>2, <4>4, <4>5
      <4>. QED BY <4>6 DEF Confs
    <3>3. e \notin TaskThreads
      <4>1. ASSUME NEW d \in Cpus, NEW n \in 1 .. Len(rq[d]), rq[d][n] = e PROVE FALSE
        <5>0. rq[d] \in Seq(Entries) /\ n \in DOMAIN rq[d]
          BY <1>3
        <5>1. Queued(d, <<k, p>>)
          BY <4>1, <5>0 DEF Queued
        <5>2. conf[k].head[p].cpu = d
          BY <5>1 DEF LaunchInv, TasksInv, Launched, QueuedBehind
        <5>. QED BY <1>2, <1>11, <5>1, <5>2
      <4>. QED BY <4>1 DEF TaskThreads
    <3>4. TaskThreads' = TaskThreads \cup {e}
      <4>0. Cpus' = Cpus
        BY <1>1, SameMachine
      <4>1. \A x : (\E n \in 1 .. Len(rq'[c]) : rq'[c][n] = x)
                      <=> (x = e \/ \E n \in 1 .. Len(rq[c]) : rq[c][n] = x)
        <5>1. rq[c] \in Seq(Entries) /\ e \in Entries /\ rq'[c] = Append(rq[c], e)
          BY <1>3, <2>2 DEF Entries, Confs
        <5>. HIDE DEF e
        <5>2. NoRepeat(rq[c]) /\ ~InQueue(rq[c], e)
          BY <1>3, <1>11 DEF Lists, NoRepeat, InQueue, Queued, e
        <5>3. \A x : InQueue(rq'[c], x) <=> (x = e \/ InQueue(rq[c], x))
          BY <5>1, <5>2, QueueGrows
        <5>4. DOMAIN rq'[c] = 1 .. Len(rq'[c]) /\ DOMAIN rq[c] = 1 .. Len(rq[c])
          BY <1>3, <1>11
        <5>. QED BY <5>3, <5>4 DEF InQueue
      <4>. HIDE DEF e
      <4>2. \A x : (\E d \in Cpus : \E n \in 1 .. Len(rq'[d]) : rq'[d][n] = x)
                      <=> (x = e \/ \E d \in Cpus : \E n \in 1 .. Len(rq[d]) : rq[d][n] = x)
        BY ZenonT(60), <1>9, <4>1
      <4>3. TaskThreads' = {x \in {"task", "test"} \X (1 .. N) :
                              \E d \in Cpus : \E n \in 1 .. Len(rq'[d]) : rq'[d][n] = x}
        BY <3>1, <4>0 DEF TaskThreads
      <4>4. TaskThreads = {x \in {"task", "test"} \X (1 .. N) :
                              \E d \in Cpus : \E n \in 1 .. Len(rq[d]) : rq[d][n] = x}
        BY DEF TaskThreads
      <4>. HIDE DEF N
      <4>. QED BY <3>2, <4>2, <4>3, <4>4
    <3>. HIDE DEF e
    <3>5. Cardinality(TaskThreads \cup {e}) = Cardinality(TaskThreads) + 1
      BY <1>3, <3>3, ThreadsFinite, FS_AddElement
    <3>. QED BY <1>8, <2>2, <3>4, <3>5
  <2>. QED BY <1>1, <1>4, <2>1, <2>2
<1>14. /\ pc[c] \in {"launch", "scan", "create"} /\ "scan" \in {"launch", "scan", "create", "ready", "panic"}
       /\ lock \in {NULL, c} /\ lock' = c /\ "scan" \in {"scan", "create", "panic"}
       /\ argv' = Cardinality(TaskThreads') + IF "scan" = "create" THEN 1 ELSE 0
  BY <1>1, <1>2, <1>13
<1>. QED BY <1>1, <1>6, <1>7, <1>9, <1>11, <1>12, <1>13, <1>14, LoopStep

(* A list without one of its elements. *)
LEMMA RemovedSeq ==
  ASSUME NEW s, IsSeq(s), NEW n \in DOMAIN s
  PROVE  /\ IsSeq(Removed(s, n)) /\ DOMAIN Removed(s, n) = 1 .. Len(s) - 1
         /\ \A j \in 1 .. Len(s) - 1 :
               Removed(s, n)[j] = s[IF j < n THEN j ELSE j + 1] /\ (IF j < n THEN j ELSE j + 1) \in DOMAIN s
<1>1. PICK S : s \in Seq(S)
  BY DEF IsSeq
<1>2. n \in 1 .. Len(s) /\ Len(s) \in Nat /\ DOMAIN s = 1 .. Len(s)
  BY <1>1
<1>. DEFINE a == SubSeq(s, 1, n - 1)
            b == SubSeq(s, n + 1, Len(s))
<1>3. /\ a \in Seq(S) /\ Len(a) = n - 1 /\ \A j \in 1 .. n - 1 : a[j] = s[j]
  BY <1>1, <1>2
<1>4. /\ b \in Seq(S) /\ Len(b) = Len(s) - n /\ \A j \in 1 .. Len(s) - n : b[j] = s[j + n]
  BY <1>1, <1>2
<1>. HIDE DEF a, b
<1>5. /\ a \o b \in Seq(S) /\ Len(a \o b) = Len(s) - 1 /\ DOMAIN (a \o b) = 1 .. Len(s) - 1
      /\ \A j \in 1 .. Len(s) - 1 : (a \o b)[j] = IF j < n THEN a[j] ELSE b[j - (n - 1)]
  <2>1. /\ a \o b \in Seq(S) /\ Len(a \o b) = Len(a) + Len(b)
        /\ \A j \in 1 .. Len(a) + Len(b) : (a \o b)[j] = IF j <= Len(a) THEN a[j] ELSE b[j - Len(a)]
    BY SMTT(60), <1>3, <1>4
  <2>2. Len(a) + Len(b) = Len(s) - 1 /\ Len(a) = n - 1 /\ \A j \in Int : j < n <=> j <= n - 1
    BY <1>2, <1>3, <1>4
  <2>. QED BY <2>1, <2>2
<1>6. ASSUME NEW j \in 1 .. Len(s) - 1
      PROVE  (a \o b)[j] = s[IF j < n THEN j ELSE j + 1] /\ (IF j < n THEN j ELSE j + 1) \in DOMAIN s
  <2>1. CASE j < n
    <3>1. j \in 1 .. n - 1 /\ j \in DOMAIN s
      BY <1>2, <2>1
    <3>. QED BY <1>3, <1>5, <2>1, <3>1
  <2>2. CASE ~(j < n)
    <3>1. j - (n - 1) \in 1 .. Len(s) - n /\ (j - (n - 1)) + n = j + 1 /\ j + 1 \in DOMAIN s
      BY <1>2, <2>2
    <3>. QED BY <1>4, <1>5, <2>2, <3>1
  <2>. QED BY <2>1, <2>2
<1>7. Removed(s, n) = a \o b
  BY DEF Removed, a, b
<1>. QED BY <1>5, <1>6, <1>7 DEF IsSeq

(* Steps that leave the self-test lists alone. *)
LEMMA TestsStay ==
  ASSUME BootInv, TestsInv, UNCHANGED <<machine, tests>>, pc'[Bsp] \in Early => pc[Bsp] \in Early,
         \A c \in Cpus, id \in Nat : Queued(c, <<"worker", id>>)' => Queued(c, <<"worker", id>>),
         \/ pc[Bsp] \in Early
         \/ \A c \in Cpus, id \in Nat : Queued(c, <<"worker", id>>) => Queued(c, <<"worker", id>>)'
  PROVE  TestsInv'
<1>0. Cpus' = Cpus /\ Bsp' = Bsp
  BY SameMachine
<1>1. Instances /\ Identities /\ HeadOnly /\ WorkersOf
  BY DEF TestsInv
<1>2. Instances' /\ Identities'
  BY <1>1 DEF Instances, Identities, Distinct, Apart
<1>3. HeadOnly'
  BY <1>0, <1>1 DEF HeadOnly
<1>4. \A i \in DOMAIN tests.active : tests.active[i].id \in Nat
  BY <1>1 DEF Instances
<1>5. \A i \in DOMAIN tests.judged : tests.judged[i].id \in Nat
  BY <1>1 DEF Instances
<1>6. ASSUME NEW inst, inst.id \in Nat, pc[Bsp] \notin Early, WorkersQueued(inst)
      PROVE  WorkersQueued(inst)'
  BY <1>0, <1>6 DEF WorkersQueued
<1>7. \A i \in DOMAIN tests.active :
          tests.active[i].started /\ ~tests.active[i].prepare_failed =>
              WorkersQueued(tests.active[i])'
  <2>1. CASE pc[Bsp] \in Early
    BY <1>1, <2>1 DEF HeadOnly
  <2>2. CASE pc[Bsp] \notin Early
    <3>. SUFFICES ASSUME NEW i \in DOMAIN tests.active, tests.active[i].started,
                         ~tests.active[i].prepare_failed
                  PROVE  WorkersQueued(tests.active[i])'
      OBVIOUS
    <3>1. PICK inst : inst = tests.active[i]
      OBVIOUS
    <3>2. WorkersQueued(inst)
      BY <1>1, <3>1 DEF WorkersOf
    <3>3. WorkersQueued(inst)'
      BY <1>4, <1>6, <2>2, <3>1, <3>2
    <3>. QED BY <3>1, <3>3 DEF WorkersQueued
  <2>. QED BY <2>1, <2>2
<1>8. \A i \in DOMAIN tests.judged : tests.judged[i].ok => WorkersQueued(tests.judged[i])'
  <2>1. CASE pc[Bsp] \in Early
    <3>1. DOMAIN tests.judged = {}
      BY <1>1, <2>1, EmptySeq DEF HeadOnly
    <3>. QED BY <3>1
  <2>2. CASE pc[Bsp] \notin Early
    <3>. SUFFICES ASSUME NEW i \in DOMAIN tests.judged, tests.judged[i].ok
                  PROVE  WorkersQueued(tests.judged[i])'
      OBVIOUS
    <3>1. PICK inst : inst = tests.judged[i]
      OBVIOUS
    <3>2. WorkersQueued(inst)
      BY <1>1, <3>1 DEF WorkersOf
    <3>3. WorkersQueued(inst)'
      BY <1>5, <1>6, <2>2, <3>1, <3>2
    <3>. QED BY <3>1, <3>3 DEF WorkersQueued
  <2>. QED BY <2>1, <2>2
<1>9. \A c \in Cpus : \A id \in Nat : Queued(c, <<"worker", id>>)' =>
          /\ id <= tests'.made
          /\ \A i \in DOMAIN tests'.registry : tests'.registry[i].id # id
          /\ \A i \in DOMAIN tests'.active : tests'.active[i].id = id => tests'.active[i].started
  BY <1>1 DEF WorkersOf
<1>10. WorkersOf'
  BY <1>0, <1>7, <1>8, <1>9 DEF WorkersOf, WorkersQueued
<1>. QED BY <1>2, <1>3, <1>10 DEF TestsInv

(* selftest_register(): an instance of its own at the end of the registry. *)
LEMMA Registers ==
  ASSUME BootInv, TestsInv, UNCHANGED <<machine, rq>>, NEW t, selftest_register(t),
         pc[Bsp] \in Early
  PROVE  TestsInv'
<1>0. Cpus' = Cpus /\ Bsp' = Bsp
  BY SameMachine
<1>1. Instances /\ Identities /\ HeadOnly /\ WorkersOf
  BY DEF TestsInv
<1>. DEFINE id == tests.made + 1
            x == Instance(t, id)
            reg == tests.registry
            r == Append(reg, x)
<1>2. IsSeq(reg) /\ tests.made \in Nat /\ IsInstance(x) /\ x.id = id /\ ~x.started
  BY <1>1 DEF Instances, Instance, IsInstance
<1>3. /\ IsSeq(r) /\ Len(reg) \in Nat /\ DOMAIN reg = 1 .. Len(reg)
      /\ DOMAIN r = 1 .. Len(reg) + 1 /\ r[Len(reg) + 1] = x
      /\ \A i \in DOMAIN reg : r[i] = reg[i]
  <2>. HIDE DEF x, reg
  <2>. QED BY <1>2, AppendSeq
<1>4. tests' = [registry |-> r, active |-> tests.active, judged |-> tests.judged, made |-> id]
  <2>1. tests = [registry |-> tests.registry, active |-> tests.active,
                 judged |-> tests.judged, made |-> tests.made]
    BY <1>1 DEF Instances
  <2>2. tests' = [tests EXCEPT !.registry = r, !.made = id]
    BY DEF selftest_register
  <2>. HIDE DEF r, id
  <2>. QED BY <2>1, <2>2
<1>. HIDE DEF r, x
<1>5. /\ tests'.registry = r /\ tests'.active = tests.active /\ tests'.judged = tests.judged
      /\ tests'.made = id
  BY <1>4
<1>6. \A i \in DOMAIN r : \/ i \in DOMAIN reg /\ r[i] = reg[i]
                          \/ i = Len(reg) + 1 /\ r[i] = x
  BY <1>3
<1>7. \A n \in 1 .. tests.made : n \in 1 .. id /\ n # id
  BY <1>2
<1>8. /\ \A i \in DOMAIN reg : /\ IsInstance(reg[i]) /\ reg[i].id \in 1 .. tests.made
                               /\ ~reg[i].started
      /\ \A i \in DOMAIN tests.active : IsInstance(tests.active[i]) /\ tests.active[i].id \in 1 .. tests.made
      /\ \A i \in DOMAIN tests.judged : tests.judged[i].id \in 1 .. tests.made
      /\ IsSeq(tests.active) /\ IsSeq(tests.judged)
  BY <1>1 DEF Instances
<1>. HIDE DEF reg
<1>9. Instances'
  <2>1. \A i \in DOMAIN r : IsInstance(r[i]) /\ r[i].id \in 1 .. id /\ ~r[i].started
    BY <1>2, <1>6, <1>7, <1>8
  <2>2. id \in Nat
    BY <1>2
  <2>3. \A i \in DOMAIN tests.active : IsInstance(tests.active[i]) /\ tests.active[i].id \in 1 .. id
    BY <1>7, <1>8
  <2>4. \A i \in DOMAIN tests.judged : tests.judged[i].id \in 1 .. id
    BY <1>7, <1>8
  <2>. QED BY <1>3, <1>4, <1>5, <1>8, <2>1, <2>2, <2>3, <2>4 DEF Instances
<1>10. Identities'
  <2>1. Distinct(reg) /\ Apart(reg, tests.active) /\ Apart(reg, tests.judged)
        /\ Distinct(tests.active) /\ Distinct(tests.judged) /\ Apart(tests.active, tests.judged)
    BY <1>1 DEF Identities, reg
  <2>2. Distinct(r)
    BY <1>2, <1>6, <1>7, <1>8, <2>1 DEF Distinct
  <2>3. Apart(r, tests.active) /\ Apart(r, tests.judged)
    BY <1>2, <1>6, <1>7, <1>8, <2>1 DEF Apart
  <2>. QED BY <1>5, <2>1, <2>2, <2>3 DEF Identities
<1>11. HeadOnly'
  BY <1>0, <1>1, <1>5 DEF HeadOnly
<1>12. WorkersOf'
  <2>1. \A i \in DOMAIN tests.active : ~tests.active[i].started
    BY <1>1 DEF HeadOnly
  <2>2. DOMAIN tests.judged = {}
    BY <1>1, EmptySeq DEF HeadOnly
  <2>3. ASSUME NEW c \in Cpus, NEW n \in Nat, Queued(c, <<"worker", n>>)'
        PROVE  /\ n <= id /\ (\A i \in DOMAIN r : r[i].id # n)
               /\ \A i \in DOMAIN tests.active : tests.active[i].id = n => tests.active[i].started
    <3>1. Queued(c, <<"worker", n>>)
      BY <2>3 DEF Queued
    <3>2. /\ n <= tests.made /\ (\A i \in DOMAIN reg : reg[i].id # n)
          /\ \A i \in DOMAIN tests.active : tests.active[i].id = n => tests.active[i].started
      BY <1>1, <3>1 DEF WorkersOf, reg
    <3>3. n <= id /\ n # id
      BY <1>2, <3>2
    <3>. QED BY <1>2, <1>6, <3>2, <3>3
  <2>. QED BY <1>0, <1>5, <2>1, <2>2, <2>3 DEF WorkersOf
<1>. QED BY <1>9, <1>10, <1>11, <1>12 DEF TestsInv

(* What is left keeps its identity, and the one removed is gone. *)
LEMMA RemovedIds ==
  ASSUME NEW s, IsSeq(s), NEW n \in DOMAIN s, NEW r, r = Removed(s, n)
  PROVE  /\ IsSeq(r) /\ (Distinct(s) => Distinct(r))
         /\ \A j \in DOMAIN r : \E m \in DOMAIN s : m # n /\ r[j] = s[m]
<1>1. /\ IsSeq(r) /\ DOMAIN r = 1 .. Len(s) - 1
      /\ \A j \in 1 .. Len(s) - 1 :
            r[j] = s[IF j < n THEN j ELSE j + 1] /\ (IF j < n THEN j ELSE j + 1) \in DOMAIN s
  BY RemovedSeq
<1>2. Len(s) \in Nat /\ DOMAIN s = 1 .. Len(s)
  BY SeqFacts
<1>. DEFINE g(j) == IF j < n THEN j ELSE j + 1
<1>3. \A j \in 1 .. Len(s) - 1 : g(j) \in DOMAIN s /\ g(j) # n /\ r[j] = s[g(j)]
  BY <1>1, <1>2
<1>4. \A i, j \in 1 .. Len(s) - 1 : i # j => g(i) # g(j)
  BY <1>2
<1>. HIDE DEF g
<1>5. Distinct(s) => Distinct(r)
  BY <1>1, <1>3, <1>4 DEF Distinct
<1>. QED BY <1>1, <1>3, <1>5

(* selftest_apply_all(): an instance moves from the registry to the list. *)
LEMMA Applies ==
  ASSUME BootInv, TestsInv, UNCHANGED <<machine, rq, pc>>, pc[Bsp] \in Early,
         NEW n \in DOMAIN tests.registry, NEW failing \in BOOLEAN, NEW mod,
         tests' = [tests EXCEPT
            !.registry = Removed(@, n),
            !.active = Append(@, [tests.registry[n] EXCEPT !.prepare_failed = failing, !.module = mod])]
  PROVE  TestsInv'
<1>0. Cpus' = Cpus /\ Bsp' = Bsp
  BY SameMachine
<1>1. Instances /\ Identities /\ HeadOnly /\ WorkersOf
  BY DEF TestsInv
<1>. DEFINE reg == tests.registry
            act == tests.active
            y == reg[n]
            x == [y EXCEPT !.prepare_failed = failing, !.module = mod]
            r == Removed(reg, n)
            a == Append(act, x)
<1>2. /\ IsSeq(reg) /\ IsSeq(act) /\ IsSeq(tests.judged) /\ tests.made \in Nat
      /\ \A i \in DOMAIN reg : IsInstance(reg[i]) /\ reg[i].id \in 1 .. tests.made /\ ~reg[i].started
      /\ \A i \in DOMAIN act : IsInstance(act[i]) /\ act[i].id \in 1 .. tests.made /\ ~act[i].started
      /\ Distinct(reg) /\ Distinct(act) /\ Apart(reg, act) /\ tests.judged = <<>>
      /\ DOMAIN tests.judged = {}
  BY <1>1, EmptySeq DEF Instances, Identities, HeadOnly
<1>3. IsInstance(x) /\ x.id = y.id /\ (x.started <=> y.started)
  <2>1. IsInstance(y) /\ x = [y EXCEPT !.prepare_failed = failing, !.module = mod]
    BY <1>2
  <2>. HIDE DEF x, y
  <2>. QED BY <2>1 DEF IsInstance
<1>4. tests' = [registry |-> r, active |-> a, judged |-> tests.judged, made |-> tests.made]
  <2>1. tests = [registry |-> tests.registry, active |-> tests.active,
                 judged |-> tests.judged, made |-> tests.made]
    BY <1>1 DEF Instances
  <2>2. tests' = [tests EXCEPT !.registry = r, !.active = a]
    OBVIOUS
  <2>. HIDE DEF r, a
  <2>. QED BY <2>1, <2>2
<1>5. /\ IsSeq(r) /\ Distinct(r) /\ \A j \in DOMAIN r : \E m \in DOMAIN reg : m # n /\ r[j] = reg[m]
  BY <1>2, RemovedIds
<1>6. /\ IsSeq(a) /\ \A i \in DOMAIN a : \/ i \in DOMAIN act /\ a[i] = act[i]
                                         \/ i = Len(act) + 1 /\ a[i] = x
  <2>. HIDE DEF x, act
  <2>1. /\ IsSeq(a) /\ Len(act) \in Nat /\ DOMAIN act = 1 .. Len(act)
        /\ DOMAIN a = 1 .. Len(act) + 1 /\ a[Len(act) + 1] = x /\ \A i \in DOMAIN act : a[i] = act[i]
    BY <1>2, AppendSeq
  <2>. HIDE DEF a
  <2>. QED BY <2>1
<1>7. /\ tests'.registry = r /\ tests'.active = a /\ tests'.judged = tests.judged
      /\ tests'.made = tests.made
  <2>. HIDE DEF r, a
  <2>. QED BY ONLY <1>4
<1>8. y = reg[n] /\ n \in DOMAIN reg
  OBVIOUS
<1>. HIDE DEF r, a, x, y, act
<1>9. \A i \in DOMAIN reg : i # n => reg[i].id # x.id
  BY <1>2, <1>3, <1>8 DEF Distinct
<1>10. \A i \in DOMAIN act : act[i].id # x.id
  BY <1>2, <1>3, <1>8 DEF Apart
<1>. HIDE DEF reg
<1>11. Instances'
  <2>1. \A i \in DOMAIN r : IsInstance(r[i]) /\ r[i].id \in 1 .. tests.made /\ ~r[i].started
    BY <1>2, <1>5
  <2>2. \A i \in DOMAIN a : IsInstance(a[i]) /\ a[i].id \in 1 .. tests.made
    BY <1>2, <1>3, <1>6, <1>8
  <2>. QED BY <1>2, <1>4, <1>5, <1>6, <1>7, <2>1, <2>2 DEF Instances
<1>12. Identities'
  <2>1. Distinct(a)
    BY <1>2, <1>6, <1>10 DEF Distinct
  <2>2. Apart(r, a)
    <3>. SUFFICES ASSUME NEW i \in DOMAIN r, NEW j \in DOMAIN a PROVE r[i].id # a[j].id
      BY DEF Apart
    <3>1. PICK m \in DOMAIN reg : m # n /\ r[i] = reg[m]
      BY <1>5
    <3>. QED BY <1>2, <1>6, <1>9, <3>1 DEF Apart
  <2>3. Apart(r, tests.judged) /\ Apart(a, tests.judged) /\ Distinct(tests.judged)
    BY <1>2 DEF Apart, Distinct
  <2>. QED BY <1>5, <1>7, <2>1, <2>2, <2>3 DEF Identities
<1>13. \A i \in DOMAIN a : ~a[i].started
  BY <1>2, <1>3, <1>6, <1>8
<1>14. HeadOnly'
  BY <1>0, <1>2, <1>7, <1>13 DEF HeadOnly
<1>15. WorkersOf'
  <2>1. ASSUME NEW c \in Cpus, NEW id \in Nat, Queued(c, <<"worker", id>>)'
        PROVE  /\ id <= tests.made /\ (\A i \in DOMAIN r : r[i].id # id)
               /\ \A i \in DOMAIN a : a[i].id # id
    <3>1. Queued(c, <<"worker", id>>)
      BY <2>1 DEF Queued
    <3>2. /\ id <= tests.made /\ (\A i \in DOMAIN reg : reg[i].id # id)
          /\ \A i \in DOMAIN act : act[i].id # id
      BY <1>1, <1>2, <3>1 DEF WorkersOf, reg, act
    <3>. QED BY <1>3, <1>5, <1>6, <1>8, <3>2
  <2>. QED BY ZenonT(60), <1>0, <1>2, <1>7, <1>13, <2>1 DEF WorkersOf
<1>. QED BY <1>11, <1>12, <1>14, <1>15 DEF TestsInv

(* Nothing of the list is started: its first element is the next test. *)
LEMMA FirstTest ==
  ASSUME NEW s, IsSeq(s), \A i \in DOMAIN s : ~s[i].started
  PROVE  IF s = <<>> THEN NextTest(s) = NULL ELSE NextTest(s) = 1 /\ 1 \in DOMAIN s
<1>. DEFINE waiting == {i \in DOMAIN s : ~s[i].started}
<1>1. waiting = DOMAIN s
  OBVIOUS
<1>2. CASE s = <<>>
  BY <1>2, EmptySeq DEF NextTest
<1>3. CASE s # <<>>
  <2>1. Len(s) \in Nat /\ DOMAIN s = 1 .. Len(s)
    BY SeqFacts
  <2>2. PICK S : s \in Seq(S)
    BY DEF IsSeq
  <2>3. Len(s) # 0
    BY <1>3, <2>2
  <2>4. 1 \in waiting /\ \A j \in waiting : 1 <= j
    BY <1>1, <2>1, <2>3
  <2>5. \A i \in waiting : (\A j \in waiting : i <= j) => i = 1
    BY <1>1, <2>1, <2>4
  <2>. DEFINE first == CHOOSE i \in waiting : \A j \in waiting : i <= j
  <2>6. first \in waiting /\ \A j \in waiting : first <= j
    <3>. HIDE DEF waiting
    <3>. QED BY <2>4
  <2>7. first = 1
    BY <2>5, <2>6
  <2>8. NextTest(s) = IF waiting = {} THEN NULL ELSE first
    BY DEF NextTest
  <2>. HIDE DEF first, waiting
  <2>. QED BY <1>1, <1>3, <2>4, <2>7, <2>8
<1>. QED BY <1>2, <1>3

(* start() of a self-test adds its workers and nothing else. *)
LEMMA WorkersGrow ==
  ASSUME BootInv, Lists, machine' = machine, NEW inst, inst.id \in Nat,
         \A c \in Cpus : ~Queued(c, <<"worker", inst.id>>), rq' = WithWorkers(inst, rq)
  PROVE  /\ rq' \in [Cpus -> Seq(Entries)]
         /\ \A c \in Cpus : NoRepeat(rq'[c])
         /\ \A c \in Cpus : \A e : InQueue(rq'[c], e) <=>
               InQueue(rq[c], e) \/ (c \in Workers[inst.test] /\ e = <<"worker", inst.id>>)
<1>1. rq \in [Cpus -> Seq(Entries)] /\ \A c \in Cpus : NoRepeat(rq[c])
  BY DEF Lists, NoRepeat
<1>2. PICK e : e = <<"worker", inst.id>>
  OBVIOUS
<1>3. e \in Entries /\ \A c \in Cpus : ~InQueue(rq[c], e)
  BY <1>2 DEF Entries, Queued, InQueue
<1>4. rq' = [c \in Cpus |-> IF c \in Workers[inst.test] THEN Append(rq[c], e) ELSE rq[c]]
  BY <1>2 DEF WithWorkers
<1>5. ASSUME NEW c \in Cpus
      PROVE  /\ rq'[c] \in Seq(Entries) /\ NoRepeat(rq'[c])
             /\ \A x : InQueue(rq'[c], x) <=> InQueue(rq[c], x) \/ (c \in Workers[inst.test] /\ x = e)
  <2>1. CASE c \in Workers[inst.test]
    <3>1. rq'[c] = Append(rq[c], e)
      BY <1>4, <2>1
    <3>2. PICK q, r : q = rq[c] /\ r = rq'[c]
      OBVIOUS
    <3>3. q \in Seq(Entries) /\ NoRepeat(q) /\ ~InQueue(q, e) /\ r = Append(q, e)
      BY <1>1, <1>3, <3>1, <3>2
    <3>4. /\ r \in Seq(Entries) /\ NoRepeat(r)
          /\ \A x : InQueue(r, x) <=> (x = e \/ InQueue(q, x))
      BY ONLY <1>3, <3>3, QueueGrows
    <3>. QED BY <2>1, <3>2, <3>4
  <2>2. CASE c \notin Workers[inst.test]
    <3>1. rq'[c] = rq[c]
      BY <1>4, <2>2
    <3>. QED BY <1>1, <2>2, <3>1
  <2>. QED BY <2>1, <2>2
<1>. QED BY <1>2, <1>4, <1>5

(* A list none of which is started, with the verdicts so far. *)
WaitingList(list, judged) ==
    /\ IsSeq(list) /\ IsSeq(judged)
    /\ \A i \in DOMAIN list : /\ IsInstance(list[i]) /\ list[i].id \in 1 .. tests.made
                              /\ ~list[i].started
    /\ \A i \in DOMAIN judged : judged[i].id \in 1 .. tests.made
    /\ Distinct(list) /\ Distinct(judged) /\ Apart(list, judged)
    /\ Apart(tests.registry, list) /\ Apart(tests.registry, judged)
    /\ \A i \in DOMAIN judged : judged[i].ok => WorkersQueued(judged[i])
    /\ \A c \in Cpus : \A id \in Nat : Queued(c, <<"worker", id>>) =>
          \A i \in DOMAIN list : list[i].id # id

(* Its head starts. *)
HeadStarted(s, t) == t = [s EXCEPT ![1].started = TRUE]

LEMMA HeadStarts ==
  ASSUME NEW s, IsSeq(s), 1 \in DOMAIN s, IsInstance(s[1]), NEW t, HeadStarted(s, t)
  PROVE  /\ IsSeq(t) /\ DOMAIN t = DOMAIN s
         /\ IsInstance(t[1]) /\ t[1].id = s[1].id /\ t[1].test = s[1].test
         /\ t[1].started /\ t[1].prepare_failed = s[1].prepare_failed
         /\ \A i \in DOMAIN s : i # 1 => t[i] = s[i]
<1>1. PICK x : x = [s[1] EXCEPT !.started = TRUE]
  OBVIOUS
<1>2. PICK y : y = s[1]
  OBVIOUS
<1>3. /\ IsInstance(x) /\ x.id = y.id /\ x.test = y.test /\ x.started
      /\ x.prepare_failed = y.prepare_failed
  <2>1. IsInstance(y) /\ x = [y EXCEPT !.started = TRUE]
    BY <1>1, <1>2
  <2>. QED BY ONLY <2>1 DEF IsInstance
<1>4. t = [s EXCEPT ![1] = x]
  BY <1>1 DEF HeadStarted
<1>5. /\ IsSeq(t) /\ DOMAIN t = DOMAIN s /\ t[1] = x /\ \A i \in DOMAIN s : i # 1 => t[i] = s[i]
  BY ONLY <1>4, IsSeq(s), 1 \in DOMAIN s, ReplaceSeq
<1>. QED BY <1>2, <1>3, <1>5

(* What selftest_run() makes of it. *)
LEMMA RunTests ==
  ASSUME BootInv, Lists, Instances, Identities, WorkersOf, machine' = machine,
         pc'[Bsp] \notin Early, NEW list, NEW judged, WaitingList(list, judged),
         selftest_run(list, judged)
  PROVE  /\ TestsInv' /\ rq' \in [Cpus -> Seq(Entries)] /\ \A c \in Cpus : NoRepeat(rq'[c])
         /\ \A c \in Cpus : \A e : InQueue(rq'[c], e) <=>
               InQueue(rq[c], e) \/ (InQueue(rq'[c], e) /\ e[1] = "worker")
<1>0. Cpus' = Cpus /\ Bsp' = Bsp
  BY SameMachine
<1>1. PICK i : i = NextTest(list)
  OBVIOUS
<1>2. PICK a : a = IF i = NULL THEN list ELSE [list EXCEPT ![i].started = TRUE]
  OBVIOUS
<1>3. /\ tests' = [tests EXCEPT !.active = a, !.judged = judged]
      /\ rq' = IF i = NULL \/ list[i].prepare_failed THEN rq ELSE WithWorkers(list[i], rq)
  BY <1>1, <1>2 DEF selftest_run
<1>4. tests' = [registry |-> tests.registry, active |-> a, judged |-> judged, made |-> tests.made]
  <2>1. tests = [registry |-> tests.registry, active |-> tests.active,
                 judged |-> tests.judged, made |-> tests.made]
    BY DEF Instances
  <2>. QED BY ONLY <1>3, <2>1
<1>5. /\ tests'.registry = tests.registry /\ tests'.active = a /\ tests'.judged = judged
      /\ tests'.made = tests.made
  BY ONLY <1>4
<1>6. /\ IsSeq(list) /\ IsSeq(judged) /\ Distinct(list) /\ Distinct(judged) /\ Apart(list, judged)
      /\ Apart(tests.registry, list) /\ Apart(tests.registry, judged)
      /\ \A j \in DOMAIN list : /\ IsInstance(list[j]) /\ list[j].id \in 1 .. tests.made
                                /\ ~list[j].started
      /\ \A j \in DOMAIN judged : judged[j].id \in 1 .. tests.made
      /\ \A c \in Cpus : \A id \in Nat : Queued(c, <<"worker", id>>) =>
            \A j \in DOMAIN list : list[j].id # id
  BY DEF WaitingList
<1>7. IF list = <<>> THEN i = NULL ELSE i = 1 /\ 1 \in DOMAIN list /\ i # NULL
  BY <1>1, <1>6, FirstTest, NullAssumption
<1>8. /\ IsSeq(a) /\ DOMAIN a = DOMAIN list
      /\ \A j \in DOMAIN a :
            /\ IsInstance(a[j]) /\ a[j].id = list[j].id
            /\ a[j].started => j = 1 /\ i = 1 /\ a[j].test = list[j].test
                              /\ a[j].prepare_failed = list[j].prepare_failed
      /\ i # NULL => i = 1 /\ 1 \in DOMAIN a /\ a[1].started
  <2>1. CASE list = <<>>
    <3>1. a = list /\ DOMAIN list = {} /\ i = NULL
      BY <1>2, <1>7, <2>1, EmptySeq
    <3>. QED BY <1>6, <3>1
  <2>2. CASE list # <<>>
    <3>1. i = 1 /\ 1 \in DOMAIN list /\ i # NULL
      BY <1>7, <2>2
    <3>2. HeadStarted(list, a)
      BY <1>2, <3>1 DEF HeadStarted
    <3>3. IsSeq(list) /\ IsInstance(list[1])
      BY <1>6, <3>1
    <3>4. /\ IsSeq(a) /\ DOMAIN a = DOMAIN list
          /\ IsInstance(a[1]) /\ a[1].id = list[1].id /\ a[1].test = list[1].test
          /\ a[1].started /\ a[1].prepare_failed = list[1].prepare_failed
          /\ \A j \in DOMAIN list : j # 1 => a[j] = list[j]
      BY ONLY <3>1, <3>2, <3>3, HeadStarts
    <3>. QED BY <1>6, <3>1, <3>4
  <2>. QED BY <2>1, <2>2
<1>9. /\ rq' \in [Cpus -> Seq(Entries)] /\ \A c \in Cpus : NoRepeat(rq'[c])
      /\ \A c \in Cpus : \A e : InQueue(rq'[c], e) <=>
            \/ InQueue(rq[c], e)
            \/ /\ i # NULL /\ ~list[i].prepare_failed /\ c \in Workers[list[i].test]
               /\ e = <<"worker", list[i].id>>
  <2>1. CASE i = NULL \/ list[i].prepare_failed
    <3>1. rq' = rq
      BY <1>3, <2>1
    <3>. QED BY <2>1, <3>1 DEF Lists, NoRepeat
  <2>2. CASE ~(i = NULL \/ list[i].prepare_failed)
    <3>1. i = 1 /\ 1 \in DOMAIN list /\ i # NULL /\ ~list[1].prepare_failed
      BY <1>7, <2>2
    <3>2. PICK inst : inst = list[1]
      OBVIOUS
    <3>3. inst.id \in Nat /\ rq' = WithWorkers(inst, rq)
      BY <1>3, <1>6, <3>1, <3>2
    <3>4. \A c \in Cpus : ~Queued(c, <<"worker", inst.id>>)
      BY <1>6, <3>1, <3>2, <3>3
    <3>5. /\ rq' \in [Cpus -> Seq(Entries)] /\ \A c \in Cpus : NoRepeat(rq'[c])
          /\ \A c \in Cpus : \A e : InQueue(rq'[c], e) <=>
                InQueue(rq[c], e) \/ (c \in Workers[inst.test] /\ e = <<"worker", inst.id>>)
      BY <3>3, <3>4, WorkersGrow
    <3>. QED BY <3>1, <3>2, <3>5
  <2>. QED BY <2>1, <2>2
<1>10. Instances'
  <2>1. /\ IsSeq(tests.registry) /\ tests.made \in Nat
        /\ \A j \in DOMAIN tests.registry :
              /\ IsInstance(tests.registry[j]) /\ tests.registry[j].id \in 1 .. tests.made
              /\ ~tests.registry[j].started
    BY DEF Instances
  <2>2. \A j \in DOMAIN a : IsInstance(a[j]) /\ a[j].id \in 1 .. tests.made
    BY <1>6, <1>8
  <2>. QED BY <1>4, <1>5, <1>6, <1>8, <2>1, <2>2 DEF Instances
<1>11. Identities'
  <2>1. Distinct(a)
    BY <1>6, <1>8 DEF Distinct
  <2>2. Apart(a, judged) /\ Apart(tests.registry, a)
    BY <1>6, <1>8 DEF Apart
  <2>3. Distinct(tests.registry)
    BY DEF Identities
  <2>. QED BY <1>5, <1>6, <2>1, <2>2, <2>3 DEF Identities
<1>12. HeadOnly'
  BY <1>0, <1>5, <1>8 DEF HeadOnly
<1>13. WorkersOf'
  <2>1. ASSUME NEW inst, WorkersQueued(inst) PROVE WorkersQueued(inst)'
    BY ZenonT(60), <1>0, <1>9, <2>1 DEF WorkersQueued, Queued, InQueue
  <2>2. \A j \in DOMAIN judged : judged[j].ok => WorkersQueued(judged[j])'
    <3>. SUFFICES ASSUME NEW j \in DOMAIN judged, judged[j].ok PROVE WorkersQueued(judged[j])'
      OBVIOUS
    <3>1. PICK inst : inst = judged[j]
      OBVIOUS
    <3>2. WorkersQueued(inst)
      BY <3>1 DEF WaitingList
    <3>3. WorkersQueued(inst)'
      BY <2>1, <3>2
    <3>. QED BY <3>1, <3>3 DEF WorkersQueued
  <2>3. ASSUME NEW j \in DOMAIN a, a[j].started, ~a[j].prepare_failed
        PROVE  \A c \in Workers[a[j].test] \cap Cpus : Queued(c, <<"worker", a[j].id>>)'
    <3>1. j = 1 /\ i = 1 /\ 1 \in DOMAIN list /\ i # NULL /\ ~list[i].prepare_failed
          /\ a[j].test = list[i].test /\ a[j].id = list[i].id
      BY <1>7, <1>8, <2>3, NullAssumption
    <3>. QED BY ZenonT(60), <1>9, <3>1 DEF Queued, InQueue
  <2>4. ASSUME NEW c \in Cpus, NEW id \in Nat, Queued(c, <<"worker", id>>)'
        PROVE  /\ id <= tests.made
               /\ \A j \in DOMAIN tests.registry : tests.registry[j].id # id
               /\ \A j \in DOMAIN a : a[j].id = id => a[j].started
    <3>1. InQueue(rq'[c], <<"worker", id>>)
      BY <2>4 DEF Queued, InQueue
    <3>2. CASE InQueue(rq[c], <<"worker", id>>)
      <4>1. Queued(c, <<"worker", id>>)
        BY <3>2 DEF Queued, InQueue
      <4>2. id <= tests.made /\ \A j \in DOMAIN tests.registry : tests.registry[j].id # id
        BY <4>1 DEF WorkersOf
      <4>. QED BY <1>6, <1>8, <4>1, <4>2
    <3>3. CASE i # NULL /\ id = list[i].id
      <4>1. i = 1 /\ 1 \in DOMAIN a /\ a[1].started /\ 1 \in DOMAIN list
        BY <1>8, <3>3
      <4>2. id \in 1 .. tests.made /\ tests.made \in Nat
        BY <1>6, <3>3, <4>1 DEF Instances
      <4>3. \A j \in DOMAIN tests.registry : tests.registry[j].id # id
        BY <1>6, <3>3, <4>1 DEF Apart
      <4>4. \A j \in DOMAIN a : a[j].id = id => j = 1
        BY <1>6, <1>8, <3>3, <4>1 DEF Distinct
      <4>. QED BY <4>1, <4>2, <4>3, <4>4
    <3>. QED BY <1>9, <3>1, <3>2, <3>3
  <2>. QED BY <1>0, <1>5, <2>2, <2>3, <2>4 DEF WorkersOf, WorkersQueued
<1>14. TestsInv'
  BY <1>10, <1>11, <1>12, <1>13 DEF TestsInv
<1>. QED BY <1>9, <1>14

(* selftest_run() touches only workers' entries. *)
LEMMA TasksWorkers ==
  ASSUME BootInv, LaunchInv, UNCHANGED <<machine, pc, conf>>, UNCHANGED launching,
         rq' \in [Cpus -> Seq(Entries)], \A c \in Cpus : NoRepeat(rq'[c]),
         \A c \in Cpus : \A e : e[1] # "worker" => (InQueue(rq'[c], e) <=> InQueue(rq[c], e))
  PROVE  Lists' /\ TasksInv'
<1>0. /\ Cpus' = Cpus /\ Bsp' = Bsp /\ lock' = lock /\ scan' = scan /\ argv' = argv
      /\ failed' = failed
  BY SameMachine DEF launching
<1>1. Lists /\ Locked /\ Positions /\ Launched /\ Arguments /\ (pc[Bsp] \in Early => Quiet)
  BY DEF LaunchInv, TasksInv
<1>2. Lists'
  BY <1>0, <1>1 DEF Lists, NoRepeat, Tasks
<1>3. \A c \in Cpus, k \in Confs : \A i : Queued(c, <<k, i>>)' <=> Queued(c, <<k, i>>)
  <2>. SUFFICES ASSUME NEW c \in Cpus, NEW k \in Confs, NEW i
                PROVE  Queued(c, <<k, i>>)' <=> Queued(c, <<k, i>>)
    OBVIOUS
  <2>1. PICK e : e = <<k, i>>
    OBVIOUS
  <2>2. e[1] # "worker"
    BY <2>1 DEF Confs
  <2>3. InQueue(rq'[c], e) <=> InQueue(rq[c], e)
    BY <2>2
  <2>. QED BY <2>1, <2>3 DEF Queued, InQueue
<1>4. Locked'
  BY <1>0, <1>1 DEF Locked
<1>5. Positions'
  BY <1>0, <1>1 DEF Positions, PositionAt, Tasks, Record
<1>6. Launched'
  <2>. SUFFICES ASSUME NEW c \in Cpus, NEW k \in Confs PROVE QueuedBehind(c, k)' /\ BehindQueued(c, k)'
    BY <1>0 DEF Launched
  <2>1. QueuedBehind(c, k) /\ BehindQueued(c, k)
    BY <1>1 DEF Launched
  <2>2. QueuedBehind(c, k)'
    BY <1>0, <1>3, <2>1 DEF QueuedBehind, Past, Tasks
  <2>3. SameTasks
    BY <1>1, SameConf
  <2>4. \A i \in Tasks(k) : Launchable(k, i)' <=> Launchable(k, i)
    BY <2>3, SameLaunchable
  <2>5. BehindQueued(c, k)'
    BY <1>0, <1>3, <2>1, <2>4 DEF BehindQueued, Past, Tasks
  <2>. QED BY <2>2, <2>5
<1>7. TaskThreads' = TaskThreads
  <2>1. \A c \in Cpus : Len(rq[c]) \in Nat /\ DOMAIN rq[c] = 1 .. Len(rq[c])
                        /\ Len(rq'[c]) \in Nat /\ DOMAIN rq'[c] = 1 .. Len(rq'[c])
    BY <1>1 DEF Lists
  <2>. DEFINE T == Confs \X (1 .. Len(conf.task.head) + Len(conf.test.head))
  <2>2. TaskThreads = {t \in T : \E c \in Cpus : InQueue(rq[c], t)}
    BY ZenonT(60), <2>1 DEF TaskThreads, InQueue, Confs
  <2>3. TaskThreads' = {t \in T : \E c \in Cpus : InQueue(rq'[c], t)}
    <3>1. TaskThreads' = {t \in T : \E c \in Cpus : \E n \in 1 .. Len(rq'[c]) : rq'[c][n] = t}
      BY <1>0 DEF TaskThreads, Confs
    <3>2. \A c \in Cpus : \A t : InQueue(rq'[c], t) <=> \E n \in 1 .. Len(rq'[c]) : rq'[c][n] = t
      BY <2>1 DEF InQueue
    <3>. HIDE DEF T
    <3>. QED BY <3>1, <3>2
  <2>4. \A t \in T : t[1] # "worker"
    BY DEF Confs
  <2>. HIDE DEF T
  <2>. QED BY <2>2, <2>3, <2>4
<1>8. Arguments'
  <2>1. Held' <=> Held
    BY <1>0 DEF Held, Tasks
  <2>. QED BY <1>0, <1>1, <1>7, <2>1 DEF Arguments, Tasks
<1>9. (pc[Bsp] \in Early => Quiet)'
  BY <1>0, <1>1, <1>3 DEF Quiet, Tasks
<1>. QED BY <1>2, <1>4, <1>5, <1>6, <1>8, <1>9 DEF TasksInv

(* The first self-test starts; the tasks have not. *)
LEMMA TestsFirst ==
  ASSUME BootInv, BootInv', LaunchInv, StartFirst
  PROVE  LaunchInv'
<1>1. /\ UNCHANGED <<machine, conf>> /\ pc[Bsp] = "apply" /\ pc' = [pc EXCEPT ![Bsp] = "launch"]
      /\ UNCHANGED <<lock, scan, argv, failed>> /\ selftest_run(tests.active, tests.judged)
  BY DEF StartFirst, launching, config, Goto
<1>2. pc[Bsp] \in Early /\ "launch" \notin Early /\ Bsp \in Cpus /\ pc \in [Cpus -> BspPlaces \cup ApPlaces]
  BY <1>1, MachineFacts DEF Early, Coming, Alone, BootInv, Shapes
<1>3. pc'[Bsp] = "launch" /\ \A c \in Cpus : c # Bsp => pc'[c] = pc[c]
  BY <1>1, <1>2
<1>4. Lists /\ Instances /\ Identities /\ HeadOnly /\ WorkersOf
  BY DEF LaunchInv, TestsInv
<1>5. WaitingList(tests.active, tests.judged)
  BY <1>2, <1>4 DEF WaitingList, Instances, Identities, HeadOnly, WorkersOf
<1>6. PICK list, judged : list = tests.active /\ judged = tests.judged
  OBVIOUS
<1>7. WaitingList(list, judged) /\ selftest_run(list, judged) /\ machine' = machine /\ pc'[Bsp] \notin Early
  BY <1>1, <1>2, <1>3, <1>5, <1>6
<1>8. /\ TestsInv' /\ rq' \in [Cpus -> Seq(Entries)] /\ \A c \in Cpus : NoRepeat(rq'[c])
      /\ \A c \in Cpus : \A e : InQueue(rq'[c], e) <=>
            InQueue(rq[c], e) \/ (InQueue(rq'[c], e) /\ e[1] = "worker")
  BY <1>4, <1>7, RunTests
<1>9. Lists' /\ TasksInv'
  <2>1. /\ \A k \in Confs : /\ conf[k].started_cpus = {} /\ IsSeq(conf[k].head)
                            /\ \A i \in DOMAIN conf[k].head :
                                  IsTask(conf[k].head[i]) /\ ~conf[k].head[i].argv
        /\ \A c \in Cpus, k \in Confs, i \in Nat : ~ \E n \in DOMAIN rq[c] : rq[c][n] = <<k, i>>
        /\ \A c \in Cpus : pc[c] \notin {"scan", "create"}
    BY <1>2, EarlyFacts
  <2>2. \A c \in Cpus, k \in Confs, i \in Nat : ~ \E n \in DOMAIN rq'[c] : rq'[c][n] = <<k, i>>
    <3>. SUFFICES ASSUME NEW c \in Cpus, NEW k \in Confs, NEW i \in Nat PROVE ~InQueue(rq'[c], <<k, i>>)
      BY DEF InQueue
    <3>1. PICK e : e = <<k, i>>
      OBVIOUS
    <3>2. e[1] # "worker"
      BY <3>1 DEF Confs
    <3>3. InQueue(rq'[c], e) <=> InQueue(rq[c], e)
      BY <1>8, <3>2
    <3>. QED BY <2>1, <3>1, <3>3 DEF InQueue
  <2>3. \A c \in Cpus : pc'[c] \notin {"scan", "create"}
    BY <1>3, <2>1
  <2>4. \A c \in Cpus : \A m, n \in DOMAIN rq'[c] : m # n => rq'[c][m] # rq'[c][n]
    BY <1>8 DEF NoRepeat
  <2>5. \A k \in Confs : /\ conf'[k].started_cpus = {} /\ IsSeq(conf'[k].head)
                         /\ \A i \in DOMAIN conf'[k].head :
                               IsTask(conf'[k].head[i]) /\ ~conf'[k].head[i].argv
    BY <1>1, <2>1
  <2>6. rq' \in [Cpus -> Seq(Entries)]
    BY <1>8
  <2>. QED BY <1>1, <1>2, <2>2, <2>3, <2>4, <2>5, <2>6, EarlyStep
<1>. QED BY <1>8, <1>9 DEF LaunchInv

(* The first of the active list has been judged: the next one starts. *)
LEMMA TestsTick ==
  ASSUME BootInv, LaunchInv, selftest_tick
  PROVE  LaunchInv'
<1>1. PICK i \in DOMAIN tests.active :
         /\ tests.active[i].started
         /\ selftest_run(Removed(tests.active, i),
               Append(tests.judged, [test |-> tests.active[i].test, id |-> tests.active[i].id,
                   ok |-> ~tests.active[i].prepare_failed /\ tests.active[i].passed]))
  BY DEF selftest_tick
<1>2. UNCHANGED <<machine, pc, conf>> /\ UNCHANGED launching /\ pc[0] = "run"
  BY DEF selftest_tick, config
<1>3. Lists /\ Instances /\ Identities /\ HeadOnly /\ WorkersOf
  BY DEF LaunchInv, TestsInv
<1>4. i = 1 /\ tests.active[i].started
  BY <1>1, <1>3 DEF HeadOnly
<1>5. pc[Bsp] \notin Early /\ pc'[Bsp] \notin Early
  <2>1. pc[Bsp] \notin Early
    BY <1>1, <1>3 DEF HeadOnly
  <2>. QED BY <1>2, <2>1, SameMachine
<1>6. PICK list : list = Removed(tests.active, i)
  OBVIOUS
<1>7. PICK v : v = [test |-> tests.active[i].test, id |-> tests.active[i].id,
                    ok |-> ~tests.active[i].prepare_failed /\ tests.active[i].passed]
  OBVIOUS
<1>8. PICK old : old = tests.judged
  OBVIOUS
<1>9. PICK judged : judged = Append(old, v)
  OBVIOUS
<1>10. selftest_run(list, judged)
  BY <1>1, <1>6, <1>7, <1>8, <1>9
<1>11. PICK act : act = tests.active
  OBVIOUS
<1>12. /\ IsSeq(act) /\ IsSeq(old) /\ i \in DOMAIN act /\ Distinct(act) /\ Distinct(old)
       /\ Apart(act, old) /\ Apart(tests.registry, act) /\ Apart(tests.registry, old)
       /\ \A j \in DOMAIN act : IsInstance(act[j]) /\ act[j].id \in 1 .. tests.made
       /\ \A j \in DOMAIN old : old[j].id \in 1 .. tests.made
       /\ \A j \in DOMAIN act : j # i => ~act[j].started
  BY <1>3, <1>4, <1>8, <1>11 DEF Instances, Identities, HeadOnly
<1>13. v.id = act[i].id /\ v.test = act[i].test /\ (v.ok => ~act[i].prepare_failed)
  BY <1>7, <1>11
<1>14. IsSeq(list) /\ Distinct(list) /\ \A j \in DOMAIN list : \E m \in DOMAIN act : m # i /\ list[j] = act[m]
  <2>1. list = Removed(act, i)
    BY <1>6, <1>11
  <2>. QED BY ONLY <1>12, <2>1, RemovedIds
<1>15. /\ IsSeq(judged)
       /\ \A j \in DOMAIN judged : \/ j \in DOMAIN old /\ judged[j] = old[j]
                                   \/ j = Len(old) + 1 /\ judged[j] = v
  <2>1. /\ IsSeq(judged) /\ Len(old) \in Nat /\ DOMAIN old = 1 .. Len(old)
        /\ DOMAIN judged = 1 .. Len(old) + 1 /\ judged[Len(old) + 1] = v
        /\ \A j \in DOMAIN old : judged[j] = old[j]
    BY ONLY <1>9, <1>12, AppendSeq
  <2>. QED BY ONLY <2>1
<1>16. WaitingList(list, judged)
  <2>1. \A j \in DOMAIN list : /\ IsInstance(list[j]) /\ list[j].id \in 1 .. tests.made
                               /\ ~list[j].started /\ list[j].id # v.id
    BY <1>12, <1>13, <1>14 DEF Distinct
  <2>2. \A j \in DOMAIN judged : judged[j].id \in 1 .. tests.made
    BY <1>12, <1>13, <1>15
  <2>3. Distinct(judged)
    BY <1>12, <1>13, <1>15 DEF Distinct, Apart
  <2>4. Apart(list, judged)
    <3>. SUFFICES ASSUME NEW j \in DOMAIN list, NEW n \in DOMAIN judged PROVE list[j].id # judged[n].id
      BY DEF Apart
    <3>1. PICK m \in DOMAIN act : m # i /\ list[j] = act[m]
      BY <1>14
    <3>. QED BY <1>12, <1>15, <2>1, <3>1 DEF Apart
  <2>5. Apart(tests.registry, list)
    BY <1>12, <1>14 DEF Apart
  <2>6. Apart(tests.registry, judged)
    BY <1>12, <1>13, <1>15 DEF Apart
  <2>7. \A j \in DOMAIN judged : judged[j].ok => WorkersQueued(judged[j])
    <3>. SUFFICES ASSUME NEW j \in DOMAIN judged, judged[j].ok PROVE WorkersQueued(judged[j])
      OBVIOUS
    <3>1. CASE j \in DOMAIN old /\ judged[j] = old[j]
      BY <1>3, <1>8, <3>1 DEF WorkersOf
    <3>2. CASE judged[j] = v
      <4>1. PICK a : a = act[i]
        OBVIOUS
      <4>2. WorkersQueued(a)
        BY <1>3, <1>4, <1>11, <1>12, <1>13, <3>2, <4>1 DEF WorkersOf
      <4>. QED BY <1>13, <3>2, <4>1, <4>2 DEF WorkersQueued
    <3>. QED BY <1>15, <3>1, <3>2
  <2>8. \A c \in Cpus : \A id \in Nat : Queued(c, <<"worker", id>>) =>
           \A j \in DOMAIN list : list[j].id # id
    <3>. SUFFICES ASSUME NEW c \in Cpus, NEW id \in Nat, Queued(c, <<"worker", id>>),
                         NEW j \in DOMAIN list
                  PROVE  list[j].id # id
      OBVIOUS
    <3>1. PICK m \in DOMAIN act : m # i /\ list[j] = act[m]
      BY <1>14
    <3>2. act[m].id = id => act[m].started
      BY <1>3, <1>11 DEF WorkersOf
    <3>. QED BY <1>12, <3>1, <3>2
  <2>. QED BY <1>14, <1>15, <2>1, <2>2, <2>3, <2>4, <2>5, <2>6, <2>7, <2>8 DEF WaitingList
<1>17. /\ TestsInv' /\ rq' \in [Cpus -> Seq(Entries)] /\ \A c \in Cpus : NoRepeat(rq'[c])
       /\ \A c \in Cpus : \A e : InQueue(rq'[c], e) <=>
             InQueue(rq[c], e) \/ (InQueue(rq'[c], e) /\ e[1] = "worker")
  BY <1>2, <1>3, <1>5, <1>10, <1>16, RunTests
<1>18. \A c \in Cpus : \A e : e[1] # "worker" => (InQueue(rq'[c], e) <=> InQueue(rq[c], e))
  BY <1>17
<1>19. Lists' /\ TasksInv'
  BY <1>2, <1>17, <1>18, TasksWorkers
<1>. QED BY <1>17, <1>19 DEF LaunchInv

(* A test answers: its instance is the same and stays where it is. *)
LEMMA TestsAnswer ==
  ASSUME BootInv, LaunchInv, TestFinishes
  PROVE  LaunchInv'
<1>1. UNCHANGED <<machine, pc, conf, rq>> /\ UNCHANGED launching
  BY DEF TestFinishes, config
<1>2. PICK i \in DOMAIN tests.active, ok \in BOOLEAN :
         /\ tests.active[i].started /\ ~tests.active[i].prepare_failed
         /\ tests' = [tests EXCEPT !.active[i].done = TRUE, !.active[i].passed = ok]
  BY DEF TestFinishes
<1>3. Lists /\ Instances /\ Identities /\ HeadOnly /\ WorkersOf
  BY DEF LaunchInv, TestsInv
<1>4. Cpus' = Cpus /\ Bsp' = Bsp
  BY <1>1, SameMachine
<1>5. PICK act : act = tests.active
  OBVIOUS
<1>6. PICK y : y = act[i]
  OBVIOUS
<1>7. PICK x : x = [y EXCEPT !.done = TRUE, !.passed = ok]
  OBVIOUS
<1>8. PICK a : a = [act EXCEPT ![i] = x]
  OBVIOUS
<1>9. /\ IsInstance(x) /\ x.id = y.id /\ x.test = y.test /\ x.started = y.started
      /\ x.prepare_failed = y.prepare_failed
  <2>1. IsInstance(y)
    BY <1>3, <1>5, <1>6 DEF Instances
  <2>. QED BY ONLY <1>7, <2>1 DEF IsInstance
<1>10. /\ IsSeq(a) /\ DOMAIN a = DOMAIN act /\ a[i] = x /\ \A j \in DOMAIN act : j # i => a[j] = act[j]
  <2>1. IsSeq(act) /\ i \in DOMAIN act
    BY <1>3, <1>5 DEF Instances
  <2>. QED BY ONLY <1>8, <2>1, ReplaceSeq
<1>11. tests' = [registry |-> tests.registry, active |-> a, judged |-> tests.judged, made |-> tests.made]
  <2>1. tests = [registry |-> tests.registry, active |-> act,
                 judged |-> tests.judged, made |-> tests.made]
    BY <1>3, <1>5 DEF Instances
  <2>2. tests' = [tests EXCEPT !.active = a]
    <3>1. IsSeq(act) /\ i \in DOMAIN act /\ IsInstance(y)
      BY <1>3, <1>5, <1>6 DEF Instances
    <3>. QED BY <1>2, <1>5, <1>6, <1>7, <1>8
  <2>. QED BY ONLY <2>1, <2>2
<1>12. /\ tests'.registry = tests.registry /\ tests'.active = a /\ tests'.judged = tests.judged
       /\ tests'.made = tests.made
  BY ONLY <1>11
<1>13. /\ DOMAIN a = DOMAIN act
       /\ \A j \in DOMAIN act : /\ a[j].id = act[j].id /\ a[j].test = act[j].test
                                /\ a[j].started = act[j].started
                                /\ a[j].prepare_failed = act[j].prepare_failed
                                /\ IsInstance(act[j]) => IsInstance(a[j])
  BY <1>6, <1>9, <1>10
<1>14. Instances'
  BY <1>3, <1>5, <1>10, <1>11, <1>12, <1>13 DEF Instances
<1>15. Identities'
  BY <1>3, <1>5, <1>12, <1>13 DEF Identities, Distinct, Apart
<1>16. HeadOnly'
  BY <1>1, <1>3, <1>4, <1>5, <1>12, <1>13 DEF HeadOnly
<1>17. WorkersOf'
  <2>1. \A c \in Cpus : \A e : Queued(c, e)' <=> Queued(c, e)
    BY <1>1 DEF Queued
  <2>2. \A j \in DOMAIN a : a[j].started /\ ~a[j].prepare_failed =>
           \A c \in Workers[a[j].test] \cap Cpus : Queued(c, <<"worker", a[j].id>>)
    BY <1>3, <1>5, <1>13 DEF WorkersOf, WorkersQueued
  <2>3. \A j \in DOMAIN tests.judged : tests.judged[j].ok =>
           \A c \in Workers[tests.judged[j].test] \cap Cpus : Queued(c, <<"worker", tests.judged[j].id>>)
    BY <1>3 DEF WorkersOf, WorkersQueued
  <2>4. \A c \in Cpus : \A id \in Nat : Queued(c, <<"worker", id>>) =>
           /\ id <= tests.made
           /\ \A j \in DOMAIN tests.registry : tests.registry[j].id # id
           /\ \A j \in DOMAIN a : a[j].id = id => a[j].started
    BY <1>3, <1>5, <1>13 DEF WorkersOf
  <2>. QED BY <1>4, <1>12, <2>1, <2>2, <2>3, <2>4 DEF WorkersOf, WorkersQueued
<1>18. Lists' /\ TasksInv'
  <2>1. rq' \in [Cpus -> Seq(Entries)] /\ \A c \in Cpus : NoRepeat(rq'[c])
    BY <1>1, <1>3 DEF Lists, NoRepeat
  <2>2. \A c \in Cpus : \A e : e[1] # "worker" => (InQueue(rq'[c], e) <=> InQueue(rq[c], e))
    BY <1>1
  <2>. QED BY <1>1, <2>1, <2>2, TasksWorkers
<1>. QED BY <1>14, <1>15, <1>16, <1>17, <1>18 DEF LaunchInv, TestsInv

(* Steps that leave the queues alone too. *)
LEMMA TestsSame ==
  ASSUME BootInv, TestsInv, UNCHANGED <<machine, tests, rq>>,
         pc'[Bsp] \in Early => pc[Bsp] \in Early
  PROVE  TestsInv'
<1>1. \A c \in Cpus, id \in Nat : Queued(c, <<"worker", id>>)' <=> Queued(c, <<"worker", id>>)
  BY DEF Queued
<1>2. UNCHANGED <<machine, tests>>
  OBVIOUS
<1>. QED BY <1>1, <1>2, TestsStay

(* Steps in which the bootstrap CPU moves on and reads nothing. *)
LEMMA BspGoesOn ==
  ASSUME BootInv, BootInv', LaunchInv,
         InitMemory \/ kernel_tests_run_bootstrap \/ InitDevices \/ CompleteRuntime \/ LoadEnd
  PROVE  LaunchInv'
<1>1. /\ pc[Bsp] \in Early /\ UNCHANGED <<machine, rq, conf, tests>> /\ UNCHANGED launching
      /\ \E w \in {"unit", "devices", "smp", "arrive", "apply", "panic"} : pc' = [pc EXCEPT ![Bsp] = w]
  <2>1. CASE LoadEnd
    BY <2>1 DEF LoadEnd, config, Goto, Early
  <2>2. CASE InitMemory
    BY <2>2 DEF InitMemory, BootStep, boot_phase_complete, Panic, Goto, config, testing, Early, Coming, Alone
  <2>3. CASE kernel_tests_run_bootstrap
    BY <2>3 DEF kernel_tests_run_bootstrap, BootStep, boot_phase_complete, Panic, Goto, config, testing,
                Early, Coming, Alone
  <2>4. CASE InitDevices
    BY <2>4 DEF InitDevices, BootStep, boot_phase_complete, Panic, Goto, config, testing, Early, Coming, Alone
  <2>5. CASE CompleteRuntime
    BY <2>5 DEF CompleteRuntime, BootStep, boot_phase_complete, Panic, Goto, config, testing, Early, Coming
  <2>. QED BY <2>1, <2>2, <2>3, <2>4, <2>5
<1>2. PICK w : w \notin {"scan", "create"} /\ pc' = [pc EXCEPT ![Bsp] = w]
  BY <1>1
<1>3. Lists' /\ TasksInv'
  BY <1>1, <1>2, EarlySame
<1>4. TestsInv'
  BY <1>1, TestsSame DEF LaunchInv
<1>. QED BY <1>3, <1>4 DEF LaunchInv

(* Steps of a CPU on its way to the loops, or past them. *)
LEMMA CpuGoesOn ==
  ASSUME BootInv, LaunchInv, NEW c \in Cpus,
         secondary_cpu_init(c) \/ wait_online(c) \/ SeeOnline(c) \/ boot_phase_wait_for(c) \/ Run(c)
  PROVE  LaunchInv'
<1>0. /\ pc \in [Cpus -> BspPlaces \cup ApPlaces] /\ DOMAIN rq = Cpus /\ Bsp \in Cpus
      /\ PositionAt(c) /\ rq \in [Cpus -> Seq(Entries)]
  BY MachineFacts DEF BootInv, Shapes, LaunchInv, TasksInv, Positions, Lists
<1>1. /\ UNCHANGED <<machine, rq, conf, tests>> /\ UNCHANGED launching
      /\ \E w : /\ pc' = [pc EXCEPT ![c] = w]
                /\ \/ pc[c] = "starting" /\ w \in {"arrive", "panic"}
                   \/ pc[c] = "arrive" /\ w = "wait"
                   \/ pc[c] = "wait" /\ w \in {"tests", "services", "panic"} /\ (c = Bsp => w # "services")
                   \/ pc[c] = "services" /\ w = "launch" /\ c # Bsp
                   \/ pc[c] = "ready" /\ w \in {"run", "panic"}
  <2>1. CASE secondary_cpu_init(c)
    <3>1. rq' = rq /\ (pc' = [pc EXCEPT ![c] = "arrive"] \/ pc' = [pc EXCEPT ![c] = "panic"])
      <4>1. CASE rq' = [rq EXCEPT ![c] = rq[c]] /\ pc' = [pc EXCEPT ![c] = "arrive"]
        BY <1>0, <4>1
      <4>2. CASE rq' = rq /\ pc' = [pc EXCEPT ![c] = "panic"]
        BY <4>2
      <4>. QED BY <2>1, <4>1, <4>2 DEF secondary_cpu_init, InstallContext, Panic, Goto
    <3>. QED BY <2>1, <3>1 DEF secondary_cpu_init, config, testing
  <2>2. CASE wait_online(c)
    BY <2>2 DEF wait_online, Goto, config, testing
  <2>3. CASE SeeOnline(c)
    <3>1. pc[c] = "wait" /\ UNCHANGED <<machine, rq, conf, tests>> /\ UNCHANGED launching
      BY <2>3 DEF SeeOnline, config, testing
    <3>2. CASE c = Bsp
      <4>1. pc' = [pc EXCEPT ![c] = "tests"] \/ pc' = [pc EXCEPT ![c] = "panic"]
        BY <2>3, <3>2 DEF SeeOnline, boot_phase_complete, Goto, Panic
      <4>. QED BY <3>1, <4>1
    <3>3. CASE c # Bsp
      <4>1. pc' = [pc EXCEPT ![c] = "services"]
        BY <2>3, <3>3 DEF SeeOnline, Goto
      <4>. QED BY <3>1, <3>3, <4>1
    <3>. QED BY <3>2, <3>3
  <2>4. CASE boot_phase_wait_for(c)
    BY <2>4 DEF boot_phase_wait_for, Goto, config, testing
  <2>5. CASE Run(c)
    <3>1. pc[c] = "ready" /\ UNCHANGED <<machine, rq, conf, tests>> /\ UNCHANGED launching
      BY <2>5 DEF Run, config, testing
    <3>2. pc' = [pc EXCEPT ![c] = "run"] \/ pc' = [pc EXCEPT ![c] = "panic"]
      BY <2>5 DEF Run, boot_phase_complete, Goto, Panic
    <3>. QED BY <3>1, <3>2
  <2>. QED BY <2>1, <2>2, <2>3, <2>4, <2>5
<1>2. PICK w : /\ pc' = [pc EXCEPT ![c] = w]
               /\ \/ pc[c] = "starting" /\ w \in {"arrive", "panic"}
                  \/ pc[c] = "arrive" /\ w = "wait"
                  \/ pc[c] = "wait" /\ w \in {"tests", "services", "panic"} /\ (c = Bsp => w # "services")
                  \/ pc[c] = "services" /\ w = "launch" /\ c # Bsp
                  \/ pc[c] = "ready" /\ w \in {"run", "panic"}
  BY <1>1
<1>3. pc[c] \notin {"scan", "create", "panic"} /\ w \notin {"scan", "create"}
  BY <1>2
<1>4. scan[c] = NULL \/ (w # "launch" /\ w \in {"panic"} \cup Launching)
  BY <1>0, <1>2 DEF PositionAt, Launching
<1>5. c = Bsp /\ w \in Early => pc[c] \in Early
  BY <1>2 DEF Early, Coming, Alone
<1>6. Lists' /\ TasksInv'
  BY <1>1, <1>2, <1>3, <1>4, <1>5, TasksStay
<1>7. TestsInv'
  BY <1>0, <1>1, <1>2, <1>5, TestsSame DEF LaunchInv
<1>. QED BY <1>6, <1>7 DEF LaunchInv

(* The launch loops queue tasks and no workers. *)
LEMMA LoopsQueueTasks ==
  ASSUME BootInv, LaunchInv, NEW c \in Cpus,
         ClaimCpu(c) \/ ScanTask(c) \/ CreateTask(c) \/ ScanEnd(c)
  PROVE  LaunchInv'
<1>0. /\ pc \in [Cpus -> BspPlaces \cup ApPlaces] /\ Bsp \in Cpus /\ rq \in [Cpus -> Seq(Entries)]
  BY MachineFacts DEF BootInv, Shapes, LaunchInv, Lists
<1>1. Lists' /\ TasksInv'
  BY TasksClaim, TasksScan, TasksCreate, TasksEnd
<1>2. /\ machine' = machine /\ tests' = tests
      /\ \/ pc' = pc
         \/ \E w \in {"scan", "panic", "launch", "ready", "create"} : pc' = [pc EXCEPT ![c] = w]
      /\ \/ rq' = rq
         \/ pc[c] = "create" /\ rq' = [rq EXCEPT ![c] = Append(@, ThisTask(c))]
  <2>1. CASE ClaimCpu(c)
    BY <2>1 DEF ClaimCpu, Goto, testing
  <2>2. CASE ScanTask(c)
    BY <2>2 DEF ScanTask, SkipTask, LaunchPanics, task_build_argv, Goto, Panic, testing
  <2>3. CASE CreateTask(c)
    BY <2>3 DEF CreateTask, Goto, Panic, testing
  <2>4. CASE ScanEnd(c)
    BY <2>4 DEF ScanEnd, Goto, testing
  <2>. QED BY <2>1, <2>2, <2>3, <2>4
<1>3. pc'[Bsp] \in Early => pc[Bsp] \in Early
  <2>1. \A w \in {"scan", "panic", "launch", "ready", "create"} : w \notin Early
    BY DEF Early, Coming, Alone
  <2>. QED BY <1>0, <1>2, <2>1
<1>4. \A d \in Cpus, id \in Nat : Queued(d, <<"worker", id>>)' <=> Queued(d, <<"worker", id>>)
  <2>1. CASE rq' = rq
    BY <2>1 DEF Queued
  <2>2. CASE pc[c] = "create" /\ rq' = [rq EXCEPT ![c] = Append(@, ThisTask(c))]
    <3>1. PICK k \in Confs, p \in Nat \ {0} : scan[c] = [conf |-> k, pos |-> p]
      BY <2>2, InLoop
    <3>2. PICK e : e = ThisTask(c)
      OBVIOUS
    <3>3. e[1] # "worker"
      BY <3>1, <3>2 DEF ThisTask, Confs
    <3>4. /\ Len(rq[c]) \in Nat /\ DOMAIN rq[c] = 1 .. Len(rq[c]) /\ rq'[c] = Append(rq[c], e)
          /\ \A d \in Cpus : d # c => rq'[d] = rq[d]
      BY <1>0, <2>2, <3>2
    <3>5. PICK q, r : q = rq[c] /\ r = rq'[c]
      OBVIOUS
    <3>6. q \in Seq(Entries) /\ r = Append(q, e)
      BY <1>0, <3>4, <3>5
    <3>7. /\ DOMAIN q = 1 .. Len(q) /\ DOMAIN r = 1 .. Len(q) + 1 /\ r[Len(q) + 1] = e
          /\ Len(q) \in Nat /\ \A i \in DOMAIN q : r[i] = q[i]
      <4>1. IsSeq(q)
        BY <3>6 DEF IsSeq
      <4>. QED BY ONLY <3>6, <4>1, AppendSeq
    <3>8. \A x : x[1] = "worker" => (InQueue(r, x) <=> InQueue(q, x))
      <4>1. \A i \in DOMAIN r : i = Len(q) + 1 \/ i \in DOMAIN q
        BY <3>7
      <4>2. \A i \in DOMAIN q : i \in DOMAIN r
        BY <3>7
      <4>. QED BY <3>3, <3>7, <4>1, <4>2 DEF InQueue
    <3>9. ASSUME NEW d \in Cpus, NEW id \in Nat
          PROVE  Queued(d, <<"worker", id>>)' <=> Queued(d, <<"worker", id>>)
      <4>1. PICK x : x = <<"worker", id>>
        OBVIOUS
      <4>2. x[1] = "worker"
        BY <4>1
      <4>3. InQueue(rq'[d], x) <=> InQueue(rq[d], x)
        BY <3>4, <3>5, <3>8, <4>2
      <4>. QED BY <4>1, <4>3 DEF Queued, InQueue
    <3>. QED BY <3>9
  <2>. QED BY <1>2, <2>1, <2>2
<1>5. UNCHANGED <<machine, tests>> /\ TestsInv
  BY <1>2 DEF LaunchInv
<1>6. TestsInv'
  BY <1>3, <1>4, <1>5, TestsStay
<1>. QED BY <1>1, <1>6 DEF LaunchInv

(* A set of naturals that is not empty has a least member. *)
LEMMA LeastNatural ==
  ASSUME NEW S \in SUBSET Nat, S # {}
  PROVE  \E x \in S : \A y \in S : x <= y
<1>. DEFINE R == {ss \in Nat \X Nat : ss[1] < ss[2]}
<1>1. IsWellFoundedOn(R, Nat)
  BY NatLessThanWellFounded DEF OpToRel
<1>. HIDE DEF R
<1>2. PICK x \in S : \A y \in S : ~ (<<y, x>> \in R)
  BY <1>1, WFMin
<1>3. \A y \in S : ~ (y < x)
  BY <1>2 DEF R
<1>. QED BY <1>3

(* The bootstrap CPU starts the others, reads the configurations, loads    *)
(* and applies the self-tests.                                             *)
LEMMA BspReads ==
  ASSUME BootInv, BootInv', LaunchInv,
         start_smp \/ initialize_boot_tasks \/ ParseLine \/ ParseEnd
  PROVE  LaunchInv'
<1>0. TestsInv /\ rq \in [Cpus -> Seq(Entries)] /\ Bsp \in Cpus
  BY MachineFacts DEF LaunchInv, Lists, BootInv
<1>1. CASE start_smp
  <2>1. Lists' /\ TasksInv'
    BY <1>1, EarlySmp
  <2>2. UNCHANGED <<machine, tests>> /\ pc[Bsp] \in Early
    BY <1>1 DEF start_smp, testing, Early, Coming, Alone
  <2>3. rq' = rq \/ rq' = [rq EXCEPT ![Bsp] = << <<"main", 0>> >>]
    BY <1>1 DEF start_smp, InstallContext
  <2>4. \A c \in Cpus, id \in Nat : Queued(c, <<"worker", id>>)' => Queued(c, <<"worker", id>>)
    <3>1. CASE rq' = rq
      BY <3>1 DEF Queued
    <3>2. CASE rq' = [rq EXCEPT ![Bsp] = << <<"main", 0>> >>]
      <4>1. rq'[Bsp] = << <<"main", 0>> >> /\ \A c \in Cpus : c # Bsp => rq'[c] = rq[c]
        BY <1>0, <3>2
      <4>2. \A n \in DOMAIN rq'[Bsp] : rq'[Bsp][n] = <<"main", 0>>
        BY <4>1
      <4>3. \A id \in Nat : <<"main", 0>> # <<"worker", id>>
        OBVIOUS
      <4>. QED BY <4>1, <4>2, <4>3 DEF Queued
    <3>. QED BY <2>3, <3>1, <3>2
  <2>5. TestsInv'
    BY <1>0, <2>2, <2>4, TestsStay
  <2>. QED BY <2>1, <2>5 DEF LaunchInv
<1>2. CASE initialize_boot_tasks \/ ParseLine \/ ParseEnd
  <2>1. Lists' /\ TasksInv'
    BY <1>2, EarlyReads
  <2>2. UNCHANGED <<machine, tests, rq>> /\ pc[Bsp] \in Early
    <3>1. CASE initialize_boot_tasks
      BY <3>1 DEF initialize_boot_tasks, testing, Early, Coming
    <3>2. CASE ParseLine
      BY <3>2 DEF ParseLine, testing, Early, Coming
    <3>3. CASE ParseEnd
      BY <3>3 DEF ParseEnd, testing, Early, Coming
    <3>. QED BY <1>2, <3>1, <3>2, <3>3
  <2>3. TestsInv'
    BY <1>0, <2>2, TestsSame
  <2>. QED BY <2>1, <2>3 DEF LaunchInv
<1>. QED BY <1>1, <1>2

LEMMA BspTests ==
  ASSUME BootInv, BootInv', LaunchInv,
         RegisterBootTest \/ kernel_tests_start_config \/ LoadPayload \/ selftest_apply_all
  PROVE  LaunchInv'
<1>0. TestsInv
  BY DEF LaunchInv
<1>4. CASE RegisterBootTest
  <2>1. /\ UNCHANGED <<machine, rq, pc, conf>> /\ UNCHANGED launching /\ pc[Bsp] \in Early
    BY <1>4 DEF RegisterBootTest, Early, Coming, Alone, config
  <2>2. Lists' /\ TasksInv'
    <3>1. PICK w : w = "unit"
      OBVIOUS
    <3>. QED BY <2>1, <3>1, EarlySame
  <2>3. CASE tests' = tests
    <3>1. TestsInv'
      BY <1>0, <2>1, <2>3, TestsSame
    <3>. QED BY <2>2, <3>1 DEF LaunchInv
  <2>4. ASSUME NEW t, selftest_register(t) PROVE LaunchInv'
    <3>1. TestsInv'
      BY <1>0, <2>1, <2>4, Registers
    <3>. QED BY <2>2, <3>1 DEF LaunchInv
  <2>5. tests' = tests \/ \E t : selftest_register(t)
    BY <1>4 DEF RegisterBootTest
  <2>. QED BY <2>3, <2>4, <2>5
<1>1. CASE kernel_tests_start_config
  <2>1. Lists' /\ TasksInv'
    BY <1>1, EarlyTests
  <2>2. UNCHANGED <<machine, rq>> /\ pc[Bsp] \in Early
    BY <1>1 DEF kernel_tests_start_config, Early
  <2>3. tests' = tests \/ selftest_register(Builtin)
    BY <1>1 DEF kernel_tests_start_config
  <2>4. CASE tests' = tests
    <3>1. TestsInv'
      BY <1>0, <2>2, <2>4, TestsSame
    <3>. QED BY <2>1, <3>1 DEF LaunchInv
  <2>5. CASE selftest_register(Builtin)
    <3>1. TestsInv'
      BY <1>0, <2>2, <2>5, Registers
    <3>. QED BY <2>1, <3>1 DEF LaunchInv
  <2>. QED BY <2>3, <2>4, <2>5
<1>2. CASE LoadPayload
  <2>1. Lists' /\ TasksInv'
    BY <1>2, EarlyTests
  <2>2. UNCHANGED <<machine, rq>> /\ pc[Bsp] \in Early
    BY <1>2 DEF LoadPayload, Early
  <2>3. tests' = tests \/ \E t : selftest_register(t)
    BY <1>2 DEF LoadPayload
  <2>4. CASE tests' = tests
    <3>1. TestsInv'
      BY <1>0, <2>2, <2>4, TestsSame
    <3>. QED BY <2>1, <3>1 DEF LaunchInv
  <2>5. ASSUME NEW t, selftest_register(t) PROVE LaunchInv'
    <3>1. TestsInv'
      BY <1>0, <2>2, <2>5, Registers
    <3>. QED BY <2>1, <3>1 DEF LaunchInv
  <2>. QED BY <2>3, <2>4, <2>5
<1>3. CASE selftest_apply_all
  <2>1. /\ UNCHANGED <<machine, rq, pc, conf>> /\ UNCHANGED launching /\ pc[Bsp] \in Early
    BY ZenonT(60), <1>3 DEF selftest_apply_all, Early, config
  <2>2. Lists' /\ TasksInv'
    <3>1. PICK w : w = "apply"
      OBVIOUS
    <3>. QED BY <2>1, <3>1, EarlySame
  <2>3. CASE tests' = tests
    <3>1. TestsInv'
      BY <1>0, <2>1, <2>3, TestsSame
    <3>. QED BY <2>2, <3>1 DEF LaunchInv
  <2>4. CASE tests' # tests
    <3>1. PICK d : \E failing \in BOOLEAN :
             LET found == {i \in DOMAIN tests.registry : tests.registry[i].test = d.test}
             IN  IF found = {} THEN ~failing /\ UNCHANGED tests
                 ELSE \E i \in {CHOOSE i \in found : \A j \in found : i <= j} :
                         tests' = [tests EXCEPT
                             !.registry = Removed(@, i),
                             !.active = Append(@, [tests.registry[i] EXCEPT
                                 !.prepare_failed = failing, !.module = d.module_id])]
      BY Zenon, <1>3 DEF selftest_apply_all
    <3>. DEFINE found == {i \in DOMAIN tests.registry : tests.registry[i].test = d.test}
                n == CHOOSE i \in found : \A j \in found : i <= j
    <3>2. PICK failing \in BOOLEAN :
             /\ found # {}
             /\ tests' = [tests EXCEPT
                   !.registry = Removed(@, n),
                   !.active = Append(@, [tests.registry[n] EXCEPT
                       !.prepare_failed = failing, !.module = d.module_id])]
      BY <2>4, <3>1
    <3>3. n \in found
      <4>1. found \subseteq Nat /\ found # {}
        BY <1>0, <3>2, SeqFacts DEF TestsInv, Instances
      <4>2. \E i \in found : \A j \in found : i <= j
        <5>. HIDE DEF found
        <5>. QED BY <4>1, LeastNatural
      <4>. HIDE DEF found
      <4>. QED BY <4>2
    <3>4. tests' = [tests EXCEPT
             !.registry = Removed(@, n),
             !.active = Append(@, [tests.registry[n] EXCEPT
                 !.prepare_failed = failing, !.module = d.module_id])]
      BY <3>2
    <3>5. n \in DOMAIN tests.registry
      BY <3>3
    <3>. HIDE DEF n, found
    <3>6. TestsInv'
      BY <1>0, <2>1, <3>4, <3>5, Applies
    <3>. QED BY <2>2, <3>6 DEF LaunchInv
  <2>. QED BY SMTT(60), <2>3, <2>4
<1>. QED BY <1>1, <1>2, <1>3, <1>4

(* Nothing is launched, registered or queued at reset. *)
LEMMA LaunchInvInit == Init => LaunchInv
<1>. SUFFICES ASSUME Init PROVE LaunchInv
  OBVIOUS
<1>1. BootInv
  BY BootInvInit
<1>2. /\ lock = NULL /\ argv = 0 /\ failed = {} /\ scan = [c \in Cpus |-> NULL]
      /\ rq = [c \in Cpus |-> <<>>] /\ conf = [task |-> NoConf, test |-> NoConf]
      /\ pc = [c \in Cpus |-> IF c = Bsp THEN "memory" ELSE "off"]
      /\ tests = [registry |-> <<>>, active |-> <<>>, judged |-> <<>>, made |-> 0]
  BY DEF Init
<1>3. \A k \in Confs : conf[k].head = <<>> /\ conf[k].started_cpus = {}
  <2>1. NoConf.head = <<>> /\ NoConf.started_cpus = {}
    BY DEF NoConf
  <2>2. \A k \in Confs : conf[k] = NoConf
    BY <1>2 DEF Confs
  <2>. QED BY <2>1, <2>2
<1>4. \A k \in Confs : DOMAIN conf[k].head = {} /\ IsSeq(conf[k].head)
  BY <1>3, EmptySeq
<1>5. \A c \in Cpus : rq[c] = <<>> /\ DOMAIN rq[c] = {}
  BY <1>2, EmptySeq
<1>6. Lists
  <2>1. rq \in [Cpus -> Seq(Entries)]
    BY <1>2
  <2>. QED BY <1>4, <1>5, <2>1 DEF Lists, Tasks
<1>7. Quiet
  BY <1>2, <1>3, <1>4, <1>5 DEF Quiet, Queued, Tasks
<1>8. \A c \in Cpus : pc[c] \notin {"scan", "create"}
  BY <1>2
<1>9. TasksInv
  BY <1>1, <1>6, <1>7, <1>8, QuietTasks
<1>10. /\ tests.registry = <<>> /\ tests.active = <<>> /\ tests.judged = <<>> /\ tests.made = 0
       /\ DOMAIN tests.registry = {} /\ DOMAIN tests.active = {} /\ DOMAIN tests.judged = {}
  BY <1>2, EmptySeq
<1>11. TestsInv
  <2>1. Instances
    BY <1>2, <1>10, EmptySeq DEF Instances
  <2>2. Identities /\ HeadOnly
    BY <1>10 DEF Identities, Distinct, Apart, HeadOnly
  <2>3. WorkersOf
    BY <1>5, <1>10 DEF WorkersOf, Queued
  <2>. QED BY <2>1, <2>2, <2>3 DEF TestsInv
<1>. QED BY <1>6, <1>9, <1>11 DEF LaunchInv

LEMMA LaunchInvStep == BootInv /\ BootInv' /\ LaunchInv /\ [Next]_vars => LaunchInv'
<1>. SUFFICES ASSUME BootInv, BootInv', LaunchInv, [Next]_vars PROVE LaunchInv'
  OBVIOUS
<1>1. CASE UNCHANGED vars
  <2>1. UNCHANGED <<machine, pc, conf, rq, tests>> /\ UNCHANGED launching
    BY <1>1 DEF vars, launching
  <2>2. rq' \in [Cpus -> Seq(Entries)] /\ \A c \in Cpus : NoRepeat(rq'[c])
    BY <2>1 DEF LaunchInv, Lists, NoRepeat
  <2>3. \A c \in Cpus : \A e : e[1] # "worker" => (InQueue(rq'[c], e) <=> InQueue(rq[c], e))
    BY <2>1
  <2>4. Lists' /\ TasksInv'
    BY <2>1, <2>2, <2>3, TasksWorkers
  <2>5. TestsInv'
    BY <2>1, TestsSame DEF LaunchInv
  <2>. QED BY <2>4, <2>5 DEF LaunchInv
<1>2. CASE BspStep
  BY <1>2, BspGoesOn, BspReads, BspTests, TestsFirst DEF BspStep
<1>3. ASSUME NEW c \in Cpus, CpuStep(c) PROVE LaunchInv'
  BY <1>3, CpuGoesOn, LoopsQueueTasks DEF CpuStep
<1>4. CASE selftest_tick
  BY <1>4, TestsTick
<1>5. CASE TestFinishes
  BY <1>5, TestsAnswer
<1>. QED BY <1>1, <1>2, <1>3, <1>4, <1>5 DEF Next

(* The launch loops and the self-test session keep their lists in order on *)
(* every machine: who holds task_lock and where its loop is, what lies     *)
(* behind each loop is queued, which argument blocks are held by whom, and *)
(* every self-test instance is in one list, once.                          *)
THEOREM LaunchInvariant == Spec => []LaunchInv
<1>1. Init => BootInv /\ LaunchInv
  BY BootInvInit, LaunchInvInit
<1>2. BootInv /\ LaunchInv /\ [Next]_vars => (BootInv /\ LaunchInv)'
  BY BootInvStep, LaunchInvStep
<1>. QED BY <1>1, <1>2, PTL DEF Spec

(* Self-tests are configured, started and judged with every CPU there. *)
Awaited == tests.active # <<>> \/ tests.judged # <<>> => online = machine.cpus

LEMMA AwaitedStep == BootInv /\ LaunchInv /\ Awaited /\ [Next]_vars => Awaited'
<1>. SUFFICES ASSUME BootInv, LaunchInv, Awaited, [Next]_vars PROVE Awaited'
  OBVIOUS
<1>1. Shapes /\ Arrivals /\ Barrier
  BY DEF BootInv
<1>2. CASE UNCHANGED <<machine, online, tests>>
  BY <1>2 DEF Awaited
<1>3. CASE UNCHANGED <<machine, online>> /\ online = machine.cpus
  BY <1>3 DEF Awaited
<1>4. ASSUME NEW c \in Cpus, wait_online(c) PROVE Awaited'
  <2>1. pc[c] = "arrive" /\ UNCHANGED tests
    BY <1>4 DEF wait_online, testing
  <2>2. online # machine.cpus
    BY <1>1, <2>1, AllArrived DEF Coming
  <2>. QED BY <2>1, <2>2 DEF Awaited
<1>5. CASE RegisterBootTest
  <2>1. tests = [registry |-> tests.registry, active |-> tests.active,
                 judged |-> tests.judged, made |-> tests.made]
    BY DEF LaunchInv, TestsInv, Instances
  <2>2. tests' = tests \/ \E r, n : tests' = [tests EXCEPT !.registry = r, !.made = n]
    BY <1>5 DEF RegisterBootTest, selftest_register
  <2>3. tests'.active = tests.active /\ tests'.judged = tests.judged
    BY <2>1, <2>2
  <2>. QED BY <1>5, <2>3 DEF RegisterBootTest, Awaited
<1>6. CASE kernel_tests_start_config \/ LoadPayload \/ LoadEnd \/ selftest_apply_all \/ StartFirst
  <2>1. UNCHANGED <<machine, online>> /\ pc[Bsp] \in {"tests", "load", "apply"}
    BY ZenonT(60), <1>6 DEF kernel_tests_start_config, LoadPayload, LoadEnd, selftest_apply_all, StartFirst
  <2>. QED BY <1>1, <1>3, <2>1 DEF Barrier, Up
<1>7. CASE selftest_tick \/ TestFinishes
  <2>1. UNCHANGED <<machine, online>>
    BY <1>7 DEF selftest_tick, TestFinishes
  <2>. QED BY <1>3, <1>7, <2>1, TimerRuns
<1>8. CASE InitMemory \/ kernel_tests_run_bootstrap \/ InitDevices \/ CompleteRuntime
  BY <1>2, <1>8 DEF InitMemory, kernel_tests_run_bootstrap, InitDevices, CompleteRuntime, BootStep, testing
<1>9. CASE start_smp \/ initialize_boot_tasks \/ ParseLine \/ ParseEnd
  BY <1>2, <1>9 DEF start_smp, initialize_boot_tasks, ParseLine, ParseEnd, testing
<1>10. ASSUME NEW c \in Cpus, CpuStep(c), ~wait_online(c) PROVE Awaited'
  BY <1>2, <1>10 DEF CpuStep, secondary_cpu_init, SeeOnline, boot_phase_wait_for, ClaimCpu, ScanTask,
                     CreateTask, ScanEnd, Run, testing
<1>11. CASE UNCHANGED vars
  BY <1>2, <1>11 DEF vars
<1>. QED BY <1>4, <1>5, <1>6, <1>7, <1>8, <1>9, <1>10, <1>11 DEF Next, BspStep

(* The barrier of wait_online() and the phase SERVICES_READY work for      *)
(* every number of CPUs, every bootstrap CPU and every set of boot files:  *)
(* no thread is queued on a CPU without a context, no self-test is         *)
(* configured, started or judged before every CPU has come, whenever it    *)
(* was registered, and no other CPU launches tasks before the bootstrap    *)
(* CPU has read the configurations and claimed its own share of them.      *)
THEOREM BarrierHolds == Spec => []BootBarrier
<1>1. BootInv /\ Awaited => BootBarrier
  <2>. SUFFICES ASSUME BootInv, Awaited PROVE BootBarrier
    OBVIOUS
  <2>1. Shapes /\ Arrivals /\ Installed /\ Barrier /\ Configured
    BY DEF BootInv
  <2>2. \A c \in Cpus : rq[c] # <<>> => c \in ctx
    BY <2>1 DEF Installed
  <2>3. tests.active # <<>> \/ tests.judged # <<>> => ctx = Cpus /\ online = machine.cpus
    BY <2>1, AllArrived DEF Awaited
  <2>4. ASSUME NEW c \in Cpus \ {Bsp}, pc[c] \in {"launch", "scan", "create", "ready", "run"}
        PROVE  /\ pc[Bsp] = "run" /\ parse = NULL /\ Bsp \in conf["task"].started_cpus
               /\ TestingBoot => Bsp \in conf["test"].started_cpus
    <3>1. phase = 6
      BY <2>1, <2>4 DEF Barrier, Launching
    <3>2. pc[Bsp] = "run"
      BY <2>1, <3>1 DEF Barrier
    <3>. QED BY <2>1, <3>2 DEF Shapes, Configured, Launching
  <2>. QED BY <2>2, <2>3, <2>4 DEF BootBarrier
<1>2. Init => BootInv /\ LaunchInv /\ Awaited
  <2>1. Init => Awaited
    BY DEF Init, Awaited
  <2>. QED BY <2>1, BootInvInit, LaunchInvInit
<1>3. BootInv /\ LaunchInv /\ Awaited /\ [Next]_vars => (BootInv /\ LaunchInv /\ Awaited)'
  BY BootInvStep, LaunchInvStep, AwaitedStep
<1>. QED BY <1>1, <1>2, <1>3, PTL DEF Spec

(* A task is queued at most once and on the CPU it names, none that can    *)
(* run is forgotten when that CPU is through its list, and every argument  *)
(* block belongs to one thread or to the record being launched, also when  *)
(* a CPU stops creating its thread.                                        *)
THEOREM TasksAreLaunchedOnce == Spec => []TasksLaunchedOnce
<1>1. BootInv /\ LaunchInv => TasksLaunchedOnce
  <2>. SUFFICES ASSUME BootInv, LaunchInv PROVE TasksLaunchedOnce
    OBVIOUS
  <2>0. Lists /\ Locked /\ Positions /\ Launched /\ Arguments
    BY DEF LaunchInv, TasksInv
  <2>1. \A c \in Cpus : Len(rq[c]) \in Nat /\ DOMAIN rq[c] = 1 .. Len(rq[c])
    BY <2>0 DEF Lists
  <2>2. \A c \in Cpus : \A m, n \in 1 .. Len(rq[c]) : m # n => rq[c][m] # rq[c][n]
    BY <2>0, <2>1 DEF Lists
  <2>3. ASSUME NEW k \in Confs, NEW i \in Tasks(k), NEW c \in Cpus
        PROVE  /\ Queued(c, <<k, i>>) => conf[k].head[i].cpu = c /\ c \in conf[k].started_cpus
               /\ Scanned(k, c) /\ conf[k].head[i].cpu = c /\ Launchable(k, i) =>
                     Queued(c, <<k, i>>) \/ <<k, i>> \in failed
    <3>1. /\ Len(conf[k].head) \in Nat /\ Tasks(k) = 1 .. Len(conf[k].head) /\ i \in Nat
      BY <2>0, SeqFacts DEF Lists, Tasks
    <3>2. Queued(c, <<k, i>>) => conf[k].head[i].cpu = c /\ c \in conf[k].started_cpus
      BY <2>0, <3>1 DEF Launched, QueuedBehind
    <3>3. Scanned(k, c) => c \in conf[k].started_cpus /\ Past(c, k, i)
      <4>. SUFFICES ASSUME Scanned(k, c), scan[c].conf = k PROVE c \in conf[k].started_cpus /\ i < scan[c].pos
        BY DEF Past, Scanned
      <4>1. c \in conf[k].started_cpus /\ pc[c] \notin {"scan", "create", "panic"}
        BY DEF Scanned
      <4>2. PositionAt(c)
        BY <2>0 DEF Positions
      <4>3. scan[c].pos > Len(conf[k].head) /\ scan[c] \in [conf : Confs, pos : Nat \ {0}]
        BY <4>1, <4>2 DEF PositionAt
      <4>. QED BY <3>1, <4>1, <4>3
    <3>4. BehindQueued(c, k)
      BY <2>0 DEF Launched
    <3>. QED BY <3>2, <3>3, <3>4 DEF BehindQueued
  <2>4. argv = Cardinality(TaskThreads) + Cardinality(Holding)
    <3>. DEFINE N == Len(conf["task"].head) + Len(conf["test"].head)
    <3>0. \A k \in Confs : Tasks(k) \subseteq 1 .. N
      <4>1. \A k \in Confs : Len(conf[k].head) \in Nat /\ Tasks(k) = 1 .. Len(conf[k].head)
        BY <2>0, SeqFacts DEF Lists, Tasks
      <4>2. \A a, b \in Nat : 1 .. a \subseteq 1 .. (a + b) /\ 1 .. b \subseteq 1 .. (a + b)
        OBVIOUS
      <4>. QED BY <4>1, <4>2 DEF Confs
    <3>1. Holding = {t \in Confs \X (1 .. N) : t[2] \in Tasks(t[1]) /\ conf[t[1]].head[t[2]].argv}
      BY DEF Holding, Confs
    <3>. HIDE DEF N
    <3>2. CASE Held
      <4>1. PICK k \in Confs : \E i \in Tasks(k) : conf[k].head[i].argv
        BY <3>2 DEF Held
      <4>2. PICK i \in Tasks(k) : conf[k].head[i].argv
        BY <4>1
      <4>3. scan[lock] = [conf |-> k, pos |-> i]
        BY <2>0, <4>2 DEF Arguments
      <4>4. ASSUME NEW t \in Holding PROVE t = <<k, i>>
        <5>1. t \in Confs \X (1 .. N) /\ t[2] \in Tasks(t[1]) /\ conf[t[1]].head[t[2]].argv
          BY <3>1
        <5>2. PICK j \in Confs, n \in 1 .. N : t = <<j, n>>
          BY <5>1
        <5>3. n \in Tasks(j) /\ conf[j].head[n].argv
          BY <5>1, <5>2
        <5>4. scan[lock] = [conf |-> j, pos |-> n]
          BY <2>0, <5>3 DEF Arguments
        <5>5. scan[lock].conf = k /\ scan[lock].pos = i /\ scan[lock].conf = j /\ scan[lock].pos = n
          BY <4>3, <5>4
        <5>. QED BY <5>2, <5>5
      <4>5. <<k, i>> \in Holding
        BY <3>0, <3>1, <4>2
      <4>6. Holding = {<<k, i>>}
        BY <4>4, <4>5
      <4>7. Cardinality({<<k, i>>}) = 1
        BY FS_Singleton
      <4>. QED BY <2>0, <3>2, <4>6, <4>7 DEF Arguments
    <3>3. CASE ~Held
      <4>1. Holding = {}
        <5>1. ASSUME NEW t \in Holding PROVE FALSE
          BY <3>1, <3>3 DEF Held
        <5>. QED BY <5>1
      <4>2. Cardinality({}) = 0
        BY FS_EmptySet
      <4>3. Cardinality(TaskThreads) \in Nat
        BY <2>0, ThreadsFinite, FS_CardinalityType
      <4>. QED BY <2>0, <3>3, <4>1, <4>2, <4>3 DEF Arguments
    <3>. QED BY <3>2, <3>3
  <2>5. \A k \in Confs : \A i \in Tasks(k) :
           conf[k].head[i].argv => lock # NULL /\ ThisTask(lock) = <<k, i>>
    <3>. SUFFICES ASSUME NEW k \in Confs, NEW i \in Tasks(k), conf[k].head[i].argv
                  PROVE  lock # NULL /\ ThisTask(lock) = <<k, i>>
      OBVIOUS
    <3>1. lock \in Cpus /\ scan[lock] = [conf |-> k, pos |-> i]
      BY <2>0 DEF Arguments
    <3>2. lock \in Nat /\ lock # NULL
      BY <3>1, MachineFacts, NullAssumption DEF Cpus, BootInv
    <3>. QED BY <3>1, <3>2 DEF ThisTask
  <2>6. \A k \in Confs : \A i \in Tasks(k) : \A c \in Cpus :
           Queued(c, <<k, i>>) <=> \E n \in 1 .. Len(rq[c]) : rq[c][n] = <<k, i>>
    BY <2>1 DEF Queued
  <2>. QED BY ZenonT(60), <2>2, <2>3, <2>4, <2>5, <2>6 DEF TasksLaunchedOnce, Confs
<1>. QED BY <1>1, BootInvariant, LaunchInvariant, PTL

(* Self-tests run one after another, none is judged twice, and one that    *)
(* passed had its workers queued on every CPU it uses.                     *)
THEOREM SelftestsRunInTurn == Spec => []SelftestsInTurn
<1>1. LaunchInv => SelftestsInTurn
  <2>. SUFFICES ASSUME LaunchInv PROVE SelftestsInTurn
    OBVIOUS
  <2>1. Lists /\ Identities /\ HeadOnly /\ WorkersOf
    BY DEF LaunchInv, TestsInv
  <2>2. \A i \in DOMAIN tests.active : tests.active[i].started => i = 1
    BY <2>1 DEF HeadOnly
  <2>3. \A i, j \in DOMAIN tests.judged : i # j => tests.judged[i].id # tests.judged[j].id
    BY <2>1 DEF Identities, Distinct
  <2>4. \A c \in Cpus : DOMAIN rq[c] = 1 .. Len(rq[c])
    BY <2>1 DEF Lists
  <2>5. \A i \in DOMAIN tests.judged : tests.judged[i].ok =>
           \A c \in Workers[tests.judged[i].test] \cap Cpus :
               \E n \in 1 .. Len(rq[c]) : rq[c][n] = <<"worker", tests.judged[i].id>>
    <3>1. \A i \in DOMAIN tests.judged : tests.judged[i].ok =>
             \A c \in Workers[tests.judged[i].test] \cap Cpus : Queued(c, <<"worker", tests.judged[i].id>>)
      BY <2>1 DEF WorkersOf, WorkersQueued
    <3>2. \A c \in Cpus : \A e : Queued(c, e) => \E n \in 1 .. Len(rq[c]) : rq[c][n] = e
      BY <2>4 DEF Queued
    <3>. QED BY <3>1, <3>2
  <2>. QED BY <2>2, <2>3, <2>5 DEF SelftestsInTurn
<1>. QED BY <1>1, LaunchInvariant, PTL

=============================================================================
