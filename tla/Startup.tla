------------------------------- MODULE Startup -------------------------------
(***************************************************************************)
(* From reset to running services on x86_64: the phases the bootstrap CPU  *)
(* goes through (main.c, boot_phase.c), the arrival of the other CPUs and  *)
(* the barrier they meet at (cpu.c), the boot files and the configuration  *)
(* read from them (boot_files.c, cpio.c, task_parser.c, task_conf.c), the  *)
(* self-tests it asks for (selftest.c, runner.c) and the tasks each CPU    *)
(* launches from it (task.c).                                              *)
(*                                                                         *)
(* panic() stops only the CPU that calls it, with the locks it holds: a    *)
(* CPU at pc "panic" takes no further step and the others go on.           *)
(***************************************************************************)
EXTENDS Naturals, FiniteSets, Sequences

CONSTANTS
    NULL,
    MAX_CPUS,         \* per-CPU slots
    Machines,         \* what the boot loader may hand over: see machine
    MAX_ARGS,         \* argv slots of a task: 33
    SELFTEST_MAX_KV,  \* key=value pairs of a directive: 8
    MAX_TEST_MODULES, \* test_modules[]: 64
    BootTests,        \* the unit tests kernel_tests_run_bootstrap() registers
    Builtin,          \* the self-test linked into the kernel
    Workers           \* self-test -> the CPUs its start() queues a worker on

ASSUME BoundsAssumption == /\ MAX_CPUS \in Nat \ {0}
                           /\ MAX_ARGS \in Nat \ {0}
                           /\ {SELFTEST_MAX_KV, MAX_TEST_MODULES} \subseteq Nat

(* NULL is no CPU and no position of a launch loop. *)
ASSUME NullAssumption == /\ NULL \notin Nat
                         /\ NULL \notin [conf : {"task", "test"}, pos : Nat]

(* kmain() caps g_cpu_count at MAX_CPUS, and the boot loader lists the     *)
(* bootstrap CPU among the first of them.                                  *)
ASSUME MachinesAssumption ==
    \A m \in Machines : m.cpus \in 1 .. MAX_CPUS /\ m.bsp \in 0 .. m.cpus - 1

VARIABLES
    machine,  \* [cpus, bsp, cmdline, modules], constant
    phase,    \* current_phase, 0 (EARLY) to 6 (SERVICES_READY)
    pc,       \* CPU -> where it is
    online,   \* CPUs that have reached wait_online()
    ctx,      \* the CPUs whose g_cpu_contexts[] entry is installed
    rq,       \* CPU -> the threads queued on it, in order
    conf,     \* "task" (task_conf) and "test" (test_conf)
    parse,    \* the configuration being parsed: [conf, lines], or NULL
    lock,     \* the holder of task_lock
    scan,     \* CPU -> [conf, pos]: where its launch loop is
    argv,     \* argument blocks allocated by task_build_argv()
    failed,   \* <<conf, index>> of the tasks no memory was found for
    pending,  \* unit tests still to register, then the directives still to
              \* load, then still to apply
    tests     \* [registry, active, judged, made]: the self-test lists, the
              \* verdicts, and the number of instances allocated

vars == <<machine, phase, pc, online, ctx, rq, conf, parse, lock, scan, argv,
          failed, pending, tests>>
config == <<conf, parse>>
launching == <<lock, scan, argv, failed>>
testing == <<pending, tests>>

Cpus == 0 .. machine.cpus - 1
Bsp == machine.bsp
TestingBoot == machine.cmdline = "boot=test"
CompatBoot == machine.cmdline = "boot=compat"

-----------------------------------------------------------------------------
(* Boot files. A path is the sequence of its components; a file is         *)
(* [path, mode, data], and "corrupt" is an archive header that does not    *)
(* parse.                                                                  *)

boot_file_normalize(path) ==
    LET names == SelectSeq(path, LAMBDA c : c # ".")
    IN  IF names = <<>> \/ ".." \in {path[i] : i \in DOMAIN path} THEN NULL ELSE names

boot_files_from_modules(modules) ==
    IF \A i \in DOMAIN modules : boot_file_normalize(modules[i].path) # NULL
    THEN [files |-> modules] ELSE NULL

(* The entries the reader yields, and whether it came to the trailer. *)
cpio_reader_next(entries) ==
    LET bad == {i \in DOMAIN entries : entries[i].mode = "corrupt"}
    IN  [entries |-> SelectSeq(entries, LAMBDA e : e.mode \notin {"corrupt", "dir"}),
         whole   |-> bad = {}]

boot_files_from_cpio(archive) ==
    LET read == cpio_reader_next(archive)
    IN  IF /\ archive # <<>> /\ read.whole
           /\ \A i \in DOMAIN read.entries :
                 /\ read.entries[i].mode = "file"
                 /\ boot_file_normalize(read.entries[i].path) # NULL
        THEN [files |-> read.entries] ELSE NULL

(* The file of that path, "absent", or "invalid" when two have it. *)
boot_file_lookup(set, path) ==
    LET wanted == boot_file_normalize(path)
        hits == {i \in DOMAIN set.files : boot_file_normalize(set.files[i].path) = wanted}
    IN  CASE wanted = NULL \/ Cardinality(hits) > 1 -> [found |-> "invalid"]
          [] wanted # NULL /\ hits = {} -> [found |-> "absent"]
          [] OTHER -> [found |-> "yes", data |-> set.files[CHOOSE i \in hits : TRUE].data]

boot_file_lookup_in(set, directory, name) ==
    boot_file_lookup(set, IF Len(name) > 1 THEN name ELSE <<directory>> \o name)

-----------------------------------------------------------------------------
(* Configurations.                                                         *)

NoConf == [initialized |-> FALSE, parsed |-> FALSE, purpose |-> NULL, files |-> NULL,
           head |-> <<>>, directives |-> <<>>, module_missing_panic |-> FALSE,
           started_cpus |-> {}, tests_started |-> FALSE]

task_conf_init_ctx(files, purpose) ==
    [NoConf EXCEPT !.initialized = TRUE, !.files = files, !.purpose = purpose]

task_conf_claim_cpu_ctx(c, cpu) ==
    c.initialized /\ c.parsed /\ cpu < MAX_CPUS /\ cpu \notin c.started_cpus

(* What parse_directive() and parse_test_directive() make of a line: the   *)
(* configuration with its record, or NULL when the line is refused.        *)
parse_directive(c, line) ==
    CASE line.name = "@version" -> IF line.value = "1" THEN c ELSE NULL
      [] line.name = "@module_missing" /\ line.value \in {"panic", "skip"} ->
            [c EXCEPT !.module_missing_panic = line.value = "panic"]
      [] line.name = "@test" /\ line.kvs <= SELFTEST_MAX_KV /\ c.purpose \in {"test", "compat"} ->
            [c EXCEPT !.directives =
                Append(@, [test |-> line.test, module |-> line.module, module_id |-> NULL])]
      [] OTHER -> NULL

(* parse_dec(), parse_hex() and parse_string() take every field of it. *)
FieldsRead(line) == line.wellformed

(* A task line: its fields must read as numbers and words; the name after  *)
(* the colon may be missing.                                               *)
ParseTask(c, line) ==
    IF FieldsRead(line)
    THEN [c EXCEPT !.head = Append(@, [cpu |-> line.cpu, module |-> line.module,
                                       named |-> line.named, type |-> line.type,
                                       args |-> line.args, argv |-> FALSE])]
    ELSE NULL

task_conf_parse_v1_ctx(c, line) ==
    CASE line.kind = "comment" -> c
      [] line.kind = "directive" -> parse_directive(c, line)
      [] OTHER -> ParseTask(c, line)

(* task_conf_load_ctx(): the lines to parse, or NULL. An empty file is     *)
(* refused.                                                                *)
task_conf_load_ctx(files, path) ==
    LET file == boot_file_lookup(files, path)
    IN  IF file.found = "yes" /\ file.data # <<>> THEN file.data ELSE NULL

Executable == 1 .. 3     \* TASK_DRIVER, TASK_THREAD, TASK_USER

-----------------------------------------------------------------------------
Init ==
    /\ machine \in Machines
    /\ phase = 0
    /\ pc = [c \in Cpus |-> IF c = Bsp THEN "memory" ELSE "off"]
    /\ online = 0 /\ ctx = {}
    /\ rq = [c \in Cpus |-> <<>>]
    /\ conf = [task |-> NoConf, test |-> NoConf]
    /\ parse = NULL /\ lock = NULL
    /\ scan = [c \in Cpus |-> NULL]
    /\ argv = 0 /\ failed = {} /\ pending = BootTests
    /\ tests = [registry |-> <<>>, active |-> <<>>, judged |-> <<>>, made |-> 0]

(* A registered self-test is [test, id, module, started, prepare_failed,   *)
(* done, passed]: id stands for its address, two payloads may register     *)
(* tests of one name; done and passed are what its callbacks answer.       *)
Instance(t, id) == [test |-> t, id |-> id, module |-> NULL, started |-> FALSE,
                    prepare_failed |-> FALSE, done |-> FALSE, passed |-> FALSE]

selftest_register(t) ==
    tests' = [tests EXCEPT !.registry = Append(@, Instance(t, tests.made + 1)),
                           !.made = @ + 1]

Goto(c, where) == pc' = [pc EXCEPT ![c] = where]
Panic(c) == Goto(c, "panic")

(* boot_phase_complete() by the bootstrap CPU, whose interrupts are off. *)
boot_phase_complete(p, next) ==
    IF phase = p - 1 THEN phase' = p /\ Goto(Bsp, next)
    ELSE Panic(Bsp) /\ UNCHANGED phase

(* kmain() up to MEMORY_READY, the unit tests, and the devices. Any of     *)
(* them may give up.                                                       *)
BootStep(from, p, next) ==
    /\ pc[Bsp] = from
    /\ \/ boot_phase_complete(p, next)
       \/ Panic(Bsp) /\ UNCHANGED phase
    /\ UNCHANGED <<machine, online, ctx, rq>> /\ UNCHANGED config
    /\ UNCHANGED launching /\ UNCHANGED testing

InitMemory == BootStep("memory", 1, "unit")

(* kernel_tests_run_bootstrap(): the unit tests are registered one by one, *)
(* for the @test lines to come, each unless there is no memory for it;     *)
(* then they run.                                                          *)
RegisterBootTest ==
    /\ pc[Bsp] = "unit"
    /\ pending # <<>>
    /\ selftest_register(Head(pending)) \/ UNCHANGED tests
    /\ pending' = Tail(pending)
    /\ UNCHANGED <<machine, phase, pc, online, ctx, rq>> /\ UNCHANGED config
    /\ UNCHANGED launching

kernel_tests_run_bootstrap == pending = <<>> /\ BootStep("unit", 2, "devices")
InitDevices == BootStep("devices", 3, "smp")

(* per_cpu_init() of this CPU: the context others reach it by. *)
InstallContext(c, first, next) ==
    \/ /\ ctx' = ctx \cup {c}
       /\ rq' = [rq EXCEPT ![c] = first]
       /\ pc' = next
    \/ Panic(c) /\ UNCHANGED <<ctx, rq>>

(* start_smp(): the context and main thread of the bootstrap CPU, then the *)
(* address every other CPU is waiting for.                                 *)
start_smp ==
    /\ pc[Bsp] = "smp"
    /\ InstallContext(Bsp, << <<"main", 0>> >>,
            [c \in Cpus |-> IF c = Bsp THEN "tasks" ELSE "starting"])
    /\ UNCHANGED <<machine, phase, online>> /\ UNCHANGED config
    /\ UNCHANGED launching /\ UNCHANGED testing

secondary_cpu_init(c) ==
    /\ pc[c] = "starting"
    /\ InstallContext(c, rq[c], [pc EXCEPT ![c] = "arrive"])
    /\ UNCHANGED <<machine, phase, online>> /\ UNCHANGED config
    /\ UNCHANGED launching /\ UNCHANGED testing

-----------------------------------------------------------------------------
(* initialize_boot_tasks().                                                *)

Initrd == boot_file_lookup([files |-> machine.modules], <<"boot", "initrd.cpio">>)

(* The files the boot mode takes its configuration from, or NULL. *)
BootFiles ==
    CASE CompatBoot -> boot_files_from_modules(machine.modules)
      [] /\ machine.cmdline \in {"", "boot=base", "boot=test"}
         /\ boot_files_from_modules(machine.modules) # NULL
         /\ Initrd.found = "yes" -> boot_files_from_cpio(Initrd.data)
      [] OTHER -> NULL

(* All boot modules but the initrd, in test mode. *)
TestFiles ==
    LET modules == SelectSeq(machine.modules,
            LAMBDA f : boot_file_normalize(f.path) # <<"boot", "initrd.cpio">>)
    IN  IF Len(modules) <= MAX_TEST_MODULES THEN boot_files_from_modules(modules) ELSE NULL

(* task_init_ctx(): a new context and the file to parse into it. *)
task_init_ctx(k, files, purpose, path) ==
    \E lines \in {IF files = NULL THEN NULL ELSE task_conf_load_ctx(files, path)} :
        \/ /\ lines # NULL /\ ~conf[k].initialized
           /\ conf' = [conf EXCEPT ![k] = task_conf_init_ctx(files, purpose)]
           /\ parse' = [conf |-> k, lines |-> lines]
           /\ Goto(Bsp, "parse")
        \/ (lines = NULL \/ conf[k].initialized) /\ Panic(Bsp) /\ UNCHANGED config

initialize_boot_tasks ==
    /\ \/ /\ pc[Bsp] = "tasks"
          /\ task_init_ctx("task", BootFiles, IF CompatBoot THEN "compat" ELSE "base",
                           <<"conf", "task.conf">>)
       \/ /\ pc[Bsp] = "testtasks"
          /\ task_init_ctx("test", TestFiles, "test", <<"conf", "test.conf">>)
    /\ UNCHANGED <<machine, phase, online, ctx, rq>>
    /\ UNCHANGED launching /\ UNCHANGED testing

(* One line of the file; no memory for its record is a parse error too.    *)
(* task_conf_parse_ctx() drops the records, task_init_ctx() the context,   *)
(* and initialize_boot_tasks() then panics.                                *)
ParseLine ==
    /\ pc[Bsp] = "parse"
    /\ parse.lines # <<>>
    /\ \E c \in {task_conf_parse_v1_ctx(conf[parse.conf], Head(parse.lines))} :
        \/ /\ c # NULL
           /\ conf' = [conf EXCEPT ![parse.conf] = c]
           /\ parse' = [parse EXCEPT !.lines = Tail(@)]
           /\ UNCHANGED pc
        \/ /\ c = NULL \/ c # conf[parse.conf]
           /\ conf' = [conf EXCEPT ![parse.conf] = NoConf]
           /\ parse' = NULL
           /\ Panic(Bsp)
    /\ UNCHANGED <<machine, phase, online, ctx, rq>>
    /\ UNCHANGED launching /\ UNCHANGED testing

(* The check of the base tasks: each names a CPU that exists, a type that  *)
(* can run and a component of the initrd.                                  *)
ValidBase(c) ==
    c.purpose # "base" \/
        \A i \in DOMAIN c.head :
            /\ c.head[i].cpu < machine.cpus
            /\ c.head[i].type \in Executable
            /\ boot_file_lookup_in(c.files, "task", c.head[i].module).found = "yes"

ParseEnd ==
    /\ pc[Bsp] = "parse"
    /\ parse.lines = <<>>
    /\ conf' = [conf EXCEPT ![parse.conf].parsed = TRUE]
    /\ parse' = NULL
    /\ Goto(Bsp, IF ~ValidBase(conf[parse.conf]) THEN "panic"
                 ELSE IF TestingBoot /\ parse.conf = "task" THEN "testtasks" ELSE "runtime")
    /\ UNCHANGED <<machine, phase, online, ctx, rq>>
    /\ UNCHANGED launching /\ UNCHANGED testing

(* kheap_test() and RUNTIME_READY. *)
CompleteRuntime == BootStep("runtime", 4, "arrive")

-----------------------------------------------------------------------------
(* wait_online(): one atomic increment, then a spin until all have come.   *)
wait_online(c) ==
    /\ pc[c] = "arrive"
    /\ online' = online + 1
    /\ Goto(c, "wait")
    /\ UNCHANGED <<machine, phase, ctx, rq>> /\ UNCHANGED config
    /\ UNCHANGED launching /\ UNCHANGED testing

(* One CPU short of all. *)
Mutant_AllOnline == online >= machine.cpus - 1

AllOnline == online = machine.cpus

SeeOnline(c) ==
    /\ pc[c] = "wait"
    /\ AllOnline
    /\ IF c = Bsp THEN boot_phase_complete(5, "tests")
       ELSE Goto(c, "services") /\ UNCHANGED phase
    /\ UNCHANGED <<machine, online, ctx, rq>> /\ UNCHANGED config
    /\ UNCHANGED launching /\ UNCHANGED testing

(* An AP waits for SERVICES_READY before it reads the configurations. *)
boot_phase_wait_for(c) ==
    /\ pc[c] = "services"
    /\ c # Bsp
    /\ phase >= 6
    /\ Goto(c, "launch")
    /\ UNCHANGED <<machine, phase, online, ctx, rq>> /\ UNCHANGED config
    /\ UNCHANGED launching /\ UNCHANGED testing

-----------------------------------------------------------------------------
(* The self-test session.                                                  *)

(* start() of a test queues its workers on the CPUs it uses. *)
WithWorkers(inst, queues) ==
    [c \in Cpus |-> IF c \in Workers[inst.test]
                    THEN Append(queues[c], <<"worker", inst.id>>) ELSE queues[c]]

(* The last one: a list walked from the wrong end. *)
Mutant_NextTest(list) ==
    LET waiting == {i \in DOMAIN list : ~list[i].started}
    IN  IF waiting = {} THEN NULL ELSE CHOOSE i \in waiting : \A j \in waiting : i >= j

(* The first instance not yet started, or NULL: only one is started at a   *)
(* time.                                                                   *)
NextTest(list) ==
    LET waiting == {i \in DOMAIN list : ~list[i].started}
    IN  IF waiting = {} THEN NULL ELSE CHOOSE i \in waiting : \A j \in waiting : i <= j

(* selftest_run(), and the end of a test in selftest_tick(): the next      *)
(* instance of the list starts.                                            *)
selftest_run(list, judged) ==
    \E i \in {NextTest(list)} :
        /\ tests' = [tests EXCEPT
              !.active = IF i = NULL THEN list ELSE [list EXCEPT ![i].started = TRUE],
              !.judged = judged]
        /\ rq' = IF i = NULL \/ list[i].prepare_failed THEN rq
                 ELSE WithWorkers(list[i], rq)

TestConf == IF TestingBoot THEN "test" ELSE "task"

(* kernel_tests_start_config(): in test mode a refusal panics, in          *)
(* compatibility mode it is ignored; the base mode has no tests.           *)
kernel_tests_start_config ==
    /\ pc[Bsp] = "tests"
    /\ IF ~TestingBoot /\ ~CompatBoot
       THEN Goto(Bsp, "launch") /\ UNCHANGED <<conf, pending, tests>>
       ELSE /\ conf' = [conf EXCEPT ![TestConf].tests_started = TRUE]
            /\ \/ selftest_register(Builtin)
               \/ UNCHANGED tests          \* no memory for the instance
            /\ pending' = [i \in DOMAIN conf[TestConf].directives |-> i]
            /\ Goto(Bsp, "load")
    /\ UNCHANGED <<machine, phase, online, ctx, rq, parse>> /\ UNCHANGED launching

(* selftest_load_payloads_from_files(), one directive: a payload that      *)
(* loads registers its test; one that is absent or fails leaves only a     *)
(* message.                                                                *)
LoadPayload ==
    /\ pc[Bsp] = "load"
    /\ pending # <<>>
    /\ \E d \in {conf[TestConf].directives[Head(pending)]} :
        \/ /\ d.module # NULL
           /\ boot_file_lookup_in(conf[TestConf].files, "task", d.module).found = "yes"
           /\ conf' = [conf EXCEPT ![TestConf].directives[Head(pending)].module_id = Head(pending)]
           /\ selftest_register(d.test)
        \/ UNCHANGED <<conf, tests>>
    /\ pending' = Tail(pending)
    /\ UNCHANGED <<machine, phase, pc, online, ctx, rq, parse>> /\ UNCHANGED launching

LoadEnd ==
    /\ pc[Bsp] = "load"
    /\ pending = <<>>
    /\ pending' = [i \in DOMAIN conf[TestConf].directives |-> i]
    /\ Goto(Bsp, "apply")
    /\ UNCHANGED <<machine, phase, online, ctx, rq, tests>> /\ UNCHANGED config
    /\ UNCHANGED launching

Removed(list, i) == SubSeq(list, 1, i - 1) \o SubSeq(list, i + 1, Len(list))

(* selftest_apply_all(), one directive: the first registered instance of   *)
(* that name moves to the active list; prepare() may fail.                 *)
selftest_apply_all ==
    /\ pc[Bsp] = "apply"
    /\ pending # <<>>
    /\ \E d \in {conf[TestConf].directives[Head(pending)]}, failing \in BOOLEAN :
        LET found == {i \in DOMAIN tests.registry : tests.registry[i].test = d.test}
        IN  IF found = {} THEN ~failing /\ UNCHANGED tests
            ELSE \E i \in {CHOOSE i \in found : \A j \in found : i <= j} :
                    tests' = [tests EXCEPT
                        !.registry = Removed(@, i),
                        !.active = Append(@, [tests.registry[i] EXCEPT
                            !.prepare_failed = failing, !.module = d.module_id])]
    /\ pending' = Tail(pending)
    /\ UNCHANGED <<machine, phase, pc, online, ctx, rq>> /\ UNCHANGED config
    /\ UNCHANGED launching

StartFirst ==
    /\ pc[Bsp] = "apply"
    /\ pending = <<>>
    /\ selftest_run(tests.active, tests.judged)
    /\ Goto(Bsp, "launch")
    /\ UNCHANGED <<machine, phase, online, ctx, pending>> /\ UNCHANGED config
    /\ UNCHANGED launching

(* selftest_tick() on one instance, from the timer interrupt of CPU 0: a   *)
(* test that is done is judged and freed, and the next one starts.         *)
selftest_tick ==
    /\ pc[0] = "run"
    /\ \E i \in DOMAIN tests.active :
        /\ tests.active[i].started
        /\ tests.active[i].prepare_failed \/ tests.active[i].done
        /\ selftest_run(Removed(tests.active, i),
                Append(tests.judged, [test |-> tests.active[i].test, id |-> tests.active[i].id,
                    ok |-> ~tests.active[i].prepare_failed /\ tests.active[i].passed]))
    /\ UNCHANGED <<machine, phase, pc, online, ctx, pending>> /\ UNCHANGED config
    /\ UNCHANGED launching

(* The callbacks of a started test come to an answer. This is the tests'   *)
(* own doing: most count ticks towards a timeout, but the FPU and TLB      *)
(* tests wait without one, and a test without a done() is never judged.    *)
TestFinishes ==
    /\ pc[0] = "run"
    /\ \E i \in DOMAIN tests.active, ok \in BOOLEAN :
        /\ tests.active[i].started /\ ~tests.active[i].prepare_failed
        /\ ~tests.active[i].done
        /\ tests' = [tests EXCEPT !.active[i].done = TRUE, !.active[i].passed = ok]
    /\ UNCHANGED <<machine, phase, pc, online, ctx, rq, pending>> /\ UNCHANGED config
    /\ UNCHANGED launching

-----------------------------------------------------------------------------
(* launch_boot_tasks(): the base configuration, then the test one.         *)

(* task_run_configured_cpu_ctx() up to its loop: task_lock, and the claim  *)
(* of this CPU. A claim refused is ignored for task_conf, and a panic for  *)
(* test_conf.                                                              *)
ClaimCpu(c) ==
    /\ pc[c] = "launch"
    /\ lock = NULL
    /\ \E k \in {IF scan[c] = NULL THEN "task" ELSE "test"} :
        \/ /\ task_conf_claim_cpu_ctx(conf[k], c)
           /\ conf' = [conf EXCEPT ![k].started_cpus = @ \cup {c}]
           /\ lock' = c
           /\ scan' = [scan EXCEPT ![c] = [conf |-> k, pos |-> 1]]
           /\ Goto(c, "scan")
        \/ /\ ~task_conf_claim_cpu_ctx(conf[k], c)
           /\ scan' = [scan EXCEPT ![c] = [conf |-> k, pos |-> 1]]
           /\ Goto(c, IF k = "test" THEN "panic"
                      ELSE IF TestingBoot THEN "launch" ELSE "ready")
           /\ UNCHANGED <<conf, lock>>
    /\ UNCHANGED <<machine, phase, online, ctx, rq, parse, argv, failed>>
    /\ UNCHANGED testing

Record(c) == conf[scan[c].conf].head[scan[c].pos]
ThisTask(c) == <<scan[c].conf, scan[c].pos>>
Component(c) == boot_file_lookup_in(conf[scan[c].conf].files, "task", Record(c).module)
(* A record that is passed over ends the loop. *)
Mutant_NextRecord(c) ==
    scan' = [scan EXCEPT ![c].pos = IF Record(c).type \in Executable THEN @ + 1
                                    ELSE Len(conf[scan[c].conf].head) + 1]

NextRecord(c) == scan' = [scan EXCEPT ![c].pos = @ + 1]
MayBeMissing(c) == ~conf[scan[c].conf].module_missing_panic

(* The loop passes over a record of another CPU, of a type that does not   *)
(* run, of a component that is absent and may be, or for whose argv there  *)
(* is no room.                                                             *)
SkipTask(c) ==
    /\ \/ Record(c).cpu # c
       \/ Record(c).type \notin Executable
       \/ Component(c).found = "absent" /\ MayBeMissing(c)
       \/ Component(c).found = "yes" /\ ~(Record(c).args < MAX_ARGS)
    /\ NextRecord(c)
    /\ UNCHANGED <<pc, rq, conf, argv, failed>>

(* The CPU stops, holding task_lock, on an ambiguous component, on an      *)
(* absent one if the configuration says so, and maybe on a task without a  *)
(* name, whose name task_build_argv() then copies from address 0.          *)
LaunchPanics(c) ==
    /\ Record(c).cpu = c /\ Record(c).type \in Executable
    /\ \/ Component(c).found = "invalid"
       \/ Component(c).found = "absent" /\ ~MayBeMissing(c)
       \/ Component(c).found = "yes" /\ ~Record(c).named
    /\ Panic(c)
    /\ UNCHANGED <<rq, conf, argv, failed, scan>>

HoldsArgv(c, holds) == conf' = [conf EXCEPT ![scan[c].conf].head[scan[c].pos].argv = holds]

(* task_build_argv(): a block for this launch, held by the record. *)
task_build_argv(c) ==
    /\ Record(c).cpu = c /\ Record(c).type \in Executable
    /\ Component(c).found = "yes" /\ Record(c).args < MAX_ARGS
    /\ \/ argv' = argv + 1 /\ HoldsArgv(c, TRUE) /\ Goto(c, "create")
          /\ UNCHANGED <<failed, scan>>
       \/ failed' = failed \cup {ThisTask(c)} /\ NextRecord(c)
          /\ UNCHANGED <<argv, conf, pc>>
    /\ UNCHANGED rq

ScanTask(c) ==
    /\ pc[c] = "scan"
    /\ scan[c].pos <= Len(conf[scan[c].conf].head)
    /\ SkipTask(c) \/ LaunchPanics(c) \/ task_build_argv(c)
    /\ UNCHANGED <<machine, phase, online, ctx, parse, lock>> /\ UNCHANGED testing

(* The thread is created, takes argv over and is queued; or it is not, and *)
(* argv is freed. Without memory for a kernel stack thread_create() stops  *)
(* the CPU, with task_lock held and argv still in the record.              *)
CreateTask(c) ==
    /\ pc[c] = "create"
    /\ \/ /\ \/ /\ rq' = [rq EXCEPT ![c] = Append(@, ThisTask(c))]
                /\ UNCHANGED <<argv, failed>>
             \/ /\ argv' = argv - 1
                /\ failed' = failed \cup {ThisTask(c)}
                /\ UNCHANGED rq
          /\ HoldsArgv(c, FALSE)
          /\ NextRecord(c)
          /\ Goto(c, "scan")
       \/ Panic(c) /\ UNCHANGED <<rq, conf, scan, argv, failed>>
    /\ UNCHANGED <<machine, phase, online, ctx, parse, lock>> /\ UNCHANGED testing

(* An end of the loop that keeps task_lock. *)
Mutant_ScanEnd(c) ==
    /\ pc[c] = "scan"
    /\ scan[c].pos > Len(conf[scan[c].conf].head)
    /\ Goto(c, IF TestingBoot /\ scan[c].conf = "task" THEN "launch" ELSE "ready")
    /\ UNCHANGED <<machine, phase, online, ctx, rq, conf, parse, lock, scan, argv, failed>>
    /\ UNCHANGED testing

ScanEnd(c) ==
    /\ pc[c] = "scan"
    /\ scan[c].pos > Len(conf[scan[c].conf].head)
    /\ lock' = NULL
    /\ Goto(c, IF TestingBoot /\ scan[c].conf = "task" THEN "launch" ELSE "ready")
    /\ UNCHANGED <<machine, phase, online, ctx, rq, conf, parse, scan, argv, failed>>
    /\ UNCHANGED testing

(* The bootstrap CPU releases the others; each then opens its interrupts   *)
(* and schedules.                                                          *)
Run(c) ==
    /\ pc[c] = "ready"
    /\ IF c = Bsp THEN boot_phase_complete(6, "run") ELSE Goto(c, "run") /\ UNCHANGED phase
    /\ UNCHANGED <<machine, online, ctx, rq>> /\ UNCHANGED config
    /\ UNCHANGED launching /\ UNCHANGED testing

CpuStep(c) == \/ secondary_cpu_init(c) \/ wait_online(c) \/ SeeOnline(c)
              \/ boot_phase_wait_for(c) \/ ClaimCpu(c) \/ ScanTask(c)
              \/ CreateTask(c) \/ ScanEnd(c) \/ Run(c)

BspStep == \/ InitMemory \/ RegisterBootTest \/ kernel_tests_run_bootstrap
           \/ InitDevices \/ start_smp
           \/ initialize_boot_tasks \/ ParseLine \/ ParseEnd \/ CompleteRuntime
           \/ kernel_tests_start_config \/ LoadPayload \/ LoadEnd
           \/ selftest_apply_all \/ StartFirst

Next == BspStep \/ (\E c \in Cpus : CpuStep(c)) \/ selftest_tick \/ TestFinishes

Spec == Init /\ [][Next]_vars

(* Every CPU runs, timer interrupts come, and every test gives an answer,  *)
(* which is an assumption on the callbacks of the tests.                   *)
FairSpec ==
    /\ Spec
    /\ WF_vars(BspStep)
    /\ \A c \in 0 .. MAX_CPUS - 1 : WF_vars(c \in Cpus /\ CpuStep(c))
    /\ WF_vars(selftest_tick) /\ WF_vars(TestFinishes)

-----------------------------------------------------------------------------
(* Properties.                                                             *)

Stopped(c) == pc[c] = "panic"
Tasks(k) == DOMAIN conf[k].head
TaskThreads == {t \in {"task", "test"} \X (1 .. Len(conf.task.head) + Len(conf.test.head)) :
                    \E c \in Cpus : \E n \in 1 .. Len(rq[c]) : rq[c][n] = t}

(* The barrier and the phases do what they are for: a thread is queued on  *)
(* a CPU only once its context is installed; self-tests, whichever way     *)
(* they were registered, are configured and started only when every CPU is *)
(* up; an AP launches tasks only when the bootstrap CPU has read all       *)
(* configurations and queued its own tasks.                                *)
BootBarrier ==
    /\ \A c \in Cpus : rq[c] # <<>> => c \in ctx
    /\ tests.active # <<>> \/ tests.judged # <<>> => ctx = Cpus /\ online = machine.cpus
    /\ \A c \in Cpus \ {Bsp} : pc[c] \in {"launch", "scan", "create", "ready", "run"} =>
          /\ pc[Bsp] = "run" /\ parse = NULL
          /\ Bsp \in conf.task.started_cpus
          /\ TestingBoot => Bsp \in conf.test.started_cpus

(* Is CPU c past its loop over configuration k? *)
Scanned(k, c) ==
    /\ c \in conf[k].started_cpus
    /\ ~(pc[c] \in {"scan", "create", "panic"} /\ scan[c].conf = k)

(* The records that hold an argument block. *)
Holding == {t \in {"task", "test"} \X (1 .. Len(conf.task.head) + Len(conf.test.head)) :
                t[2] \in Tasks(t[1]) /\ conf[t[1]].head[t[2]].argv}

Launchable(k, i) ==
    LET t == conf[k].head[i] IN
    /\ t.type \in Executable /\ t.args < MAX_ARGS
    /\ boot_file_lookup_in(conf[k].files, "task", t.module).found = "yes"

(* A task of the configuration is queued at most once, and on the CPU it   *)
(* names; when that CPU is through its list, each task that can run and    *)
(* for which memory was found has been queued. An argument block is held   *)
(* by exactly one thread, or by the record being launched, also when the   *)
(* CPU stopped launching it.                                               *)
TasksLaunchedOnce ==
    /\ \A c \in Cpus : \A m, n \in 1 .. Len(rq[c]) : m # n => rq[c][m] # rq[c][n]
    /\ \A k \in {"task", "test"} : \A i \in Tasks(k) : \A c \in Cpus :
          LET queued == \E n \in 1 .. Len(rq[c]) : rq[c][n] = <<k, i>>
          IN  /\ queued => conf[k].head[i].cpu = c /\ c \in conf[k].started_cpus
              /\ Scanned(k, c) /\ conf[k].head[i].cpu = c /\ Launchable(k, i) =>
                    queued \/ <<k, i>> \in failed
    /\ argv = Cardinality(TaskThreads) + Cardinality(Holding)
    /\ \A k \in {"task", "test"} : \A i \in Tasks(k) :
          conf[k].head[i].argv => lock # NULL /\ ThisTask(lock) = <<k, i>>

(* Self-tests run one after another: at most one is started and not yet    *)
(* judged, none is judged twice, and none starts before the one ahead of   *)
(* it in the list has been judged. A test that passed had its workers      *)
(* queued on every CPU it uses.                                            *)
SelftestsInTurn ==
    /\ \A i, j \in DOMAIN tests.active :
          tests.active[i].started /\ tests.active[j].started => i = j
    /\ \A i \in DOMAIN tests.active : tests.active[i].started => i = 1
    /\ \A i, j \in DOMAIN tests.judged :
          i # j => tests.judged[i].id # tests.judged[j].id
    /\ \A i \in DOMAIN tests.judged : tests.judged[i].ok =>
          \A c \in Workers[tests.judged[i].test] \cap Cpus :
              \E n \in 1 .. Len(rq[c]) : rq[c][n] = <<"worker", tests.judged[i].id>>

(* The boot comes to an end: unless a CPU panics, every CPU runs, and      *)
(* every self-test the configuration asked for has been judged.            *)
BootCompletes ==
    <>( \/ \E c \in Cpus : Stopped(c)
        \/ (\A c \in Cpus : pc[c] = "run") /\ tests.active = <<>>)

=============================================================================
