----------------------------- MODULE MCStartup -------------------------------
(* Machines of two and three CPUs in each boot mode, with configurations    *)
(* that work and ones that are refused.                                     *)
EXTENDS Startup

File(dir, name, data) == [path |-> <<dir, name>>, mode |-> "file", data |-> data]
Elf(name) == File("task", name, <<>>)
Version == [kind |-> "directive", name |-> "@version", value |-> "1"]
Missing(what) == [kind |-> "directive", name |-> "@module_missing", value |-> what]
Test(t, module) == [kind |-> "directive", name |-> "@test", test |-> t, module |-> module,
                    kvs |-> 1]
Task(c, m, type, args) == [kind |-> "task", wellformed |-> TRUE, cpu |-> c, module |-> <<m>>,
                           named |-> TRUE, type |-> type, args |-> args]
Comment == [kind |-> "comment"]

(* Names: 1 is the built-in self-test, 2 to 4 are payloads, 5 and 6 unit    *)
(* tests that ran at boot.                                                  *)
MCWorkers == [t \in 1 .. 6 |-> CASE t = 2 -> {0, 1} [] t = 3 -> {1} [] OTHER -> {}]
MCBootTests == <<5, 6>>

TestConf1 == << Version, Missing("skip"), Test(1, NULL), Test(2, <<"t2">>), Test(2, <<"t2">>),
                Test(3, <<"t3">>), Comment, Task(0, "foo", 1, 1), Task(1, "data", 4, 0),
                Task(1, "none", 3, 0), Task(1, "foo", 3, 9), Task(1, "foo", 2, 0) >>
BaseConf == << Version, Task(1, "foo", 3, 1), Task(0, "foo", 1, 0) >>
TestConf2 == << Version, Missing("panic"), Test(2, <<"t2">>), Test(4, <<"gone">>),
                Task(0, "foo", 2, 0), Task(1, "none", 1, 0) >>
TestConf3 == << Missing("panic"), Test(3, <<"t3">>), Test(5, NULL), Test(1, NULL),
                Task(0, "foo", 2, 0), Task(1, "foo", 1, 0), Task(2, "foo", 1, 0) >>
Nameless == << [Task(1, "foo", 1, 0) EXCEPT !.named = FALSE], Task(0, "foo", 2, 0) >>

Initrd1(conf1) == File("boot", "initrd.cpio",
    << [path |-> <<"task">>, mode |-> "dir", data |-> <<>>],
       [File("task", "foo", <<>>) EXCEPT !.path = <<".", "task", "foo">>],
       File("conf", "task.conf", conf1) >>)
Machine(n, bsp, cmdline, modules) ==
    [cpus |-> n, bsp |-> bsp, cmdline |-> cmdline, modules |-> modules]
TestFile(c) == File("conf", "test.conf", c)

MCMachines ==
    { Machine(2, 0, "boot=compat",
          << File("conf", "task.conf", TestConf1), Elf("foo"), Elf("t2"), Elf("t3") >>),
      Machine(2, 0, "boot=compat", << File("conf", "task.conf", Nameless), Elf("foo") >>),
      Machine(2, 1, "boot=compat",
          << File("conf", "task.conf", TestConf2), Elf("foo"), Elf("none"), Elf("none"),
             Elf("t2") >>),
      Machine(3, 1, "", << Initrd1(BaseConf) >>),
      Machine(2, 0, "boot=base", << Initrd1(BaseConf \o <<Test(1, NULL)>>) >>),
      Machine(2, 0, "boot=base", << Initrd1(BaseConf \o <<Task(2, "foo", 1, 0)>>) >>),
      Machine(2, 0, "boot=base", << Elf("foo") >>),
      Machine(2, 0, "boot=else", << Initrd1(BaseConf) >>),
      Machine(2, 0, "boot=test", << Initrd1(BaseConf), Elf("foo") >>),
      Machine(2, 1, "boot=test",
          << Initrd1(BaseConf), TestFile(TestConf2), Elf("foo"), Elf("t2") >>),
      Machine(2, 0, "boot=test",
          << Initrd1(BaseConf), TestFile(TestConf3), Elf("foo"), Elf("t3") >>) }
=============================================================================
