------------------------------ MODULE MCLoader ------------------------------
(* The BSP and two other CPUs over the page table of MCUser: the heap at    *)
(* kernel pages 8 to 10, the module region at pages 12 to 15.               *)
EXTENDS Loader

Map(n) == << [base |-> 0, length |-> 2, usable |-> TRUE],
             [base |-> 2, length |-> 1, usable |-> FALSE],
             [base |-> 3, length |-> n, usable |-> TRUE] >>

MCJob(k, c, n, b) == [kind |-> k, cpu |-> c, size |-> n, bss |-> b]

(* A payload that ends inside a page, two drivers, and the same executable *)
(* twice. *)
MCJobs == << MCJob("payload", 0, 5, <<>>), MCJob("driver", 1, 6, <<3>>),
             MCJob("thread", 2, 0, <<>>), MCJob("driver", 2, 10, <<>>),
             MCJob("thread", 1, 0, <<>>) >>
(* A payload with too many sections, and drivers that fit neither the      *)
(* region nor the registry together. *)
MCDrivers == << MCJob("payload", 0, 5, <<1>>), MCJob("payload", 0, 3, <<1, 1>>),
                MCJob("driver", 0, 4, <<2>>), MCJob("driver", 1, 12, <<>>),
                MCJob("driver", 2, 3, <<>>) >>
MCInstances == { <<Map(n), MCJobs>> : n \in {20, 22, 24, 26, 40} }
                 \cup { <<Map(n), MCDrivers>> : n \in {20, 24, 40} }
MCExecImage == <<1, 2>>
=============================================================================
