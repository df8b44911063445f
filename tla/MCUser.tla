------------------------------- MODULE MCUser -------------------------------
(* Two processes over a four-level table of two entries: user pages 0 to 7, *)
(* kernel pages 8 to 15.                                                    *)
EXTENDS User, TLC

CONSTANTS p1, p2

MCProcs == {p1, p2}
Symm == Permutations(MCProcs)

(* A reserved page (the boot loader's root) after low memory, then usable  *)
(* memory around a hole. *)
Map(n) == << [base |-> 0, length |-> 2, usable |-> TRUE],
             [base |-> 2, length |-> 1, usable |-> FALSE],
             [base |-> 3, length |-> 2, usable |-> TRUE],
             [base |-> 5, length |-> 1, usable |-> FALSE],
             [base |-> 6, length |-> n, usable |-> TRUE] >>
(* Memory that runs out while the second process is created, at its stack, *)
(* at its page tables, or not before it maps memory of its own.            *)
MCInstances == {<<Map(27), 5>>, <<Map(32), 4>>, <<Map(34), 4>>, <<Map(36), 3>>}

MCImage == << [va |-> 0, perm |-> {}], [va |-> 1, perm |-> {"W", "NX"}],
              [va |-> 1, perm |-> {"NX"}] >>
MCProts == {{"W"}, {"X"}}
=============================================================================
