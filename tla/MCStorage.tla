----------------------------- MODULE MCStorage ------------------------------
(* A disk with a root directory of two sectors, a directory of one, a file *)
(* of one block and a file of two, and entries of a free and of a missing  *)
(* inode; the unit test's smaller one.                                     *)
EXTENDS Storage

S(cells) == cells \o [i \in 1 .. 10 - Len(cells) |-> 0]

(* Names: 1 is /etc, 2 /etc/motd, 3 /big, in the root's second sector; the *)
(* inode of 4 was removed, that of 5 is not there.                         *)
MCNameLen == <<1, 3, 2>>
MCSectors == << S(<<77, 5, 1>>),
                <<2, 1, 12, 4, 9,   2, 1, 4, 5, 0>>,
                <<1, 2, 3, 6, 0,    1, 3, 14, 7, 8>>,
                <<0, 4, 0, 0, 0,    0, 0, 0, 0, 0>>,
                S(<<8, 5, 4, 4, 1, 1>>), S(<<2, 2>>),
                S(<<31, 32, 33>>),
                <<41, 42, 43, 44, 45, 46, 47, 48, 49, 6>>,
                S(<<51, 52, 53, 54>>), S(<<3, 3>>) >>
MCDisk == [s \in 0 .. 9 |-> MCSectors[s + 1]]
MCTestDisk == [s \in 0 .. 3 |-> << S(<<77, 2, 1>>), <<2, 1, 2, 2, 0,  1, 2, 2, 3, 0>>,
                                   S(<<1, 2>>), S(<<21, 22>>) >>[s + 1]]
MCPaths == {<<>>, <<1, 2>>, <<2>>, <<3>>}
=============================================================================
