------------------------------ MODULE Storage -------------------------------
(***************************************************************************)
(* The read path of the disk: LaFS (lafs.c) over the block device registry *)
(* (block_device.c) over the polled virtio-blk driver                      *)
(* (arch/x86_64/virtio_pci.c) and its device.                              *)
(*                                                                         *)
(* Everything on the CPU runs on the BSP, one LaFS call after the other;   *)
(* the device runs by itself, may answer late, out of order or with an     *)
(* error, and the driver's poll may give up on it.                         *)
(*                                                                         *)
(* A sector is a sequence of cells, and a LaFS structure has one cell for  *)
(* each field: the superblock <<magic, inode count, first inode sector>>,  *)
(* an inode <<type, name, size, block, ..., block>>, a directory entry     *)
(* <<inode, name>>; a cell of a file is one byte.                          *)
(***************************************************************************)
EXTENDS Integers, Sequences, SequencesExt, FiniteSetsExt

CONSTANTS
    Disk, TestDisk,     \* sector -> cells: the virtio disk, the unit test's
    SectorCells,
    LAFS_MAGIC, LAFS_BLOCKS_MAX,
    NameLen,            \* the length of each name
    Paths,              \* sequences of names to open
    Offsets, Lens,      \* arguments of lafs_read
    BufSizes,           \* arguments of lafs_readdir
    WORD,               \* uint32_t is modulo this
    IDX,                \* the ring indexes are modulo this
    MAX_BLOCK_DEVICES,
    MaxInflight,        \* bound on the requests the device works on at once
    MaxCalls, MaxFailures   \* bounds on LaFS calls and on device misbehaviour

ASSUME StorageAssumption ==
    /\ SectorCells \in Nat /\ SectorCells % (3 + LAFS_BLOCKS_MAX) = 0
    /\ WORD \in Nat \ {0} /\ IDX \in Nat \ {0}
    /\ MAX_BLOCK_DEVICES \in Nat \ {0} /\ MaxInflight \in Nat \ {0}

VARIABLES
    phase,          \* "tests", "devices": the boot phases that use the disk; "panic"
    devices,        \* g_devices: the tests' "blank" and "test", or "virtio"
    vq,             \* the virtqueue page and the driver's two indexes
    inflight,       \* the sectors of the requests the device works on
    silent,         \* the device has stopped
    io,             \* the block_read in progress
    g_sec,          \* LaFS's sector buffer
    fs,             \* g_mounted, g_inode_count, g_inode_start
    call,           \* the LaFS call in progress or just finished, none after a boot step
    clean,          \* history: no virtio read has failed so far
    calls, failures \* calls and device failures left

deviceVars == <<inflight, silent, failures>>
driverVars == <<devices, vq, clean, deviceVars>>
vars == <<phase, driverVars, io, g_sec, fs, call, calls>>

Inc(index) == (index + 1) % IDX

Zero == [i \in 1 .. SectorCells |-> 0]
NoSector == -1
Idle == [pc |-> "idle", sector |-> NoSector]
Unmounted == [mounted |-> FALSE, inode_count |-> 0, inode_start |-> 0]

NoCall == [op |-> "none", pc |-> "done", ino |-> 0, path |-> <<>>, arg |-> <<>>, raw |-> 0,
           entry_raw |-> 0, size |-> 0, off |-> 0, out |-> <<>>, dir |-> <<>>, pos |-> 0, failed |-> FALSE, ret |-> 0]

Init ==
    /\ phase = "tests"
    /\ devices = <<>>
    /\ vq = [hdr |-> NoSector, status |-> 0, bounce |-> Zero, avail |-> 0, taken |-> 0,
             used |-> 0, last_used |-> 0]
    /\ inflight = <<>>
    /\ silent = FALSE
    /\ io = Idle
    /\ g_sec = Zero
    /\ fs = Unmounted
    /\ call = NoCall
    /\ clean = TRUE
    /\ calls = MaxCalls
    /\ failures = MaxFailures

----------------------------------------------------------------------------
(* Boot: the unit tests register devices in memory and empty the registry  *)
(* between them; kernel_tests_run_bootstrap resets LaFS and the registry,  *)
(* and panics when something of the tests is left or one has failed;       *)
(* virtio_pci_blk_init registers the disk, unless one of its steps fails.  *)
RegisterTest(dev) ==
    /\ phase = "tests" /\ call.pc = "done"
    /\ Len(devices) < MAX_BLOCK_DEVICES
    /\ devices' = Append(devices, dev)
    /\ call' = NoCall
    /\ UNCHANGED <<phase, vq, deviceVars, io, g_sec, fs, clean, calls>>

block_device_reset == devices' = <<>>

ResetTest ==
    /\ phase = "tests" /\ call.pc = "done" /\ devices # <<>>
    /\ block_device_reset
    /\ call' = NoCall
    /\ UNCHANGED <<phase, vq, deviceVars, io, g_sec, fs, clean, calls>>

lafs_reset == g_sec' = Zero /\ fs' = Unmounted

EndTests(ok) ==
    /\ phase = "tests" /\ call.pc = "done"
    /\ lafs_reset /\ block_device_reset
    /\ phase' = IF devices' # <<>> \/ fs'.mounted \/ ~ ok THEN "panic" ELSE "devices"
    /\ call' = NoCall
    /\ UNCHANGED <<vq, deviceVars, io, clean, calls>>

(* Reset, feature negotiation, queue set-up and the queue's page succeed.  *)
virtio_pci_blk_init ==
    /\ phase = "devices" /\ devices = <<>> /\ call.pc = "done"
    /\ vq' = [vq EXCEPT !.avail = 0, !.last_used = 0, !.used = 0]
    /\ devices' = Append(devices, "virtio")
    /\ call' = NoCall
    /\ UNCHANGED <<phase, deviceVars, io, g_sec, fs, clean, calls>>

----------------------------------------------------------------------------
(* block_read: the device registered last serves it. *)
block_device_get == IF devices = <<>> THEN "none" ELSE Last(devices)

DiskOf(dev) == CASE dev = "virtio" -> Disk
                 [] dev = "test" -> TestDisk
                 [] dev = "blank" -> [s \in {0} |-> Zero]
                 [] OTHER -> <<>>

(* The unit test's device, or none at all: the answer is there at once. *)
ReadMemory ==
    /\ io.pc = "want" /\ block_device_get # "virtio"
    /\ IF io.sector \in DOMAIN DiskOf(block_device_get)
       THEN g_sec' = DiskOf(block_device_get)[io.sector] /\ io' = [io EXCEPT !.pc = "ok"]
       ELSE io' = [io EXCEPT !.pc = "fail"] /\ UNCHANGED g_sec
    /\ UNCHANGED <<phase, driverVars, fs, call, calls>>

(* virtio_pci_blk_bd_read, for one sector: header, descriptors and the     *)
(* status sentinel, then the avail index and the notification.             *)
Sentinel == 255

Submit ==
    /\ io.pc = "want" /\ block_device_get = "virtio"
    /\ vq' = [vq EXCEPT !.hdr = io.sector, !.status = Sentinel,
                        !.avail = Inc(@)]
    /\ io' = [io EXCEPT !.pc = "poll"]
    /\ UNCHANGED <<phase, devices, deviceVars, g_sec, fs, call, clean, calls>>

(* The device: takes the next request as the page describes it then, and   *)
(* answers any of those it has taken: data, status, used index.  A sector  *)
(* beyond the disk is an error.                                            *)
DeviceTake ==
    /\ ~ silent /\ vq.taken # vq.avail /\ Len(inflight) < MaxInflight
    /\ inflight' = Append(inflight, vq.hdr)
    /\ vq' = [vq EXCEPT !.taken = Inc(@)]
    /\ UNCHANGED <<phase, devices, silent, io, g_sec, fs, call, clean, calls, failures>>

DeviceAnswer(i, ok) ==
    /\ ~ silent
    /\ ~ ok => failures > 0 \/ inflight[i] \notin DOMAIN Disk
    /\ ok => inflight[i] \in DOMAIN Disk
    /\ failures' = IF ok \/ inflight[i] \notin DOMAIN Disk THEN failures ELSE failures - 1
    /\ vq' = [vq EXCEPT !.bounce = IF ok THEN Disk[inflight[i]] ELSE @,
                        !.status = IF ok THEN 0 ELSE 1,
                        !.used = Inc(@)]
    /\ inflight' = RemoveAt(inflight, i)
    /\ UNCHANGED <<phase, devices, silent, io, g_sec, fs, call, clean, calls>>

DeviceStops ==
    /\ failures > 0 /\ ~ silent
    /\ silent' = TRUE
    /\ UNCHANGED <<phase, devices, vq, inflight, failures, io, g_sec, fs, call, clean, calls>>

(* The poll ends; only a good status moves last_used on.                   *)

Answered == vq.used # vq.last_used

(* Mutant: any status is good. *)
Mutant_Good(status) == TRUE

Good(status) == status = 0

Poll ==
    /\ io.pc = "poll" /\ Answered
    /\ IF Good(vq.status)
       THEN /\ g_sec' = vq.bounce
            /\ vq' = [vq EXCEPT !.last_used = Inc(@)]
            /\ io' = [io EXCEPT !.pc = "ok"]
            /\ UNCHANGED clean
       ELSE /\ io' = [io EXCEPT !.pc = "fail"]
            /\ clean' = FALSE
            /\ UNCHANGED <<g_sec, vq>>
    /\ UNCHANGED <<phase, devices, deviceVars, fs, call, calls>>

(* The counter runs out: always when no answer is to come, and on a device *)
(* that is late.                                                           *)
NoAnswerComes == silent \/ (inflight = <<>> /\ vq.taken = vq.avail)

PollTimeout ==
    /\ io.pc = "poll" /\ ~ Answered
    /\ failures > 0 \/ NoAnswerComes
    /\ io' = [io EXCEPT !.pc = "fail"]
    /\ clean' = FALSE
    /\ failures' = IF NoAnswerComes THEN failures ELSE failures - 1
    /\ UNCHANGED <<phase, devices, vq, inflight, silent, g_sec, fs, call, calls>>

----------------------------------------------------------------------------
(* lafs.c.  A call is a sequence of read_sector()s.  raw, the address of   *)
(* the inode, points into g_sec, which each of them overwrites.            *)
InodeCells == 3 + LAFS_BLOCKS_MAX
FILE == 1
DIR == 2

rd32(off) == g_sec[off + 1]
Type(raw) == rd32(raw)
Name(raw) == rd32(raw + 1)
Size(raw) == rd32(raw + 2)
Block(raw, k) == rd32(raw + 3 + k)

Want(sector) == io' = [pc |-> "want", sector |-> sector]
Return(c, ret) ==
    /\ call' = [NoCall EXCEPT !.op = c.op, !.ino = c.ino, !.path = c.path, !.arg = c.arg,
                              !.out = c.out, !.failed = c.failed, !.ret = ret]
    /\ io' = Idle

(* read_inode_raw: the sector of inode ino, the address into raw or into   *)
(* lafs_readdir's entry_raw.                                               *)
ReadInode(c, ino, pc) ==
    LET at == (ino * InodeCells) % SectorCells IN
    /\ call' = IF pc = "inode" THEN [c EXCEPT !.pc = pc, !.raw = at]
               ELSE [c EXCEPT !.pc = pc, !.entry_raw = at]
    /\ Want(fs.inode_start + (ino * InodeCells) \div SectorCells)

Failure(c) == IF c.op = "size" THEN 0 ELSE -1

Start(c) ==
    /\ phase # "panic" /\ call.pc = "done" /\ calls > 0 /\ calls' = calls - 1
    /\ IF (c.op # "size" /\ ~ fs.mounted) \/ (c.op = "readdir" /\ c.arg[1] = 0)
       THEN Return(c, -1)
       ELSE IF (c.op = "open" /\ c.arg = <<>>) \/ (c.op = "read" /\ c.arg[2] = 0)
       THEN Return(c, 0)
       ELSE IF c.ino >= fs.inode_count THEN Return(c, Failure(c))
       ELSE ReadInode(c, c.ino, "inode")
    /\ UNCHANGED <<phase, driverVars, g_sec, fs>>

CallMount ==
    /\ phase # "panic" /\ call.pc = "done" /\ calls > 0 /\ calls' = calls - 1
    /\ call' = [NoCall EXCEPT !.op = "mount", !.pc = "super"] /\ Want(0)
    /\ UNCHANGED <<phase, driverVars, g_sec, fs>>

CallOpen(path) == Start([NoCall EXCEPT !.op = "open", !.path = path, !.arg = path])
CallRead(ino, offset, len) ==
    Start([NoCall EXCEPT !.op = "read", !.ino = ino, !.arg = <<offset, len>>])
CallReaddir(ino, bufsz) ==
    Start([NoCall EXCEPT !.op = "readdir", !.ino = ino, !.arg = <<bufsz>>])
CallSize(ino) == Start([NoCall EXCEPT !.op = "size", !.ino = ino])

(* The sector a call waited for has been read, or not. *)
Got(pc) == call.pc = pc /\ io.pc = "ok" /\ UNCHANGED <<phase, driverVars, g_sec, calls>>

(* The result when the data ends and when it cannot be read. *)
Ended(c) == IF c.op = "open" THEN -1 ELSE Len(c.out)
Broken(c) == IF c.out # <<>> THEN Len(c.out) ELSE Failure(c)

(* Mutant: two fields of the superblock are taken for each other. *)
Mutant_MountSuper ==
    /\ Got("super")
    /\ IF rd32(0) # LAFS_MAGIC THEN Return(call, -1) /\ UNCHANGED fs
       ELSE /\ fs' = [mounted |-> TRUE, inode_count |-> rd32(2), inode_start |-> rd32(1)]
            /\ Return(call, 0)

MountSuper ==
    /\ Got("super")
    /\ IF rd32(0) # LAFS_MAGIC THEN Return(call, -1) /\ UNCHANGED fs
       ELSE /\ fs' = [mounted |-> TRUE, inode_count |-> rd32(1), inode_start |-> rd32(2)]
            /\ Return(call, 0)

(* readdir leaves room for a newline. *)
Full(c) == c.op = "readdir" /\ Len(c.out) + 1 >= c.arg[1]

(* The next block of the file or directory, by raw's block pointers. *)
NextBlock(c) ==
    LET k == c.off \div SectorCells IN
    IF k >= LAFS_BLOCKS_MAX \/ c.off >= c.size \/ Full(c) THEN Return(c, Ended(c))
    ELSE IF Block(c.raw, k) = 0 THEN Return(c, Ended(c))
    ELSE call' = [c EXCEPT !.pc = "block"] /\ Want(Block(c.raw, k))

(* Mutant: a read is not cut at the end of the file. *)
Mutant_ReadEnd(offset, len, fsize) == offset + len

(* lafs_read: size is where the read stops, computed in 32 bits. *)
ReadEnd(offset, len, fsize) ==
    IF (offset + len) % WORD > fsize THEN fsize ELSE offset + len

GotInode ==
    LET c == call IN
    /\ Got("inode") /\ UNCHANGED fs
    /\ CASE c.op = "size" -> Return(c, IF Type(c.raw) = FILE THEN Size(c.raw) ELSE 0)
         [] c.op = "read" ->
              IF Type(c.raw) # FILE THEN Return(c, -1)
              ELSE IF c.arg[1] >= Size(c.raw) THEN Return(c, 0)
              ELSE NextBlock([c EXCEPT !.off = c.arg[1],
                                !.size = ReadEnd(c.arg[1], c.arg[2], Size(c.raw))])
         [] OTHER ->        \* readdir, and dir_lookup for open
              IF Type(c.raw) # DIR THEN Return(c, -1)
              ELSE NextBlock([c EXCEPT !.size = Size(c.raw)])

ReadBlock ==
    LET c == call
        from == c.off % SectorCells
        chunk == Min({SectorCells - from, c.size - c.off})
    IN  /\ Got("block") /\ c.op = "read" /\ UNCHANGED fs
        /\ NextBlock([c EXCEPT !.out = @ \o SubSeq(g_sec, from + 1, from + chunk),
                               !.off = @ + chunk])

(* The directory entries of a sector, as <<inode, name>>, up to the first  *)
(* empty one.                                                              *)
Entries(sector) ==
    LET n == SectorCells \div 2
        empty == {i \in 1 .. n : sector[2 * i - 1] = 0 \/ sector[2 * i] = 0}
    IN  [i \in 1 .. (IF empty = {} THEN n ELSE Min(empty) - 1) |->
           <<sector[2 * i - 1], sector[2 * i]>>]

NextSector(c) == NextBlock([c EXCEPT !.off = @ + SectorCells - (@ % SectorCells)])

(* dir_lookup, and the next component of the path. *)
OpenBlock ==
    LET c == call
        es == Entries(g_sec)
        hits == {i \in DOMAIN es : es[i][2] = Head(c.arg)}
        found == es[Min(hits)][1]
        deeper == [c EXCEPT !.arg = Tail(@), !.ino = found, !.off = 0, !.size = 0]
    IN  /\ Got("block") /\ c.op = "open" /\ UNCHANGED fs
        /\ IF hits = {} THEN NextSector(c)
           ELSE IF Tail(c.arg) = <<>> THEN Return(deeper, found)
           ELSE IF found >= fs.inode_count THEN Return(deeper, -1)
           ELSE ReadInode(deeper, found, "inode")

(* lafs_readdir: the block is copied, then each entry's inode is read for  *)
(* its name.  out is the buffer, less the terminator.                      *)
NextEntry(c) ==
    LET es == Entries(c.dir) IN
    IF c.pos > Len(es) \/ Full(c) THEN NextSector(c)
    ELSE IF es[c.pos][1] >= fs.inode_count
    THEN call' = [c EXCEPT !.pc = "skip"] /\ io' = Idle
    ELSE ReadInode(c, es[c.pos][1], "entry")

ReaddirBlock ==
    /\ Got("block") /\ call.op = "readdir" /\ UNCHANGED fs
    /\ NextEntry([call EXCEPT !.dir = g_sec, !.pos = 1])

(* The name, cut to what is left, and a newline (0).  The newline of a     *)
(* name that was cut fills the buffer, and the terminator goes past it.    *)
Appended(out, name, bufsz) ==
    LET copy == IF Len(out) + NameLen[name] + 1 >= bufsz THEN bufsz - Len(out) - 1
                ELSE NameLen[name]
    IN  out \o [i \in 1 .. copy |-> name] \o <<0>>

ReaddirEntry ==
    LET c == [call EXCEPT !.pos = @ + 1] IN
    /\ Got("entry") /\ UNCHANGED fs
    /\ NextEntry(IF Type(c.entry_raw) # 0 /\ Name(c.entry_raw) \in DOMAIN NameLen
                 THEN [c EXCEPT !.out = Appended(@, Name(c.entry_raw), c.arg[1])] ELSE c)

(* Mutant: the entry is tried again. *)
Mutant_ReaddirSkip ==
    /\ \/ call.pc = "skip"
       \/ call.pc = "entry" /\ io.pc = "fail"
    /\ NextEntry(call)
    /\ UNCHANGED <<phase, driverVars, g_sec, fs, calls>>

(* An entry whose inode cannot be read is left out. *)
ReaddirSkip ==
    /\ \/ call.pc = "skip"
       \/ call.pc = "entry" /\ io.pc = "fail"
    /\ NextEntry([call EXCEPT !.pos = @ + 1, !.failed = @ \/ io.pc = "fail"])
    /\ UNCHANGED <<phase, driverVars, g_sec, fs, calls>>

ReadFailed ==
    /\ call.pc \in {"super", "inode", "block"} /\ io.pc = "fail"
    /\ Return([call EXCEPT !.failed = TRUE], Broken(call))
    /\ UNCHANGED <<phase, driverVars, g_sec, fs, calls>>

Inodes == 0 .. fs.inode_count

LafsNext ==
    \/ CallMount
    \/ \E p \in Paths : CallOpen(p)
    \/ \E i \in Inodes, off \in Offsets, len \in Lens : CallRead(i, off, len)
    \/ \E i \in Inodes, n \in BufSizes : CallReaddir(i, n)
    \/ \E i \in Inodes : CallSize(i)
    \/ MountSuper \/ GotInode \/ ReadBlock \/ OpenBlock \/ ReaddirBlock
    \/ ReaddirEntry \/ ReaddirSkip \/ ReadFailed

DeviceNext ==
    \/ DeviceTake \/ DeviceStops
    \/ \E i \in DOMAIN inflight, ok \in BOOLEAN : DeviceAnswer(i, ok)

Next ==
    \/ \E dev \in {"blank", "test"} : RegisterTest(dev)
    \/ ResetTest \/ (\E ok \in BOOLEAN : EndTests(ok)) \/ virtio_pci_blk_init
    \/ ReadMemory \/ Submit \/ Poll \/ PollTimeout
    \/ DeviceNext \/ LafsNext

Spec == Init /\ [][Next]_vars

(* The CPU runs on.  A device that has not stopped answers in the end;     *)
(* when it has, the poll gives up by itself.                               *)
FairSpec ==
    /\ Spec
    /\ WF_vars(ReadMemory \/ Submit \/ Poll \/ PollTimeout)
    /\ WF_vars(MountSuper \/ GotInode \/ ReadBlock \/ OpenBlock \/ ReaddirBlock
                \/ ReaddirEntry \/ ReaddirSkip \/ ReadFailed)
    /\ WF_vars(DeviceTake) /\ WF_vars(\E i \in DOMAIN inflight, ok \in BOOLEAN : DeviceAnswer(i, ok))

----------------------------------------------------------------------------
(* As long as no virtio read has failed, a read_sector() that succeeds     *)
(* leaves the requested sector in g_sec, whatever the interleaving of      *)
(* virtio_pci_blk_bd_read with the device.                                 *)
SectorDelivered ==
    clean /\ io.pc = "ok" => g_sec = DiskOf(block_device_get)[io.sector]

(* The same after a timeout too: the sentinel that virtio_pci_blk_bd_read  *)
(* writes is to keep an earlier request's answer from being taken for this *)
(* one's.                                                                  *)
AnswersOwnRequest == io.pc = "ok" => g_sec = DiskOf(block_device_get)[io.sector]

(* What is on a disk, read without the buffer. *)
Image == DiskOf(block_device_get)
Superblock(d) == [mounted |-> TRUE, inode_count |-> d[0][2], inode_start |-> d[0][3]]
InodeOf(d, ino) ==
    LET s == d[0][3] + (ino * InodeCells) \div SectorCells
        o == (ino * InodeCells) % SectorCells
    IN  SubSeq(d[s], o + 1, o + InodeCells)
DataOf(d, ino) ==
    LET n == InodeOf(d, ino)
        bs == SelectSeq(SubSeq(n, 4, InodeCells), LAMBDA b : b # 0)
        all == FlattenSeq([k \in DOMAIN bs |-> d[bs[k]]])
    IN  SubSeq(all, 1, Min({n[3], Len(all)}))
Lookup(es, name) ==
    LET hits == {i \in DOMAIN es : es[i][2] = name}
    IN  IF hits = {} THEN -1 ELSE es[Min(hits)][1]
Lines(d, es) ==
    LET known(e) == e[1] < d[0][2] /\ InodeOf(d, e[1])[1] # 0
        shown == SelectSeq(es, known)
        line(e) == LET name == InodeOf(d, e[1])[2]
                   IN  Append([i \in 1 .. NameLen[name] |-> name], 0)
    IN  FlattenSeq([i \in DOMAIN shown |-> line(shown[i])])
IsDir(d, ino) == ino >= 0 /\ ino < d[0][2] /\ InodeOf(d, ino)[1] = DIR
OneSector(d, ino) == InodeOf(d, ino)[3] <= SectorCells
FirstEntries(d, ino) == Entries(SubSeq(DataOf(d, ino) \o Zero, 1, SectorCells))

(* What lafs_read, lafs_readdir, lafs_size and lafs_open have to give.     *)
ReadResult(d, ino, offset, len) ==
    LET data == DataOf(d, ino)
    IN  SubSeq(data, offset + 1, Min({offset + len, Len(data)}))
OneBlock(d, ino, offset, len) ==
    ino < d[0][2] =>
      offset \div SectorCells = (Min({offset + len, InodeOf(d, ino)[3]}) - 1) \div SectorCells
GoodRead(d, c) ==
    IF c.ino < d[0][2] /\ InodeOf(d, c.ino)[1] = FILE
    THEN LET bytes == ReadResult(d, c.ino, c.arg[1], c.arg[2]) IN
         /\ IF c.arg[1] + c.arg[2] < WORD THEN c.out = bytes ELSE IsPrefix(bytes, c.out)
         /\ c.ret = Len(c.out)
    ELSE c.arg[2] > 0 => c.ret = -1
GoodListing(d, c) ==
    IF IsDir(d, c.ino)
    THEN LET first == Lines(d, FirstEntries(d, c.ino)) IN
         /\ c.ret = Len(c.out) /\ Len(c.out) <= c.arg[1]
         /\ IF Len(first) + 1 <= c.arg[1]
            THEN IF OneSector(d, c.ino) THEN c.out = first ELSE IsPrefix(first, c.out)
            ELSE c.out # <<>> => IsPrefix(Front(c.out), first)
    ELSE c.ret = -1
(* The path's end, or Beyond once a name is looked for past the first      *)
(* sector of a directory.                                                  *)
Beyond == -2
Step(d, ino, name) ==
    IF ~ IsDir(d, ino) THEN Min({ino, -1})
    ELSE LET found == Lookup(FirstEntries(d, ino), name)
         IN  IF found = -1 /\ ~ OneSector(d, ino) THEN Beyond ELSE found
Walk(d, path) == FoldLeft(LAMBDA i, n : Step(d, i, n), 0, path)
GoodOpen(d, c) == Walk(d, c.path) \in {c.ret, Beyond}
GoodSize(d, c) ==
    c.ret = IF c.ino < d[0][2] /\ InodeOf(d, c.ino)[1] = FILE
            THEN InodeOf(d, c.ino)[3] ELSE 0

Finished(op) ==
    call.pc = "done" /\ call.op = op /\ ~ call.failed /\ clean
      /\ Image # <<>> /\ fs = Superblock(Image)

(* A LaFS call whose sectors could all be read returns what is on the      *)
(* disk, although every step of it reuses g_sec: lafs_open follows the     *)
(* path, lafs_readdir lists the names or as many as it has room for,       *)
(* lafs_size and lafs_read agree with the inode.  It holds of what the     *)
(* first data sector shows, of a read that stays within one block and of   *)
(* the names in a directory's first sector; past that the block numbers    *)
(* come from data.  A read whose end wraps round WORD starts with the      *)
(* file's bytes and goes on past its end.  No byte of a listing is past    *)
(* the buffer but, when it was cut, the terminator.                        *)
LafsCorrect ==
    /\ Finished("read") /\ OneBlock(Image, call.ino, call.arg[1], call.arg[2]) =>
         GoodRead(Image, call)
    /\ Finished("readdir") /\ call.arg[1] > 0 => GoodListing(Image, call)
    /\ Finished("size") => GoodSize(Image, call)
    /\ Finished("open") => GoodOpen(Image, call)

(* The same for every lafs_read, of several blocks too: the bytes it       *)
(* returns are the file's.                                                 *)
ReadsWholeFile == Finished("read") => GoodRead(Image, call)

(* Once the boot tests are over, what LaFS has mounted is the superblock   *)
(* of the virtio disk, which is what is read: neither a sector of the test *)
(* image nor a late answer gets into lafs_mount.                           *)
MountedMatchesDevice ==
    phase = "devices" /\ fs.mounted /\ clean =>
      block_device_get = "virtio" /\ fs = Superblock(Disk)

(* Every LaFS call returns, though the device answers late, with an error, *)
(* or never again: each loop of lafs.c and of virtio_pci_blk_poll ends.    *)
CallReturns == call.pc # "done" ~> call.pc = "done"
=============================================================================
