---------------------------- MODULE StorageProofs -----------------------------
(***************************************************************************)
(* Proof that the polled virtio-blk driver delivers the sector asked for   *)
(* as long as none of its reads has failed, and that what LaFS has mounted *)
(* after the boot tests is the superblock of that disk. Neither is         *)
(* inductive: the first needs that there is only ever one request in the   *)
(* virtqueue and where it is between driver and device (OneRequest), the   *)
(* second which devices each boot phase has (DevicesOfPhase) and which     *)
(* sector a mount waits for (OneRead).                                     *)
(***************************************************************************)
EXTENDS Storage, TLAPS

-----------------------------------------------------------------------------
(* The fields of the virtqueue page and of the driver. *)
QueueFields == {"hdr", "status", "bounce", "avail", "taken", "used", "last_used"}
Index == 0 .. IDX - 1

(* Types, as far as the proof needs them. *)
Parts ==
    /\ phase \in {"tests", "devices", "panic"} /\ clean \in BOOLEAN
    /\ DOMAIN vq = QueueFields /\ DOMAIN io = {"pc", "sector"} /\ "pc" \in DOMAIN call
    /\ vq.avail \in Index /\ vq.taken \in Index /\ vq.used \in Index /\ vq.last_used \in Index
    /\ devices \in Seq({"blank", "test", "virtio"})

(* A boot phase has its devices, and the virtqueue is untouched before     *)
(* virtio_pci_blk_init.                                                    *)
DevicesOfPhase ==
    /\ phase = "tests" => devices \in Seq({"blank", "test"})
    /\ phase = "devices" => devices = <<>> \/ devices = <<"virtio">>
    /\ phase = "panic" => devices = <<>>
    /\ devices # <<"virtio">> =>
         inflight = <<>> /\ vq.avail = 0 /\ vq.taken = 0 /\ vq.used = 0 /\ vq.last_used = 0

(* The read in progress belongs to the call in progress. *)
OneRead ==
    /\ call.pc \in {"done", "skip"} => io.pc = "idle"
    /\ call.pc = "super" => io.sector = 0
    /\ io.pc = "poll" => devices = <<"virtio">>
    /\ io.pc = "ok" => devices # <<>>

(* The queue between two requests. *)
Quiet == inflight = <<>> /\ vq.taken = vq.avail /\ vq.used = vq.avail /\ vq.last_used = vq.avail

(* A request on its way: not yet taken, taken, answered. *)
Submitted == inflight = <<>> /\ vq.taken = vq.last_used /\ vq.used = vq.last_used
Taken == inflight = <<io.sector>> /\ vq.taken = vq.avail /\ vq.used = vq.last_used
Served ==
    /\ inflight = <<>> /\ vq.taken = vq.avail /\ vq.used = vq.avail
    /\ vq.status = 0 => vq.bounce = Disk[io.sector]

(* While no read has failed, the queue holds the request being polled for *)
(* and nothing else.                                                       *)
OneRequest ==
    clean => IF io.pc = "poll"
             THEN /\ vq.avail = Inc(vq.last_used) /\ vq.hdr = io.sector
                  /\ Submitted \/ Taken \/ Served
             ELSE Quiet

(* The inductive invariant. *)
StorageInv == /\ Parts /\ DevicesOfPhase /\ OneRead /\ OneRequest
              /\ SectorDelivered /\ MountedMatchesDevice

(* Where a step of lafs.c leaves the call and its read: returned, between  *)
(* two reads, or asking for a sector.                                      *)
Moved ==
    /\ "pc" \in DOMAIN call' /\ DOMAIN io' = {"pc", "sector"}
    /\ \/ call'.pc \in {"done", "skip"} /\ io'.pc = "idle"
       \/ call'.pc \in {"inode", "block", "entry"} /\ io'.pc = "want"
       \/ call'.pc = "super" /\ io'.pc = "want" /\ io'.sector = 0

(* A call that returns has no read left. *)
LEMMA Returned ==
  ASSUME NEW c, "pc" \in DOMAIN c, NEW ret, Return(c, ret) PROVE Moved /\ call'.pc = "done"
<1>1. /\ call' = [NoCall EXCEPT !.op = c.op, !.ino = c.ino, !.path = c.path, !.arg = c.arg,
                                !.out = c.out, !.failed = c.failed, !.ret = ret]
      /\ io' = [pc |-> "idle", sector |-> NoSector]
  BY DEF Return, Idle
<1>2. "pc" \in DOMAIN call' /\ call'.pc = "done"
  BY <1>1 DEF NoCall
<1>3. DOMAIN io' = {"pc", "sector"} /\ io'.pc = "idle"
  BY <1>1
<1>. QED BY <1>2, <1>3 DEF Moved

(* A call that goes on asks for a sector. *)
LEMMA Wanted ==
  ASSUME NEW c, "pc" \in DOMAIN c, NEW p \in {"inode", "block", "entry"}, NEW s,
         "pc" \in DOMAIN call' /\ call'.pc = p, Want(s)
  PROVE  Moved
<1>1. DOMAIN io' = {"pc", "sector"} /\ io'.pc = "want"
  BY DEF Want
<1>. QED BY <1>1 DEF Moved

(* read_inode_raw(). *)
LEMMA InodeWanted ==
  ASSUME NEW c, "pc" \in DOMAIN c, NEW ino, NEW p \in {"inode", "entry"}, ReadInode(c, ino, p)
  PROVE  Moved
<1>. DEFINE r == (ino * InodeCells) % SectorCells
            s == fs.inode_start + (ino * InodeCells) \div SectorCells
<1>1. /\ call' = [c EXCEPT !.pc = p, !.raw = r] \/ call' = [c EXCEPT !.pc = p, !.entry_raw = r]
      /\ Want(s)
  BY DEF ReadInode
<1>. HIDE DEF r, s
<1>2. "pc" \in DOMAIN call' /\ call'.pc = p
  BY <1>1
<1>. QED BY <1>1, <1>2, Wanted

(* The next block of a file or directory. *)
LEMMA BlockWanted == ASSUME NEW c, "pc" \in DOMAIN c, NextBlock(c) PROVE Moved
<1>. DEFINE k == c.off \div SectorCells
            b == Block(c.raw, k)
            e == Ended(c)
<1>1. Return(c, e) \/ (call' = [c EXCEPT !.pc = "block"] /\ Want(b))
  BY DEF NextBlock
<1>. HIDE DEF k, b, e
<1>2. CASE call' = [c EXCEPT !.pc = "block"] /\ Want(b)
  <2>1. "pc" \in DOMAIN call' /\ call'.pc = "block"
    BY <1>2
  <2>. QED BY <1>2, <2>1, Wanted
<1>. QED BY <1>1, <1>2, Returned

(* The rest of a directory block is left. *)
LEMMA SectorWanted == ASSUME NEW c, "pc" \in DOMAIN c, NextSector(c) PROVE Moved
<1>. DEFINE o == c.off + SectorCells - (c.off % SectorCells)
            d == [c EXCEPT !.off = o]
<1>1. NextBlock(d)
  BY DEF NextSector
<1>2. "pc" \in DOMAIN d
  OBVIOUS
<1>. HIDE DEF d
<1>. QED BY <1>1, <1>2, BlockWanted

(* The next entry of lafs_readdir(). *)
LEMMA EntryWanted == ASSUME NEW c, "pc" \in DOMAIN c, NextEntry(c) PROVE Moved
<1>. DEFINE n == Entries(c.dir)[c.pos][1]
<1>1. \/ NextSector(c)
      \/ call' = [c EXCEPT !.pc = "skip"] /\ io' = Idle
      \/ ReadInode(c, n, "entry")
  BY DEF NextEntry
<1>. HIDE DEF n
<1>2. CASE call' = [c EXCEPT !.pc = "skip"] /\ io' = Idle
  <2>1. "pc" \in DOMAIN call' /\ call'.pc = "skip"
    BY <1>2
  <2>2. DOMAIN io' = {"pc", "sector"} /\ io'.pc = "idle"
    BY <1>2 DEF Idle
  <2>. QED BY <2>1, <2>2 DEF Moved
<1>. QED BY <1>1, <1>2, SectorWanted, InodeWanted

(* A call starts, with the call before it returned. *)
LEMMA Starts ==
  ASSUME NEW c, "pc" \in DOMAIN c, Start(c)
  PROVE  /\ Moved /\ call.pc = "done"
         /\ UNCHANGED <<phase, devices, vq, clean, inflight, g_sec, fs>>
<1>1. /\ call.pc = "done" /\ UNCHANGED <<phase, devices, vq, clean, inflight, g_sec, fs>>
      /\ (\E ret : Return(c, ret)) \/ ReadInode(c, c.ino, "inode")
  BY DEF Start, driverVars, deviceVars
<1>. QED BY <1>1, Returned, InodeWanted

(* Every step of lafs.c but the end of a mount. *)
LEMMA LafsMoves ==
  ASSUME StorageInv, LafsNext, ~ MountSuper
  PROVE  /\ Moved /\ io.pc # "poll"
         /\ UNCHANGED <<phase, devices, vq, clean, inflight, g_sec, fs>>
<1>0. "pc" \in DOMAIN call /\ (call.pc \in {"done", "skip"} => io.pc = "idle")
  BY DEF StorageInv, Parts, OneRead
<1>1. CASE CallMount
  <2>1. /\ call.pc = "done" /\ UNCHANGED <<phase, devices, vq, clean, inflight, g_sec, fs>>
        /\ call' = [NoCall EXCEPT !.op = "mount", !.pc = "super"] /\ io' = [pc |-> "want", sector |-> 0]
    BY <1>1 DEF CallMount, Want, driverVars, deviceVars
  <2>2. "pc" \in DOMAIN call' /\ call'.pc = "super"
    BY <2>1 DEF NoCall
  <2>3. DOMAIN io' = {"pc", "sector"} /\ io'.pc = "want" /\ io'.sector = 0
    BY <2>1
  <2>. QED BY <1>0, <2>1, <2>2, <2>3 DEF Moved
<1>2. CASE \/ \E p \in Paths : CallOpen(p)
           \/ \E i \in Inodes, off \in Offsets, len \in Lens : CallRead(i, off, len)
           \/ \E i \in Inodes, n \in BufSizes : CallReaddir(i, n)
           \/ \E i \in Inodes : CallSize(i)
  <2>1. ASSUME NEW o, NEW p, NEW i, NEW a, NEW c,
               \/ c = [NoCall EXCEPT !.op = o, !.path = p, !.arg = a]
               \/ c = [NoCall EXCEPT !.op = o, !.ino = i, !.arg = a]
               \/ c = [NoCall EXCEPT !.op = o, !.ino = i]
        PROVE  "pc" \in DOMAIN c
    BY <2>1 DEF NoCall
  <2>2. \E c : "pc" \in DOMAIN c /\ Start(c)
    BY <1>2, <2>1 DEF CallOpen, CallRead, CallReaddir, CallSize
  <2>. QED BY <1>0, <2>2, Starts
<1>3. CASE GotInode \/ ReadBlock \/ OpenBlock \/ ReaddirBlock \/ ReaddirEntry
  <2>1. /\ io.pc = "ok" /\ UNCHANGED <<phase, devices, vq, clean, inflight, g_sec, fs>>
    BY <1>3 DEF GotInode, ReadBlock, OpenBlock, ReaddirBlock, ReaddirEntry, Got, driverVars, deviceVars
  <2>2. CASE GotInode
    <3>1. ASSUME NEW o, NEW s PROVE "pc" \in DOMAIN [call EXCEPT !.off = o, !.size = s]
      BY <1>0
    <3>2. ASSUME NEW s PROVE "pc" \in DOMAIN [call EXCEPT !.size = s]
      BY <1>0
    <3>. DEFINE z == Size(call.raw)
                s == ReadEnd(call.arg[1], call.arg[2], z)
                r == IF Type(call.raw) = FILE THEN z ELSE 0
                c1 == [call EXCEPT !.off = call.arg[1], !.size = s]
                c2 == [call EXCEPT !.size = z]
    <3>3. Return(call, r) \/ Return(call, -1) \/ Return(call, 0) \/ NextBlock(c1) \/ NextBlock(c2)
      <4>1. CASE call.op = "size"
        BY <2>2, <4>1 DEF GotInode
      <4>2. CASE call.op = "read"
        BY <2>2, <4>2 DEF GotInode
      <4>3. CASE call.op \notin {"size", "read"}
        BY <2>2, <4>3 DEF GotInode
      <4>. QED BY <4>1, <4>2, <4>3
    <3>4. "pc" \in DOMAIN c1 /\ "pc" \in DOMAIN c2
      BY <3>1, <3>2
    <3>. HIDE DEF c1, c2, r
    <3>. QED BY <1>0, <2>1, <3>3, <3>4, Returned, BlockWanted
  <2>3. CASE ReadBlock
    <3>1. ASSUME NEW x, NEW o PROVE "pc" \in DOMAIN [call EXCEPT !.out = x, !.off = o]
      BY <1>0
    <3>2. \E x, o : NextBlock([call EXCEPT !.out = x, !.off = o])
      BY <2>3 DEF ReadBlock
    <3>. QED BY <2>1, <3>1, <3>2, BlockWanted
  <2>4. CASE OpenBlock
    <3>1. ASSUME NEW a, NEW i PROVE "pc" \in DOMAIN [call EXCEPT !.arg = a, !.ino = i, !.off = 0, !.size = 0]
      BY <1>0
    <3>. DEFINE es == Entries(g_sec)
                found == es[Min({i \in DOMAIN es : es[i][2] = Head(call.arg)})][1]
                deeper == [call EXCEPT !.arg = Tail(@), !.ino = found, !.off = 0, !.size = 0]
    <3>2. \/ NextSector(call) \/ Return(deeper, found) \/ Return(deeper, -1)
          \/ ReadInode(deeper, found, "inode")
      BY <2>4 DEF OpenBlock
    <3>3. "pc" \in DOMAIN deeper
      BY <3>1
    <3>. HIDE DEF deeper, found
    <3>. QED BY <1>0, <2>1, <3>2, <3>3, SectorWanted, Returned, InodeWanted
  <2>5. CASE ReaddirBlock
    <3>. DEFINE c == [call EXCEPT !.dir = g_sec, !.pos = 1]
    <3>1. NextEntry(c)
      BY <2>5 DEF ReaddirBlock
    <3>2. "pc" \in DOMAIN c
      BY <1>0
    <3>. HIDE DEF c
    <3>. QED BY <2>1, <3>1, <3>2, EntryWanted
  <2>6. CASE ReaddirEntry
    <3>. DEFINE p == call.pos + 1
                c == [call EXCEPT !.pos = p]
                o == Appended(c.out, Name(c.entry_raw), c.arg[1])
                d == [c EXCEPT !.out = o]
    <3>1. NextEntry(c) \/ NextEntry(d)
      BY <2>6 DEF ReaddirEntry
    <3>2. "pc" \in DOMAIN c
      BY <1>0
    <3>. HIDE DEF c
    <3>3. "pc" \in DOMAIN d
      BY <3>2
    <3>. HIDE DEF d
    <3>. QED BY <2>1, <3>1, <3>2, <3>3, EntryWanted
  <2>. QED BY <1>3, <2>2, <2>3, <2>4, <2>5, <2>6
<1>4. CASE ReaddirSkip
  <2>. DEFINE p == call.pos + 1
              f == call.failed \/ io.pc = "fail"
              c == [call EXCEPT !.pos = p, !.failed = f]
  <2>1. /\ NextEntry(c) /\ UNCHANGED <<phase, devices, vq, clean, inflight, g_sec, fs>>
        /\ call.pc = "skip" \/ io.pc = "fail"
    BY <1>4 DEF ReaddirSkip, driverVars, deviceVars
  <2>2. "pc" \in DOMAIN c
    BY <1>0
  <2>. HIDE DEF c
  <2>. QED BY <1>0, <2>1, <2>2, EntryWanted
<1>5. CASE ReadFailed
  <2>. DEFINE c == [call EXCEPT !.failed = TRUE]
  <2>1. /\ io.pc = "fail" /\ UNCHANGED <<phase, devices, vq, clean, inflight, g_sec, fs>>
        /\ Return(c, Broken(call))
    BY <1>5 DEF ReadFailed, driverVars, deviceVars
  <2>2. "pc" \in DOMAIN c
    BY <1>0
  <2>. HIDE DEF c
  <2>. QED BY <2>1, <2>2, Returned
<1>. QED BY <1>1, <1>2, <1>3, <1>4, <1>5 DEF LafsNext

(* A ring index stays one. *)
LEMMA IncIndex == ASSUME NEW i \in Index PROVE Inc(i) \in Index
<1>1. IDX \in Nat \ {0} /\ i \in Nat
  BY StorageAssumption DEF Index
<1>. DEFINE j == i + 1
<1>2. j \in Nat
  BY <1>1
<1>. HIDE DEF j
<1>3. j % IDX \in 0 .. IDX - 1
  BY <1>1, <1>2
<1>. QED BY <1>3 DEF Inc, Index, j

(* The device that serves a read. *)
LEMMA TheDevice ==
  /\ devices = <<>> => block_device_get = "none"
  /\ devices = <<"virtio">> => block_device_get = "virtio"
  /\ devices \in Seq({"blank", "test"}) /\ devices # <<>> => block_device_get \in {"blank", "test"}
<1>1. ASSUME devices = <<"virtio">> PROVE Last(devices) = "virtio" /\ devices # <<>>
  BY <1>1 DEF Last
<1>2. ASSUME devices \in Seq({"blank", "test"}), devices # <<>> PROVE Last(devices) \in {"blank", "test"}
  BY <1>2 DEF Last
<1>. QED BY <1>1, <1>2 DEF block_device_get

(* The virtio disk serves reads only where it is the one device. *)
LEMMA OnlyVirtio ==
  ASSUME StorageInv PROVE block_device_get = "virtio" <=> devices = <<"virtio">>
<1>1. \/ phase = "tests" /\ devices \in Seq({"blank", "test"})
      \/ phase \in {"devices", "panic"} /\ (devices = <<>> \/ devices = <<"virtio">>)
  BY DEF StorageInv, Parts, DevicesOfPhase
<1>. QED BY <1>1, TheDevice

(* What serves a read changes with the registry only. *)
LEMMA SameDevice == ASSUME devices' = devices
  PROVE /\ block_device_get' = block_device_get /\ \A s : DiskOf(s)' = DiskOf(s)
BY DEF block_device_get, DiskOf, Zero

(* A step of lafs.c. *)
LEMMA LafsKeeps ==
  ASSUME StorageInv, LafsNext, ~ MountSuper
  PROVE  StorageInv'
<1>1. /\ Moved /\ io.pc # "poll"
      /\ UNCHANGED <<phase, devices, vq, clean, inflight, g_sec, fs>>
  BY LafsMoves
<1>2. block_device_get' = block_device_get
  BY <1>1, SameDevice
<1>3. io'.pc \in {"idle", "want"}
  BY <1>1 DEF Moved
<1>4. Parts'
  BY <1>1 DEF StorageInv, Parts, Moved
<1>5. DevicesOfPhase'
  BY <1>1 DEF StorageInv, DevicesOfPhase
<1>6. OneRead'
  BY <1>1, <1>3 DEF OneRead, Moved
<1>7. OneRequest'
  BY <1>1, <1>3 DEF StorageInv, OneRequest, Quiet
<1>8. SectorDelivered' /\ MountedMatchesDevice'
  BY <1>1, <1>2, <1>3 DEF StorageInv, SectorDelivered, MountedMatchesDevice, Superblock
<1>. QED BY <1>4, <1>5, <1>6, <1>7, <1>8 DEF StorageInv

(* The superblock is in g_sec when the mount takes it. *)
LEMMA MountKeeps == ASSUME StorageInv, MountSuper PROVE StorageInv'
<1>0. /\ call.pc = "super" /\ io.pc = "ok" /\ UNCHANGED <<phase, devices, vq, clean, inflight, g_sec>>
      /\ \E r : Return(call, r)
      /\ fs' = fs \/ fs' = [mounted |-> TRUE, inode_count |-> rd32(1), inode_start |-> rd32(2)]
  BY DEF MountSuper, Got, driverVars, deviceVars
<1>1. "pc" \in DOMAIN call /\ io.sector = 0 /\ devices # <<>>
  BY <1>0 DEF StorageInv, Parts, OneRead
<1>2. Moved /\ io'.pc = "idle" /\ call'.pc = "done"
  <2>1. Moved
    BY <1>0, <1>1, Returned
  <2>2. io'.pc = "idle"
    BY <1>0 DEF Return, Idle
  <2>3. call'.pc = "done"
    BY <1>0, <1>1, Returned
  <2>. QED BY <2>1, <2>2, <2>3
<1>3. block_device_get' = block_device_get
  BY <1>0, SameDevice
<1>4. Parts'
  BY <1>0, <1>2 DEF StorageInv, Parts, Moved
<1>5. DevicesOfPhase'
  BY <1>0 DEF StorageInv, DevicesOfPhase
<1>6. OneRead'
  BY <1>2 DEF OneRead
<1>7. OneRequest'
  BY <1>0, <1>2 DEF StorageInv, OneRequest, Quiet
<1>8. SectorDelivered'
  BY <1>2 DEF SectorDelivered
<1>9. MountedMatchesDevice'
  <2>1. SUFFICES ASSUME phase = "devices", fs'.mounted, clean
                 PROVE  block_device_get = "virtio" /\ fs' = Superblock(Disk)
    BY <1>0, <1>3 DEF MountedMatchesDevice, Superblock
  <2>2. CASE fs' = fs
    BY <2>1, <2>2 DEF StorageInv, MountedMatchesDevice
  <2>3. CASE fs' = [mounted |-> TRUE, inode_count |-> rd32(1), inode_start |-> rd32(2)]
    <3>1. block_device_get = "virtio"
      BY <1>1, <2>1, TheDevice DEF StorageInv, DevicesOfPhase
    <3>2. g_sec = Disk[0]
      BY <1>0, <1>1, <2>1, <3>1 DEF StorageInv, SectorDelivered, DiskOf
    <3>3. rd32(1) = Disk[0][2] /\ rd32(2) = Disk[0][3]
      BY <3>2 DEF rd32
    <3>. QED BY <2>3, <3>1, <3>3 DEF Superblock
  <2>. QED BY <1>0, <2>2, <2>3
<1>. QED BY <1>4, <1>5, <1>6, <1>7, <1>8, <1>9 DEF StorageInv

(* Boot: the devices of the tests, and then the disk. *)
LEMMA BootKeeps ==
  ASSUME StorageInv,
         \/ \E dev \in {"blank", "test"} : RegisterTest(dev)
         \/ ResetTest \/ (\E ok \in BOOLEAN : EndTests(ok)) \/ virtio_pci_blk_init
  PROVE  StorageInv'
<1>0. Parts /\ DevicesOfPhase /\ OneRead /\ OneRequest /\ SectorDelivered /\ MountedMatchesDevice
  BY DEF StorageInv
<1>a. /\ call.pc = "done" /\ io.pc = "idle" /\ call' = NoCall /\ UNCHANGED <<inflight, io, clean>>
  BY <1>0 DEF RegisterTest, ResetTest, EndTests, virtio_pci_blk_init, OneRead, deviceVars
<1>b. "pc" \in DOMAIN call' /\ call'.pc = "done"
  BY <1>a DEF NoCall
<1>1. /\ call.pc = "done" /\ io.pc = "idle" /\ UNCHANGED <<inflight, io, clean>>
      /\ "pc" \in DOMAIN call' /\ call'.pc = "done"
  BY <1>a, <1>b
<1>2. SectorDelivered'
  BY <1>1 DEF SectorDelivered
<1>3. OneRead'
  BY <1>0, <1>1 DEF OneRead
<1>4. CASE \E dev \in {"blank", "test"} : RegisterTest(dev)
  <2>1. PICK dev \in {"blank", "test"} : phase = "tests" /\ devices' = Append(devices, dev)
    BY <1>4 DEF RegisterTest
  <2>2. UNCHANGED <<phase, vq, fs>>
    BY <1>4 DEF RegisterTest
  <2>3. devices' \in Seq({"blank", "test"}) /\ devices \in Seq({"blank", "test"})
    BY <1>0, <2>1 DEF DevicesOfPhase
  <2>4. devices # <<"virtio">> /\ devices' \in Seq({"blank", "test", "virtio"})
    <3>1. devices # <<"virtio">>
      BY SMTT(60), <2>3
    <3>2. devices' \in Seq({"blank", "test", "virtio"})
      BY <1>0, <2>1 DEF Parts
    <3>. QED BY <3>1, <3>2
  <2>5. Parts' /\ DevicesOfPhase' /\ OneRequest' /\ MountedMatchesDevice'
    BY <1>0, <1>1, <2>1, <2>2, <2>3, <2>4 DEF Parts, DevicesOfPhase, OneRequest, Quiet, MountedMatchesDevice
  <2>. QED BY <1>2, <1>3, <2>5 DEF StorageInv
<1>7. CASE ResetTest
  <2>1. /\ phase = "tests" /\ devices' = <<>> /\ UNCHANGED <<phase, vq, fs>>
    BY <1>7 DEF ResetTest, block_device_reset
  <2>2. devices # <<"virtio">>
    BY <1>0, <2>1 DEF DevicesOfPhase
  <2>3. Parts' /\ DevicesOfPhase' /\ OneRequest' /\ MountedMatchesDevice'
    BY <1>0, <1>1, <2>1, <2>2 DEF Parts, DevicesOfPhase, OneRequest, Quiet, MountedMatchesDevice
  <2>. QED BY <1>2, <1>3, <2>3 DEF StorageInv
<1>5. CASE \E ok \in BOOLEAN : EndTests(ok)
  <2>1. /\ phase = "tests" /\ phase' \in {"devices", "panic"} /\ devices' = <<>>
        /\ vq' = vq /\ fs' = Unmounted
    BY <1>5 DEF EndTests, lafs_reset, block_device_reset
  <2>2. devices # <<"virtio">>
    BY <1>0, <2>1 DEF DevicesOfPhase
  <2>3. ~ fs'.mounted
    BY <2>1 DEF Unmounted
  <2>4. Parts' /\ DevicesOfPhase' /\ OneRequest' /\ MountedMatchesDevice'
    BY <1>0, <1>1, <2>1, <2>2, <2>3 DEF Parts, DevicesOfPhase, OneRequest, Quiet, MountedMatchesDevice
  <2>. QED BY <1>2, <1>3, <2>4 DEF StorageInv
<1>6. CASE virtio_pci_blk_init
  <2>1. /\ phase = "devices" /\ devices = <<>> /\ UNCHANGED <<phase, fs>>
        /\ devices' = <<"virtio">> /\ vq' = [vq EXCEPT !.avail = 0, !.last_used = 0, !.used = 0]
    BY <1>6 DEF virtio_pci_blk_init
  <2>2. inflight = <<>> /\ vq.taken = 0
    BY <1>0, <2>1 DEF DevicesOfPhase
  <2>3. /\ DOMAIN vq' = QueueFields /\ vq'.avail = 0 /\ vq'.last_used = 0 /\ vq'.used = 0 /\ vq'.taken = 0
    BY <1>0, <2>1, <2>2 DEF Parts, QueueFields
  <2>4. 0 \in Index
    BY StorageAssumption DEF Index
  <2>5. ~ (fs.mounted /\ clean)
    BY <1>0, <2>1, TheDevice DEF MountedMatchesDevice
  <2>6. devices' \in Seq({"blank", "test", "virtio"})
    BY <2>1
  <2>7. Parts' /\ DevicesOfPhase' /\ OneRequest' /\ MountedMatchesDevice'
    BY <1>0, <1>1, <2>1, <2>2, <2>3, <2>4, <2>5, <2>6 DEF Parts, DevicesOfPhase, OneRequest, Quiet, MountedMatchesDevice
  <2>. QED BY <1>2, <1>3, <2>7 DEF StorageInv
<1>. QED BY <1>4, <1>5, <1>6, <1>7

(* A read moves on. *)
LEMMA ReadMoves ==
  ASSUME DOMAIN io = {"pc", "sector"}, NEW p, io' = [io EXCEPT !.pc = p]
  PROVE  DOMAIN io' = {"pc", "sector"} /\ io'.pc = p /\ io'.sector = io.sector
OBVIOUS

(* The parts that speak of the disk mounted and of the boot, in a step     *)
(* that changes neither.                                                   *)
LEMMA SameBoot ==
  ASSUME StorageInv, UNCHANGED <<phase, devices, fs>>, clean' => clean
  PROVE  MountedMatchesDevice'
<1>1. block_device_get' = block_device_get
  BY SameDevice
<1>. QED BY <1>1 DEF StorageInv, MountedMatchesDevice, Superblock

(* The unit test's device, or none. *)
LEMMA MemoryKeeps == ASSUME StorageInv, ReadMemory PROVE StorageInv'
<1>0. /\ Parts /\ DevicesOfPhase /\ OneRead /\ OneRequest
  BY DEF StorageInv
<1>1. /\ io.pc = "want" /\ block_device_get # "virtio"
      /\ UNCHANGED <<phase, devices, vq, clean, inflight, fs, call>>
      /\ \/ /\ io.sector \in DOMAIN DiskOf(block_device_get)
            /\ g_sec' = DiskOf(block_device_get)[io.sector] /\ io' = [io EXCEPT !.pc = "ok"]
         \/ io' = [io EXCEPT !.pc = "fail"]
  BY DEF ReadMemory, driverVars, deviceVars
<1>2. PICK p \in {"ok", "fail"} :
         /\ io' = [io EXCEPT !.pc = p]
         /\ p = "ok" => /\ io.sector \in DOMAIN DiskOf(block_device_get)
                        /\ g_sec' = DiskOf(block_device_get)[io.sector]
  BY <1>1
<1>3. DOMAIN io' = {"pc", "sector"} /\ io'.pc = p /\ io'.sector = io.sector
  BY <1>0, <1>2, ReadMoves DEF Parts
<1>4. p = "ok" => devices # <<>>
  <2>1. DOMAIN DiskOf("none") = {}
    BY DEF DiskOf
  <2>. QED BY <1>2, <2>1, TheDevice
<1>5. call.pc \notin {"done", "skip"}
  BY <1>0, <1>1 DEF OneRead
<1>6. Parts' /\ DevicesOfPhase'
  BY <1>0, <1>1, <1>3 DEF Parts, DevicesOfPhase
<1>7. OneRead'
  BY <1>0, <1>1, <1>3, <1>4, <1>5 DEF OneRead
<1>8. OneRequest'
  BY <1>0, <1>1, <1>3 DEF OneRequest, Quiet
<1>9. SectorDelivered'
  <2>1. block_device_get' = block_device_get
    BY <1>1, SameDevice
  <2>2. \A d : DiskOf(d)' = DiskOf(d)
    BY <1>1, SameDevice
  <2>. QED BY <1>2, <1>3, <2>1, <2>2 DEF SectorDelivered, DiskOf
<1>. QED BY <1>1, <1>6, <1>7, <1>8, <1>9, SameBoot DEF StorageInv

(* virtio_pci_blk_bd_read hands the request over. *)
LEMMA SubmitKeeps == ASSUME StorageInv, Submit PROVE StorageInv'
<1>0. /\ Parts /\ DevicesOfPhase /\ OneRead /\ OneRequest
  BY DEF StorageInv
<1>1. /\ io.pc = "want" /\ block_device_get = "virtio"
      /\ UNCHANGED <<phase, devices, clean, inflight, fs, call>>
      /\ vq' = [vq EXCEPT !.hdr = io.sector, !.status = Sentinel, !.avail = Inc(@)]
      /\ io' = [io EXCEPT !.pc = "poll"]
  BY DEF Submit, deviceVars
<1>2. DOMAIN io' = {"pc", "sector"} /\ io'.pc = "poll" /\ io'.sector = io.sector
  BY <1>0, <1>1, ReadMoves DEF Parts
<1>3. /\ DOMAIN vq' = QueueFields /\ vq'.hdr = io.sector /\ vq'.avail = Inc(vq.avail)
      /\ vq'.taken = vq.taken /\ vq'.used = vq.used /\ vq'.last_used = vq.last_used
  BY <1>0, <1>1 DEF Parts, QueueFields
<1>4. devices = <<"virtio">>
  BY <1>1, OnlyVirtio
<1>5. Inc(vq.avail) \in Index
  BY <1>0, IncIndex DEF Parts
<1>6. Parts'
  BY <1>0, <1>1, <1>2, <1>3, <1>5 DEF Parts
<1>7. DevicesOfPhase' /\ OneRead'
  BY <1>0, <1>1, <1>2, <1>4 DEF DevicesOfPhase, OneRead
<1>8. OneRequest'
  BY <1>0, <1>1, <1>2, <1>3 DEF OneRequest, Quiet, Submitted
<1>9. SectorDelivered'
  BY <1>2 DEF SectorDelivered
<1>. QED BY <1>1, <1>6, <1>7, <1>8, <1>9, SameBoot DEF StorageInv

(* The device takes the request, at the sector its page holds. *)
LEMMA TakeKeeps == ASSUME StorageInv, DeviceTake PROVE StorageInv'
<1>0. /\ Parts /\ DevicesOfPhase /\ OneRead /\ OneRequest /\ SectorDelivered
  BY DEF StorageInv
<1>1. /\ vq.taken # vq.avail /\ UNCHANGED <<phase, devices, clean, io, g_sec, fs, call>>
      /\ inflight' = Append(inflight, vq.hdr) /\ vq' = [vq EXCEPT !.taken = Inc(@)]
  BY DEF DeviceTake
<1>2. /\ DOMAIN vq' = QueueFields /\ vq'.hdr = vq.hdr /\ vq'.avail = vq.avail
      /\ vq'.taken = Inc(vq.taken) /\ vq'.used = vq.used /\ vq'.last_used = vq.last_used
  BY <1>0, <1>1 DEF Parts, QueueFields
<1>3. devices = <<"virtio">>
  BY <1>0, <1>1 DEF DevicesOfPhase
<1>4. Inc(vq.taken) \in Index
  BY <1>0, IncIndex DEF Parts
<1>5. Parts' /\ DevicesOfPhase' /\ OneRead'
  BY <1>0, <1>1, <1>2, <1>3, <1>4 DEF Parts, DevicesOfPhase, OneRead
<1>6. OneRequest'
  <2>1. SUFFICES ASSUME clean PROVE OneRequest'
    BY <1>1 DEF OneRequest
  <2>2. io.pc = "poll" /\ vq.avail = Inc(vq.last_used) /\ vq.hdr = io.sector /\ Submitted
    BY <1>0, <1>1, <2>1 DEF OneRequest, Quiet, Taken, Served
  <2>3. inflight' = <<io.sector>>
    BY <1>1, <2>2 DEF Submitted
  <2>. QED BY <1>1, <1>2, <2>2, <2>3 DEF OneRequest, Submitted, Taken
<1>7. SectorDelivered'
  <2>1. block_device_get' = block_device_get /\ \A d : DiskOf(d)' = DiskOf(d)
    BY <1>1, SameDevice
  <2>. QED BY <1>0, <1>1, <2>1 DEF SectorDelivered, DiskOf
<1>. QED BY <1>1, <1>5, <1>6, <1>7, SameBoot DEF StorageInv

(* It answers: while no read has failed there is only this request. *)
LEMMA AnswerKeeps ==
  ASSUME StorageInv, NEW i \in DOMAIN inflight, NEW ok \in BOOLEAN, DeviceAnswer(i, ok)
  PROVE  StorageInv'
<1>0. /\ Parts /\ DevicesOfPhase /\ OneRead /\ OneRequest /\ SectorDelivered
  BY DEF StorageInv
<1>1. /\ UNCHANGED <<phase, devices, clean, io, g_sec, fs, call>>
      /\ vq' = [vq EXCEPT !.bounce = IF ok THEN Disk[inflight[i]] ELSE @,
                          !.status = IF ok THEN 0 ELSE 1, !.used = Inc(@)]
      /\ inflight' = RemoveAt(inflight, i)
  BY DEF DeviceAnswer
<1>2. /\ DOMAIN vq' = QueueFields /\ vq'.hdr = vq.hdr /\ vq'.avail = vq.avail
      /\ vq'.taken = vq.taken /\ vq'.used = Inc(vq.used) /\ vq'.last_used = vq.last_used
      /\ vq'.status = (IF ok THEN 0 ELSE 1) /\ (ok => vq'.bounce = Disk[inflight[i]])
  BY <1>0, <1>1 DEF Parts, QueueFields
<1>3. inflight # <<>>
  OBVIOUS
<1>4. devices = <<"virtio">>
  BY <1>0, <1>3 DEF DevicesOfPhase
<1>5. Inc(vq.used) \in Index
  BY <1>0, IncIndex DEF Parts
<1>6. Parts' /\ DevicesOfPhase' /\ OneRead'
  BY <1>0, <1>1, <1>2, <1>4, <1>5 DEF Parts, DevicesOfPhase, OneRead
<1>7. OneRequest'
  <2>1. SUFFICES ASSUME clean PROVE OneRequest'
    BY <1>1 DEF OneRequest
  <2>2. io.pc = "poll" /\ vq.avail = Inc(vq.last_used) /\ vq.hdr = io.sector /\ Taken
    BY <1>0, <1>3, <2>1 DEF OneRequest, Quiet, Submitted, Served
  <2>3. inflight = <<io.sector>> /\ i = 1
    BY <2>2 DEF Taken
  <2>4. inflight' = <<>>
    BY <1>1, <2>3 DEF RemoveAt
  <2>5. Served'
    BY <1>1, <1>2, <2>2, <2>3, <2>4 DEF Served, Taken
  <2>. QED BY <1>1, <1>2, <2>2, <2>5 DEF OneRequest
<1>8. SectorDelivered'
  <2>1. block_device_get' = block_device_get /\ \A d : DiskOf(d)' = DiskOf(d)
    BY <1>1, SameDevice
  <2>. QED BY <1>0, <1>1, <2>1 DEF SectorDelivered, DiskOf
<1>. QED BY <1>1, <1>6, <1>7, <1>8, SameBoot DEF StorageInv

(* The poll ends with an answer, or without one. *)
LEMMA PollKeeps == ASSUME StorageInv, Poll \/ PollTimeout PROVE StorageInv'
<1>0. /\ Parts /\ DevicesOfPhase /\ OneRead /\ OneRequest /\ SectorDelivered
  BY DEF StorageInv
<1>1. io.pc = "poll" /\ UNCHANGED <<phase, devices, inflight, fs, call>>
  BY DEF Poll, PollTimeout, deviceVars
<1>2. devices = <<"virtio">> /\ call.pc \notin {"done", "skip"}
  BY <1>0, <1>1 DEF OneRead
<1>3. block_device_get' = "virtio"
  BY <1>1, <1>2, TheDevice, SameDevice
<1>4. CASE io' = [io EXCEPT !.pc = "fail"] /\ clean' = FALSE /\ UNCHANGED <<g_sec, vq>>
  <2>1. DOMAIN io' = {"pc", "sector"} /\ io'.pc = "fail" /\ io'.sector = io.sector
    BY <1>0, <1>4, ReadMoves DEF Parts
  <2>2. Parts' /\ DevicesOfPhase' /\ OneRead'
    BY <1>0, <1>1, <1>2, <1>4, <2>1 DEF Parts, DevicesOfPhase, OneRead
  <2>3. OneRequest' /\ SectorDelivered'
    BY <1>4 DEF OneRequest, SectorDelivered
  <2>. QED BY <1>1, <1>4, <2>2, <2>3, SameBoot DEF StorageInv
<1>5. CASE /\ Answered /\ Good(vq.status) /\ g_sec' = vq.bounce /\ clean' = clean
           /\ vq' = [vq EXCEPT !.last_used = Inc(@)] /\ io' = [io EXCEPT !.pc = "ok"]
  <2>1. DOMAIN io' = {"pc", "sector"} /\ io'.pc = "ok" /\ io'.sector = io.sector
    BY <1>0, <1>5, ReadMoves DEF Parts
  <2>2. /\ DOMAIN vq' = QueueFields /\ vq'.avail = vq.avail /\ vq'.taken = vq.taken
        /\ vq'.used = vq.used /\ vq'.last_used = Inc(vq.last_used)
    BY <1>0, <1>5 DEF Parts, QueueFields
  <2>3. Inc(vq.last_used) \in Index
    BY <1>0, IncIndex DEF Parts
  <2>4. Parts' /\ DevicesOfPhase' /\ OneRead'
    BY <1>0, <1>1, <1>2, <1>5, <2>1, <2>2, <2>3 DEF Parts, DevicesOfPhase, OneRead
  <2>5. clean => vq.avail = Inc(vq.last_used) /\ Served
    BY <1>0, <1>1, <1>5 DEF OneRequest, Answered, Submitted, Taken
  <2>6. OneRequest'
    BY <1>1, <1>5, <2>1, <2>2, <2>5 DEF OneRequest, Quiet, Served
  <2>7. SectorDelivered'
    <3>1. clean => vq.bounce = Disk[io.sector]
      BY <1>5, <2>5 DEF Served, Good
    <3>2. DiskOf("virtio")' = Disk
      BY DEF DiskOf
    <3>. QED BY <1>3, <1>5, <2>1, <3>1, <3>2 DEF SectorDelivered
  <2>. QED BY <1>1, <1>5, <2>4, <2>6, <2>7, SameBoot DEF StorageInv
<1>. QED BY <1>4, <1>5 DEF Poll, PollTimeout

(* At reset nothing is registered, mounted or on its way. *)
LEMMA StorageInvInit == Init => StorageInv
<1>. SUFFICES ASSUME Init PROVE StorageInv
  OBVIOUS
<1>1. /\ phase = "tests" /\ devices = <<>> /\ inflight = <<>> /\ clean = TRUE /\ fs = Unmounted
      /\ io = [pc |-> "idle", sector |-> NoSector] /\ call = NoCall
      /\ vq = [hdr |-> NoSector, status |-> 0, bounce |-> Zero, avail |-> 0, taken |-> 0,
               used |-> 0, last_used |-> 0]
  BY DEF Init, Idle
<1>2. /\ DOMAIN vq = QueueFields /\ vq.avail = 0 /\ vq.taken = 0 /\ vq.used = 0 /\ vq.last_used = 0
  BY <1>1 DEF QueueFields
<1>3. DOMAIN io = {"pc", "sector"} /\ io.pc = "idle"
  BY <1>1
<1>4. "pc" \in DOMAIN call /\ call.pc = "done"
  BY <1>1 DEF NoCall
<1>5. 0 \in Index
  BY StorageAssumption DEF Index
<1>6. Parts
  BY <1>1, <1>2, <1>3, <1>4, <1>5 DEF Parts
<1>7. DevicesOfPhase /\ OneRead
  BY <1>1, <1>2, <1>3, <1>4 DEF DevicesOfPhase, OneRead
<1>8. OneRequest /\ SectorDelivered /\ MountedMatchesDevice
  BY <1>1, <1>2, <1>3 DEF OneRequest, Quiet, SectorDelivered, MountedMatchesDevice
<1>. QED BY <1>6, <1>7, <1>8 DEF StorageInv

(* Every step of the CPU and of the device keeps the invariant. *)
LEMMA StorageInvStep == StorageInv /\ [Next]_vars => StorageInv'
<1>. SUFFICES ASSUME StorageInv, [Next]_vars PROVE StorageInv'
  OBVIOUS
<1>1. CASE DeviceStops \/ UNCHANGED vars
  <2>1. UNCHANGED <<phase, devices, vq, clean, inflight, io, g_sec, fs, call>>
    BY <1>1 DEF DeviceStops, vars, driverVars, deviceVars
  <2>2. block_device_get' = block_device_get /\ \A d : DiskOf(d)' = DiskOf(d)
    BY <2>1, SameDevice
  <2>3. Parts' /\ DevicesOfPhase' /\ OneRead'
    BY <2>1 DEF StorageInv, Parts, DevicesOfPhase, OneRead
  <2>4. OneRequest'
    BY <2>1 DEF StorageInv, OneRequest, Quiet, Submitted, Taken, Served
  <2>5. SectorDelivered'
    BY <2>1, <2>2 DEF StorageInv, SectorDelivered, DiskOf
  <2>. QED BY <2>1, <2>3, <2>4, <2>5, SameBoot DEF StorageInv
<1>2. CASE DeviceNext
  BY <1>1, <1>2, TakeKeeps, AnswerKeeps DEF DeviceNext
<1>3. CASE LafsNext
  BY <1>3, LafsKeeps, MountKeeps
<1>. QED BY <1>1, <1>2, <1>3, BootKeeps, MemoryKeeps, SubmitKeeps, PollKeeps DEF Next

(* The driver and its device never have more than one request between      *)
(* them until a read fails, whatever the interleaving.                     *)
THEOREM StorageInvariant == Spec => []StorageInv
BY StorageInvInit, StorageInvStep, PTL DEF Spec

(* Until a read fails, virtio_pci_blk_bd_read() and the unit test's device  *)
(* leave in g_sec the sector that read_sector() asked for: for every disk, *)
(* every ring size and every interleaving with the device.                 *)
THEOREM SectorsDelivered == Spec => []SectorDelivered
<1>1. StorageInv => SectorDelivered
  BY DEF StorageInv
<1>. QED BY <1>1, StorageInvariant, PTL

(* lafs_mount() after the boot tests has mounted the superblock of the     *)
(* virtio disk: lafs_reset() and block_device_reset() leave nothing of the *)
(* test image and no late answer is taken for sector 0, on every pair of   *)
(* disks.                                                                  *)
THEOREM MountsMatch == Spec => []MountedMatchesDevice
<1>1. StorageInv => MountedMatchesDevice
  BY DEF StorageInv
<1>. QED BY <1>1, StorageInvariant, PTL

=============================================================================
