------------------------------- MODULE E1000 --------------------------------
(***************************************************************************)
(* The e1000 driver module (module/e1000.c, module/protocol.c): the        *)
(* receive and transmit rings it shares with the device, the five receive  *)
(* loops g_rx_mode selects, the page pool and queue of the pipelined ones, *)
(* the replies it sends and the ARP cache.                                 *)
(*                                                                         *)
(* Mode 5 runs two threads, "poll" and "proc", on different CPUs; modes 1  *)
(* to 4 run the same steps in turn on one.  The device is a third actor.   *)
(* A frame is a physical page; frame 0 stands for NULL and is a page that  *)
(* exists all the same.  A packet is its number in Traffic.                *)
(***************************************************************************)
EXTENDS Integers, Sequences, SequencesExt, FiniteSetsExt

CONSTANTS
    Modes,                          \* values of g_rx_mode
    FreePages,                      \* numbers of free pages at load time
    NUM_RX_DESC, NUM_TX_DESC,
    RX_BATCH_MAX, RX_FREE_POOL_SIZE, RX_QUEUE_SIZE,
    ARP_CACHE_SIZE,
    Traffic                         \* what arrives: [kind, ip, mac]

ASSUME E1000Assumption ==
    /\ Modes \subseteq 1 .. 5 /\ FreePages \subseteq Nat
    /\ NUM_RX_DESC \in Nat \ {0, 1} /\ NUM_TX_DESC \in Nat \ {0, 1}
    /\ RX_BATCH_MAX \in Nat \ {0} /\ RX_QUEUE_SIZE \in Nat \ {0}
    /\ RX_FREE_POOL_SIZE \in Nat /\ ARP_CACHE_SIZE \in Nat \ {0}

VARIABLES
    mode,       \* g_rx_mode
    total,      \* the pages there were to start with
    pmm,        \* the free pages
    state,      \* "probe", "rx_ready", "loaded", "running", "failed"
    rx,         \* receive ring: page, desc, rx_tail; registers RDH, RDT, RCTL_EN
    tx,         \* transmit ring: page, desc, tx_tail; registers TDH, TDT; the packet in hand
    mem,        \* the packet each page holds
    pool,       \* g_rx_free_pool
    queue,      \* g_rx_queue; in modes 1 to 3 the local batch
    poll,       \* the polling loop: next descriptor, descriptors done, new page
    proc,       \* the processing loop
    turn,       \* which of the two runs, in a single-threaded mode
    arp,        \* g_arp_cache
    wire,       \* packets that have reached the device or been dropped
    got, handled, sent, acked,  \* histories: DMA'd, handled, on the wire, send returned 0
    exhausted,  \* history: rx_free_pool_get has returned NULL
    timeouts    \* history: sends that gave up

ringVars == <<mode, total, state, rx, tx, mem>>
histVars == <<got, handled, sent, acked, exhausted>>
vars == <<ringVars, pmm, pool, queue, poll, proc, turn, arp, wire, histVars, timeouts>>

NULL == 0
RxSlots == 0 .. NUM_RX_DESC - 1
TxSlots == 0 .. NUM_TX_DESC - 1
(* Mutant: the index does not wrap. *)
Mutant_NextRx(i) == IF i = NUM_RX_DESC THEN 0 ELSE i + 1

NextRx(i) == (i + 1) % NUM_RX_DESC
NextTx(i) == (i + 1) % NUM_TX_DESC
Pipelined == mode \in {4, 5}
Runs(thread) == state = "running" /\ (mode = 5 \/ turn = thread)

NoRx == [page |-> NULL, desc |-> <<>>, rx_tail |-> 0, RDH |-> 0, RDT |-> 0, RCTL_EN |-> FALSE]
NoTx == [page |-> NULL, desc |-> <<>>, tx_tail |-> 0, TDH |-> 0, TDT |-> 0, hand |-> NULL]

Init ==
    /\ mode \in Modes
    /\ total \in FreePages
    /\ pmm = 1 .. total
    /\ state = "probe"
    /\ rx = NoRx /\ tx = NoTx
    /\ mem = [f \in 0 .. total |-> NULL]
    /\ pool = <<>> /\ queue = <<>>
    /\ poll = [pc |-> "scan", i |-> 0, n |-> 0, new |-> NULL]
    /\ proc = [pc |-> "idle", buf |-> NULL, pkt |-> NULL, slot |-> 0, processed |-> 0]
    /\ turn = "poll"
    /\ arp = [s \in 1 .. ARP_CACHE_SIZE |-> [valid |-> FALSE, ip |-> 0, mac |-> 0]]
    /\ wire = 0
    /\ got = <<>> /\ handled = <<>> /\ sent = <<>> /\ acked = <<>>
    /\ exhausted = FALSE /\ timeouts = 0

----------------------------------------------------------------------------
(* Loading.  pmm_alloc takes the lowest free page.                         *)
Rank(f) == Cardinality({g \in pmm : g < f})
Lowest(n) == [k \in 1 .. Min({n, Cardinality(pmm)}) |-> CHOOSE f \in pmm : Rank(f) = k - 1]

(* e1000_init_rx: the ring's page and a page per descriptor, then RDH, RDT *)
(* and RCTL_EN; all of it or, after a failed allocation, nothing.          *)
e1000_init_rx ==
    /\ state = "probe"
    /\ LET pages == Lowest(NUM_RX_DESC + 1) IN
       IF Len(pages) < NUM_RX_DESC + 1
       THEN state' = "failed" /\ UNCHANGED <<pmm, rx>>
       ELSE /\ state' = "rx_ready"
            /\ pmm' = pmm \ ToSet(pages)
            /\ rx' = [page |-> pages[1],
                      desc |-> [i \in RxSlots |-> [buf |-> pages[i + 2], dd |-> FALSE]],
                      rx_tail |-> 0, RDH |-> 0, RDT |-> NUM_RX_DESC - 1, RCTL_EN |-> TRUE]
    /\ UNCHANGED <<mode, total, tx, mem, pool, queue, poll, proc, turn, arp, wire, histVars,
                   timeouts>>

RxPages == {rx.page} \cup {rx.desc[i].buf : i \in DOMAIN rx.desc}
TxPages == {tx.page} \cup {tx.desc[i].buf : i \in DOMAIN tx.desc}

(* e1000_init_tx has failed: receiving is switched off and its pages go    *)
(* back.                                                                   *)
e1000_free_rx == state' = "failed" /\ pmm' = pmm \cup RxPages /\ rx' = NoRx

e1000_init_tx ==
    /\ state = "rx_ready"
    /\ LET pages == Lowest(NUM_TX_DESC + 1) IN
       IF Len(pages) < NUM_TX_DESC + 1
       THEN e1000_free_rx /\ UNCHANGED tx
       ELSE /\ state' = "loaded"
            /\ pmm' = pmm \ ToSet(pages)
            /\ tx' = [page |-> pages[1],
                      desc |-> [i \in TxSlots |->
                                  [buf |-> pages[i + 2], dd |-> TRUE, pkt |-> NULL]],
                      tx_tail |-> 0, TDH |-> 0, TDT |-> 0, hand |-> NULL]
            /\ UNCHANGED rx
    /\ UNCHANGED <<mode, total, mem, pool, queue, poll, proc, turn, arp, wire, histVars,
                   timeouts>>

(* laos_module_entry starts the loop; the pipelined ones fill the pool     *)
(* first, with as many pages as there are.                                 *)
StartLoop ==
    /\ state = "loaded" /\ state' = "running"
    /\ LET pages == Lowest(RX_FREE_POOL_SIZE) IN
       IF Pipelined THEN pool' = pages /\ pmm' = pmm \ ToSet(pages)
       ELSE UNCHANGED <<pool, pmm>>
    /\ UNCHANGED <<mode, total, rx, tx, mem, queue, poll, proc, turn, arp, wire, histVars,
                   timeouts>>

----------------------------------------------------------------------------
(* The device.  It owns the descriptors from RDH up to, not including,     *)
(* RDT; a packet that finds none is dropped.                               *)
ReceiveDma ==
    /\ rx.RCTL_EN /\ wire < Len(Traffic) /\ wire' = wire + 1
    /\ IF rx.RDH = rx.RDT THEN UNCHANGED <<rx, mem, got>>
       ELSE /\ mem' = [mem EXCEPT ![rx.desc[rx.RDH].buf] = wire + 1]
            /\ rx' = [rx EXCEPT !.desc[rx.RDH].dd = TRUE, !.RDH = NextRx(@)]
            /\ got' = Append(got, wire + 1)
    /\ UNCHANGED <<mode, total, state, tx, pmm, pool, queue, poll, proc, turn, arp, handled,
                   sent, acked, exhausted, timeouts>>

TransmitFetch ==
    /\ tx.TDH # tx.TDT /\ tx.hand = NULL
    /\ tx' = [tx EXCEPT !.hand = tx.desc[tx.TDH].pkt]
    /\ UNCHANGED <<mode, total, state, rx, mem, pmm, pool, queue, poll, proc, turn, arp, wire,
                   histVars, timeouts>>

TransmitDone ==
    /\ tx.hand # NULL
    /\ sent' = Append(sent, tx.hand)
    /\ tx' = [tx EXCEPT !.desc[tx.TDH].dd = TRUE, !.TDH = NextTx(@), !.hand = NULL]
    /\ UNCHANGED <<mode, total, state, rx, mem, pmm, pool, queue, poll, proc, turn, arp, wire,
                   got, handled, acked, exhausted, timeouts>>

----------------------------------------------------------------------------
(* The polling loops.                                                      *)
Ready(i) == rx.desc[i].dd
Scanning == Runs("poll") /\ poll.pc = "scan"

(* The completed descriptors in a row from rx_tail on, at most n.          *)
ReadyRun(n) ==
    LET at(k) == (rx.rx_tail + k) % NUM_RX_DESC
        ks == {k \in 0 .. Min({n, NUM_RX_DESC}) : \A j \in 0 .. k - 1 : Ready(at(j))}
    IN  [k \in 1 .. Max(ks) |-> at(k - 1)]

(* The ring once the descriptors of a run may be used again. *)
Released(run) ==
    [i \in RxSlots |-> [buf |-> rx.desc[i].buf, dd |-> Ready(i) /\ i \notin ToSet(run)]]

(* e1000_poll_packet, mode 1: RDT is written before the packet is handled. *)
e1000_poll_packet ==
    LET i == rx.rx_tail IN
    /\ mode = 1 /\ Scanning /\ Ready(i)
    /\ queue' = <<rx.desc[i].buf>>
    /\ rx' = [rx EXCEPT !.desc[i].dd = FALSE, !.rx_tail = NextRx(i), !.RDT = i]
    /\ turn' = "proc"
    /\ UNCHANGED <<mode, total, state, tx, mem, pmm, pool, poll, proc, arp, wire, histVars,
                   timeouts>>

(* Mutant: the descriptors are given back at once. *)
Mutant_e1000_poll_packet_batch ==
    LET run == ReadyRun(RX_BATCH_MAX) IN
    /\ mode = 2 /\ Scanning /\ run # <<>>
    /\ queue' = [k \in DOMAIN run |-> rx.desc[run[k]].buf]
    /\ rx' = [rx EXCEPT !.desc = Released(run), !.rx_tail = NextRx(Last(run)), !.RDT = Last(run)]
    /\ turn' = "proc"
    /\ UNCHANGED <<mode, total, state, tx, mem, pmm, pool, poll, proc, arp, wire, histVars,
                   timeouts>>

(* e1000_poll_packet_batch, mode 2: the descriptors stay with the driver   *)
(* until the batch has been handled.                                       *)
e1000_poll_packet_batch ==
    LET run == ReadyRun(RX_BATCH_MAX) IN
    /\ mode = 2 /\ Scanning /\ run # <<>>
    /\ queue' = [k \in DOMAIN run |-> rx.desc[run[k]].buf]
    /\ poll' = [poll EXCEPT !.pc = "release", !.n = Len(run)]
    /\ turn' = "proc"
    /\ UNCHANGED <<ringVars, pmm, pool, proc, arp, wire, histVars, timeouts>>

e1000_rx_batch_release ==
    LET run == ReadyRun(poll.n) IN
    /\ mode = 2 /\ Runs("poll") /\ poll.pc = "release"
    /\ rx' = [rx EXCEPT !.desc = Released(run), !.rx_tail = NextRx(Last(run)), !.RDT = Last(run)]
    /\ poll' = [poll EXCEPT !.pc = "scan", !.n = 0]
    /\ UNCHANGED <<mode, total, state, tx, mem, pmm, pool, queue, proc, turn, arp, wire,
                   histVars, timeouts>>

(* The descriptor gets the new page and the next one is looked at; RDT is  *)
(* written when the scan ends.                                             *)
Bind(new) ==
    /\ rx' = [rx EXCEPT !.desc[poll.i] = [buf |-> new, dd |-> FALSE]]
    /\ poll' = [poll EXCEPT !.pc = "scan", !.i = NextRx(@), !.n = @ + 1, !.new = NULL]

(* e1000_poll_packet_batch_swap, mode 3: a page from pmm_alloc each time.  *)
SwapBuffer ==
    /\ mode = 3 /\ Scanning /\ Ready(poll.i) /\ poll.n < RX_BATCH_MAX /\ pmm # {}
    /\ Bind(Min(pmm)) /\ pmm' = pmm \ {Min(pmm)}
    /\ queue' = Append(queue, rx.desc[poll.i].buf)
    /\ UNCHANGED <<mode, total, state, tx, mem, pool, proc, turn, arp, wire, histVars, timeouts>>

(* rx_free_pool_get, modes 4 and 5: a page from the pool, under its lock... *)
rx_free_pool_get ==
    LET phys == IF pool = <<>> THEN NULL ELSE Last(pool) IN
    /\ Pipelined /\ Scanning /\ Ready(poll.i)
    /\ pool' = IF pool = <<>> THEN pool ELSE Front(pool)
    /\ poll' = [poll EXCEPT !.pc = IF phys = NULL THEN "alloc" ELSE "push", !.new = phys]
    /\ UNCHANGED <<ringVars, pmm, queue, proc, turn, arp, wire, histVars, timeouts>>

(* ... or, when the pool had none or had page 0, one from pmm_alloc, whose *)
(* NULL nobody tests.                                                      *)
PoolFallback ==
    /\ Pipelined /\ Runs("poll") /\ poll.pc = "alloc"
    /\ IF pmm # {}
       THEN /\ poll' = [poll EXCEPT !.pc = "push", !.new = Min(pmm)]
            /\ pmm' = pmm \ {Min(pmm)} /\ UNCHANGED exhausted
       ELSE /\ poll' = [poll EXCEPT !.pc = "push"]
            /\ exhausted' = TRUE /\ UNCHANGED pmm
    /\ UNCHANGED <<ringVars, pool, queue, proc, turn, arp, wire, got, handled, sent, acked,
                   timeouts>>

(* A page goes back to the pool, or to the page allocator; NULL is lost.   *)
rx_free_pool_put(page) ==
    IF Len(pool) < RX_FREE_POOL_SIZE
    THEN pool' = Append(pool, page) /\ UNCHANGED pmm
    ELSE pmm' = pmm \cup ({page} \ {NULL}) /\ UNCHANGED pool

(* The old page is in the queue as soon as rx_queue_push has released its  *)
(* lock, while the descriptor still names it...                            *)
rx_queue_push ==
    /\ Pipelined /\ Runs("poll") /\ poll.pc = "push" /\ Len(queue) < RX_QUEUE_SIZE
    /\ queue' = Append(queue, rx.desc[poll.i].buf)
    /\ poll' = [poll EXCEPT !.pc = "bind"]
    /\ UNCHANGED <<ringVars, pmm, pool, proc, turn, arp, wire, histVars, timeouts>>

(* ... until e1000_poll_and_enqueue binds the new one, which may be after  *)
(* the old page has been handled and returned.                             *)
BindBuffer ==
    /\ Pipelined /\ Runs("poll") /\ poll.pc = "bind"
    /\ Bind(poll.new)
    /\ UNCHANGED <<mode, total, state, tx, mem, pmm, pool, queue, proc, turn, arp, wire,
                   histVars, timeouts>>

(* Mutant: a full queue takes no notice of the page that was to be bound.  *)
Mutant_QueueFull ==
    /\ Pipelined /\ Runs("poll") /\ poll.pc = "push" /\ Len(queue) = RX_QUEUE_SIZE
    /\ poll' = [poll EXCEPT !.pc = "publish", !.new = NULL]
    /\ UNCHANGED <<ringVars, pmm, pool, queue, proc, turn, arp, wire, histVars, timeouts>>

(* The queue is full: the new page goes back and the scan ends here, the   *)
(* descriptor keeping its packet.                                          *)
QueueFull ==
    /\ Pipelined /\ Runs("poll") /\ poll.pc = "push" /\ Len(queue) = RX_QUEUE_SIZE
    /\ rx_free_pool_put(poll.new)
    /\ poll' = [poll EXCEPT !.pc = "publish", !.new = NULL]
    /\ UNCHANGED <<ringVars, queue, proc, turn, arp, wire, histVars, timeouts>>

(* rx_tail and RDT move past the descriptors that got a new page.  A loop  *)
(* that has nothing to publish and nothing to process idles.               *)
Published ==
    IF poll.n = 0 THEN rx
    ELSE [rx EXCEPT !.rx_tail = poll.i, !.RDT = (poll.i + NUM_RX_DESC - 1) % NUM_RX_DESC]

ScanEnd ==
    /\ mode \in {3, 4, 5} /\ Runs("poll")
    /\ \/ poll.pc = "publish"
       \/ /\ poll.pc = "scan" /\ (poll.n > 0 \/ queue # <<>>)
          /\ ~ Ready(poll.i) \/ (mode = 3 /\ (poll.n = RX_BATCH_MAX \/ pmm = {}))
    /\ rx' = Published
    /\ poll' = [poll EXCEPT !.pc = "scan", !.i = Published.rx_tail, !.n = 0]
    /\ turn' = IF mode = 5 THEN turn ELSE "proc"
    /\ UNCHANGED <<mode, total, state, tx, mem, pmm, pool, queue, proc, arp, wire, histVars,
                   timeouts>>

----------------------------------------------------------------------------
(* The processing loop.                                                    *)
rx_queue_pop ==
    /\ Runs("proc") /\ proc.pc = "idle" /\ queue # <<>>
    /\ mode = 4 => proc.processed < RX_BATCH_MAX
    /\ proc' = [proc EXCEPT !.pc = "handle", !.buf = Head(queue)]
    /\ queue' = Tail(queue)
    /\ UNCHANGED <<ringVars, pmm, pool, poll, turn, arp, wire, histVars, timeouts>>

(* Mutant: a free slot is preferred to the address's own. *)
Mutant_ArpSlot(ip) ==
    LET free == {s \in DOMAIN arp : ~ arp[s].valid}
    IN  IF free # {} THEN Min(free) ELSE 1

(* The slot of arp_cache_update: the address's own, else the first free    *)
(* one, else the first.                                                    *)
ArpSlot(ip) ==
    LET same == {s \in DOMAIN arp : arp[s].valid /\ arp[s].ip = ip}
        free == {s \in DOMAIN arp : ~ arp[s].valid}
    IN  CASE same # {} -> Min(same)
          [] same = {} /\ free # {} -> Min(free)
          [] OTHER -> 1

(* send_arp_reply and send_icmp_reply: the packets that get an answer. *)
Answered(p) == p.kind \in {"arp_request", "echo_request"}

(* e1000_handle_packet: a request is answered, an ARP reply is cached, the *)
(* rest is counted.                                                        *)
e1000_handle_packet ==
    LET n == mem[proc.buf]
        p == Traffic[n]
    IN  /\ Runs("proc") /\ proc.pc = "handle"
        /\ handled' = Append(handled, n)
        /\ proc' = [proc EXCEPT !.pc = IF Answered(p) THEN "send" ELSE "release", !.pkt = n]
        /\ arp' = IF p.kind = "arp_reply"
                  THEN [arp EXCEPT ![ArpSlot(p.ip)] = [valid |-> TRUE, ip |-> p.ip, mac |-> p.mac]]
                  ELSE arp
        /\ UNCHANGED <<ringVars, pmm, pool, queue, poll, turn, wire, got, sent, acked, exhausted,
                       timeouts>>

(* Mutant: the status of the descriptor's last use is left in place. *)
Mutant_TxDescriptor(desc, pkt) == [desc EXCEPT !.pkt = pkt]

TxDescriptor(desc, pkt) == [desc EXCEPT !.pkt = pkt, !.dd = FALSE]

(* e1000_send_packet, under tx_lock: the packet is copied, TDT moves on... *)
SendPacket ==
    LET i == tx.tx_tail IN
    /\ Runs("proc") /\ proc.pc = "send"
    /\ tx' = [tx EXCEPT !.desc[i] = TxDescriptor(@, proc.pkt), !.tx_tail = NextTx(i),
                        !.TDT = NextTx(i)]
    /\ proc' = [proc EXCEPT !.pc = "wait", !.slot = i]
    /\ UNCHANGED <<mode, total, state, rx, mem, pmm, pool, queue, poll, turn, arp, wire, histVars,
                   timeouts>>

(* ... and the descriptor's status is polled, for a time. *)
SendDone ==
    /\ Runs("proc") /\ proc.pc = "wait" /\ tx.desc[proc.slot].dd
    /\ acked' = Append(acked, proc.pkt)
    /\ proc' = [proc EXCEPT !.pc = "release"]
    /\ UNCHANGED <<ringVars, pmm, pool, queue, poll, turn, arp, wire, got, handled, sent,
                   exhausted, timeouts>>

SendTimeout ==
    /\ Runs("proc") /\ proc.pc = "wait" /\ ~ tx.desc[proc.slot].dd
    /\ timeouts' = timeouts + 1
    /\ proc' = [proc EXCEPT !.pc = "release"]
    /\ UNCHANGED <<ringVars, pmm, pool, queue, poll, turn, arp, wire, histVars>>

(* The page goes back in the pipelined modes. *)
e1000_rx_release_buffer ==
    /\ Runs("proc") /\ proc.pc = "release"
    /\ IF Pipelined THEN rx_free_pool_put(proc.buf) ELSE UNCHANGED <<pool, pmm>>
    /\ proc' = [proc EXCEPT !.pc = "idle", !.buf = NULL, !.pkt = NULL,
                  !.processed = IF mode = 4 THEN @ + 1 ELSE @]
    /\ UNCHANGED <<ringVars, queue, poll, turn, arp, wire, histVars, timeouts>>

(* Mutant: the count of the last batch is kept. *)
Mutant_BatchDone ==
    /\ mode # 5 /\ Runs("proc") /\ proc.pc = "idle"
    /\ queue = <<>> \/ (mode = 4 /\ proc.processed = RX_BATCH_MAX)
    /\ turn' = "poll"
    /\ UNCHANGED <<ringVars, pmm, pool, queue, poll, proc, arp, wire, histVars, timeouts>>

BatchDone ==
    /\ mode # 5 /\ Runs("proc") /\ proc.pc = "idle"
    /\ queue = <<>> \/ (mode = 4 /\ proc.processed = RX_BATCH_MAX)
    /\ turn' = "poll"
    /\ proc' = [proc EXCEPT !.processed = 0]
    /\ UNCHANGED <<ringVars, pmm, pool, queue, poll, arp, wire, histVars, timeouts>>

----------------------------------------------------------------------------
PollNext ==
    \/ e1000_poll_packet \/ e1000_poll_packet_batch \/ e1000_rx_batch_release
    \/ SwapBuffer \/ rx_free_pool_get \/ PoolFallback \/ rx_queue_push \/ BindBuffer
    \/ QueueFull \/ ScanEnd

ProcNext ==
    \/ rx_queue_pop \/ e1000_handle_packet \/ SendPacket \/ SendDone \/ SendTimeout
    \/ e1000_rx_release_buffer \/ BatchDone

DeviceNext == ReceiveDma \/ TransmitFetch \/ TransmitDone

Next ==
    \/ e1000_init_rx \/ e1000_init_tx \/ StartLoop
    \/ DeviceNext \/ PollNext \/ ProcNext

Spec == Init /\ [][Next]_vars

(* Both threads keep running; the device need not do anything. *)
FairSpec == Spec /\ WF_vars(PollNext) /\ WF_vars(ProcNext)

----------------------------------------------------------------------------
(* The variables keep their types: the ring indexes stay on the ring, the  *)
(* pool and the queue within their arrays.                                 *)
TypeOK ==
    /\ state \in {"probe", "rx_ready", "loaded", "running", "failed"}
    /\ pmm \subseteq 1 .. total
    /\ rx.rx_tail \in RxSlots /\ rx.RDH \in RxSlots /\ rx.RDT \in RxSlots
    /\ tx.tx_tail \in TxSlots /\ tx.TDH \in TxSlots /\ tx.TDT = tx.tx_tail
    /\ ToSet(pool) \subseteq 0 .. total /\ Len(pool) <= RX_FREE_POOL_SIZE
    /\ ToSet(queue) \subseteq 0 .. total /\ Len(queue) <= Max({RX_QUEUE_SIZE, RX_BATCH_MAX})
    /\ poll.pc \in {"scan", "alloc", "push", "bind", "publish", "release"} /\ poll.i \in RxSlots
    /\ proc.pc \in {"idle", "handle", "send", "wait", "release"}

(* The descriptors the device may write: from RDH up to, not including,    *)
(* RDT.                                                                    *)
DeviceSlots ==
    {i \in DOMAIN rx.desc :
        (i + NUM_RX_DESC - rx.RDH) % NUM_RX_DESC
            < (rx.RDT + NUM_RX_DESC - rx.RDH) % NUM_RX_DESC}

(* The page that has been queued while its descriptor still names it. *)
HandedOver == IF poll.pc = "bind" THEN {rx.desc[poll.i].buf} ELSE {}

(* The pages each holder has: the rings, the pool, the queue, a loop, the  *)
(* allocator.  In modes 1 and 2 queue and loop only borrow them.           *)
Holders == {"pmm", "rx", "tx", "pool", "queue", "poll", "proc"}
Holds(h) ==
    CASE h = "pmm" -> pmm
      [] h = "rx" -> RxPages \ ({NULL} \cup HandedOver)
      [] h = "tx" -> TxPages \ {NULL}
      [] h = "pool" -> ToSet(pool)
      [] h = "queue" -> IF mode \in {1, 2} THEN {} ELSE ToSet(queue)
      [] h = "poll" -> {poll.new} \ {NULL}
      [] h = "proc" -> IF mode \in {1, 2} THEN {} ELSE {proc.buf} \ {NULL}

(* A ring's page and buffers, and what is pooled or queued, differ. *)
Distinct ==
    /\ \A i, j \in DOMAIN rx.desc : rx.desc[i].buf = rx.desc[j].buf => i = j
    /\ \A i, j \in DOMAIN tx.desc : tx.desc[i].buf = tx.desc[j].buf => i = j
    /\ \A i \in DOMAIN rx.desc : rx.desc[i].buf # rx.page
    /\ \A i \in DOMAIN tx.desc : tx.desc[i].buf # tx.page
    /\ IsInjective(pool) /\ IsInjective(queue)

(* As long as rx_free_pool_get finds a page, no page has two owners and    *)
(* none is lost, through failed loads, full queues and an overfull pool;   *)
(* only e1000_test_loop_batch_swap never returns the pages it hands out.   *)
(* Between rx_queue_push and the new binding the old page is the queue's,  *)
(* then the processor's, the pool's or the allocator's, while a descriptor *)
(* still names it: it is none the device may write.                        *)
PagesAccounted ==
    ~ exhausted => /\ \A g, h \in Holders : g # h => Holds(g) \cap Holds(h) = {}
                   /\ Distinct
                   /\ mode # 3 => UNION {Holds(h) : h \in Holders} = 1 .. total
                   /\ \A i \in DeviceSlots : rx.desc[i].buf \in Holds("rx")

(* The packets the loops handle are those the device stored, complete,     *)
(* once each and in order: the device is given no descriptor before its    *)
(* packet has been dealt with.  (e1000_test_loop writes RDT first, but RDT *)
(* itself stays the driver's.)  An exhausted pool puts page 0 under        *)
(* several descriptors.                                                    *)
DeliveredInOrder == ~ exhausted => IsPrefix(handled, got)

(* When e1000_send_packet returns 0 the packet is on the wire, although    *)
(* the descriptors of sends that timed out are still the device's, unless  *)
(* as many have timed out as there are descriptors.                        *)
SendsTruthful == timeouts < NUM_TX_DESC => ToSet(acked) \subseteq ToSet(sent)

(* An address has one entry in the ARP cache, and that is what its owner   *)
(* said last in a packet that was handled.                                 *)
ArpCurrent ==
    \A s \in DOMAIN arp : arp[s].valid =>
        LET said == {i \in DOMAIN handled : /\ Traffic[handled[i]].kind = "arp_reply"
                                           /\ Traffic[handled[i]].ip = arp[s].ip}
        IN  /\ \A t \in DOMAIN arp : arp[t].valid /\ arp[t].ip = arp[s].ip => t = s
            /\ arp[s].mac = Traffic[handled[Max(said)]].mac

(* Every packet the device stores is handled in the end, once and in       *)
(* order, by every loop that returns its pages, unless rx_free_pool_get    *)
(* has run out of them: page 0 then holds the packets of several           *)
(* descriptors.                                                            *)
ReceivedIsHandled ==
    state = "running" /\ mode # 3 ~> exhausted \/ handled = got
=============================================================================
