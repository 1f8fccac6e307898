---------------------------- MODULE UdpPipeline ----------------------------
(***************************************************************************)
(* The multi-core receive path of a UDP socket: the RX thread, the queue   *)
(* workers and the threads inside recv_from, with the frame pool and the   *)
(* single-producer rings between them.  src/dpdk-stdlib-udp/src:           *)
(* topology.rs (rx_loop, worker_loop, shutdown), lib.rs (make_recv_fn,     *)
(* recv_from_pipeline, try_recv_from_pipeline, dequeue_app_rings) and      *)
(* frame_pool.rs.  A packet is known by the order of its arrival; what a   *)
(* worker learns of it by parsing is its kind and its sender.              *)
(*                                                                         *)
(* start_pipeline gives the pool and every ring the same capacity.  The    *)
(* transmit ring it creates is never filled (send_to transmits directly),  *)
(* so the two drains of it in rx_loop do nothing and are left out.         *)
(***************************************************************************)
EXTENDS FramePool, SpscRing, FiniteSets

CONSTANTS NumWorkers,    \* queue workers: rx_queues - 1
          Receivers,     \* threads that call recv_from, try_recv_from or try_recv_from_nb
          Arrivals,      \* packets that can arrive: [kind, src]
          Connections,   \* initial values of connected_addr
          Mode,          \* receiver -> the call it makes: "block", "try" or "nb"
          MaxPackets,    \* bound: packets that arrive
          MaxBurst,      \* frames of one rx_burst
          QueueMax       \* max_packets of the socket's receive queue

VARIABLES pkts,          \* packets that arrived: kind and sender
          buffer,        \* frame index -> packet whose bytes it holds, 0 for none
          rx,            \* RX thread
          worker_rings, app_rings,
          workers,       \* worker -> its registers
          shutdown,      \* the flag the threads poll
          rx_lock,       \* holder of the socket's rx_state
          rr_index,      \* rx_state.rr_index
          queue,         \* rx_state.queue
          has_buffered_packets,
          connected_addr,
          receivers,     \* receiver -> its registers
          returned,      \* packets returned by the receive calls, in order
          dropped,       \* the socket was dropped
          drops          \* packets counted as dropped, by counter

pipeVars == <<pkts, buffer, rx, worker_rings, app_rings, workers, shutdown, rx_lock, rr_index,
              queue, has_buffered_packets, connected_addr, receivers, returned, dropped, drops>>
vars == <<poolVars, pipeVars>>

Workers == 0 .. (NumWorkers - 1)
None == << >>
Some(x) == <<x>>
Nobody == 0                    \* receivers are numbered from 1

\* The threads that free frames.
RxThread == <<"rx", 0>>
WorkerThread(w) == <<"worker", w>>
RecvThread(r) == <<"recv", r>>

ASSUME PipelineAssumption ==
  /\ NumWorkers \in Nat \ {0}
  /\ Receivers \subseteq Nat \ {Nobody}
  /\ {RxThread} \cup {WorkerThread(w) : w \in Workers} \cup {RecvThread(r) : r \in Receivers} \subseteq Threads
  /\ \A p \in Arrivals : p = [kind |-> p.kind, src |-> p.src]
  /\ MaxPackets \in Nat /\ MaxBurst \in Nat /\ QueueMax \in Nat

WorkerIdle == [pc |-> "top", batch |-> << >>]
ReceiverIdle == [pc |-> "idle", offset |-> 0, pkt |-> None, data |-> 0]

Init ==
  /\ PoolInit
  /\ pkts = << >>
  /\ buffer = [i \in Idx |-> 0]
  /\ rx = [pc |-> "top", todo |-> 0, refs |-> << >>, rr |-> 0, ring |-> 0]
  /\ worker_rings = [w \in Workers |-> NewRing]
  /\ app_rings = [w \in Workers |-> NewRing]
  /\ workers = [w \in Workers |-> WorkerIdle]
  /\ shutdown = FALSE
  /\ rx_lock = Nobody
  /\ rr_index = 0
  /\ queue = << >>
  /\ has_buffered_packets = FALSE
  /\ connected_addr \in Connections
  /\ receivers = [r \in Receivers |-> ReceiverIdle]
  /\ returned = << >>
  /\ dropped = FALSE
  /\ drops = [ring_full |-> 0, app_ring |-> 0, parse_fail |-> 0, buffer_full |-> 0]

UnchangedShared == UNCHANGED <<shutdown, rx_lock, rr_index, queue, has_buffered_packets,
                               connected_addr, receivers, returned, dropped>>

-----------------------------------------------------------------------------
(* rx_loop.  recv_fn copies a burst into pool frames, one alloc at a time; *)
(* the frames are then answered (ARP, ICMP) or dispatched to a worker.     *)

RxUnchanged == UnchangedShared /\ UNCHANGED <<app_rings, workers>>

RxExit ==
  /\ rx.pc = "top" /\ shutdown
  /\ rx' = [rx EXCEPT !.pc = "exit"]
  /\ RxUnchanged /\ UNCHANGED <<poolVars, pkts, buffer, worker_rings, drops>>

\* An empty or failed burst only waits, and is a stutter.
RxBurst ==
  /\ rx.pc = "top" /\ ~shutdown
  /\ \E n \in 1 .. MaxBurst :
       /\ Len(pkts) + n <= MaxPackets
       /\ rx' = [rx EXCEPT !.pc = "recv", !.todo = n]
  /\ RxUnchanged /\ UNCHANGED <<poolVars, pkts, buffer, worker_rings, drops>>

Arrives == \E p \in Arrivals : pkts' = Append(pkts, p)

\* alloc_copy on an empty pool: the packet is gone, and nothing counts it.
RxNoFrame ==
  /\ rx.pc = "recv" /\ rx.todo > 0 /\ alloc.pc = "idle" /\ Exhausted
  /\ Arrives
  /\ rx' = [rx EXCEPT !.todo = @ - 1]
  /\ RxUnchanged /\ UNCHANGED <<poolVars, buffer, worker_rings, drops>>

RxAllocStep ==
  /\ rx.pc = "recv" /\ rx.todo > 0
  /\ AllocCheck \/ AllocSwap
  /\ RxUnchanged /\ UNCHANGED <<rx, pkts, buffer, worker_rings, drops>>

\* alloc returns and the bytes are copied into the frame.
RxFill ==
  /\ rx.pc = "recv"
  /\ AllocStore
  /\ Arrives
  /\ buffer' = [buffer EXCEPT ![alloc.idx] = Len(pkts')]
  /\ rx' = [rx EXCEPT !.todo = @ - 1, !.refs = Append(@, alloc.idx)]
  /\ RxUnchanged /\ UNCHANGED <<worker_rings, drops>>

RxRefs == rx.pc = "recv" /\ rx.todo = 0 /\ rx.refs # << >>

RxBurstDone ==
  /\ rx.pc = "recv" /\ rx.todo = 0 /\ rx.refs = << >>
  /\ rx' = [rx EXCEPT !.pc = "top"]
  /\ RxUnchanged /\ UNCHANGED <<poolVars, pkts, buffer, worker_rings, drops>>

KindOf(i) == pkts[buffer[i]].kind

\* A frame without an Ethernet header is freed; ARP and ICMP are answered and freed.
RxInline ==
  /\ RxRefs
  /\ KindOf(Head(rx.refs)) \in {"short", "arp", "icmp"}
  /\ FreeClaim(RxThread, Head(rx.refs))
  /\ rx' = [rx EXCEPT !.pc = "free", !.refs = Tail(@)]
  /\ RxUnchanged /\ UNCHANGED <<pkts, buffer, worker_rings, drops>>

RxFreed ==
  /\ rx.pc = "free"
  /\ FreeStore(RxThread)
  /\ rx' = [rx EXCEPT !.pc = "recv"]
  /\ RxUnchanged /\ UNCHANGED <<pkts, buffer, worker_rings, drops>>

\* The rings are tried from the round-robin target on, and the frame freed if all are full.
RxDispatch ==
  LET i == Head(rx.refs)
      try == [o \in 0 .. (NumWorkers - 1) |-> (rx.rr + o) % NumWorkers]
      free == {o \in DOMAIN try : ~Full(worker_rings[try[o]])}
  IN  /\ RxRefs
      /\ KindOf(i) \notin {"short", "arp", "icmp"}
      /\ IF free # {}
         THEN /\ \E o \in free :
                   /\ \A p \in free : o <= p
                   /\ worker_rings' = [worker_rings EXCEPT ![try[o]] = WriteSlot(@, i)]
                   /\ rx' = [rx EXCEPT !.pc = "publish", !.refs = Tail(@), !.ring = try[o],
                                       !.rr = (@ + 1) % NumWorkers]
              /\ UNCHANGED <<poolVars, drops>>
         ELSE /\ FreeClaim(RxThread, i)
              /\ rx' = [rx EXCEPT !.pc = "free", !.refs = Tail(@), !.rr = (@ + 1) % NumWorkers]
              /\ drops' = [drops EXCEPT !.ring_full = @ + 1]
              /\ UNCHANGED worker_rings
      /\ RxUnchanged /\ UNCHANGED <<pkts, buffer>>

RxPublish ==
  /\ rx.pc = "publish"
  /\ worker_rings' = [worker_rings EXCEPT ![rx.ring] = PublishHead(@)]
  /\ rx' = [rx EXCEPT !.pc = "recv"]
  /\ RxUnchanged /\ UNCHANGED <<poolVars, pkts, buffer, drops>>

Rx == \/ RxExit \/ RxBurst \/ RxNoFrame \/ RxAllocStep \/ RxFill \/ RxBurstDone
      \/ RxInline \/ RxFreed \/ RxDispatch \/ RxPublish

-----------------------------------------------------------------------------
(* worker_loop.                                                            *)

WorkerUnchanged == UnchangedShared /\ UNCHANGED <<pkts, buffer, rx>>

WorkerExit(w) ==
  /\ workers[w].pc = "top" /\ shutdown
  /\ workers' = [workers EXCEPT ![w].pc = "exit"]
  /\ WorkerUnchanged /\ UNCHANGED <<poolVars, worker_rings, app_rings, drops>>

\* Mutant: the batch is worked off from its end.
WorkerDequeueReversed(w) ==
  LET count == Available(worker_rings[w])
  IN  /\ workers[w].pc = "top" /\ ~shutdown /\ count > 0
      /\ workers' = [workers EXCEPT ![w] = [pc |-> "tail", batch |->
           [i \in 1 .. count |-> ReadSlot(worker_rings[w], count - i)]]]
      /\ WorkerUnchanged /\ UNCHANGED <<poolVars, worker_rings, app_rings, drops>>

WorkerDequeue(w) ==
  LET count == Available(worker_rings[w])
  IN  /\ workers[w].pc = "top" /\ ~shutdown /\ count > 0
      /\ workers' = [workers EXCEPT ![w] = [pc |-> "tail", batch |-> ReadBatch(worker_rings[w], count)]]
      /\ WorkerUnchanged /\ UNCHANGED <<poolVars, worker_rings, app_rings, drops>>

WorkerTail(w) ==
  /\ workers[w].pc = "tail"
  /\ worker_rings' = [worker_rings EXCEPT ![w] = PublishTail(@, Len(workers[w].batch))]
  /\ workers' = [workers EXCEPT ![w].pc = "frame"]
  /\ WorkerUnchanged /\ UNCHANGED <<poolVars, app_rings, drops>>

WorkerBatchDone(w) ==
  /\ workers[w].pc = "frame" /\ workers[w].batch = << >>
  /\ workers' = [workers EXCEPT ![w].pc = "top"]
  /\ WorkerUnchanged /\ UNCHANGED <<poolVars, worker_rings, app_rings, drops>>

HasFrame(w) == workers[w].pc = "frame" /\ workers[w].batch # << >>
Frame(w) == Head(workers[w].batch)
NextFrame(w, pc) == [pc |-> pc, batch |-> Tail(workers[w].batch)]

\* Mutant: a rejected frame is skipped without being freed.
WorkerRejectForgets(w) ==
  /\ HasFrame(w)
  /\ KindOf(Frame(w)) \in {"bad", "port"}
  /\ workers' = [workers EXCEPT ![w] = NextFrame(w, "frame")]
  /\ drops' = [drops EXCEPT !.parse_fail = @ + IF KindOf(Frame(w)) = "bad" THEN 1 ELSE 0]
  /\ WorkerUnchanged /\ UNCHANGED <<poolVars, worker_rings, app_rings>>

\* Unparsable, damaged, or for another port: the frame is freed.
WorkerReject(w) ==
  /\ HasFrame(w)
  /\ KindOf(Frame(w)) \in {"bad", "port"}
  /\ FreeClaim(WorkerThread(w), Frame(w))
  /\ workers' = [workers EXCEPT ![w] = NextFrame(w, "free")]
  /\ drops' = [drops EXCEPT !.parse_fail = @ + IF KindOf(Frame(w)) = "bad" THEN 1 ELSE 0]
  /\ WorkerUnchanged /\ UNCHANGED <<worker_rings, app_rings>>

\* AppPacket: the frame, and what was parsed from it.
AppPacket(i) == [idx |-> i, hdr |-> buffer[i], src |-> pkts[buffer[i]].src]

WorkerDeliver(w) ==
  LET i == Frame(w)
  IN  /\ HasFrame(w)
      /\ KindOf(i) = "data"
      /\ IF ~Full(app_rings[w])
         THEN /\ app_rings' = [app_rings EXCEPT ![w] = WriteSlot(@, AppPacket(i))]
              /\ workers' = [workers EXCEPT ![w] = NextFrame(w, "publish")]
              /\ UNCHANGED <<poolVars, drops>>
         ELSE /\ FreeClaim(WorkerThread(w), i)
              /\ workers' = [workers EXCEPT ![w] = NextFrame(w, "free")]
              /\ drops' = [drops EXCEPT !.app_ring = @ + 1]
              /\ UNCHANGED app_rings
      /\ WorkerUnchanged /\ UNCHANGED worker_rings

WorkerPublish(w) ==
  /\ workers[w].pc = "publish"
  /\ app_rings' = [app_rings EXCEPT ![w] = PublishHead(@)]
  /\ workers' = [workers EXCEPT ![w].pc = "frame"]
  /\ WorkerUnchanged /\ UNCHANGED <<poolVars, worker_rings, drops>>

WorkerFreed(w) ==
  /\ workers[w].pc = "free"
  /\ FreeStore(WorkerThread(w))
  /\ workers' = [workers EXCEPT ![w].pc = "frame"]
  /\ WorkerUnchanged /\ UNCHANGED <<worker_rings, app_rings, drops>>

Worker(w) == \/ WorkerExit(w) \/ WorkerDequeue(w) \/ WorkerTail(w) \/ WorkerBatchDone(w)
             \/ WorkerReject(w) \/ WorkerDeliver(w) \/ WorkerPublish(w) \/ WorkerFreed(w)

-----------------------------------------------------------------------------
(* recv_from_pipeline, and try_recv_from_pipeline in both its modes.       *)

RecvUnchanged == UNCHANGED <<pkts, rx, worker_rings, workers, shutdown, connected_addr, dropped>>
At(r, pc) == receivers[r].pc = pc
Enter(r, regs) == receivers' = [receivers EXCEPT ![r] = regs] /\ UNCHANGED returned
Goto(r, pc) == Enter(r, [receivers[r] EXCEPT !.pc = pc])

\* The call ends and every guard it holds is released.
Return(r, result) ==
  /\ receivers' = [receivers EXCEPT ![r] = ReceiverIdle]
  /\ returned' = IF result = None THEN returned ELSE Append(returned, result[1])
  /\ rx_lock' = IF rx_lock = r THEN Nobody ELSE rx_lock

RecvCall(r) ==
  /\ At(r, "idle") /\ ~dropped
  /\ Goto(r, "lock")
  /\ RecvUnchanged
  /\ UNCHANGED <<poolVars, buffer, app_rings, rx_lock, rr_index, queue, has_buffered_packets, drops>>

RecvLock(r) ==
  /\ At(r, "lock") /\ rx_lock = Nobody
  /\ rx_lock' = r
  /\ Goto(r, "buffered")
  /\ RecvUnchanged
  /\ UNCHANGED <<poolVars, buffer, app_rings, rr_index, queue, has_buffered_packets, drops>>

\* The deadline passes at the top of the loop, or a nonblocking call finds rx_state busy.
RecvGivesUp(r) ==
  /\ At(r, "lock")
  /\ \/ Mode[r] = "block"
     \/ Mode[r] = "nb" /\ rx_lock # Nobody
  /\ Return(r, None)
  /\ RecvUnchanged
  /\ UNCHANGED <<poolVars, buffer, app_rings, rr_index, queue, has_buffered_packets, drops>>

\* rx_dequeue_into, when the flag says there may be something.
RecvBuffered(r) ==
  /\ At(r, "buffered")
  /\ IF has_buffered_packets /\ queue # << >>
     THEN /\ Return(r, Some(Head(queue)))
          /\ queue' = Tail(queue)
          /\ has_buffered_packets' = (Tail(queue) # << >>)
     ELSE /\ has_buffered_packets' = FALSE
          /\ Goto(r, "scan")
          /\ UNCHANGED <<queue, rx_lock>>
  /\ RecvUnchanged
  /\ UNCHANGED <<poolVars, buffer, app_rings, rr_index, drops>>

\* dequeue_app_rings: one ring per step.
RecvDequeue(r) ==
  LET w == receivers[r].offset % NumWorkers
  IN  /\ At(r, "scan")
      /\ Available(app_rings[w]) > 0
      /\ Enter(r, [receivers[r] EXCEPT !.pc = "copy", !.pkt = Some(ReadSlot(app_rings[w], 0))])
      /\ rr_index' = w + 1
      /\ app_rings' = [app_rings EXCEPT ![w] = PublishTail(@, 1)]
      /\ RecvUnchanged
      /\ UNCHANGED <<poolVars, buffer, rx_lock, queue, has_buffered_packets, drops>>

RecvNextRing(r) ==
  LET w == receivers[r].offset % NumWorkers
      more == receivers[r].offset + 1 < rr_index + NumWorkers
  IN  /\ At(r, "scan")
      /\ Available(app_rings[w]) = 0
      /\ IF more
         THEN /\ Enter(r, [receivers[r] EXCEPT !.offset = @ + 1])
              /\ UNCHANGED rx_lock
         ELSE IF Mode[r] = "block"
         THEN /\ Enter(r, [receivers[r] EXCEPT !.pc = "lock", !.offset = 0])
              /\ rx_lock' = Nobody
         ELSE Return(r, None)
      /\ RecvUnchanged
      /\ UNCHANGED <<poolVars, buffer, app_rings, rr_index, queue, has_buffered_packets, drops>>

RecvCopy(r) ==
  /\ At(r, "copy")
  /\ Enter(r, [receivers[r] EXCEPT !.pc = "claim", !.data = buffer[receivers[r].pkt[1].idx]])
  /\ RecvUnchanged
  /\ UNCHANGED <<poolVars, buffer, app_rings, rx_lock, rr_index, queue, has_buffered_packets, drops>>

RecvFree(r) ==
  /\ At(r, "claim")
  /\ FreeClaim(RecvThread(r), receivers[r].pkt[1].idx)
  /\ Goto(r, "free")
  /\ RecvUnchanged
  /\ UNCHANGED <<buffer, app_rings, rx_lock, rr_index, queue, has_buffered_packets, drops>>

RecvFreed(r) ==
  /\ At(r, "free")
  /\ FreeStore(RecvThread(r))
  /\ Goto(r, "filter")
  /\ RecvUnchanged
  /\ UNCHANGED <<buffer, app_rings, rx_lock, rr_index, queue, has_buffered_packets, drops>>

Received(r) == [hdr |-> receivers[r].pkt[1].hdr, src |-> receivers[r].pkt[1].src,
                data |-> receivers[r].data]

\* A packet from the connected peer is returned; another one is put in the receive
\* queue, and a blocking call starts over while a polling call returns nothing.
RecvFilter(r) ==
  /\ At(r, "filter")
  /\ IF connected_addr \in {None, Some(Received(r).src)}
     THEN /\ Return(r, Some(Received(r)))
          /\ UNCHANGED <<queue, has_buffered_packets, drops>>
     ELSE /\ IF Len(queue) >= QueueMax
             THEN /\ drops' = [drops EXCEPT !.buffer_full = @ + 1]
                  /\ UNCHANGED <<queue, has_buffered_packets>>
             ELSE /\ queue' = Append(queue, Received(r))
                  /\ has_buffered_packets' = TRUE
                  /\ UNCHANGED drops
          /\ IF Mode[r] = "block"
             THEN /\ Enter(r, [ReceiverIdle EXCEPT !.pc = "lock"])
                  /\ rx_lock' = Nobody
             ELSE Return(r, None)
  /\ RecvUnchanged
  /\ UNCHANGED <<poolVars, buffer, app_rings, rr_index>>

Receive(r) == \/ RecvLock(r) \/ RecvBuffered(r) \/ RecvDequeue(r) \/ RecvNextRing(r)
              \/ RecvCopy(r) \/ RecvFree(r) \/ RecvFreed(r) \/ RecvFilter(r)

-----------------------------------------------------------------------------
(* Dropping the socket: no call is in progress, the flag is set and the    *)
(* threads are joined.  Frames still in the rings go with the pool.        *)

\* Mutant: the threads are joined before the flag is set.
DropJoinsFirst ==
  /\ ~dropped
  /\ \A r \in Receivers : At(r, "idle")
  /\ dropped' = TRUE
  /\ UNCHANGED <<poolVars, pkts, buffer, rx, worker_rings, app_rings, workers, shutdown, rx_lock, rr_index,
                 queue, has_buffered_packets, connected_addr, receivers, returned, drops>>

Drop ==
  /\ ~dropped
  /\ \A r \in Receivers : At(r, "idle")
  /\ dropped' = TRUE
  /\ shutdown' = TRUE
  /\ UNCHANGED <<poolVars, pkts, buffer, rx, worker_rings, app_rings, workers, rx_lock, rr_index,
                 queue, has_buffered_packets, connected_addr, receivers, returned, drops>>

Joined == rx.pc = "exit" /\ \A w \in Workers : workers[w].pc = "exit"

Next ==
  \/ Rx
  \/ \E w \in Workers : Worker(w)
  \/ \E r \in Receivers : RecvCall(r) \/ RecvGivesUp(r) \/ Receive(r)
  \/ Drop

Spec == Init /\ [][Next]_vars

\* The threads of the pipeline are scheduled, and the program keeps polling the socket
\* until it drops it: weak fairness of each thread, with the states in which it can
\* take a step written out (an RX thread that waits for the NIC need not find a packet).
RxReady == \/ rx.pc = "top" /\ shutdown
           \/ rx.pc \in {"recv", "free", "publish"}
              /\ (alloc.pc = "swap" => free_list[Slot(free_tail)] # MAX)
WorkerReady(w) == \/ workers[w].pc = "top" /\ (shutdown \/ Available(worker_rings[w]) > 0)
                  \/ workers[w].pc \notin {"top", "exit"}
RecvReady(r) == /\ At(r, "idle") => ~dropped
                /\ At(r, "lock") => rx_lock = Nobody

Fairness ==
  /\ []<>~RxReady \/ []<><<rx' # rx \/ alloc' # alloc>>_vars
  /\ \A w \in Workers : []<>~WorkerReady(w) \/ []<><<workers'[w] # workers[w]>>_vars
  /\ \A r \in Receivers : []<>~RecvReady(r) \/ []<><<receivers'[r] # receivers[r]>>_vars

LiveSpec == Spec /\ Fairness

-----------------------------------------------------------------------------
(* Properties.                                                             *)

TypeOK ==
  /\ PoolTypeOK
  /\ Len(pkts) <= MaxPackets
  /\ buffer \in [Idx -> 0 .. MaxPackets]
  /\ rx.pc \in {"top", "recv", "free", "publish", "exit"}
  /\ \A w \in Workers : Available(worker_rings[w]) \in 0 .. RingCapacity
                       /\ Available(app_rings[w]) \in 0 .. RingCapacity
  /\ rx_lock \in Receivers \cup {Nobody}
  /\ rr_index \in 0 .. NumWorkers
  /\ Len(queue) <= QueueMax

\* The frames on their way through worker w, the next one to be received first: in its
\* app ring, written there and not yet published, in its batch, in its ring (without
\* those of a batch whose tail is not yet published), and written there and not yet
\* published.
Frames(s) == [i \in DOMAIN s |-> s[i].idx]
Path(w) ==
  Frames(RingItems(app_rings[w]))
  \o (IF workers[w].pc = "publish" THEN <<ReadSlot(app_rings[w], Available(app_rings[w])).idx>> ELSE << >>)
  \o workers[w].batch
  \o (IF workers[w].pc = "tail" THEN << >> ELSE RingItems(worker_rings[w]))
  \o (IF workers[w].pc = "tail"
      THEN SubSeq(RingItems(worker_rings[w]), Len(workers[w].batch) + 1, Available(worker_rings[w]))
      ELSE << >>)
  \o (IF rx.pc = "publish" /\ rx.ring = w
      THEN <<ReadSlot(worker_rings[w], Available(worker_rings[w]))>> ELSE << >>)

Elements(s) == {s[i] : i \in DOMAIN s}
Held(r) == {receivers[r].pkt[i].idx : i \in IF receivers[r].pc \in {"copy", "claim"} THEN {1} ELSE {}}

\* Every frame the pool handed out is in exactly one place: with the RX thread, on one
\* worker's path, or in the hands of one receiver.  No path of the three threads frees
\* a frame twice, uses it after freeing it, or forgets it.
FramesAccounted ==
  LET owners == {<<"rx", 0>>} \cup {<<"path", w>> : w \in Workers} \cup {<<"recv", r>> : r \in Receivers}
      of(o) == CASE o[1] = "rx" -> Elements(rx.refs)
                 [] o[1] = "path" -> Elements(Path(o[2]))
                 [] o[1] = "recv" -> Held(o[2])
  IN  /\ inuse = UNION {of(o) : o \in owners}
      /\ \A o, p \in owners : o # p => of(o) \cap of(p) = {}
      /\ Cardinality(Elements(rx.refs)) = Len(rx.refs)
      /\ \A w \in Workers : Cardinality(Elements(Path(w))) = Len(Path(w))

\* Packets given to one worker stay in the order of their arrival all the way to the
\* receiver: two single-producer rings, a batch and publication after the write keep it.
PathInOrder ==
  \A w \in Workers : \A i, j \in DOMAIN Path(w) :
    i < j => buffer[Path(w)[i]] < buffer[Path(w)[j]]

\* What recv_from returns is one packet that arrived for the socket: the payload copied
\* from the frame is the payload of the packet whose sender is reported, and no packet
\* is returned twice.
ReturnedIsReceived ==
  /\ \A i \in DOMAIN returned :
       /\ returned[i].data = returned[i].hdr
       /\ pkts[returned[i].hdr] = [kind |-> "data", src |-> returned[i].src]
  /\ \A i, j \in DOMAIN returned : returned[i].hdr = returned[j].hdr => i = j

\* Pool and rings have the same capacity, so a ring is never full when there is a frame
\* to put in it: the only packets lost are those that find the pool empty, and the
\* counters of full rings stay at zero.
RingsNeverReject ==
  RingCapacity >= Capacity => drops.ring_full = 0 /\ drops.app_ring = 0

\* A frame handed out comes back to the pool as long as the program receives.
FramesComeBack == \A i \in Idx : (i \in inuse) ~> (i \notin inuse \/ dropped)

\* Dropping the socket ends: every thread sees the flag and is joined.
DropReturns == dropped ~> Joined

\* No frame is lost, shared or refused between the three threads: each is in one place,
\* every position of the pool's ring can be served, and no ring is full when a frame comes.
FramesConserved == TypeOK /\ FramesAccounted /\ EveryPositionServed /\ RingsNeverReject

\* The pipeline keeps each worker's packets in order up to the receiver, and recv_from
\* returns each of them once, payload and sender of the same packet.
ReceivedInOrder == PathInOrder /\ ReturnedIsReceived

\* The pipeline neither starves nor hangs: frames come back to the pool while the program
\* receives, and dropping the socket joins every thread.
PipelineProgress == FramesComeBack /\ DropReturns
=============================================================================
