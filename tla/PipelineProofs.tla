--------------------------- MODULE PipelineProofs ---------------------------
(***************************************************************************)
(* Proofs about the frame pool and the multi-core receive path for any     *)
(* number of workers, receiving threads, frames and packets: no frame is   *)
(* lost, shared or freed twice between the threads, packets of one worker  *)
(* stay in order, recv_from returns each packet once, and a ring at least  *)
(* as large as the pool is never full when there is a frame for it.        *)
(***************************************************************************)
EXTENDS PipelineSteps

-----------------------------------------------------------------------------
(* The receiving threads.                                                  *)

(* The types, when a receiver changes its own variables.                   *)
LEMMA RecvTypes ==
  ASSUME PipeTypeOK, RecvUnchanged, buffer' = buffer, app_rings' \in [Workers -> RingOf(AppPackets)],
         rx_lock' \in Receivers \cup {Nobody}, rr_index' \in 0 .. NumWorkers,
         queue' \in Seq(Messages), Len(queue') <= QueueMax, receivers' \in [Receivers -> RecvRegs],
         returned' \in Seq(Messages), drops' \in Counters
  PROVE  PipeTypeOK'
  BY DEF PipeTypeOK, RecvUnchanged

(* The registers of one receiver change.                                   *)
LEMMA RecvUpdate ==
  ASSUME PipeTypeOK, NEW r \in Receivers, NEW regs \in RecvRegs, receivers' = [receivers EXCEPT ![r] = regs]
  PROVE  /\ receivers' \in [Receivers -> RecvRegs] /\ receivers'[r] = regs
         /\ \A q \in Receivers \ {r} : receivers'[q] = receivers[q]
  BY DEF PipeTypeOK

(* What a step of a receiver leaves when it takes nothing from a ring.     *)
LEMMA RecvFrame ==
  ASSUME PipeInv, RecvUnchanged, buffer' = buffer, app_rings' = app_rings, alloc' = alloc
  PROVE  /\ \A w \in Workers : SamePath(w) /\ AppEnd(w)' = AppEnd(w)
         /\ RingsOK' /\ AppOK' /\ RxOK' /\ PktsGrow /\ pkts' \in Seq(Arrivals) /\ pkts \in Seq(Arrivals)
  <1>1. PipeTypeOK /\ RingsOK /\ AppOK /\ RxOK
    BY DEF PipeInv
  <1>2. pkts' = pkts /\ rx' = rx /\ worker_rings' = worker_rings /\ workers' = workers
    BY DEF RecvUnchanged
  <1>3. \A w \in Workers : Publishing(w)' <=> Publishing(w)
    BY <1>2, Zenon DEF Publishing
  <1>4. \A w \in Workers : SamePath(w) /\ AppEnd(w)' = AppEnd(w)
    BY <1>2, <1>3, PathFrame, Zenon
  <1>5. RingsOK'
    BY <1>1, <1>2, <1>3, RingFrame DEF RingsOK
  <1>6. PktsGrow /\ pkts' \in Seq(Arrivals) /\ pkts \in Seq(Arrivals)
    BY <1>1, <1>2, SameArrivals
  <1>7. AppOK'
    BY <1>1, <1>4, <1>6, AppKept
  <1>8. RxOK'
    BY <1>1, <1>2 DEF RxOK
  <1> QED  BY <1>4, <1>5, <1>6, <1>7, <1>8

(* A step of a receiver that moves no frame.                               *)
LEMMA RecvQuiet ==
  ASSUME PipeInv, PoolInv', PipeTypeOK', RecvUnchanged, buffer' = buffer, app_rings' = app_rings,
         alloc' = alloc, inuse' = inuse, \A r \in Receivers : SameHand(r), ReceiversOK', HistoryOK',
         drops'.ring_full = drops.ring_full, drops'.app_ring = drops.app_ring
  PROVE  PipeInv'
  <1>1. /\ \A w \in Workers : SamePath(w)
        /\ RingsOK' /\ AppOK' /\ RxOK' /\ PktsGrow /\ pkts' \in Seq(Arrivals) /\ pkts \in Seq(Arrivals)
    BY RecvFrame, Zenon
  <1>2. SameOwners
    BY <1>1 DEF SameOwners, RecvUnchanged
  <1>3. Accounted' /\ Ordered'
    BY <1>1, <1>2, SameOwnersAccounted, SameOwnersOrdered DEF PipeInv
  <1>4. RingsNeverReject'
    BY Zenon DEF PipeInv, RingsNeverReject
  <1> QED  BY <1>1, <1>3, <1>4, Zenon DEF PipeInv

(* A receiver that is beyond the lock is alone there.                      *)
LEMMA OneBeyondLock ==
  ASSUME ReceiversOK, NEW r \in Receivers, rx_lock \in {r, Nobody}, NEW q \in Receivers, q # r
  PROVE  receivers[q].pc \in {"idle", "lock"}
  <1>1. q # Nobody
    BY PipelineAssumption, Zenon DEF Nobody
  <1> QED  BY <1>1 DEF ReceiversOK, RecvOK

(* A receiver goes to a step where it has no packet: it may release what   *)
(* it has locked, and may have returned or queued the packet it had.       *)
LEMMA RecvMoves ==
  ASSUME PipeInv, RecvUnchanged, UNCHANGED poolVars, buffer' = buffer, app_rings' = app_rings,
         NEW r \in Receivers, NEW regs \in RecvRegs, receivers' = [receivers EXCEPT ![r] = regs],
         ~Holding(r), regs.pc \in {"idle", "lock", "buffered", "scan"}, rr_index' \in 0 .. NumWorkers,
         rx_lock' \in Receivers \cup {Nobody},
         regs.pc \in {"buffered", "scan"} => rx_lock' = r,
         rx_lock' = rx_lock \/ rx_lock \in {r, Nobody},
         drops' \in Counters, drops'.ring_full = drops.ring_full, drops'.app_ring = drops.app_ring,
         queue' \in Seq(Messages), Len(queue') <= QueueMax, returned' \in Seq(Messages), MessagesOK',
         \A h : IsReturned(h)' \/ IsQueued(h)' =>
           IsReturned(h) \/ IsQueued(h) \/ (At(r, "filter") /\ h = receivers[r].pkt[1].hdr)
  PROVE  PipeInv'
  <1>1. PoolInv /\ PipeTypeOK /\ ReceiversOK /\ HistoryOK
    BY DEF PipeInv
  <1>2. /\ receivers' \in [Receivers -> RecvRegs] /\ receivers'[r] = regs
        /\ \A q \in Receivers \ {r} : receivers'[q] = receivers[q]
    BY <1>1, RecvUpdate, Zenon
  <1>3. pkts' = pkts /\ inuse' = inuse /\ alloc' = alloc
    BY Zenon DEF RecvUnchanged, poolVars
  <1>4. PoolInv'
    BY <1>1, PoolKept, Zenon
  <1>5. app_rings \in [Workers -> RingOf(AppPackets)]
    BY <1>1, Zenon DEF PipeTypeOK
  <1>6. PipeTypeOK'
    BY <1>1, <1>2, <1>5, RecvTypes, Zenon
  <1>7. ~Holding(r)' /\ ~HasPacket(r)'
    BY <1>2, Zenon DEF Holding, HasPacket
  <1>8. \A q \in Receivers : SameHand(q)
    BY <1>2, <1>7, Zenon DEF SameHand, Holding
  <1>9. \A q \in Receivers \ {r} : (Holding(q)' <=> Holding(q)) /\ (HasPacket(q)' <=> HasPacket(q))
    BY <1>2, Zenon DEF Holding, HasPacket
  <1>10. \A h, t : Genuine(h, t)' <=> Genuine(h, t)
    BY <1>3, Zenon DEF Genuine
  <1>11. ReceiversOK'
    <2>1. RecvOK(r)'
      BY <1>2, <1>7, Zenon DEF RecvOK
    <2>2. \A q \in Receivers \ {r} : RecvOK(q)'
      <3> SUFFICES ASSUME NEW q \in Receivers \ {r} PROVE RecvOK(q)'
        BY Zenon
      <3>1. RecvOK(q)
        BY <1>1, SMTT(30) DEF ReceiversOK
      <3>2. CASE rx_lock' = rx_lock
        BY <1>2, <1>9, <1>10, <3>1, <3>2, Zenon DEF RecvOK
      <3>3. CASE rx_lock \in {r, Nobody}
        <4>1. receivers'[q].pc \in {"idle", "lock"}
          BY <1>1, <1>2, <3>3, OneBeyondLock, Zenon
        <4> QED  BY <4>1, Zenon DEF RecvOK, HasPacket, Holding
      <3> QED  BY <3>2, <3>3, Zenon
    <2> QED  BY <2>1, <2>2, SMTT(30) DEF ReceiversOK
  <1>12. HistoryOK'
    <2>1. \A q \in Receivers : RecvFresh(q)
      BY <1>1, Zenon DEF HistoryOK
    <2>2. (\A i \in inuse : ~IsReturned(buffer[i]) /\ ~IsQueued(buffer[i]))'
      <3>1. \A i \in inuse : ~IsReturned(buffer[i]) /\ ~IsQueued(buffer[i])
        BY <1>1, Zenon DEF HistoryOK
      <3>2. At(r, "filter") => \A i \in inuse : buffer[i] # receivers[r].pkt[1].hdr
        BY <2>1, Zenon DEF RecvFresh, At
      <3> QED  BY <1>3, <3>1, <3>2, Zenon
    <2>3. RecvFresh(r)'
      BY <1>2, <1>7, Zenon DEF RecvFresh
    <2>4. \A q \in Receivers \ {r} : RecvFresh(q)'
      <3> SUFFICES ASSUME NEW q \in Receivers \ {r} PROVE RecvFresh(q)'
        BY Zenon
      <3>1. RecvFresh(q)
        BY <2>1, Zenon
      <3>2. HasPacket(q) => ~At(r, "filter")
        BY <1>1, PipelineAssumption, Zenon DEF ReceiversOK, RecvOK, HasPacket, At
      <3> QED  BY <1>2, <1>3, <1>9, <3>1, <3>2, Zenon DEF RecvFresh
    <2> QED  BY <2>2, <2>3, <2>4, Zenon DEF HistoryOK
  <1> QED  BY <1>3, <1>4, <1>6, <1>8, <1>11, <1>12, RecvQuiet, Zenon

(* The same when nothing is returned or queued.                            *)
LEMMA RecvMovesOn ==
  ASSUME PipeInv, RecvUnchanged, UNCHANGED poolVars, buffer' = buffer, app_rings' = app_rings,
         NEW r \in Receivers, NEW regs \in RecvRegs, receivers' = [receivers EXCEPT ![r] = regs],
         ~Holding(r), regs.pc \in {"idle", "lock", "buffered", "scan"}, rr_index' = rr_index,
         rx_lock' \in Receivers \cup {Nobody},
         regs.pc \in {"buffered", "scan"} => rx_lock' = r,
         rx_lock' = rx_lock \/ rx_lock \in {r, Nobody},
         drops' \in Counters, drops'.ring_full = drops.ring_full, drops'.app_ring = drops.app_ring,
         queue' = queue, returned' = returned
  PROVE  PipeInv'
  <1>1. PipeTypeOK /\ MessagesOK
    BY DEF PipeInv, HistoryOK
  <1>2. rr_index' \in 0 .. NumWorkers /\ queue' \in Seq(Messages) /\ Len(queue') <= QueueMax /\ returned' \in Seq(Messages)
    BY <1>1, SMTT(30) DEF PipeTypeOK
  <1>3. \A h : (IsReturned(h)' <=> IsReturned(h)) /\ (IsQueued(h)' <=> IsQueued(h))
    BY Zenon DEF IsReturned, IsQueued
  <1>4. MessagesOK'
    <2>1. \A h, t : Genuine(h, t)' <=> Genuine(h, t)
      BY DEF Genuine, RecvUnchanged
    <2> QED  BY <1>1, <1>3, <2>1, Zenon DEF MessagesOK
  <1> QED  BY <1>2, <1>3, <1>4, RecvMoves, Zenon

(* The registers of a receiver, and those it starts with.                  *)
LEMMA RecvRegisters ==
  ASSUME PipeInv, NEW r \in Receivers
  PROVE  /\ receivers[r] \in RecvRegs /\ ReceiverIdle \in RecvRegs /\ ReceiverIdle.pc = "idle"
         /\ drops \in Counters /\ rx_lock \in Receivers \cup {Nobody} /\ r \in Receivers \cup {Nobody}
         /\ receivers[r].pc \notin {"idle", "lock"} => rx_lock = r
         /\ \A p \in {"idle", "lock", "buffered", "scan", "copy", "claim", "free", "filter"} :
              /\ [receivers[r] EXCEPT !.pc = p] \in RecvRegs /\ [receivers[r] EXCEPT !.pc = p].pc = p
              /\ [receivers[r] EXCEPT !.pc = p].pkt = receivers[r].pkt
              /\ [receivers[r] EXCEPT !.pc = p].data = receivers[r].data
  <1>1. receivers[r] \in RecvRegs /\ drops \in Counters /\ rx_lock \in Receivers \cup {Nobody}
    BY DEF PipeInv, PipeTypeOK
  <1>2. ReceiverIdle \in RecvRegs /\ ReceiverIdle.pc = "idle"
    <2>1. << >> \in Seq(AppPackets)
      OBVIOUS
    <2> QED  BY <2>1 DEF ReceiverIdle, RecvRegs, None
  <1>3. \A p \in {"idle", "lock", "buffered", "scan", "copy", "claim", "free", "filter"} :
              /\ [receivers[r] EXCEPT !.pc = p] \in RecvRegs /\ [receivers[r] EXCEPT !.pc = p].pc = p
              /\ [receivers[r] EXCEPT !.pc = p].pkt = receivers[r].pkt
              /\ [receivers[r] EXCEPT !.pc = p].data = receivers[r].data
    BY <1>1, Zenon DEF RecvRegs
  <1>4. receivers[r].pc \notin {"idle", "lock"} => rx_lock = r
    BY DEF PipeInv, ReceiversOK, RecvOK
  <1> QED  BY <1>1, <1>2, <1>3, <1>4

(* recv_from is called.                                                    *)
LEMMA RecvCallInv ==
  ASSUME PipeInv, NEW r \in Receivers, RecvCall(r)
  PROVE  PipeInv'
  <1> DEFINE regs == [receivers[r] EXCEPT !.pc = "lock"]
  <1>1. /\ receivers[r].pc = "idle" /\ receivers' = [receivers EXCEPT ![r] = regs] /\ returned' = returned
        /\ RecvUnchanged /\ UNCHANGED poolVars /\ buffer' = buffer /\ app_rings' = app_rings /\ rx_lock' = rx_lock
        /\ rr_index' = rr_index /\ queue' = queue /\ drops' = drops
    BY DEF RecvCall, At, Goto, Enter
  <1>2. regs \in RecvRegs /\ regs.pc = "lock" /\ drops \in Counters /\ rx_lock \in Receivers \cup {Nobody}
    BY RecvRegisters, Zenon
  <1>3. ~Holding(r)
    BY <1>1 DEF Holding
  <1> HIDE DEF regs
  <1> QED  BY <1>1, <1>2, <1>3, RecvMovesOn, Zenon

(* A receiver gets the lock of rx_state.                                   *)
LEMMA RecvLockInv ==
  ASSUME PipeInv, NEW r \in Receivers, RecvLock(r)
  PROVE  PipeInv'
  <1> DEFINE regs == [receivers[r] EXCEPT !.pc = "buffered"]
  <1>1. /\ receivers[r].pc = "lock" /\ receivers' = [receivers EXCEPT ![r] = regs] /\ returned' = returned
        /\ RecvUnchanged /\ UNCHANGED poolVars /\ buffer' = buffer /\ app_rings' = app_rings
        /\ rx_lock = Nobody /\ rx_lock' = r
        /\ rr_index' = rr_index /\ queue' = queue /\ drops' = drops
    BY DEF RecvLock, At, Goto, Enter
  <1>2. regs \in RecvRegs /\ regs.pc = "buffered" /\ drops \in Counters
    BY RecvRegisters, Zenon
  <1>3. ~Holding(r)
    BY <1>1 DEF Holding
  <1> HIDE DEF regs
  <1> QED  BY <1>1, <1>2, <1>3, RecvMovesOn, Zenon

(* The call times out or finds the lock taken.                             *)
LEMMA RecvGivesUpInv ==
  ASSUME PipeInv, NEW r \in Receivers, RecvGivesUp(r)
  PROVE  PipeInv'
  <1>1. /\ receivers[r].pc = "lock" /\ receivers' = [receivers EXCEPT ![r] = ReceiverIdle] /\ returned' = returned
        /\ RecvUnchanged /\ UNCHANGED poolVars /\ buffer' = buffer /\ app_rings' = app_rings
        /\ rx_lock' = (IF rx_lock = r THEN Nobody ELSE rx_lock)
        /\ rr_index' = rr_index /\ queue' = queue /\ drops' = drops
    BY DEF RecvGivesUp, At, Return
  <1>2. ReceiverIdle \in RecvRegs /\ ReceiverIdle.pc = "idle" /\ drops \in Counters /\ rx_lock \in Receivers \cup {Nobody}
    BY RecvRegisters, Zenon
  <1>3. ~Holding(r) /\ rx_lock' \in Receivers \cup {Nobody} /\ (rx_lock' = rx_lock \/ rx_lock \in {r, Nobody})
    BY <1>1, <1>2 DEF Holding
  <1> QED  BY <1>1, <1>2, <1>3, RecvMovesOn, Zenon

(* The app ring is empty: the next one, or the end of the scan.            *)
LEMMA RecvNextRingInv ==
  ASSUME PipeInv, NEW r \in Receivers, RecvNextRing(r)
  PROVE  PipeInv'
  <1>1. /\ receivers[r].pc = "scan" /\ RecvUnchanged /\ UNCHANGED poolVars /\ buffer' = buffer /\ app_rings' = app_rings
        /\ rr_index' = rr_index /\ queue' = queue /\ drops' = drops
    BY DEF RecvNextRing, At
  <1>2. /\ ReceiverIdle \in RecvRegs /\ ReceiverIdle.pc = "idle" /\ drops \in Counters
        /\ rx_lock \in Receivers \cup {Nobody} /\ rx_lock = r /\ receivers[r] \in RecvRegs
    BY <1>1, RecvRegisters, Zenon
  <1>3. ~Holding(r)
    BY <1>1 DEF Holding
  <1> DEFINE next == [receivers[r] EXCEPT !.offset = @ + 1]
             again == [receivers[r] EXCEPT !.pc = "lock", !.offset = 0]
  <1>4. next \in RecvRegs /\ next.pc = "scan"
    <2>1. receivers[r].offset + 1 \in Nat
      BY <1>2 DEF RecvRegs
    <2> QED  BY <1>1, <1>2, <2>1 DEF RecvRegs
  <1>5. again \in RecvRegs /\ again.pc = "lock"
    BY <1>2, Zenon DEF RecvRegs
  <1>6. \/ receivers' = [receivers EXCEPT ![r] = next] /\ returned' = returned /\ rx_lock' = rx_lock
        \/ receivers' = [receivers EXCEPT ![r] = again] /\ returned' = returned /\ rx_lock' = Nobody
        \/ receivers' = [receivers EXCEPT ![r] = ReceiverIdle] /\ returned' = returned /\ rx_lock' = Nobody
    BY <1>2 DEF RecvNextRing, Enter, Return
  <1> HIDE DEF next, again
  <1>7. CASE receivers' = [receivers EXCEPT ![r] = next] /\ returned' = returned /\ rx_lock' = rx_lock
    BY <1>1, <1>2, <1>3, <1>4, <1>7, RecvMovesOn, Zenon
  <1>8. CASE receivers' = [receivers EXCEPT ![r] = again] /\ returned' = returned /\ rx_lock' = Nobody
    BY <1>1, <1>2, <1>3, <1>5, <1>8, RecvMovesOn, Zenon
  <1>9. CASE receivers' = [receivers EXCEPT ![r] = ReceiverIdle] /\ returned' = returned /\ rx_lock' = Nobody
    BY <1>1, <1>2, <1>3, <1>9, RecvMovesOn, Zenon
  <1> QED  BY <1>6, <1>7, <1>8, <1>9

(* Messages of different packets stay so when the first one is taken.      *)
LEMMA FirstMessage ==
  ASSUME NEW q \in Seq(Messages), q # << >>, \A i, j \in DOMAIN q : q[i].hdr = q[j].hdr => i = j
  PROVE  /\ Head(q) \in Messages /\ Head(q) = q[1] /\ 1 \in DOMAIN q /\ Tail(q) \in Seq(Messages)
         /\ Len(Tail(q)) = Len(q) - 1 /\ Len(q) \in Nat
         /\ \A i \in DOMAIN Tail(q) : \E j \in DOMAIN q : Tail(q)[i] = q[j]
         /\ \A h : (\E i \in DOMAIN Tail(q) : Tail(q)[i].hdr = h)
                   => (\E i \in DOMAIN q : q[i].hdr = h) /\ h # Head(q).hdr
         /\ \A i, j \in DOMAIN Tail(q) : Tail(q)[i].hdr = Tail(q)[j].hdr => i = j
  <1>1. /\ Len(q) \in Nat \ {0} /\ DOMAIN q = 1 .. Len(q) /\ Head(q) = q[1] /\ Head(q) \in Messages
        /\ Tail(q) \in Seq(Messages) /\ Len(Tail(q)) = Len(q) - 1 /\ DOMAIN Tail(q) = 1 .. (Len(q) - 1)
        /\ \A k \in 1 .. (Len(q) - 1) : Tail(q)[k] = q[k + 1]
    BY HeadAndTail
  <1>2. \A k \in DOMAIN Tail(q) : k + 1 \in DOMAIN q /\ k + 1 # 1 /\ Tail(q)[k] = q[k + 1] /\ 1 \in DOMAIN q /\ k \in Int
    BY <1>1
  <1>3. \A i, j \in DOMAIN Tail(q) : Tail(q)[i].hdr = Tail(q)[j].hdr => i = j
    <2>1. \A i, j \in DOMAIN Tail(q) : Tail(q)[i].hdr = Tail(q)[j].hdr => i + 1 = j + 1
      BY <1>2
    <2> QED  BY <1>2, <2>1
  <1>4. 1 \in DOMAIN q /\ Len(q) \in Nat
    BY <1>1
  <1> QED  BY <1>1, <1>2, <1>3, <1>4

(* And when one of another packet is added.                                *)
LEMMA LastMessage ==
  ASSUME NEW q \in Seq(Messages), NEW m \in Messages, \A i, j \in DOMAIN q : q[i].hdr = q[j].hdr => i = j,
         \A i \in DOMAIN q : q[i].hdr # m.hdr
  PROVE  /\ Append(q, m) \in Seq(Messages) /\ Len(Append(q, m)) = Len(q) + 1
         /\ \A i \in DOMAIN Append(q, m) : Append(q, m)[i] = m \/ \E j \in DOMAIN q : Append(q, m)[i] = q[j]
         /\ \A h : (\E i \in DOMAIN Append(q, m) : Append(q, m)[i].hdr = h)
                   => (\E i \in DOMAIN q : q[i].hdr = h) \/ h = m.hdr
         /\ \A i, j \in DOMAIN Append(q, m) : Append(q, m)[i].hdr = Append(q, m)[j].hdr => i = j
  <1> DEFINE a == Append(q, m)
  <1>1. a \in Seq(Messages) /\ Len(a) = Len(q) + 1 /\ Len(q) \in Nat
    OBVIOUS
  <1>2. \A i \in DOMAIN a : (i = Len(q) + 1 /\ a[i] = m) \/ (i \in DOMAIN q /\ a[i] = q[i])
    OBVIOUS
  <1> HIDE DEF a
  <1>3. \A i, j \in DOMAIN a : a[i].hdr = a[j].hdr => i = j
    BY <1>2
  <1>4. \A i \in DOMAIN a : a[i] = m \/ \E j \in DOMAIN q : a[i] = q[j]
    BY <1>2
  <1>5. \A h : (\E i \in DOMAIN a : a[i].hdr = h) => (\E i \in DOMAIN q : q[i].hdr = h) \/ h = m.hdr
    BY <1>2
  <1> QED  BY <1>1, <1>3, <1>4, <1>5 DEF a

(* A packet that was queued earlier is returned, once.                     *)
LEMMA RecvBufferedInv ==
  ASSUME PipeInv, NEW r \in Receivers, RecvBuffered(r)
  PROVE  PipeInv'
  <1>1. /\ receivers[r].pc = "buffered" /\ RecvUnchanged /\ UNCHANGED poolVars /\ buffer' = buffer
        /\ app_rings' = app_rings /\ rr_index' = rr_index /\ drops' = drops /\ pkts' = pkts
    BY DEF RecvBuffered, At, RecvUnchanged
  <1>2. /\ ReceiverIdle \in RecvRegs /\ ReceiverIdle.pc = "idle" /\ drops \in Counters
        /\ rx_lock \in Receivers \cup {Nobody} /\ rx_lock = r
    BY <1>1, RecvRegisters, Zenon
  <1>3. ~Holding(r)
    BY <1>1 DEF Holding
  <1>4. CASE has_buffered_packets /\ queue # << >>
    <2>1. /\ receivers' = [receivers EXCEPT ![r] = ReceiverIdle] /\ rx_lock' = Nobody
          /\ returned' = Append(returned, Head(queue)) /\ queue' = Tail(queue)
      <3>1. Some(Head(queue)) # None /\ Some(Head(queue))[1] = Head(queue)
        BY DEF Some, None
      <3> QED  BY <1>2, <1>4, <3>1 DEF RecvBuffered, Return
    <2>2. /\ queue \in Seq(Messages) /\ returned \in Seq(Messages) /\ Len(queue) <= QueueMax /\ MessagesOK
          /\ rr_index \in 0 .. NumWorkers
      BY Zenon DEF PipeInv, PipeTypeOK, HistoryOK
    <2>3. /\ \A i, j \in DOMAIN queue : queue[i].hdr = queue[j].hdr => i = j
          /\ \A i, j \in DOMAIN returned : returned[i].hdr = returned[j].hdr => i = j
      BY <2>2, Zenon DEF MessagesOK
    <2> DEFINE m == Head(queue)
    <2>4. /\ m \in Messages /\ m = queue[1] /\ 1 \in DOMAIN queue /\ queue' \in Seq(Messages)
          /\ Len(queue') = Len(queue) - 1 /\ Len(queue) \in Nat
          /\ \A i \in DOMAIN queue' : \E j \in DOMAIN queue : queue'[i] = queue[j]
          /\ \A h : (\E i \in DOMAIN queue' : queue'[i].hdr = h)
                    => (\E i \in DOMAIN queue : queue[i].hdr = h) /\ h # m.hdr
          /\ \A i, j \in DOMAIN queue' : queue'[i].hdr = queue'[j].hdr => i = j
      <3>1. queue # << >> /\ queue' = Tail(queue)
        BY <1>4, <2>1, Zenon
      <3>2. /\ Head(queue) \in Messages /\ Head(queue) = queue[1] /\ 1 \in DOMAIN queue /\ Tail(queue) \in Seq(Messages)
            /\ Len(Tail(queue)) = Len(queue) - 1 /\ Len(queue) \in Nat
            /\ \A i \in DOMAIN Tail(queue) : \E j \in DOMAIN queue : Tail(queue)[i] = queue[j]
            /\ \A h : (\E i \in DOMAIN Tail(queue) : Tail(queue)[i].hdr = h)
                      => (\E i \in DOMAIN queue : queue[i].hdr = h) /\ h # Head(queue).hdr
            /\ \A i, j \in DOMAIN Tail(queue) : Tail(queue)[i].hdr = Tail(queue)[j].hdr => i = j
        <4> HIDE DEF m
        <4>1. \A i, j \in DOMAIN queue : queue[i].hdr = queue[j].hdr => i = j
          BY <2>3, Zenon
        <4> QED  BY <2>2, <3>1, <4>1, FirstMessage, ZenonT(30)
      <3> QED  BY <3>1, <3>2, Zenon
    <2>5. m.data = m.hdr /\ Genuine(m.hdr, m.src) /\ IsQueued(m.hdr) /\ ~IsReturned(m.hdr)
      BY <2>2, <2>4 DEF MessagesOK, IsQueued
    <2>6. \A i \in DOMAIN returned : returned[i].hdr # m.hdr
      BY <2>5, Zenon DEF IsReturned
    <2> HIDE DEF m
    <2>7. /\ returned' \in Seq(Messages)
          /\ \A i \in DOMAIN returned' : returned'[i] = m \/ \E j \in DOMAIN returned : returned'[i] = returned[j]
          /\ \A h : (\E i \in DOMAIN returned' : returned'[i].hdr = h)
                    => (\E i \in DOMAIN returned : returned[i].hdr = h) \/ h = m.hdr
          /\ \A i, j \in DOMAIN returned' : returned'[i].hdr = returned'[j].hdr => i = j
      <3>1. returned' = Append(returned, m)
        BY <2>1, Zenon DEF m
      <3> QED  BY <2>2, <2>3, <2>4, <2>6, <3>1, LastMessage
    <2>8. /\ \A h : IsQueued(h)' => IsQueued(h) /\ h # m.hdr
          /\ \A h : IsReturned(h)' => IsReturned(h) \/ h = m.hdr
      BY <2>4, <2>7, Zenon DEF IsQueued, IsReturned
    <2>9. MessagesOK'
      <3>1. \A h, t : Genuine(h, t)' <=> Genuine(h, t)
        BY <1>1, Zenon DEF Genuine
      <3>2. \A h : IsReturned(h)' => ~IsQueued(h)'
        BY <2>2, <2>8, Zenon DEF MessagesOK
      <3>3. ASSUME NEW i \in DOMAIN returned'
            PROVE  returned'[i].data = returned'[i].hdr /\ Genuine(returned'[i].hdr, returned'[i].src)
        <4>1. CASE returned'[i] = m
          BY <2>5, <4>1, Zenon
        <4>2. CASE \E j \in DOMAIN returned : returned'[i] = returned[j]
          BY <2>2, <4>2, Zenon DEF MessagesOK
        <4> QED  BY <2>7, <4>1, <4>2, Zenon
      <3>4. ASSUME NEW i \in DOMAIN queue'
            PROVE  queue'[i].data = queue'[i].hdr /\ Genuine(queue'[i].hdr, queue'[i].src)
        <4>1. PICK j \in DOMAIN queue : queue'[i] = queue[j]
          BY <2>4, Zenon
        <4> QED  BY <2>2, <4>1, Zenon DEF MessagesOK
      <3> QED  BY <2>4, <2>7, <3>1, <3>2, <3>3, <3>4, Zenon DEF MessagesOK
    <2>10. Len(queue') <= QueueMax /\ rr_index' \in 0 .. NumWorkers
      <3>1. Len(queue') = Len(queue) - 1 /\ Len(queue) \in Nat /\ Len(queue) <= QueueMax /\ QueueMax \in Nat
        BY <2>2, <2>4, PipelineAssumption, Zenon
      <3>2. Len(queue') <= QueueMax
        BY <3>1
      <3> QED  BY <1>1, <2>2, <3>2, Zenon
    <2>11. \A h : IsReturned(h)' \/ IsQueued(h)' =>
           IsReturned(h) \/ IsQueued(h) \/ (At(r, "filter") /\ h = receivers[r].pkt[1].hdr)
      BY <2>5, <2>8
    <2> QED  BY <1>1, <1>2, <1>3, <2>1, <2>4, <2>7, <2>9, <2>10, <2>11, RecvMoves, Zenon
  <1>5. CASE ~(has_buffered_packets /\ queue # << >>)
    <2> DEFINE regs == [receivers[r] EXCEPT !.pc = "scan"]
    <2>1. receivers' = [receivers EXCEPT ![r] = regs] /\ returned' = returned /\ queue' = queue /\ rx_lock' = rx_lock
      BY <1>5 DEF RecvBuffered, Goto, Enter
    <2>2. regs \in RecvRegs /\ regs.pc = "scan"
      BY RecvRegisters, Zenon
    <2> HIDE DEF regs
    <2> QED  BY <1>1, <1>2, <1>3, <2>1, <2>2, RecvMovesOn, Zenon
  <1> QED  BY <1>4, <1>5, Zenon

(* What a receiver has of its packet at the filter is a message like the   *)
(* others, of a packet none of them is of.                                 *)
LEMMA ReceivedMessage ==
  ASSUME PipeInv, NEW r \in Receivers, At(r, "filter")
  PROVE  /\ Received(r) \in Messages /\ Received(r).hdr = receivers[r].pkt[1].hdr
         /\ Received(r).data = Received(r).hdr /\ Genuine(Received(r).hdr, Received(r).src)
         /\ ~IsReturned(Received(r).hdr) /\ ~IsQueued(Received(r).hdr)
  <1> DEFINE pkt == receivers[r].pkt
  <1>1. receivers[r] \in RecvRegs /\ RecvOK(r) /\ RecvFresh(r) /\ HasPacket(r) /\ receivers[r].pc = "filter"
    BY Zenon DEF PipeInv, PipeTypeOK, ReceiversOK, HistoryOK, HasPacket, At
  <1>2. /\ pkt # << >> /\ Genuine(pkt[1].hdr, pkt[1].src) /\ receivers[r].data = pkt[1].hdr
        /\ ~IsReturned(pkt[1].hdr) /\ ~IsQueued(pkt[1].hdr)
    BY <1>1 DEF RecvOK, RecvFresh
  <1>3. pkt \in Seq(AppPackets) /\ receivers[r].data \in Nat
    BY <1>1, Zenon DEF RecvRegs
  <1>4. pkt[1] \in AppPackets
    BY <1>2, <1>3
  <1>5. pkt[1].hdr \in Nat /\ pkt[1].src \in Senders
    BY <1>4, SMTT(30) DEF AppPackets
  <1>6. Received(r) \in Messages
    BY <1>3, <1>5, Zenon DEF Received, Messages
  <1>7. Received(r).hdr = pkt[1].hdr /\ Received(r).src = pkt[1].src /\ Received(r).data = receivers[r].data
    BY DEF Received
  <1> QED  BY <1>2, <1>6, <1>7, Zenon

(* The packet is returned, queued for a later call, or counted as lost.    *)
LEMMA RecvFilterInv ==
  ASSUME PipeInv, NEW r \in Receivers, RecvFilter(r)
  PROVE  PipeInv'
  <1> DEFINE m == Received(r)
             again == [ReceiverIdle EXCEPT !.pc = "lock"]
  <1>1. /\ receivers[r].pc = "filter" /\ At(r, "filter") /\ RecvUnchanged /\ UNCHANGED poolVars /\ buffer' = buffer
        /\ app_rings' = app_rings /\ rr_index' = rr_index /\ pkts' = pkts
    BY DEF RecvFilter, At, RecvUnchanged
  <1>2. /\ ReceiverIdle \in RecvRegs /\ ReceiverIdle.pc = "idle" /\ drops \in Counters
        /\ rx_lock \in Receivers \cup {Nobody} /\ rx_lock = r
    BY <1>1, RecvRegisters, Zenon
  <1>3. ~Holding(r)
    BY <1>1 DEF Holding
  <1>4. /\ m \in Messages /\ m.hdr = receivers[r].pkt[1].hdr /\ m.data = m.hdr /\ Genuine(m.hdr, m.src)
        /\ ~IsReturned(m.hdr) /\ ~IsQueued(m.hdr)
    BY <1>1, ReceivedMessage, Zenon
  <1>5. /\ queue \in Seq(Messages) /\ returned \in Seq(Messages) /\ Len(queue) <= QueueMax /\ MessagesOK
        /\ rr_index \in 0 .. NumWorkers /\ Len(queue) \in Nat
    BY DEF PipeInv, PipeTypeOK, HistoryOK
  <1>6. again \in RecvRegs /\ again.pc = "lock"
    BY <1>2, Zenon DEF RecvRegs
  <1>7. \A h, t : Genuine(h, t)' <=> Genuine(h, t)
    BY <1>1 DEF Genuine
  <1>8. rr_index' \in 0 .. NumWorkers
    BY <1>1, <1>5, SMTT(30)
  <1>9. /\ \A i, j \in DOMAIN queue : queue[i].hdr = queue[j].hdr => i = j
        /\ \A i, j \in DOMAIN returned : returned[i].hdr = returned[j].hdr => i = j
        /\ \A i \in DOMAIN queue : queue[i].hdr # m.hdr
        /\ \A i \in DOMAIN returned : returned[i].hdr # m.hdr
    BY <1>4, <1>5, Zenon DEF MessagesOK, IsReturned, IsQueued
  <1>10. CASE connected_addr \in {None, Some(m.src)}
    <2>1. /\ receivers' = [receivers EXCEPT ![r] = ReceiverIdle] /\ rx_lock' = Nobody
          /\ returned' = Append(returned, m) /\ queue' = queue /\ drops' = drops
      <3>1. Some(m) # None /\ Some(m)[1] = m
        BY Zenon DEF Some, None
      <3> QED  BY <1>2, <1>10, <3>1 DEF RecvFilter, Return
    <2> HIDE DEF m
    <2>2. /\ returned' \in Seq(Messages)
          /\ \A i \in DOMAIN returned' : returned'[i] = m \/ \E j \in DOMAIN returned : returned'[i] = returned[j]
          /\ \A h : (\E i \in DOMAIN returned' : returned'[i].hdr = h)
                    => (\E i \in DOMAIN returned : returned[i].hdr = h) \/ h = m.hdr
          /\ \A i, j \in DOMAIN returned' : returned'[i].hdr = returned'[j].hdr => i = j
      BY <1>4, <1>5, <1>9, <2>1, LastMessage
    <2>3. /\ \A h : IsQueued(h)' <=> IsQueued(h)
          /\ \A h : IsReturned(h)' => IsReturned(h) \/ h = m.hdr
      BY <2>1, <2>2, Zenon DEF IsQueued, IsReturned
    <2>4. MessagesOK'
      <3>1. \A h : IsReturned(h)' => ~IsQueued(h)'
        BY <1>4, <1>5, <2>3, Zenon DEF MessagesOK
      <3>2. ASSUME NEW i \in DOMAIN returned'
            PROVE  returned'[i].data = returned'[i].hdr /\ Genuine(returned'[i].hdr, returned'[i].src)
        <4>1. CASE returned'[i] = m
          BY <1>4, <4>1, Zenon
        <4>2. CASE \E j \in DOMAIN returned : returned'[i] = returned[j]
          BY <1>5, <4>2, Zenon DEF MessagesOK
        <4> QED  BY <2>2, <4>1, <4>2, Zenon
      <3> QED  BY <1>5, <1>7, <2>1, <2>2, <3>1, <3>2, Zenon DEF MessagesOK
    <2>5. \A h : IsReturned(h)' \/ IsQueued(h)' =>
           IsReturned(h) \/ IsQueued(h) \/ (At(r, "filter") /\ h = receivers[r].pkt[1].hdr)
      BY <1>1, <1>4, <2>3, Zenon
    <2> QED  BY <1>1, <1>2, <1>3, <1>5, <1>8, <2>1, <2>2, <2>4, <2>5, RecvMoves, Zenon
  <1>11. CASE connected_addr \notin {None, Some(m.src)}
    <2>1. PICK regs \in {ReceiverIdle, again} :
            receivers' = [receivers EXCEPT ![r] = regs] /\ rx_lock' = Nobody /\ returned' = returned
      BY <1>2, <1>11 DEF RecvFilter, Return, Enter
    <2>2. regs \in RecvRegs /\ regs.pc \in {"idle", "lock"}
      BY <1>2, <1>6, <2>1, Zenon
    <2>3. CASE Len(queue) >= QueueMax
      <3>1. drops' = [drops EXCEPT !.buffer_full = @ + 1] /\ queue' = queue
        BY <1>11, <2>3 DEF RecvFilter
      <3>2. drops' \in Counters /\ drops'.ring_full = drops.ring_full /\ drops'.app_ring = drops.app_ring
        BY <1>2, <3>1 DEF Counters
      <3> QED  BY <1>1, <1>2, <1>3, <2>1, <2>2, <3>1, <3>2, RecvMovesOn, Zenon
    <2>4. CASE ~(Len(queue) >= QueueMax)
      <3>1. drops' = drops /\ queue' = Append(queue, m)
        BY <1>11, <2>4 DEF RecvFilter
      <3> HIDE DEF m
      <3>2. /\ queue' \in Seq(Messages) /\ Len(queue') = Len(queue) + 1
            /\ \A i \in DOMAIN queue' : queue'[i] = m \/ \E j \in DOMAIN queue : queue'[i] = queue[j]
            /\ \A h : (\E i \in DOMAIN queue' : queue'[i].hdr = h)
                      => (\E i \in DOMAIN queue : queue[i].hdr = h) \/ h = m.hdr
            /\ \A i, j \in DOMAIN queue' : queue'[i].hdr = queue'[j].hdr => i = j
        BY <1>4, <1>5, <1>9, <3>1, LastMessage
      <3>3. /\ \A h : IsReturned(h)' <=> IsReturned(h)
            /\ \A h : IsQueued(h)' => IsQueued(h) \/ h = m.hdr
        BY <2>1, <3>2 DEF IsQueued, IsReturned
      <3>4. MessagesOK'
        <4>1. \A h : IsReturned(h)' => ~IsQueued(h)'
          BY <1>4, <1>5, <3>3 DEF MessagesOK
        <4>2. \A i \in DOMAIN queue' : queue'[i].data = queue'[i].hdr /\ Genuine(queue'[i].hdr, queue'[i].src)
          BY <1>4, <1>5, <3>2, SMTT(30) DEF MessagesOK
        <4> QED  BY <1>5, <1>7, <2>1, <3>2, <4>1, <4>2, Zenon DEF MessagesOK
      <3>5. \A h : IsReturned(h)' \/ IsQueued(h)' =>
             IsReturned(h) \/ IsQueued(h) \/ (At(r, "filter") /\ h = receivers[r].pkt[1].hdr)
        BY <1>1, <1>4, <3>3
      <3>6. Len(queue') <= QueueMax
        BY <1>5, <2>4, <3>2, PipelineAssumption
      <3> QED  BY <1>1, <1>2, <1>3, <1>5, <1>8, <2>1, <2>2, <3>1, <3>2, <3>4, <3>5, <3>6, RecvMoves, Zenon
    <2> QED  BY <2>3, <2>4
  <1> QED  BY <1>10, <1>11

-----------------------------------------------------------------------------
(* The receiving threads, with a frame in their hands.                     *)

(* A receiver goes on with the packet it has; when its frame is free, no   *)
(* frame in use holds that packet.                                         *)
LEMMA RecvCarries ==
  ASSUME PipeInv, RecvUnchanged, buffer' = buffer, inuse' \subseteq inuse, rx_lock' = rx_lock,
         queue' = queue, returned' = returned, NEW r \in Receivers, NEW regs \in RecvRegs,
         receivers' = [receivers EXCEPT ![r] = regs], HasPacket(r), regs.pc \in {"claim", "free", "filter"},
         regs.pkt = receivers[r].pkt, regs.data = receivers[r].pkt[1].hdr,
         regs.pc = "claim" => Holding(r),
         regs.pc \in {"free", "filter"} => \A i \in inuse' : buffer[i] # receivers[r].pkt[1].hdr
  PROVE  /\ ReceiversOK' /\ HistoryOK' /\ receivers' \in [Receivers -> RecvRegs] /\ receivers'[r] = regs
         /\ \A q \in Receivers \ {r} : receivers'[q] = receivers[q]
  <1>1. PipeTypeOK /\ ReceiversOK /\ HistoryOK
    BY DEF PipeInv
  <1>2. /\ receivers' \in [Receivers -> RecvRegs] /\ receivers'[r] = regs
        /\ \A q \in Receivers \ {r} : receivers'[q] = receivers[q]
    BY <1>1, RecvUpdate, Zenon
  <1>3. HasPacket(r)' /\ (Holding(r)' => Holding(r))
    BY <1>2 DEF HasPacket, Holding
  <1>4. \A q \in Receivers \ {r} : (Holding(q)' <=> Holding(q)) /\ (HasPacket(q)' <=> HasPacket(q))
    BY <1>2 DEF HasPacket, Holding
  <1>5. /\ \A h, t : Genuine(h, t)' <=> Genuine(h, t)
        /\ \A h : (IsReturned(h)' <=> IsReturned(h)) /\ (IsQueued(h)' <=> IsQueued(h))
    BY DEF Genuine, RecvUnchanged, IsReturned, IsQueued
  <1>6. RecvOK(r) /\ RecvFresh(r)
    BY <1>1, SMTT(30) DEF ReceiversOK, HistoryOK
  <1>7. RecvOK(r)'
    <2>1. rx_lock = r
      BY <1>6, SMTT(30) DEF RecvOK, HasPacket
    <2> QED  BY <1>2, <1>3, <1>5, <1>6, <2>1, SMTT(30) DEF RecvOK
  <1>8. \A q \in Receivers \ {r} : RecvOK(q)'
    BY <1>1, <1>2, <1>4, <1>5, SMTT(30) DEF ReceiversOK, RecvOK
  <1>9. RecvFresh(r)'
    BY <1>2, <1>3, <1>5, <1>6, SMTT(30) DEF RecvFresh
  <1>10. \A q \in Receivers \ {r} : RecvFresh(q)'
    BY <1>1, <1>2, <1>4, <1>5, SMTT(30) DEF HistoryOK, RecvFresh
  <1>11. MessagesOK'
    BY <1>1, <1>5 DEF HistoryOK, MessagesOK
  <1>12. ReceiversOK'
    BY <1>7, <1>8 DEF ReceiversOK
  <1>13. HistoryOK'
    BY <1>1, <1>5, <1>9, <1>10, <1>11 DEF HistoryOK
  <1> QED  BY <1>2, <1>12, <1>13

(* The types when a receiver only changes its registers.                   *)
LEMMA RecvRegTypes ==
  ASSUME PipeTypeOK, RecvUnchanged, UNCHANGED <<buffer, app_rings, rx_lock, rr_index, queue, drops, returned>>,
         receivers' \in [Receivers -> RecvRegs]
  PROVE  PipeTypeOK'
  BY DEF PipeTypeOK, RecvUnchanged

(* A receiver that copies reads the packet whose header it was handed.     *)
LEMMA RecvCopyInv ==
  ASSUME PipeInv, NEW r \in Receivers, RecvCopy(r)
  PROVE  PipeInv'
  <1> DEFINE regs == [receivers[r] EXCEPT !.pc = "claim", !.data = buffer[receivers[r].pkt[1].idx]]
  <1>1. /\ receivers[r].pc = "copy" /\ receivers' = [receivers EXCEPT ![r] = regs] /\ returned' = returned
        /\ RecvUnchanged /\ UNCHANGED poolVars /\ inuse' = inuse /\ alloc' = alloc
        /\ UNCHANGED <<buffer, app_rings, rx_lock, rr_index, queue, drops, returned>>
    BY DEF RecvCopy, At, Enter, poolVars
  <1>2. receivers[r] \in RecvRegs /\ PipeTypeOK /\ RecvOK(r) /\ HasPacket(r) /\ Holding(r) /\ PoolInv
    BY <1>1 DEF PipeInv, PipeTypeOK, ReceiversOK, HasPacket, Holding
  <1>3. buffer[receivers[r].pkt[1].idx] = receivers[r].pkt[1].hdr /\ receivers[r].pkt # << >>
    BY <1>2 DEF RecvOK
  <1>4. receivers[r].pkt[1].hdr \in Nat
    <2>1. receivers[r].pkt \in Seq(AppPackets)
      BY <1>2 DEF RecvRegs
    <2>2. receivers[r].pkt[1] \in AppPackets
      BY <1>3, <2>1
    <2> QED  BY <2>2 DEF AppPackets
  <1>5. /\ regs \in RecvRegs /\ regs.pc = "claim" /\ regs.pkt = receivers[r].pkt
        /\ regs.data = receivers[r].pkt[1].hdr
    BY <1>2, <1>3, <1>4, Zenon DEF RecvRegs
  <1> HIDE DEF regs
  <1>6. regs.pc # "free" /\ regs.pc # "filter" /\ regs.pc \in {"claim", "free", "filter"}
    BY <1>5
  <1>7. /\ ReceiversOK' /\ HistoryOK' /\ receivers' \in [Receivers -> RecvRegs] /\ receivers'[r] = regs
        /\ \A q \in Receivers \ {r} : receivers'[q] = receivers[q]
    BY <1>1, <1>2, <1>5, <1>6, RecvCarries, Zenon
  <1>8. PoolInv' /\ PipeTypeOK'
    BY <1>1, <1>2, <1>7, PoolKept, RecvRegTypes
  <1>9. \A q \in Receivers : SameHand(q)
    BY <1>1, <1>5, <1>7 DEF SameHand, Holding
  <1> QED  BY <1>1, <1>7, <1>8, <1>9, RecvQuiet

(* free stores the index, and the receiver goes on.                        *)
LEMMA RecvFreedInv ==
  ASSUME PipeInv, NEW r \in Receivers, RecvFreed(r)
  PROVE  PipeInv'
  <1> DEFINE regs == [receivers[r] EXCEPT !.pc = "filter"]
  <1>1. /\ receivers[r].pc = "free" /\ receivers' = [receivers EXCEPT ![r] = regs] /\ returned' = returned
        /\ RecvUnchanged /\ FreeStore(RecvThread(r)) /\ inuse' = inuse /\ alloc' = alloc
        /\ UNCHANGED <<buffer, app_rings, rx_lock, rr_index, queue, drops, returned>>
    BY DEF RecvFreed, At, Goto, Enter, FreeStore
  <1>2. PipeTypeOK /\ RecvOK(r) /\ RecvFresh(r) /\ HasPacket(r) /\ PoolInv
    BY <1>1 DEF PipeInv, ReceiversOK, HistoryOK, HasPacket
  <1>3. receivers[r].data = receivers[r].pkt[1].hdr /\ \A i \in inuse : buffer[i] # receivers[r].pkt[1].hdr
    BY <1>1, <1>2 DEF RecvOK, RecvFresh
  <1>4. regs \in RecvRegs /\ regs.pc = "filter" /\ regs.pkt = receivers[r].pkt /\ regs.data = receivers[r].data
    BY RecvRegisters, Zenon
  <1> HIDE DEF regs
  <1>5. regs.pc # "claim" /\ regs.pc \in {"claim", "free", "filter"} /\ regs.data = receivers[r].pkt[1].hdr
    BY <1>3, <1>4
  <1>6. /\ ReceiversOK' /\ HistoryOK' /\ receivers' \in [Receivers -> RecvRegs] /\ receivers'[r] = regs
        /\ \A q \in Receivers \ {r} : receivers'[q] = receivers[q]
    BY <1>1, <1>2, <1>3, <1>4, <1>5, RecvCarries, Zenon
  <1>7. RecvThread(r) \in Threads
    BY PipelineAssumption
  <1>8. PoolInv' /\ PipeTypeOK'
    BY <1>1, <1>2, <1>6, <1>7, FreeStoreInv, RecvRegTypes, SMTT(30)
  <1>9. \A q \in Receivers : SameHand(q)
    BY <1>1, <1>4, <1>6 DEF SameHand, Holding
  <1> QED  BY <1>1, <1>6, <1>8, <1>9, RecvQuiet

(* A receiver frees the frame it has copied: no other frame holds that     *)
(* packet.                                                                 *)
LEMMA RecvFreeInv ==
  ASSUME Counting, PipeInv, NEW r \in Receivers, RecvFree(r)
  PROVE  PipeInv'
  <1> DEFINE regs == [receivers[r] EXCEPT !.pc = "free"]
  <1>1. PICK x : x = receivers[r].pkt[1].idx
    OBVIOUS
  <1>2. /\ receivers[r].pc = "claim" /\ receivers' = [receivers EXCEPT ![r] = regs] /\ returned' = returned
        /\ RecvUnchanged /\ FreeClaim(RecvThread(r), x) /\ inuse' = inuse \ {x} /\ alloc' = alloc
        /\ buffer' = buffer /\ app_rings' = app_rings /\ rx_lock' = rx_lock /\ queue' = queue /\ drops' = drops
        /\ UNCHANGED <<buffer, app_rings, rx_lock, rr_index, queue, drops, returned>>
    BY <1>1 DEF RecvFree, At, Goto, Enter, FreeClaim
  <1>3. /\ PoolInv /\ PipeTypeOK /\ RecvOK(r) /\ HasPacket(r) /\ Holding(r) /\ Accounted /\ Ordered
        /\ ReceiversOK /\ RingsNeverReject
    BY <1>2 DEF PipeInv, ReceiversOK, HasPacket, Holding
  <1>4. x \in inuse /\ InHand(r, x)
    BY <1>1, <1>3 DEF InHand, Accounted
  <1>5. buffer[x] = receivers[r].pkt[1].hdr /\ receivers[r].data = receivers[r].pkt[1].hdr
    BY <1>1, <1>2, <1>3 DEF RecvOK
  <1>6. \A i \in inuse' : buffer[i] # receivers[r].pkt[1].hdr
    BY <1>2, <1>3, <1>4, <1>5 DEF Ordered
  <1>7. regs \in RecvRegs /\ regs.pc = "free" /\ regs.pkt = receivers[r].pkt /\ regs.data = receivers[r].data
    BY RecvRegisters, Zenon
  <1> HIDE DEF regs
  <1>8. /\ regs.pc # "claim" /\ regs.pc \in {"claim", "free", "filter"} /\ regs.data = receivers[r].pkt[1].hdr
        /\ inuse' \subseteq inuse
    BY <1>2, <1>5, <1>7
  <1>9. /\ ReceiversOK' /\ HistoryOK' /\ receivers' \in [Receivers -> RecvRegs] /\ receivers'[r] = regs
        /\ \A q \in Receivers \ {r} : receivers'[q] = receivers[q]
    BY <1>2, <1>3, <1>6, <1>7, <1>8, RecvCarries, Zenon
  <1>10. RecvThread(r) \in Threads
    BY PipelineAssumption
  <1>11. PoolInv' /\ PipeTypeOK'
    BY <1>2, <1>3, <1>4, <1>9, <1>10, FreeClaimInv, RecvRegTypes, SMTT(30)
  <1>12. /\ \A w \in Workers : SamePath(w)
         /\ RingsOK' /\ AppOK' /\ RxOK'
    BY <1>2, RecvFrame
  <1>13. \A i : \A w \in Workers : OnPath(w, i)' <=> OnPath(w, i)
    BY <1>12, SamePathOn
  <1>14. \A i : InRefs(i)' <=> InRefs(i)
    BY <1>2 DEF InRefs, RecvUnchanged
  <1>15. \A i : ~InHand(r, i)' /\ (InHand(r, i) => i = x)
    BY <1>1, <1>7, <1>9 DEF InHand, Holding
  <1>16. \A q \in Receivers \ {r} : \A i : ~InHand(q, i) /\ ~InHand(q, i)'
    <2> SUFFICES ASSUME NEW q \in Receivers \ {r} PROVE ~Holding(q) /\ ~Holding(q)'
      BY SMTT(30) DEF InHand
    <2>1. rx_lock = r
      BY <1>2, <1>3 DEF RecvOK
    <2>2. receivers[q].pc \in {"idle", "lock"}
      BY <1>3, <2>1, OneBeyondLock
    <2> QED  BY <1>9, <2>2 DEF Holding
  <1>17. Accounted'
    BY <1>2, <1>3, <1>4, <1>13, <1>14, <1>15, <1>16, SMTT(30) DEF Accounted
  <1>18. Ordered'
    <2>1. \A w \in Workers : \A k, l \in 1 .. PathLen(w)' : k < l => buffer'[PathAt(w, k)'] < buffer'[PathAt(w, l)']
      BY <1>2, <1>3, <1>12 DEF Ordered, SamePath
    <2>2. \A w \in Workers : \A i, j : OnPath(w, i)' /\ InRefs(j)' => buffer'[i] < buffer'[j]
      BY <1>2, <1>3, <1>13, <1>14, Zenon DEF Ordered
    <2> QED  BY <1>2, <1>3, <2>1, <2>2, ZenonT(30) DEF Ordered, RecvUnchanged
  <1>19. RingsNeverReject'
    BY <1>2, <1>3, SMTT(30) DEF RingsNeverReject
  <1> QED  BY <1>9, <1>11, <1>12, <1>17, <1>18, <1>19 DEF PipeInv

(* What is next in an app ring.                                            *)
LEMMA NextInApp ==
  ASSUME PipeInv, NEW w \in Workers, Available(app_rings[w]) > 0
  PROVE  /\ app_rings[w].tail \in Nat /\ app_rings[w].head \in Nat /\ app_rings[w].tail < app_rings[w].head
         /\ app_rings[w].tail \in app_rings[w].tail .. (AppEnd(w) - 1)
         /\ ReadSlot(app_rings[w], 0) = APacket(w, app_rings[w].tail)
         /\ APacket(w, app_rings[w].tail) \in AppPackets /\ AppItemOK(w, app_rings[w].tail)
         /\ PathLen(w) \in Nat /\ 1 \in 1 .. PathLen(w) /\ PathAt(w, 1) = APacket(w, app_rings[w].tail).idx
  <1>1. PipeTypeOK /\ RingsOK /\ AppOK
    BY DEF PipeInv
  <1>2. /\ app_rings[w].tail \in Nat /\ app_rings[w].head \in Nat /\ AppEnd(w) \in Nat
        /\ InApp(w) = AppEnd(w) - app_rings[w].tail /\ InApp(w) <= PathLen(w) /\ PathLen(w) \in Nat
    BY <1>1, PathTypes
  <1>3. app_rings[w].tail < app_rings[w].head
    BY <1>2 DEF Available
  <1>4. AppEnd(w) >= app_rings[w].head
    BY <1>2 DEF AppEnd
  <1>5. app_rings[w].tail \in app_rings[w].tail .. (AppEnd(w) - 1) /\ 1 \in 1 .. PathLen(w) /\ 1 <= InApp(w)
    BY <1>2, <1>3, <1>4
  <1>6. AppItemOK(w, app_rings[w].tail)
    BY <1>1, <1>5, SMTT(30) DEF AppOK
  <1>7. ReadSlot(app_rings[w], 0) = APacket(w, app_rings[w].tail)
    <2>1. \A p \in Nat : p + 0 = p
      OBVIOUS
    <2> QED  BY <1>2, <2>1 DEF ReadSlot, APacket
  <1>8. APacket(w, app_rings[w].tail) \in AppPackets
    <2>1. app_rings[w].tail % RingCapacity \in 0 .. (RingCapacity - 1)
      BY <1>2, SlotOfRing
    <2>2. app_rings[w].slots[app_rings[w].tail % RingCapacity] \in Seq(AppPackets)
      BY <1>1, <2>1, Zenon DEF PipeTypeOK, RingOf
    <2>3. \A s \in Seq(AppPackets) : s # << >> => s[1] \in AppPackets
      OBVIOUS
    <2> QED  BY <1>6, <2>2, <2>3, Zenon DEF AppItemOK, APacket
  <1>9. PathAt(w, 1) = APacket(w, app_rings[w].tail).idx
    <2>1. app_rings[w].tail + (1 - 1) = app_rings[w].tail
      BY <1>2
    <2> QED  BY <1>5, <2>1 DEF PathAt
  <1> QED  BY <1>2, <1>3, <1>5, <1>6, <1>7, <1>8, <1>9, SMTT(30)

(* A receiver takes the next packet of a worker's ring: its frame leaves   *)
(* the path at the front.                                                  *)
LEMMA RecvDequeueInv ==
  ASSUME PipeInv, NEW r \in Receivers, RecvDequeue(r)
  PROVE  PipeInv'
  <1>1. /\ PoolInv /\ PipeTypeOK /\ RxOK /\ RingsOK /\ Accounted /\ Ordered /\ AppOK /\ ReceiversOK /\ HistoryOK
        /\ PoolTypeOK /\ RingsNeverReject
    BY DEF PipeInv, PoolInv
  <1>2. receivers[r] \in RecvRegs /\ receivers[r].pc = "scan"
    BY <1>1 DEF PipeTypeOK, RecvDequeue, At
  <1>3. PICK w \in Workers : w = receivers[r].offset % NumWorkers /\ w \in Nat /\ w + 1 \in 0 .. NumWorkers
    <2>1. receivers[r].offset \in Nat
      BY <1>2 DEF RecvRegs
    <2>2. receivers[r].offset % NumWorkers \in Workers
      BY <2>1, WorkerOf
    <2>3. \A v \in Workers : v \in Nat /\ v + 1 \in 0 .. NumWorkers
      BY PipelineAssumption DEF Workers
    <2> QED  BY <2>2, <2>3
  <1>4. PICK t \in Nat, n \in Nat, p \in AppPackets :
          t = app_rings[w].tail /\ n = PathLen(w) /\ p = APacket(w, t) /\ ReadSlot(app_rings[w], 0) = p
    <2>1. Available(app_rings[w]) > 0
      BY <1>3 DEF RecvDequeue
    <2> QED  BY <2>1, NextInApp, Zenon
  <1>5. /\ app_rings[w].head \in Nat /\ t < app_rings[w].head /\ AppItemOK(w, t) /\ 1 \in 1 .. n
        /\ PathAt(w, 1) = p.idx
    <2>1. Available(app_rings[w]) > 0
      BY <1>3 DEF RecvDequeue
    <2> QED  BY <1>4, <2>1, NextInApp, Zenon
  <1> DEFINE regs == [receivers[r] EXCEPT !.pc = "copy", !.pkt = <<p>>]
             ring == [app_rings[w] EXCEPT !.tail = @ + 1]
  <1>6. /\ receivers' = [receivers EXCEPT ![r] = regs] /\ returned' = returned /\ rr_index' = w + 1
        /\ app_rings' = [app_rings EXCEPT ![w] = ring] /\ RecvUnchanged /\ UNCHANGED poolVars
        /\ buffer' = buffer /\ rx_lock' = rx_lock /\ queue' = queue /\ drops' = drops
    BY <1>3, <1>4, Zenon DEF RecvDequeue, Enter, PublishTail, Some
  <1>7. /\ pkts' = pkts /\ rx' = rx /\ worker_rings' = worker_rings /\ workers' = workers
        /\ inuse' = inuse /\ alloc' = alloc
    BY <1>6 DEF RecvUnchanged, poolVars
  <1>8. regs \in RecvRegs /\ regs.pc = "copy" /\ regs.pkt = <<p>> /\ regs.pkt[1] = p /\ regs.pkt # << >>
    <2>1. <<p>> \in Seq(AppPackets) /\ <<p>> # << >> /\ <<p>>[1] = p
      OBVIOUS
    <2> QED  BY <1>2, <2>1, Zenon DEF RecvRegs
  <1>9. /\ ring \in RingOf(AppPackets) /\ ring.tail = t + 1 /\ ring.head = app_rings[w].head
        /\ ring.slots = app_rings[w].slots
    <2>1. app_rings[w] \in RingOf(AppPackets) /\ app_rings[w].tail + 1 \in Nat
      BY <1>1, <1>4 DEF PipeTypeOK
    <2> QED  BY <1>4, <2>1, Zenon DEF RingOf
  <1>10. /\ app_rings' \in [Workers -> RingOf(AppPackets)] /\ app_rings'[w] = ring
         /\ \A u \in Workers \ {w} : app_rings'[u] = app_rings[u]
    <2>1. app_rings \in [Workers -> RingOf(AppPackets)]
      BY <1>1 DEF PipeTypeOK
    <2> HIDE DEF ring
    <2> QED  BY <1>6, <1>9, <2>1
  <1> HIDE DEF regs, ring
  <1>11. /\ receivers' \in [Receivers -> RecvRegs] /\ receivers'[r] = regs
         /\ \A q \in Receivers \ {r} : receivers'[q] = receivers[q]
    BY <1>1, <1>6, <1>8, RecvUpdate, Zenon
  <1>12. /\ app_rings'[w].tail = t + 1 /\ app_rings'[w].head = app_rings[w].head
         /\ app_rings'[w].slots = app_rings[w].slots
    BY <1>9, <1>10, SMTT(30)
  <1>13. \A q \in Receivers \ {r} : receivers[q].pc \in {"idle", "lock"} /\ receivers'[q].pc \in {"idle", "lock"}
    <2>1. rx_lock = r
      BY <1>1, <1>2 DEF ReceiversOK, RecvOK
    <2> QED  BY <1>1, <1>11, <2>1, OneBeyondLock, SMTT(30)
  <1>14. PoolInv' /\ PipeTypeOK' /\ RxOK' /\ RingsNeverReject'
    <2>1. PoolInv'
      BY <1>1, <1>6, PoolKept
    <2>2. rr_index' \in 0 .. NumWorkers
      BY <1>3, <1>6
    <2>3. PipeTypeOK'
      BY <1>1, <1>6, <1>7, <1>10, <1>11, <2>2, Zenon DEF PipeTypeOK
    <2>4. RxOK' /\ RingsNeverReject'
      BY <1>1, <1>6, <1>7 DEF RxOK, RingsNeverReject
    <2> QED  BY <2>1, <2>3, <2>4
  <1>15. Publishing(w)' <=> Publishing(w)
    BY <1>7 DEF Publishing
  <1>16. AppEnd(w)' = AppEnd(w) /\ RingEnd(w)' = RingEnd(w) /\ RingStart(w)' = RingStart(w)
    BY <1>7, <1>12, <1>15, Zenon DEF AppEnd, RingEnd, RingStart
  <1>17. PICK a \in Nat, b \in Nat, e \in Nat : a = InApp(w) /\ b = BeforeRing(w) /\ e = AppEnd(w) /\ a = e - t
    BY <1>1, <1>4, PathTypes
  <1>18. InApp(w)' = a - 1 /\ BeforeRing(w)' = b - 1 /\ PathLen(w)' = n - 1
    <2>1. PICK c \in Nat, l \in Int : /\ c = Len(workers[w].batch) /\ l = RingEnd(w) - RingStart(w)
                                   /\ b = a + c /\ n = b + l
      <3>1. /\ RingStart(w) \in Nat /\ RingEnd(w) \in Nat /\ Len(workers[w].batch) \in Nat
            /\ BeforeRing(w) = InApp(w) + Len(workers[w].batch)
            /\ PathLen(w) = BeforeRing(w) + (RingEnd(w) - RingStart(w))
        BY <1>1, PathTypes, Zenon
      <3>2. RingEnd(w) - RingStart(w) \in Int
        BY <3>1, SMTT(30)
      <3> QED  BY <1>4, <1>17, <3>1, <3>2, Zenon
    <2>2. InApp(w)' = e - (t + 1)
      BY <1>12, <1>16, <1>17 DEF InApp
    <2>3. e - (t + 1) = a - 1
      BY <1>17
    <2>4. BeforeRing(w)' = (a - 1) + c
      BY <1>7, <2>1, <2>2, <2>3 DEF BeforeRing
    <2>5. (a - 1) + c = b - 1 /\ (b - 1) + l = n - 1
      BY <2>1
    <2>6. PathLen(w)' = (b - 1) + l
      BY <1>16, <2>1, <2>4, <2>5, SMTT(30) DEF PathLen
    <2> QED  BY <2>2, <2>3, <2>4, <2>5, <2>6
  <1>19. ASSUME NEW k \in 1 .. (n - 1)
         PROVE  PathAt(w, k)' = IF k < 1 THEN PathAt(w, k) ELSE PathAt(w, k + 1)
    <2>0. k \in Int /\ k + 1 \in Int /\ ~(k < 1)
      OBVIOUS
    <2>1. CASE k <= a - 1
      <3>1. k + 1 <= a /\ (t + 1) + (k - 1) = t + ((k + 1) - 1)
        BY <2>0, <2>1
      <3>2. \A q : q = (t + 1) + (k - 1) => PathAt(w, k)' = APacket(w, q)'.idx
        BY <1>12, <1>18, <2>1, Zenon DEF PathAt
      <3>3. PathAt(w, k + 1) = APacket(w, t + ((k + 1) - 1)).idx
        BY <1>4, <1>17, <3>1, Zenon DEF PathAt
      <3>4. \A q : APacket(w, q)' = APacket(w, q)
        BY <1>12 DEF APacket
      <3> QED  BY <2>0, <3>1, <3>2, <3>3, <3>4
    <2>2. CASE ~(k <= a - 1) /\ k <= b - 1
      <3>1. ~(k + 1 <= a) /\ k + 1 <= b /\ k - (a - 1) = (k + 1) - a
        BY <2>0, <2>2
      <3>2. PathAt(w, k)' = workers[w].batch[k - (a - 1)]
        BY <1>7, <1>18, <2>2, Zenon DEF PathAt
      <3>3. PathAt(w, k + 1) = workers[w].batch[(k + 1) - a]
        BY <1>17, <3>1 DEF PathAt
      <3> QED  BY <2>0, <3>1, <3>2, <3>3
    <2>3. CASE ~(k <= a - 1) /\ ~(k <= b - 1)
      <3>1. ~(k + 1 <= a) /\ ~(k + 1 <= b) /\ k - (b - 1) - 1 = (k + 1) - b - 1
        BY <2>0, <2>3
      <3>2. \A q : q = RingStart(w) + (k - (b - 1) - 1) => PathAt(w, k)' = WFrame(w, q)'
        BY <1>16, <1>18, <2>3, Zenon DEF PathAt
      <3>3. PathAt(w, k + 1) = WFrame(w, RingStart(w) + ((k + 1) - b - 1))
        BY <1>17, <3>1 DEF PathAt
      <3>4. \A q : WFrame(w, q)' = WFrame(w, q)
        BY <1>7 DEF WFrame
      <3> QED  BY <2>0, <3>1, <3>2, <3>3, <3>4, SMTT(30)
    <2> QED  BY <2>1, <2>2, <2>3
  <1>20. PICK x : x = p.idx /\ x = PathAt(w, 1)
    BY <1>5
  <1>21. /\ \A i : OnPath(w, i)' <=> OnPath(w, i) /\ i # x
         /\ \A k, l \in 1 .. PathLen(w)' : k < l => buffer'[PathAt(w, k)'] < buffer'[PathAt(w, l)']
    <2>1. PICK m \in 1 .. n : m = 1 /\ x = PathAt(w, m)
      BY <1>5, <1>20
    <2>2. \A k \in 1 .. (n - 1) : PathAt(w, k)' = IF k < m THEN PathAt(w, k) ELSE PathAt(w, k + 1)
      BY <1>19, <2>1
    <2>3. PoolTypeOK /\ PipeTypeOK /\ Accounted /\ Ordered
      BY <1>1
    <2>4. n = PathLen(w) /\ x = PathAt(w, m) /\ buffer' = buffer /\ PathLen(w)' = n - 1
      BY <1>4, <1>6, <1>18, <2>1
    <2> QED  BY <2>2, <2>3, <2>4, PathCut, Zenon
  <1>22. OnPath(w, x) /\ x \in inuse
    BY <1>1, <1>4, <1>5, <1>20, Zenon DEF OnPath, Accounted
  <1>23. \A u \in Workers \ {w} : SamePath(u) /\ AppEnd(u)' = AppEnd(u)
    <2>1. \A u \in Workers : Publishing(u)' <=> Publishing(u)
      BY <1>7 DEF Publishing
    <2> QED  BY <1>7, <1>10, <2>1, PathFrame, Zenon
  <1>24. \A u \in Workers \ {w} : RingOK(u)'
    <2>1. \A u \in Workers : Publishing(u)' <=> Publishing(u)
      BY <1>7 DEF Publishing
    <2> QED  BY <1>1, <1>7, <1>10, <2>1, RingFrame, Zenon DEF RingsOK
  <1>25. RingOK(w)'
    <2>1. RingOK(w) /\ RingCapacity \in Nat
      BY <1>1, RingCapacityAssumption, Zenon DEF RingsOK
    <2>2. /\ t + 1 <= app_rings[w].head /\ app_rings[w].head <= (t + 1) + RingCapacity
          /\ workers[w].pc = "publish" => app_rings[w].head < (t + 1) + RingCapacity
      <3>1. /\ app_rings[w].head <= t + RingCapacity
            /\ workers[w].pc = "publish" => app_rings[w].head < t + RingCapacity
        BY <1>4, <2>1, Zenon DEF RingOK
      <3> QED  BY <1>5, <2>1, <3>1
    <2> QED  BY <1>7, <1>12, <1>15, <2>1, <2>2, Zenon DEF RingOK, WFrame
  <1>26. AppOK'
    <2>1. PktsGrow /\ pkts' \in Seq(Arrivals) /\ pkts \in Seq(Arrivals)
      BY <1>1, <1>7, SameArrivals
    <2>2. \A q \in (t + 1) .. (e - 1) : q \in t .. (e - 1)
      OBVIOUS
    <2>3. \A u \in Workers : \A q \in app_rings'[u].tail .. (AppEnd(u)' - 1) :
            /\ q \in app_rings[u].tail .. (AppEnd(u) - 1)
            /\ app_rings'[u].slots[q % RingCapacity] = app_rings[u].slots[q % RingCapacity]
            /\ buffer'[APacket(u, q).idx] = buffer[APacket(u, q).idx]
      BY <1>4, <1>6, <1>10, <1>12, <1>16, <1>17, <1>23, <2>2, Zenon
    <2> QED  BY <1>1, <2>1, <2>3, AppKept, Zenon
  <1>27. \A i : InHand(r, i)' <=> i = x
    BY <1>8, <1>11, <1>20, Zenon DEF InHand, Holding
  <1>28. /\ \A i : ~InHand(r, i)
         /\ \A q \in Receivers \ {r} : \A i : ~InHand(q, i) /\ ~InHand(q, i)'
    BY <1>2, <1>13, Zenon DEF InHand, Holding
  <1>29. \A u \in Workers \ {w} : \A i : OnPath(u, i)' <=> OnPath(u, i)
    BY <1>23, SamePathOn
  <1>30. \A i : InRefs(i)' <=> InRefs(i)
    BY <1>7, SMTT(30) DEF InRefs
  <1>31. Accounted'
    BY <1>1, <1>7, <1>21, <1>22, <1>27, <1>28, <1>29, <1>30, SMTT(30) DEF Accounted
  <1>32. Ordered'
    <2>1. \A u \in Workers : \A k, l \in 1 .. PathLen(u)' : k < l => buffer'[PathAt(u, k)'] < buffer'[PathAt(u, l)']
      <3> SUFFICES ASSUME NEW u \in Workers, NEW k \in 1 .. PathLen(u)', NEW l \in 1 .. PathLen(u)', k < l
                   PROVE  buffer'[PathAt(u, k)'] < buffer'[PathAt(u, l)']
        BY Zenon
      <3>1. CASE u = w
        BY <1>21, <3>1, Zenon
      <3>2. CASE u # w
        <4>1. SamePath(u)
          BY <1>23, <3>2, Zenon
        <4>2. /\ k \in 1 .. PathLen(u) /\ l \in 1 .. PathLen(u)
              /\ PathAt(u, k)' = PathAt(u, k) /\ PathAt(u, l)' = PathAt(u, l)
          BY <4>1, Zenon DEF SamePath
        <4> QED  BY <1>1, <1>6, <4>2, Zenon DEF Ordered
      <3> QED  BY <3>1, <3>2
    <2>2. \A u \in Workers : \A i, j : OnPath(u, i)' /\ InRefs(j)' => buffer'[i] < buffer'[j]
      BY <1>1, <1>6, <1>21, <1>29, <1>30, Zenon DEF Ordered
    <2> QED  BY <1>1, <1>6, <1>7, <2>1, <2>2, Zenon DEF Ordered
  <1>33. /\ \A h, s : Genuine(h, s)' <=> Genuine(h, s)
         /\ \A h : (IsReturned(h)' <=> IsReturned(h)) /\ (IsQueued(h)' <=> IsQueued(h))
    BY <1>6, <1>7 DEF Genuine, IsReturned, IsQueued
  <1>34. Genuine(p.hdr, p.src) /\ buffer[x] = p.hdr /\ ~IsReturned(p.hdr) /\ ~IsQueued(p.hdr)
    <2>1. Genuine(p.hdr, p.src) /\ buffer[x] = p.hdr
      BY <1>4, <1>5, <1>20 DEF AppItemOK
    <2> QED  BY <1>1, <1>22, <2>1, Zenon DEF HistoryOK
  <1>35. ReceiversOK'
    <2>1. RecvOK(r)'
      <3>1. rx_lock' = r
        BY <1>1, <1>2, <1>6, ZenonT(30) DEF ReceiversOK, RecvOK
      <3> QED  BY <1>6, <1>8, <1>11, <1>20, <1>33, <1>34, <3>1, Zenon DEF RecvOK
    <2>2. \A q \in Receivers \ {r} : RecvOK(q)'
      BY <1>13 DEF RecvOK, HasPacket, Holding
    <2> QED  BY <2>1, <2>2 DEF ReceiversOK
  <1>36. HistoryOK'
    <2>1. RecvFresh(r)'
      BY <1>8, <1>11, <1>33, <1>34, ZenonT(30) DEF RecvFresh
    <2>2. \A q \in Receivers \ {r} : RecvFresh(q)'
      BY <1>13 DEF RecvFresh, HasPacket
    <2>3. MessagesOK'
      BY <1>1, <1>6, <1>33, Zenon DEF HistoryOK, MessagesOK
    <2> QED  BY <1>1, <1>6, <1>7, <1>33, <2>1, <2>2, <2>3, Zenon DEF HistoryOK
  <1>37. RingsOK'
    BY <1>24, <1>25 DEF RingsOK
  <1> QED  BY <1>14, <1>26, <1>31, <1>32, <1>35, <1>36, <1>37, Zenon DEF PipeInv

-----------------------------------------------------------------------------
(* The whole pipeline.                                                     *)

(* Setting the flag and waiting for the threads moves no frame, and        *)
(* neither does a step of something else.                                  *)
LEMMA StillInv ==
  ASSUME PipeInv,
         UNCHANGED <<poolVars, pkts, buffer, rx, worker_rings, app_rings, workers, rx_lock, rr_index, queue,
                     receivers, returned, drops>>
  PROVE  PipeInv'
  <1>1. /\ pkts' = pkts /\ buffer' = buffer /\ rx' = rx /\ worker_rings' = worker_rings /\ app_rings' = app_rings
        /\ workers' = workers /\ rx_lock' = rx_lock /\ rr_index' = rr_index /\ queue' = queue
        /\ receivers' = receivers /\ returned' = returned /\ drops' = drops /\ inuse' = inuse /\ alloc' = alloc
        /\ UNCHANGED poolVars
    BY DEF poolVars
  <1>2. PoolInv'
    BY <1>1, PoolKept, Zenon DEF PipeInv
  <1>3. PipeTypeOK' /\ RxOK' /\ RingsNeverReject'
    BY <1>1, SMTT(30) DEF PipeInv, PipeTypeOK, RxOK, RingsNeverReject
  <1>4. pkts' \in Seq(Arrivals) /\ pkts \in Seq(Arrivals) /\ PktsGrow
    BY <1>1, SameArrivals DEF PipeInv, PipeTypeOK
  <1>5. \A w \in Workers : Publishing(w)' <=> Publishing(w)
    BY <1>1 DEF Publishing
  <1>6. \A w \in Workers : SamePath(w) /\ AppEnd(w)' = AppEnd(w)
    BY <1>1, <1>5, PathFrame, Zenon
  <1>7. RingsOK'
    BY <1>1, <1>5, RingFrame, SMTT(30) DEF PipeInv, RingsOK
  <1>8. SameOwners
    BY <1>1, <1>6, Zenon DEF SameOwners, SameHand, Holding
  <1>9. Accounted' /\ Ordered'
    BY <1>1, <1>4, <1>8, SameOwnersAccounted, SameOwnersOrdered, Zenon DEF PipeInv
  <1>10. AppOK'
    BY <1>1, <1>4, <1>6, AppKept, Zenon DEF PipeInv
  <1>11. /\ \A r \in Receivers : (Holding(r)' <=> Holding(r)) /\ (HasPacket(r)' <=> HasPacket(r))
         /\ \A h : (IsReturned(h)' <=> IsReturned(h)) /\ (IsQueued(h)' <=> IsQueued(h))
         /\ \A h, t : Genuine(h, t)' <=> Genuine(h, t)
    BY <1>1 DEF Holding, HasPacket, IsReturned, IsQueued, Genuine
  <1>12. ReceiversOK'
    BY <1>1, <1>11, Zenon DEF PipeInv, ReceiversOK, RecvOK
  <1>13. MessagesOK'
    BY <1>1, <1>11, Zenon DEF PipeInv, HistoryOK, MessagesOK
  <1>14. HistoryOK'
    BY <1>1, <1>11, <1>13, Zenon DEF PipeInv, HistoryOK, RecvFresh
  <1> QED  BY <1>2, <1>3, <1>7, <1>9, <1>10, <1>12, <1>14, Zenon DEF PipeInv

(* Nothing has arrived and no frame is out when the pipeline starts.       *)
LEMMA PipeInitInv == Init => PipeInv
  <1> SUFFICES ASSUME Init PROVE PipeInv
    BY SMTT(30)
  <1>1. PoolInv /\ inuse = {} /\ alloc.pc = "idle"
    BY PoolInitInv DEF Init, PoolInit, NewPool, NotAllocating
  <1>2. /\ pkts = << >> /\ buffer = [i \in Idx |-> 0] /\ queue = << >> /\ returned = << >> /\ rx_lock = Nobody
        /\ rr_index = 0
        /\ rx = [pc |-> "top", todo |-> 0, refs |-> << >>, rr |-> 0, ring |-> 0]
        /\ drops = [ring_full |-> 0, app_ring |-> 0, parse_fail |-> 0, buffer_full |-> 0]
    BY DEF Init
  <1>3. /\ \A w \in Workers : worker_rings[w] = NewRing /\ app_rings[w] = NewRing /\ workers[w] = WorkerIdle
        /\ \A r \in Receivers : receivers[r] = ReceiverIdle
    BY DEF Init
  <1>4. rx.pc = "top" /\ rx.refs = << >> /\ rx.todo = 0 /\ Len(pkts) = 0
    BY <1>2
  <1>5. NewRing.head = 0 /\ NewRing.tail = 0 /\ WorkerIdle.pc = "top" /\ WorkerIdle.batch = << >> /\ ReceiverIdle.pc = "idle"
    BY SMTT(30) DEF NewRing, WorkerIdle, ReceiverIdle
  <1>6. PipeTypeOK
    <2>1. \A S : << >> \in Seq(S)
      BY SMTT(30)
    <2>2. /\ \A S : NewRing \in RingOf(S)
          /\ WorkerIdle \in WorkerRegs /\ ReceiverIdle \in RecvRegs /\ rx \in RxRegs /\ drops \in Counters
      BY <1>2, <2>1, SMTT(30) DEF NewRing, RingOf, WorkerIdle, WorkerRegs, ReceiverIdle, RecvRegs, RxRegs, Counters, None
    <2>3. /\ worker_rings \in [Workers -> RingOf(Idx)] /\ app_rings \in [Workers -> RingOf(AppPackets)]
          /\ workers \in [Workers -> WorkerRegs] /\ receivers \in [Receivers -> RecvRegs]
      BY <2>2 DEF Init
    <2>4. /\ Len(queue) <= QueueMax /\ rr_index \in 0 .. NumWorkers /\ buffer \in [Idx -> Nat]
          /\ pkts \in Seq(Arrivals) /\ queue \in Seq(Messages) /\ returned \in Seq(Messages)
      BY <1>2, <2>1, PipelineAssumption, SMTT(30)
    <2> QED  BY <1>2, <2>2, <2>3, <2>4 DEF PipeTypeOK
  <1>7. RxOK
    BY <1>1, <1>2, <1>4, PipelineAssumption, SMTT(30) DEF RxOK
  <1>8. \A w \in Workers : ~Publishing(w) /\ AppEnd(w) = 0 /\ RingStart(w) = 0 /\ RingEnd(w) = 0
    BY <1>3, <1>4, <1>5, SMTT(30) DEF Publishing, AppEnd, RingStart, RingEnd
  <1>9. \A w \in Workers : PathLen(w) = 0
    BY <1>3, <1>5, <1>8, SMTT(30) DEF PathLen, BeforeRing, InApp
  <1>10. RingsOK
    BY <1>3, <1>5, <1>8, RingCapacityAssumption, SMTT(30) DEF RingsOK, RingOK
  <1>11. /\ \A i : ~InRefs(i) /\ \A w \in Workers : ~OnPath(w, i)
         /\ \A r \in Receivers : ~Holding(r) /\ ~HasPacket(r)
         /\ \A h : ~IsReturned(h) /\ ~IsQueued(h)
    <2>1. DOMAIN rx.refs = {} /\ DOMAIN returned = {} /\ DOMAIN queue = {}
      BY <1>2, <1>4
    <2>2. \A w \in Workers : 1 .. PathLen(w) = {}
      BY <1>9
    <2>3. \A r \in Receivers : receivers[r].pc = "idle"
      BY <1>3, <1>5, Zenon
    <2>4. \A r \in Receivers : ~Holding(r) /\ ~HasPacket(r)
      BY <2>3 DEF Holding, HasPacket
    <2> QED  BY <2>1, <2>2, <2>4, Zenon DEF InRefs, OnPath, IsReturned, IsQueued
  <1>12. Accounted
    BY <1>1, <1>11, Zenon DEF Accounted, InHand
  <1>13. Ordered
    <2>1. \A w \in Workers : 1 .. PathLen(w) = {}
      BY <1>9
    <2>2. DOMAIN rx.refs = {}
      BY <1>4, SMTT(30)
    <2> QED  BY <1>1, <1>11, <2>1, <2>2, Zenon DEF Ordered
  <1>14. AppOK
    BY <1>3, <1>5, <1>8, SMTT(30) DEF AppOK
  <1>15. ReceiversOK
    BY <1>3, <1>5, <1>11, Zenon DEF ReceiversOK, RecvOK
  <1>16. HistoryOK
    <2>1. DOMAIN returned = {} /\ DOMAIN queue = {}
      BY <1>2
    <2>2. MessagesOK
      BY <1>11, <2>1, Zenon DEF MessagesOK
    <2>3. \A r \in Receivers : RecvFresh(r)
      BY <1>1, <1>11, Zenon DEF RecvFresh
    <2> QED  BY <1>1, <2>2, <2>3, Zenon DEF HistoryOK
  <1>17. RingsNeverReject
    BY <1>2 DEF RingsNeverReject
  <1> QED  BY <1>1, <1>6, <1>7, <1>10, <1>12, <1>13, <1>14, <1>15, <1>16, <1>17, Zenon DEF PipeInv

(* Every step of every thread keeps the invariant.                         *)
LEMMA PipeStepInv == Counting /\ PipeInv /\ [Next]_vars => PipeInv'
  <1> SUFFICES ASSUME Counting, PipeInv, [Next]_vars PROVE PipeInv'
    OBVIOUS
  <1>1. CASE Rx
    BY <1>1, RxExitInv, RxBurstInv, RxNoFrameInv, RxAllocStepInv, RxFillInv, RxBurstDoneInv, RxInlineInv,
       RxFreedInv, RxDispatchInv, RxPublishInv, Zenon DEF Rx
  <1>2. ASSUME NEW w \in Workers, Worker(w) PROVE PipeInv'
    BY <1>2, WorkerExitInv, WorkerDequeueInv, WorkerTailInv, WorkerBatchDoneInv, WorkerRejectInv,
       WorkerDeliverInv, WorkerPublishInv, WorkerFreedInv, Zenon DEF Worker
  <1>3. ASSUME NEW r \in Receivers, RecvCall(r) \/ RecvGivesUp(r) \/ Receive(r) PROVE PipeInv'
    BY <1>3, RecvCallInv, RecvGivesUpInv, RecvLockInv, RecvBufferedInv, RecvDequeueInv, RecvNextRingInv,
       RecvCopyInv, RecvFreeInv, RecvFreedInv, RecvFilterInv, Zenon DEF Receive
  <1>4. CASE Drop
    BY <1>4, StillInv DEF Drop
  <1>5. CASE UNCHANGED vars
    BY <1>5, StillInv DEF vars, pipeVars
  <1> QED  BY <1>1, <1>2, <1>3, <1>4, <1>5 DEF Next

-----------------------------------------------------------------------------
(* The properties.  A path written as a sequence is the path by position.  *)

PathPrefix(w, s) == s \in Seq(Idx) /\ \A k \in 1 .. Len(s) : s[k] = PathAt(w, k)

(* One part after another.                                                 *)
LEMMA PrefixGrows ==
  ASSUME NEW w \in Workers, NEW s, PathPrefix(w, s), NEW t \in Seq(Idx),
         \A j \in 1 .. Len(t) : t[j] = PathAt(w, Len(s) + j)
  PROVE  PathPrefix(w, s \o t) /\ Len(s \o t) = Len(s) + Len(t)
  <1>1. s \in Seq(Idx) /\ Len(s) \in Nat /\ Len(t) \in Nat
    BY DEF PathPrefix
  <1>2. s \o t \in Seq(Idx) /\ Len(s \o t) = Len(s) + Len(t)
    BY <1>1
  <1>3. ASSUME NEW k \in 1 .. Len(s \o t) PROVE (s \o t)[k] = PathAt(w, k)
    <2>1. CASE k <= Len(s)
      <3>1. (s \o t)[k] = s[k] /\ k \in 1 .. Len(s)
        BY <1>1, <1>2, <2>1
      <3> QED  BY <3>1 DEF PathPrefix
    <2>2. CASE ~(k <= Len(s))
      <3>1. (s \o t)[k] = t[k - Len(s)] /\ k - Len(s) \in 1 .. Len(t) /\ Len(s) + (k - Len(s)) = k
        BY <1>1, <1>2, <2>2
      <3> QED  BY <3>1
    <2> QED  BY <2>1, <2>2
  <1> QED  BY <1>2, <1>3 DEF PathPrefix

(* One frame, or nothing, is added to a path.                              *)
LEMMA PrefixGrowsByOne ==
  ASSUME NEW w \in Workers, NEW s, PathPrefix(w, s), NEW x \in Idx, x = PathAt(w, Len(s) + 1)
  PROVE  PathPrefix(w, s \o <<x>>) /\ Len(s \o <<x>>) = Len(s) + 1
  <1>1. <<x>> \in Seq(Idx) /\ Len(<<x>>) = 1
    OBVIOUS
  <1>2. \A j \in 1 .. Len(<<x>>) : <<x>>[j] = PathAt(w, Len(s) + j)
    <2>1. <<x>>[1] = x /\ \A j \in 1 .. Len(<<x>>) : j = 1
      BY <1>1
    <2> QED  BY <2>1
  <1>3. PathPrefix(w, s \o <<x>>) /\ Len(s \o <<x>>) = Len(s) + Len(<<x>>)
    BY <1>1, <1>2, PrefixGrows, Zenon
  <1> QED  BY <1>1, <1>3

(* Nothing is added.                                                       *)
LEMMA PrefixStays ==
  ASSUME NEW w \in Workers, NEW s, PathPrefix(w, s)
  PROVE  PathPrefix(w, s \o << >>) /\ Len(s \o << >>) = Len(s)
  <1>1. s \o << >> = s
    BY DEF PathPrefix
  <1> QED  BY <1>1

(* The frames in a worker's app ring come first, published or not.         *)
LEMMA AppPrefix ==
  ASSUME PipeInv, NEW w \in Workers
  PROVE  LET s == Frames(RingItems(app_rings[w]))
                  \o (IF workers[w].pc = "publish"
                      THEN <<ReadSlot(app_rings[w], Available(app_rings[w])).idx>> ELSE << >>)
         IN  PathPrefix(w, s) /\ Len(s) = InApp(w)
  <1>1. PipeTypeOK /\ RingsOK /\ Accounted /\ PoolTypeOK
    BY DEF PipeInv, PoolInv
  <1>2. PICK h \in Nat, t \in Nat, a \in Nat : h = app_rings[w].head /\ t = app_rings[w].tail /\ a = InApp(w)
    BY <1>1, PathTypes, Zenon
  <1>3. /\ t <= h /\ a = (IF workers[w].pc = "publish" THEN h + 1 ELSE h) - t
        /\ a <= PathLen(w) /\ PathLen(w) \in Nat
    <2>1. t <= h
      BY <1>1, <1>2, Zenon DEF RingsOK, RingOK
    <2>2. a = (IF workers[w].pc = "publish" THEN h + 1 ELSE h) - t
      BY <1>2 DEF InApp, AppEnd
    <2>3. InApp(w) <= BeforeRing(w) /\ BeforeRing(w) <= PathLen(w) /\ PathLen(w) \in Nat /\ BeforeRing(w) \in Nat
      BY <1>1, PathTypes, Zenon
    <2> QED  BY <1>2, <2>1, <2>2, <2>3
  <1>4. \A k \in 1 .. a : PathAt(w, k) = APacket(w, t + (k - 1)).idx /\ PathAt(w, k) \in Idx
    <2>1. \A k \in 1 .. a : PathAt(w, k) = APacket(w, t + (k - 1)).idx
      BY <1>2, SMTT(30) DEF PathAt
    <2>2. \A k \in 1 .. a : k \in 1 .. PathLen(w)
      BY <1>3
    <2>3. \A k \in 1 .. a : PathAt(w, k) \in inuse
      BY <1>1, <2>2, OwnedInUse
    <2> QED  BY <1>1, <2>1, <2>3, Zenon DEF PoolTypeOK
  <1> DEFINE items == Frames(RingItems(app_rings[w]))
             x == ReadSlot(app_rings[w], Available(app_rings[w])).idx
             pub == workers[w].pc = "publish"
  <1>5. items = [k \in 1 .. (h - t) |-> APacket(w, t + (k - 1)).idx]
    <2>1. RingItems(app_rings[w]) = [k \in 1 .. (h - t) |-> APacket(w, t + (k - 1))]
      BY <1>2 DEF RingItems, ReadBatch, Available, ReadSlot, APacket
    <2> QED  BY <2>1 DEF Frames
  <1>6. items \in Seq(Idx) /\ Len(items) = h - t /\ \A k \in 1 .. (h - t) : items[k] = PathAt(w, k)
    <2>1. \A k \in 1 .. (h - t) : k \in 1 .. a
      BY <1>3
    <2>2. \A k \in 1 .. (h - t) : APacket(w, t + (k - 1)).idx \in Idx
      BY <1>4, <2>1, Zenon
    <2>3. h - t \in Nat
      BY <1>3
    <2>4. items \in Seq(Idx) /\ Len(items) = h - t
      BY <1>5, <2>2, <2>3
    <2>5. \A k \in 1 .. (h - t) : items[k] = APacket(w, t + (k - 1)).idx
      BY <1>5
    <2> QED  BY <1>4, <2>1, <2>4, <2>5, Zenon
  <1>7. PathPrefix(w, items)
    BY <1>6 DEF PathPrefix
  <1>8. pub => x \in Idx /\ x = PathAt(w, (h - t) + 1)
    <2> SUFFICES ASSUME pub PROVE x \in Idx /\ x = PathAt(w, (h - t) + 1)
      OBVIOUS
    <2>1. (h - t) + 1 \in 1 .. a /\ ((h - t) + 1) - 1 = h - t
      BY <1>3
    <2>2. x = APacket(w, t + (h - t)).idx
      BY <1>2 DEF Available, ReadSlot, APacket
    <2> QED  BY <1>4, <2>1, <2>2, Zenon
  <1> HIDE DEF items, x
  <1>9. pub => x \in Idx /\ x = PathAt(w, Len(items) + 1)
    BY <1>6, <1>8, Zenon
  <1> DEFINE s == items \o (IF pub THEN <<x>> ELSE << >>)
  <1>10. PathPrefix(w, s) /\ Len(s) = a
    <2>1. CASE pub
      <3>1. PathPrefix(w, items \o <<x>>) /\ Len(items \o <<x>>) = Len(items) + 1
        BY <1>7, <1>9, <2>1, PrefixGrowsByOne, Zenon
      <3>2. Len(items) + 1 = a
        BY <1>3, <1>6, <2>1, SMTT(30)
      <3>3. s = items \o <<x>>
        BY <2>1
      <3> QED  BY <3>1, <3>2, <3>3, Zenon
    <2>2. CASE ~pub
      <3>1. PathPrefix(w, items \o << >>) /\ Len(items \o << >>) = Len(items)
        BY <1>7, PrefixStays, Zenon
      <3>2. Len(items) = a
        BY <1>3, <1>6, <2>2, SMTT(30)
      <3>3. s = items \o << >>
        BY <2>2
      <3> QED  BY <3>1, <3>2, <3>3, Zenon
    <2> QED  BY <2>1, <2>2
  <1> QED  BY <1>2, <1>10, Zenon DEF items, x

(* The batch of the worker follows, then its ring behind the batch.        *)
LEMMA PathIsPath ==
  ASSUME PipeInv, NEW w \in Workers
  PROVE  PathPrefix(w, Path(w)) /\ Len(Path(w)) = PathLen(w)
  <1>1. PipeTypeOK /\ RingsOK /\ Accounted /\ PoolTypeOK
    BY DEF PipeInv, PoolInv
  <1> DEFINE app == Frames(RingItems(app_rings[w]))
                    \o (IF workers[w].pc = "publish"
                        THEN <<ReadSlot(app_rings[w], Available(app_rings[w])).idx>> ELSE << >>)
             batch == workers[w].batch
             items == RingItems(worker_rings[w])
             whole == IF workers[w].pc = "tail" THEN << >> ELSE items
             rest == IF workers[w].pc = "tail" THEN SubSeq(items, Len(batch) + 1, Available(worker_rings[w])) ELSE << >>
             last == IF rx.pc = "publish" /\ rx.ring = w
                     THEN <<ReadSlot(worker_rings[w], Available(worker_rings[w]))>> ELSE << >>
  <1>2. Path(w) = ((((app \o batch) \o whole) \o rest) \o last)
    BY DEF Path
  <1>3. PathPrefix(w, app) /\ Len(app) = InApp(w)
    BY AppPrefix
  <1>4. PICK h \in Nat, t \in Nat, a \in Nat, b \in Nat, c \in Nat, n \in Nat :
          /\ h = worker_rings[w].head /\ t = worker_rings[w].tail /\ a = InApp(w) /\ b = BeforeRing(w)
          /\ c = Len(batch) /\ n = PathLen(w) /\ batch \in Seq(Idx)
    BY <1>1, PathTypes, Zenon
  <1>5. PICK u \in Nat : u = RingStart(w) /\ u = IF workers[w].pc = "tail" THEN t + c ELSE t
    <2>1. RingStart(w) \in Nat
      BY <1>1, PathTypes, Zenon
    <2> QED  BY <1>4, <2>1 DEF RingStart
  <1>6. b = a + c /\ u <= h /\ t <= h /\ n = b + ((IF Publishing(w) THEN h + 1 ELSE h) - u)
    <2>1. BeforeRing(w) = InApp(w) + Len(batch) /\ PathLen(w) = BeforeRing(w) + (RingEnd(w) - RingStart(w))
      BY <1>1, PathTypes, Zenon
    <2>2. t <= h /\ u <= h
      BY <1>1, <1>4, <1>5, Zenon DEF RingsOK, RingOK
    <2>3. RingEnd(w) = IF Publishing(w) THEN h + 1 ELSE h
      BY <1>4, Zenon DEF RingEnd
    <2> QED  BY <1>4, <1>5, <2>1, <2>2, <2>3, Zenon
  <1>7. \A k \in 1 .. n : PathAt(w, k) \in Idx
    BY <1>1, <1>4, OwnedInUse, Zenon DEF PoolTypeOK
  <1> HIDE DEF app
  <1>8. PathPrefix(w, app \o batch) /\ Len(app \o batch) = b
    <2>1. \A j \in 1 .. c : batch[j] = PathAt(w, a + j)
      <3> SUFFICES ASSUME NEW j \in 1 .. c PROVE batch[j] = PathAt(w, a + j)
        OBVIOUS
      <3>1. ~(a + j <= a) /\ a + j <= b /\ (a + j) - a = j
        BY <1>6
      <3> QED  BY <1>4, <3>1, Zenon DEF PathAt
    <2>2. PathPrefix(w, app \o batch) /\ Len(app \o batch) = Len(app) + Len(batch)
      <3>1. \A j \in 1 .. Len(batch) : batch[j] = PathAt(w, Len(app) + j)
        BY <1>3, <1>4, <2>1, Zenon
      <3> QED  BY <1>3, <1>4, <3>1, PrefixGrows, Zenon
    <2> QED  BY <1>3, <1>4, <1>6, <2>2, Zenon
  <1>9. \A q \in Nat, j \in Nat \ {0} : q = b + j => PathAt(w, q) = WFrame(w, u + (j - 1))
    <2> SUFFICES ASSUME NEW q \in Nat, NEW j \in Nat \ {0}, q = b + j PROVE PathAt(w, q) = WFrame(w, u + (j - 1))
      OBVIOUS
    <2>1. ~(q <= a) /\ ~(q <= b) /\ q - b - 1 = j - 1
      BY <1>6, SMTT(30)
    <2> QED  BY <1>4, <1>5, <2>1 DEF PathAt
  <1>10. items = [k \in 1 .. (h - t) |-> WFrame(w, t + (k - 1))]
    BY <1>4 DEF RingItems, ReadBatch, Available, ReadSlot, WFrame
  <1>11. Available(worker_rings[w]) = h - t
    BY <1>4 DEF Available
  <1> DEFINE ahead == (app \o batch) \o whole \o rest
  <1>12. PathPrefix(w, ahead) /\ Len(ahead) = b + (h - u)
    <2>1. \A j \in 1 .. (h - u) : WFrame(w, u + (j - 1)) = PathAt(w, b + j) /\ WFrame(w, u + (j - 1)) \in Idx
      <3> SUFFICES ASSUME NEW j \in 1 .. (h - u)
                   PROVE  WFrame(w, u + (j - 1)) = PathAt(w, b + j) /\ WFrame(w, u + (j - 1)) \in Idx
        OBVIOUS
      <3>1. b + j \in 1 .. n /\ b + j \in Nat /\ j \in Nat \ {0}
        BY <1>6
      <3> QED  BY <1>7, <1>9, <3>1
    <2>2. h - u \in Nat
      BY <1>6
    <2> DEFINE ring == [j \in 1 .. (h - u) |-> WFrame(w, u + (j - 1))]
    <2>3. ring \in Seq(Idx) /\ Len(ring) = h - u /\ \A j \in 1 .. (h - u) : ring[j] = PathAt(w, b + j)
      <3>1. \A j \in 1 .. (h - u) : ring[j] = WFrame(w, u + (j - 1))
        OBVIOUS
      <3>2. \A j \in 1 .. (h - u) : WFrame(w, u + (j - 1)) \in Idx
        BY <2>1, Zenon
      <3>3. ring \in Seq(Idx) /\ Len(ring) = h - u
        BY <2>2, <3>2
      <3> QED  BY <2>1, <3>1, <3>3, Zenon
    <2> HIDE DEF ring
    <2>4. PathPrefix(w, (app \o batch) \o ring) /\ Len((app \o batch) \o ring) = b + (h - u)
      <3>1. \A j \in 1 .. Len(ring) : ring[j] = PathAt(w, Len(app \o batch) + j)
        BY <1>8, <2>3
      <3>2. PathPrefix(w, (app \o batch) \o ring) /\ Len((app \o batch) \o ring) = Len(app \o batch) + Len(ring)
        BY <1>8, <2>3, <3>1, PrefixGrows, Zenon
      <3> QED  BY <1>8, <2>3, <3>2, Zenon
    <2>5. ahead = (app \o batch) \o ring
      <3>0. app \o batch \in Seq(Idx)
        BY <1>8 DEF PathPrefix
      <3>1. CASE workers[w].pc = "tail"
        <4>1. whole = << >> /\ rest = SubSeq(items, c + 1, h - t) /\ u = t + c
          BY <1>4, <1>5, <1>11, <3>1, SMTT(30)
        <4>2. SubSeq(items, c + 1, h - t) = [j \in 1 .. ((h - t) - (c + 1) + 1) |-> items[(c + 1) + j - 1]]
          BY SMT DEF SubSeq
        <4>3. (h - t) - (c + 1) + 1 = h - u
          BY <4>1
        <4>4. \A j \in 1 .. (h - u) : items[(c + 1) + j - 1] = WFrame(w, u + (j - 1))
          <5> SUFFICES ASSUME NEW j \in 1 .. (h - u) PROVE items[(c + 1) + j - 1] = WFrame(w, u + (j - 1))
            OBVIOUS
          <5>1. (c + 1) + j - 1 \in 1 .. (h - t) /\ t + (((c + 1) + j - 1) - 1) = u + (j - 1)
            BY <4>1
          <5> QED  BY <1>10, <5>1
        <4>5. rest = ring
          BY <4>1, <4>2, <4>3, <4>4, Zenon DEF ring
        <4>6. (app \o batch) \o << >> = app \o batch
          BY <3>0
        <4> QED  BY <4>1, <4>5, <4>6, Zenon
      <3>2. CASE workers[w].pc # "tail"
        <4>1. whole = items /\ rest = << >> /\ u = t
          BY <1>5, <3>2, SMTT(30)
        <4>2. items = ring
          BY <1>10, <4>1 DEF ring
        <4>3. ((app \o batch) \o ring) \in Seq(Idx)
          BY <2>4 DEF PathPrefix
        <4>4. ((app \o batch) \o ring) \o << >> = (app \o batch) \o ring
          BY <4>3
        <4> QED  BY <4>1, <4>2, <4>4, Zenon
      <3> QED  BY <3>1, <3>2, Zenon
    <2> QED  BY <2>4, <2>5, Zenon
  <1>13. PathPrefix(w, ahead \o last) /\ Len(ahead \o last) = n
    <2>1. CASE Publishing(w)
      <3> DEFINE x == ReadSlot(worker_rings[w], Available(worker_rings[w]))
      <3>1. last = <<x>>
        BY <2>1 DEF Publishing
      <3>2. PICK j \in Nat \ {0} : j = (h - u) + 1 /\ j - 1 = h - u /\ b + j = b + (h - u) + 1 /\ b + j \in 1 .. n /\ b + j = n
        BY <1>6, <2>1
      <3>3. x = WFrame(w, u + (j - 1))
        <4>1. t + (h - t) = h /\ u + (j - 1) = h
          BY <1>6, <3>2
        <4> QED  BY <1>4, <1>11, <4>1, Zenon DEF ReadSlot, WFrame
      <3>4. x = PathAt(w, b + j) /\ x \in Idx
        BY <1>7, <1>9, <3>2, <3>3, Zenon
      <3> HIDE DEF x, ahead, last
      <3>5. x = PathAt(w, Len(ahead) + 1)
        BY <1>12, <3>2, <3>4
      <3>6. PathPrefix(w, ahead \o <<x>>) /\ Len(ahead \o <<x>>) = Len(ahead) + 1
        BY <1>12, <3>4, <3>5, PrefixGrowsByOne, Zenon
      <3> QED  BY <1>12, <3>1, <3>2, <3>6, Zenon
    <2>2. CASE ~Publishing(w)
      <3>1. last = << >> /\ b + (h - u) = n
        BY <1>6, <2>2, Zenon DEF Publishing
      <3> HIDE DEF ahead, last
      <3> QED  BY <1>12, <3>1, PrefixStays
    <2> QED  BY <2>1, <2>2, Zenon
  <1> QED  BY <1>2, <1>4, <1>13, Zenon

(* The counters stay within their bounds.                                  *)
LEMMA InvTyped == PipeInv => TypeOK
  <1> SUFFICES ASSUME PipeInv PROVE TypeOK
    OBVIOUS
  <1>1. PoolTypeOK /\ PipeTypeOK /\ RxOK /\ RingsOK
    BY DEF PipeInv, PoolInv
  <1>2. Len(pkts) \in Nat /\ rx.todo \in Nat /\ rx.pc \in {"top", "recv", "free", "publish", "exit"}
    BY <1>1 DEF PipeTypeOK, RxRegs
  <1>3. Len(pkts) <= MaxPackets
    BY <1>1, <1>2, PipelineAssumption DEF RxOK
  <1>4. buffer \in [Idx -> 0 .. MaxPackets]
    <2>1. buffer \in [Idx -> Nat] /\ \A i \in Idx : buffer[i] <= Len(pkts)
      BY <1>1 DEF PipeTypeOK, RxOK
    <2>2. \A i \in Idx : buffer[i] \in 0 .. MaxPackets
      BY <1>2, <1>3, <2>1, PipelineAssumption, SMTT(30)
    <2> QED  BY <2>1, <2>2
  <1>5. ASSUME NEW w \in Workers
        PROVE  Available(worker_rings[w]) \in 0 .. RingCapacity /\ Available(app_rings[w]) \in 0 .. RingCapacity
    <2>1. /\ worker_rings[w].head \in Nat /\ worker_rings[w].tail \in Nat
          /\ app_rings[w].head \in Nat /\ app_rings[w].tail \in Nat
      BY <1>1, PathTypes, Zenon
    <2>2. /\ worker_rings[w].tail <= worker_rings[w].head /\ worker_rings[w].head <= worker_rings[w].tail + RingCapacity
          /\ app_rings[w].tail <= app_rings[w].head /\ app_rings[w].head <= app_rings[w].tail + RingCapacity
      BY <1>1, Zenon DEF RingsOK, RingOK
    <2> QED  BY <2>1, <2>2, RingCapacityAssumption DEF Available
  <1>6. rx_lock \in Receivers \cup {Nobody} /\ rr_index \in 0 .. NumWorkers /\ Len(queue) <= QueueMax
    BY <1>1 DEF PipeTypeOK
  <1> QED  BY <1>1, <1>2, <1>3, <1>4, <1>5, <1>6, Zenon DEF TypeOK

(* A path is in the order of arrival.                                      *)
LEMMA InvInOrder == PipeInv => PathInOrder
  <1> SUFFICES ASSUME PipeInv, NEW w \in Workers
               PROVE  \A i, j \in DOMAIN Path(w) : i < j => buffer[Path(w)[i]] < buffer[Path(w)[j]]
    BY DEF PathInOrder
  <1>1. /\ Path(w) \in Seq(Idx) /\ \A k \in 1 .. Len(Path(w)) : Path(w)[k] = PathAt(w, k)
        /\ Len(Path(w)) = PathLen(w)
    BY PathIsPath, Zenon DEF PathPrefix
  <1>2. DOMAIN Path(w) = 1 .. PathLen(w)
    BY <1>1
  <1>3. \A k, l \in 1 .. PathLen(w) : k < l => buffer[PathAt(w, k)] < buffer[PathAt(w, l)]
    BY Zenon DEF PipeInv, Ordered
  <1> QED  BY <1>1, <1>2, <1>3, Zenon

-----------------------------------------------------------------------------
(* The library's facts about finite sets, for what is left: counting.      *)

\* What Cardinality computes. The prover takes the Cardinality of the library's theorems
\* for another operator than the one of UdpPipeline: both are this one.
Count(S) ==
  LET CS[T \in SUBSET S] == IF T = {} THEN 0 ELSE 1 + CS[T \ {CHOOSE x : x \in T}]
  IN  CS[S]

(* The Cardinality in UdpPipeline's invariants.                            *)
LEMMA SizeIsCount == \A S : Cardinality(S) = Count(S)
  BY DEF Cardinality, Count

LOCAL INSTANCE FiniteSetTheorems

(* The Cardinality in the library's theorems.                              *)
LEMMA CardinalityIsCount == \A S : Cardinality(S) = Count(S)
  BY DEF Cardinality, Count

(* The frame pool by itself.                                               *)

(* As many different frames as there are in the pool, and no more.         *)
LEMMA FramesFit == Counting
  <1> SUFFICES ASSUME NEW n \in Nat, NEW f \in [1 .. n -> Idx], \A k, l \in 1 .. n : f[k] = f[l] => k = l
               PROVE  n <= Capacity
    BY DEF Counting
  <1>1. f \in Injection(1 .. n, Idx)
    BY DEF Injection, IsInjective
  <1>2. IsFiniteSet(Idx) /\ Cardinality(Idx) = Capacity
    <2>1. 0 \in Int /\ Capacity - 1 \in Int /\ Capacity \in Nat \ {0}
      BY CapacityAssumption
    <2> QED  BY <2>1, FS_Interval DEF Idx
  <1>3. Cardinality(1 .. n) = n
    <2>1. Cardinality(1 .. n) = IF 1 > n THEN 0 ELSE n - 1 + 1
      BY FS_Interval
    <2> QED  BY <2>1
  <1>4. Cardinality(1 .. n) <= Cardinality(Idx)
    BY <1>1, <1>2, FS_Injection, Zenon
  <1> QED  BY <1>2, <1>3, <1>4, Zenon

(* Every step of the pool keeps its invariant.                             *)
LEMMA PoolStepInv == PoolInv /\ [PoolNext]_poolVars => PoolInv'
  BY FramesFit, PoolKept, AllocCheckInv, AllocSwapInv, AllocStoreInv, FreeClaimInv, FreeStoreInv, ZenonT(30) DEF PoolNext

(* So a pool is always in it.                                              *)
LEMMA PoolIsInv == PoolSpec => []PoolInv
  BY PoolInitInv, PoolStepInv, PTL, Zenon DEF PoolSpec

(* No frame is ever in two hands, for every capacity and any number of     *)
(* threads that return frames.                                             *)
THEOREM FramesAreExclusive == PoolSpec => []Exclusive
  BY PoolIsInv, PTL DEF PoolInv

(* alloc spins only on a slot that a free under way is about to fill.      *)
THEOREM PositionsAreServed == PoolSpec => []EveryPositionServed
  BY PoolIsInv, PTL, Zenon DEF PoolInv

(* A claimed position never meets the slot of another: the list holds at   *)
(* most as many positions as there are frames, in twice as many slots.     *)
THEOREM FreeListFits == PoolSpec => []NoOverrun
  <1>1. PoolInv => NoOverrun
    BY FramesFit, PigeonHole
  <1> QED  BY <1>1, PoolIsInv, PTL, Zenon
-----------------------------------------------------------------------------
(* The whole receive path.                                                 *)

(* A sequence without repetitions has as many elements as positions.       *)
LEMMA ElementsCounted ==
  ASSUME NEW S, NEW s \in Seq(S), \A i, j \in 1 .. Len(s) : s[i] = s[j] => i = j
  PROVE  Count(Elements(s)) = Len(s)
  <1>1. Len(s) \in Nat /\ DOMAIN s = 1 .. Len(s)
    OBVIOUS
  <1>2. s \in [1 .. Len(s) -> Elements(s)]
    BY <1>1 DEF Elements
  <1>3. s \in Bijection(1 .. Len(s), Elements(s))
    BY <1>1, <1>2, Zenon DEF Bijection, Injection, Surjection, IsInjective, Elements
  <1>4. ExistsBijection(1 .. Len(s), Elements(s))
    BY <1>3 DEF ExistsBijection
  <1>5. IsFiniteSet(1 .. Len(s)) /\ Cardinality(1 .. Len(s)) = IF 1 > Len(s) THEN 0 ELSE Len(s) - 1 + 1
    BY <1>1, FS_Interval
  <1>6. Cardinality(Elements(s)) = Cardinality(1 .. Len(s))
    BY <1>4, <1>5, FS_Bijection, Zenon
  <1>7. Cardinality(Elements(s)) = Len(s)
    BY <1>1, <1>5, <1>6, SMTT(30)
  <1> QED  BY <1>7, CardinalityIsCount, Zenon

(* Each frame in use is in one place, once.                                *)
LEMMA InvAccounted == PipeInv => FramesAccounted
  <1> SUFFICES ASSUME PipeInv PROVE FramesAccounted
    OBVIOUS
  <1>1. PipeTypeOK /\ RingsOK /\ Accounted /\ Ordered /\ PoolTypeOK
    BY DEF PipeInv, PoolInv
  <1>2. \A w \in Workers : Path(w) \in Seq(Idx) /\ \A k \in 1 .. Len(Path(w)) : Path(w)[k] = PathAt(w, k)
    BY PathIsPath, Zenon DEF PathPrefix
  <1>3. \A w \in Workers : Len(Path(w)) = PathLen(w) /\ PathLen(w) \in Nat
    BY <1>1, PathIsPath, PathTypes, Zenon
  <1>4. \A w \in Workers : \A i : i \in Elements(Path(w)) <=> OnPath(w, i)
    <2> SUFFICES ASSUME NEW w \in Workers, NEW i PROVE i \in Elements(Path(w)) <=> OnPath(w, i)
      OBVIOUS
    <2>1. DOMAIN Path(w) = 1 .. PathLen(w)
      BY <1>2, <1>3, SMTT(30)
    <2>2. \A k \in 1 .. PathLen(w) : Path(w)[k] = PathAt(w, k)
      BY <1>2, <1>3, SMTT(30)
    <2> QED  BY <2>1, <2>2, Zenon DEF Elements, OnPath
  <1>5. \A i : i \in Elements(rx.refs) <=> InRefs(i)
    BY DEF Elements, InRefs
  <1>6. \A r \in Receivers : \A i : i \in Held(r) <=> InHand(r, i)
    <2> SUFFICES ASSUME NEW r \in Receivers, NEW i PROVE i \in Held(r) <=> InHand(r, i)
      OBVIOUS
    <2>1. CASE Holding(r)
      BY <2>1 DEF Held, InHand, Holding
    <2>2. CASE ~Holding(r)
      BY <2>2 DEF Held, InHand, Holding
    <2> QED  BY <2>1, <2>2
  <1> DEFINE owners == {<<"rx", 0>>} \cup {<<"path", w>> : w \in Workers} \cup {<<"recv", r>> : r \in Receivers}
             of(o) == CASE o[1] = "rx" -> Elements(rx.refs)
                        [] o[1] = "path" -> Elements(Path(o[2]))
                        [] o[1] = "recv" -> Held(o[2])
  <1>7. /\ of(<<"rx", 0>>) = Elements(rx.refs)
        /\ \A w \in Workers : of(<<"path", w>>) = Elements(Path(w))
        /\ \A r \in Receivers : of(<<"recv", r>>) = Held(r)
    <2>1. of(<<"rx", 0>>) = Elements(rx.refs)
      OBVIOUS
    <2>2. ASSUME NEW w \in Workers PROVE of(<<"path", w>>) = Elements(Path(w))
      OBVIOUS
    <2>3. ASSUME NEW r \in Receivers PROVE of(<<"recv", r>>) = Held(r)
      OBVIOUS
    <2> HIDE DEF of
    <2> QED  BY <2>1, <2>2, <2>3, Zenon
  <1>8. ASSUME NEW o \in owners
        PROVE  \/ o = <<"rx", 0>>
               \/ \E w \in Workers : o = <<"path", w>>
               \/ \E r \in Receivers : o = <<"recv", r>>
    <2>1. o \in {<<"rx", 0>>} \/ o \in {<<"path", w>> : w \in Workers} \/ o \in {<<"recv", r>> : r \in Receivers}
      BY <1>8
    <2> HIDE DEF of, owners
    <2> QED  BY <2>1, SMTT(30)
  <1>9. /\ <<"rx", 0>> \in owners /\ \A w \in Workers : <<"path", w>> \in owners
        /\ \A r \in Receivers : <<"recv", r>> \in owners
    OBVIOUS
  <1> HIDE DEF of, owners
  <1>10. inuse = UNION {of(o) : o \in owners}
    <2>1. ASSUME NEW i \in inuse PROVE \E o \in owners : i \in of(o)
      <3>1. InRefs(i) \/ (\E w \in Workers : OnPath(w, i)) \/ (\E r \in Receivers : InHand(r, i))
        BY <1>1, <2>1, Zenon DEF Accounted
      <3> QED  BY <1>4, <1>5, <1>6, <1>7, <1>9, <3>1, ZenonT(30)
    <2>2. ASSUME NEW o \in owners, NEW i \in of(o) PROVE i \in inuse
      <3>1. InRefs(i) \/ (\E w \in Workers : OnPath(w, i)) \/ (\E r \in Receivers : InHand(r, i))
        BY <1>4, <1>5, <1>6, <1>7, <1>8, <2>2, ZenonT(30)
      <3> QED  BY <1>1, <3>1 DEF Accounted
    <2> QED  BY <2>1, <2>2, Zenon
  <1>11. ASSUME NEW o \in owners, NEW p \in owners, NEW i, i \in of(o), i \in of(p) PROVE o = p
    <2>1. \A v, w \in Workers : i \in Elements(Path(v)) /\ i \in Elements(Path(w)) => v = w
      BY <1>1, <1>4, Zenon DEF Accounted
    <2>2. \A w \in Workers : ~(i \in Elements(Path(w)) /\ i \in Elements(rx.refs))
      BY <1>1, <1>4, <1>5, Zenon DEF Accounted
    <2>3. \A r \in Receivers : ~(i \in Held(r) /\ i \in Elements(rx.refs))
      BY <1>1, <1>5, <1>6, Zenon DEF Accounted
    <2>4. \A r \in Receivers, w \in Workers : ~(i \in Held(r) /\ i \in Elements(Path(w)))
      BY <1>1, <1>4, <1>6, Zenon DEF Accounted
    <2>5. \A q, r \in Receivers : i \in Held(q) /\ i \in Held(r) => q = r
      <3>1. \A r \in Receivers : i \in Held(r) => rx_lock = r
        BY <1>6 DEF InHand, Holding, PipeInv, ReceiversOK, RecvOK
      <3> QED  BY <3>1, ZenonT(30)
    <2>6. CASE o = <<"rx", 0>>
      BY <1>7, <1>8, <1>11, <2>2, <2>3, <2>6, ZenonT(30)
    <2>7. ASSUME NEW w \in Workers, o = <<"path", w>> PROVE o = p
      <3>1. i \in Elements(Path(w))
        BY <1>7, <1>11, <2>7, Zenon
      <3>2. p # <<"rx", 0>> /\ ~\E r \in Receivers : p = <<"recv", r>>
        BY <1>7, <1>11, <2>2, <2>4, <3>1, ZenonT(30)
      <3>3. PICK v \in Workers : p = <<"path", v>>
        BY <1>8, <3>2, Zenon
      <3>4. v = w
        BY <1>7, <1>11, <2>1, <3>1, <3>3, ZenonT(30)
      <3> QED  BY <2>7, <3>3, <3>4, Zenon
    <2>8. ASSUME NEW r \in Receivers, o = <<"recv", r>> PROVE o = p
      <3>1. i \in Held(r)
        BY <1>7, <1>11, <2>8, Zenon
      <3>2. p # <<"rx", 0>> /\ ~\E w \in Workers : p = <<"path", w>>
        BY <1>7, <1>11, <2>3, <2>4, <3>1, ZenonT(30)
      <3>3. PICK q \in Receivers : p = <<"recv", q>>
        BY <1>8, <3>2, Zenon
      <3>4. q = r
        BY <1>7, <1>11, <2>5, <3>1, <3>3, ZenonT(30)
      <3> QED  BY <2>8, <3>3, <3>4, Zenon
    <2> QED  BY <1>8, <2>6, <2>7, <2>8, Zenon
  <1>12. Count(Elements(rx.refs)) = Len(rx.refs)
    <2>1. rx.refs \in Seq(Idx)
      BY <1>1, ZenonT(30) DEF PipeTypeOK, RxRegs
    <2>2. \A k \in 1 .. Len(rx.refs) : rx.refs[k] \in Idx /\ buffer[rx.refs[k]] \in Nat
      BY <1>1, <2>1, SMTT(30) DEF PipeTypeOK
    <2>3. \A k, l \in 1 .. Len(rx.refs) : k < l => buffer[rx.refs[k]] < buffer[rx.refs[l]]
      BY <1>1, <2>1, SMTT(30) DEF Ordered
    <2>4. \A k, l \in 1 .. Len(rx.refs) : rx.refs[k] = rx.refs[l] => k = l
      BY <2>1, <2>2, <2>3, SMTT(30)
    <2> QED  BY <2>1, <2>4, ElementsCounted, Zenon
  <1>13. \A w \in Workers : Count(Elements(Path(w))) = Len(Path(w))
    <2> SUFFICES ASSUME NEW w \in Workers PROVE Count(Elements(Path(w))) = Len(Path(w))
      OBVIOUS
    <2>1. \A k, l \in 1 .. PathLen(w) : PathAt(w, k) = PathAt(w, l) => k = l
      BY <1>1, <1>3, PathInjective, Zenon
    <2>2. \A k, l \in 1 .. Len(Path(w)) : Path(w)[k] = Path(w)[l] => k = l
      BY <1>2, <1>3, <2>1, SMTT(30)
    <2> QED  BY <1>2, <2>2, ElementsCounted, Zenon
  <1>14. \A o, p \in owners : o # p => of(o) \cap of(p) = {}
    BY <1>11, Zenon
  <1> QED  BY <1>10, <1>12, <1>13, <1>14, SizeIsCount, Zenon DEF FramesAccounted, owners, of

(* The inductive invariant of the multi-core receive path.                 *)
THEOREM PipelineInvariant == Spec => []PipeInv
  <1>1. PipeInv /\ [Next]_vars => PipeInv'
    BY FramesFit, PipeStepInv, Zenon
  <1> QED  BY <1>1, PipeInitInv, PTL, Zenon DEF Spec

(* For every number of workers and receivers, every size of the pool and   *)
(* of the rings, and every interleaving of rx_loop, the worker_loops and   *)
(* the recv_from calls: a frame is in one place, none is lost or freed     *)
(* twice, the free list never loses a position, and rings as large as the  *)
(* pool are never full.                                                    *)
THEOREM PipelineConserves == Spec => []FramesConserved
  <1>1. PipeInv => FramesConserved
    BY InvAccounted, InvTyped, ZenonT(30) DEF FramesConserved, PipeInv, PoolInv
  <1> QED  BY <1>1, PipelineInvariant, PTL

(* The packets of one worker stay in the order of their arrival until a    *)
(* receiver takes them, and recv_from returns each packet at most once,    *)
(* its payload with its own sender.                                        *)
THEOREM PipelineKeepsOrder == Spec => []ReceivedInOrder
  <1>1. PipeInv => ReturnedIsReceived
    BY DEF PipeInv, HistoryOK, MessagesOK, Genuine, ReturnedIsReceived
  <1>2. PipeInv => ReceivedInOrder
    BY <1>1, InvInOrder DEF ReceivedInOrder
  <1> QED  BY <1>2, PipelineInvariant, PTL
=============================================================================
