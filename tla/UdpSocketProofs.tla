-------------------------- MODULE UdpSocketProofs --------------------------
(***************************************************************************)
(* Proof that the locks of the UDP sockets are always taken in one order,  *)
(* for any number of sockets, threads and tasks, any calls and any frames; *)
(* and the inductive invariant of what a receive does with datagrams, with *)
(* lemmas that every step keeps it.                                        *)
(***************************************************************************)
EXTENDS AsyncUdp, TLAPS

\* The locks a thread holds at a step.  rx_state is held over a burst and while its
\* frames are handled, tx_state while a datagram is built and sent, and the queues
\* of the NIC only for a burst.
Holding(t, pc) ==
  {l \in Locks :
     \/ l = RxState(Sock(t)) /\ pc \in {"burst", "rx_burst", "frame", "learn_lo", "learn_mac", "learn_entry",
                                      "handle", "reply", "reply_burst"}
     \/ l = q_rx0 /\ pc = "rx_burst"
     \/ l = TxState(Sock(t)) /\ pc \in {"tx", "tx_burst", "sent"}
     \/ l = q_tx0 /\ pc \in {"reply_burst", "request_burst", "tx_burst"}}

\* The inductive invariant: a lock is held by exactly the thread whose step holds it.
Fields == {"pc", "call", "batch", "result", "target", "hi", "mac", "attempt", "poll"}
LockInv ==
  /\ DOMAIN th = DOMAIN Threads /\ DOMAIN holder = Locks
  /\ \A t \in DOMAIN Threads : DOMAIN th[t] = Fields
  /\ \A t \in DOMAIN Threads : \A l \in Locks : holder[l] = Some(t) <=> l \in Holding(t, th[t].pc)

\* What the threads are still to do is calls of the socket.
IsSeq(s) == \E S : s \in Seq(S)
CallInv ==
  /\ DOMAIN todo = DOMAIN Threads
  /\ \A t \in DOMAIN Threads : IsSeq(todo[t]) /\ \A i \in DOMAIN todo[t] : todo[t][i].op \in Calls
SocketInv == LockInv /\ CallInv

\* A step of thread t takes it to pc, and moves no other thread.
Moves(t, pc) ==
  /\ DOMAIN th' = DOMAIN Threads /\ DOMAIN th'[t] = Fields /\ th'[t].pc = pc
  /\ \A u \in DOMAIN Threads \ {t} : th'[u] = th[u]

\* LockOrder follows: every step wants a lock above the ones held at it.
LEMMA LockOrderHolds == LockInv => LockOrder
<1> SUFFICES ASSUME LockInv, NEW t \in DOMAIN Threads, NEW l \in Locks, Wants(t) # None, holder[l] = Some(t)
             PROVE Rank(l) < Rank(Wants(t)[1])
  BY DEF LockOrder
<1>1. l \in Holding(t, th[t].pc) BY DEF LockInv
<1> QED BY <1>1 DEF Holding, Wants, Rank, At, None, Some, RxState, TxState, q_rx0, q_tx0

-----------------------------------------------------------------------------
(* The three ways a step changes what a thread holds. *)

\* The step takes and releases nothing.
LEMMA KeepInv ==
  ASSUME LockInv, NEW t \in DOMAIN Threads, NEW pc, Moves(t, pc), holder' = holder,
         Holding(t, pc) = Holding(t, th[t].pc)
  PROVE LockInv'
BY DEF LockInv, Moves, Holding, Sock, Locks, RxState, TxState, q_rx0, q_tx0

\* The step takes a free lock.
LEMMA TakeInv ==
  ASSUME LockInv, NEW t \in DOMAIN Threads, NEW pc, Moves(t, pc), NEW l \in Locks, Free(l), lock(t, l),
         \A k \in Locks : k \in Holding(t, pc) <=> (k = l \/ k \in Holding(t, th[t].pc))
  PROVE LockInv'
<1>1. \A k \in Locks : holder'[k] = IF k = l THEN Some(t) ELSE holder[k] BY DEF lock, LockInv
<1>2. DOMAIN holder' = Locks BY DEF lock, LockInv
<1>3. ASSUME NEW u \in DOMAIN Threads, NEW k \in Locks PROVE holder'[k] = Some(u) <=> k \in Holding(u, th'[u].pc)
  <2>1. holder[k] = Some(u) <=> k \in Holding(u, th[u].pc) BY Zenon DEF LockInv
  <2>2. holder[l] = None BY DEF Free
  <2>3. CASE u = t BY <1>1, <2>1, <2>2, <2>3 DEF Moves, Some, None
  <2>4. CASE u # t BY <1>1, <2>1, <2>2, <2>4 DEF Moves, Some, None
  <2> QED BY <2>3, <2>4
<1> QED BY <1>2, <1>3 DEF LockInv, Moves, Holding, Sock, Locks, RxState, TxState, q_rx0, q_tx0

\* The step releases locks that the thread holds.
LEMMA ReleaseInv ==
  ASSUME LockInv, NEW t \in DOMAIN Threads, NEW pc, Moves(t, pc), NEW ls, unlock(ls),
         \A k \in Locks : k \in ls => k \in Holding(t, th[t].pc),
         \A k \in Locks : k \in Holding(t, pc) <=> (k \notin ls /\ k \in Holding(t, th[t].pc))
  PROVE LockInv'
<1>1. \A k \in Locks : holder'[k] = IF k \in ls THEN None ELSE holder[k] BY DEF unlock
<1>2. DOMAIN holder' = Locks BY DEF unlock
<1>3. ASSUME NEW u \in DOMAIN Threads, NEW k \in Locks PROVE holder'[k] = Some(u) <=> k \in Holding(u, th'[u].pc)
  <2>1. holder[k] = Some(u) <=> k \in Holding(u, th[u].pc) BY Zenon DEF LockInv
  <2>2. holder[k] = Some(t) <=> k \in Holding(t, th[t].pc) BY Zenon DEF LockInv
  <2>3. CASE u = t BY <1>1, <2>1, <2>3 DEF Moves, Some, None
  <2>4. CASE u # t BY <1>1, <2>1, <2>2, <2>4 DEF Moves, Some, None
  <2> QED BY <2>3, <2>4
<1> QED BY <1>2, <1>3 DEF LockInv, Moves, Holding, Sock, Locks, RxState, TxState, q_rx0, q_tx0

\* Going to another step of the call,
LEMMA GotoMoves == ASSUME LockInv, NEW t \in DOMAIN Threads, NEW pc, Goto(t, pc) PROVE Moves(t, pc)
BY DEF Goto, Moves, LockInv, Fields

\* returning from it,
LEMMA ReturnMoves == ASSUME LockInv, NEW t \in DOMAIN Threads, Return(t) PROVE Moves(t, "idle")
BY DEF Return, Moves, LockInv, Fields, Idle

\* and taking the next frame of a burst are moves of the thread.
LEMMA NextFrameMoves ==
  ASSUME LockInv, NEW t \in DOMAIN Threads, NEW r, NextFrame(t, r) PROVE Moves(t, "frame")
BY DEF NextFrame, Moves, LockInv, Fields

\* The locks of a thread's socket and of the port are locks.
LEMMA AreLocks ==
  ASSUME NEW t \in DOMAIN Threads PROVE {RxState(Sock(t)), TxState(Sock(t)), q_rx0, q_tx0} \subseteq Locks
BY CallsAssumption DEF Locks, Sock

\* The locks of a thread are four different ones.
LEMMA LocksDiffer ==
  ASSUME NEW s, NEW u
  PROVE  /\ RxState(s) # q_rx0 /\ RxState(s) # TxState(u) /\ RxState(s) # q_tx0
         /\ q_rx0 # TxState(u) /\ q_rx0 # q_tx0 /\ TxState(u) # q_tx0
BY DEF RxState, TxState, q_rx0, q_tx0

-----------------------------------------------------------------------------
(* Receiving. *)

\* A receive that gives up, or finds a packet in the queue, held nothing.
LEMMA WaitsInv == ASSUME LockInv, NEW t \in DOMAIN Threads, RecvTimesOut(t) \/ RxBusy(t) \/ RecvBuffered(t) PROVE LockInv'
<1>1. holder' = holder /\ th[t].pc \in {"rx_lock"} BY DEF RecvTimesOut, RxBusy, RecvBuffered, At
<1>2. PICK pc \in {"idle"} : Moves(t, pc) BY ReturnMoves DEF RecvTimesOut, RxBusy, RecvBuffered
<1>3. Holding(t, pc) = Holding(t, th[t].pc) BY <1>1, <1>2 DEF Holding
<1> QED BY <1>1, <1>2, <1>3, KeepInv, Zenon

\* rx_state is taken first,
LEMMA RxLockInv == ASSUME LockInv, NEW t \in DOMAIN Threads, RxLock(t) PROVE LockInv'
<1>1. Moves(t, "burst") /\ th[t].pc = "rx_lock" BY GotoMoves DEF RxLock, At
<1>2. \A k \in Locks : k \in Holding(t, "burst") <=> (k = RxState(Sock(t)) \/ k \in Holding(t, th[t].pc))
  BY <1>1 DEF Holding
<1>3. RxState(Sock(t)) \in Locks /\ Free(RxState(Sock(t))) /\ lock(t, RxState(Sock(t))) BY AreLocks DEF RxLock
<1> QED BY <1>1, <1>2, <1>3, TakeInv, Zenon

\* and released when q_rx0 is busy;
LEMMA BurstBusyInv == ASSUME LockInv, NEW t \in DOMAIN Threads, BurstBusy(t) PROVE LockInv'
<1>1. unlock({RxState(Sock(t))}) /\ th[t].pc = "burst" BY DEF BurstBusy, At
<1>2. PICK pc \in {"idle"} : Moves(t, pc) BY ReturnMoves DEF BurstBusy
<1>3. \A k \in Locks : k \in {RxState(Sock(t))} => k \in Holding(t, th[t].pc) BY <1>1 DEF Holding
<1>4. \A k \in Locks : k \in Holding(t, pc) <=> (k \notin {RxState(Sock(t))} /\ k \in Holding(t, th[t].pc))
  BY <1>1, <1>2, LocksDiffer DEF Holding
<1> QED BY <1>1, <1>2, <1>3, <1>4, ReleaseInv, Zenon

\* then q_rx0,
LEMMA BurstLockInv == ASSUME LockInv, NEW t \in DOMAIN Threads, BurstLock(t) PROVE LockInv'
<1>1. Moves(t, "rx_burst") /\ th[t].pc = "burst" BY GotoMoves DEF BurstLock, At
<1>2. \A k \in Locks : k \in Holding(t, "rx_burst") <=> (k = q_rx0 \/ k \in Holding(t, th[t].pc))
  BY <1>1 DEF Holding
<1>3. q_rx0 \in Locks /\ Free(q_rx0) /\ lock(t, q_rx0) BY AreLocks DEF BurstLock
<1> QED BY <1>1, <1>2, <1>3, TakeInv, Zenon

\* for the burst alone.
LEMMA BurstInv == ASSUME LockInv, NEW t \in DOMAIN Threads, rx_burst(t) PROVE LockInv'
<1>1. unlock({q_rx0}) /\ th[t].pc = "rx_burst" BY DEF rx_burst, At
<1>2. PICK pc \in {"frame"} : Moves(t, pc) BY DEF rx_burst, Moves, LockInv, Fields
<1>3. \A k \in Locks : k \in {q_rx0} => k \in Holding(t, th[t].pc) BY <1>1 DEF Holding
<1>4. \A k \in Locks : k \in Holding(t, pc) <=> (k \notin {q_rx0} /\ k \in Holding(t, th[t].pc))
  BY <1>1, <1>2, LocksDiffer DEF Holding
<1> QED BY <1>1, <1>2, <1>3, <1>4, ReleaseInv, Zenon

\* Learning an address takes no lock of the socket,
LEMMA LearnsInv == ASSUME LockInv, NEW t \in DOMAIN Threads, LearnIp(t) \/ LearnLo(t) \/ LearnMac(t) \/ LearnEntry(t) PROVE LockInv'
<1>1. holder' = holder /\ th[t].pc \in {"frame", "learn_lo", "learn_mac", "learn_entry"} BY DEF LearnIp, LearnLo, LearnMac, LearnEntry, At
<1>2. PICK pc \in {"learn_lo", "learn_mac", "learn_entry", "handle"} : Moves(t, pc) BY GotoMoves DEF LearnIp, LearnLo, LearnMac, LearnEntry
<1>3. Holding(t, pc) = Holding(t, th[t].pc) BY <1>1, <1>2 DEF Holding
<1> QED BY <1>1, <1>2, <1>3, KeepInv, Zenon

\* nor does handling a frame,
LEMMA HandlesInv == ASSUME LockInv, NEW t \in DOMAIN Threads, HandleDatagram(t) \/ HandleError(t) \/ HandleControl(t) \/ ReplyBusy(t) PROVE LockInv'
<1>1. holder' = holder /\ th[t].pc \in {"frame", "handle", "reply"} BY SMTT(30) DEF HandleDatagram, HandleError, HandleControl, ReplyBusy, At, Handling
<1>2. PICK pc \in {"frame", "reply"} : Moves(t, pc) BY GotoMoves, NextFrameMoves DEF HandleDatagram, HandleError, HandleControl, ReplyBusy, Handling
<1>3. Holding(t, pc) = Holding(t, th[t].pc) BY <1>1, <1>2 DEF Holding
<1> QED BY <1>1, <1>2, <1>3, KeepInv, Zenon

\* but for q_tx0, with rx_state held, when it is answered.
LEMMA ReplyLockInv == ASSUME LockInv, NEW t \in DOMAIN Threads, ReplyLock(t) PROVE LockInv'
<1>1. Moves(t, "reply_burst") /\ th[t].pc = "reply" BY GotoMoves DEF ReplyLock, At
<1>2. \A k \in Locks : k \in Holding(t, "reply_burst") <=> (k = q_tx0 \/ k \in Holding(t, th[t].pc))
  BY <1>1 DEF Holding
<1>3. q_tx0 \in Locks /\ Free(q_tx0) /\ lock(t, q_tx0) BY AreLocks DEF ReplyLock
<1> QED BY <1>1, <1>2, <1>3, TakeInv, Zenon

\* q_tx0 is released before the next frame,
LEMMA ReplyBurstInv == ASSUME LockInv, NEW t \in DOMAIN Threads, ReplyBurst(t) PROVE LockInv'
<1>1. unlock({q_tx0}) /\ th[t].pc = "reply_burst" BY DEF ReplyBurst, At
<1>2. PICK pc \in {"frame"} : Moves(t, pc) BY NextFrameMoves DEF ReplyBurst
<1>3. \A k \in Locks : k \in {q_tx0} => k \in Holding(t, th[t].pc) BY <1>1 DEF Holding
<1>4. \A k \in Locks : k \in Holding(t, pc) <=> (k \notin {q_tx0} /\ k \in Holding(t, th[t].pc))
  BY <1>1, <1>2, LocksDiffer DEF Holding
<1> QED BY <1>1, <1>2, <1>3, <1>4, ReleaseInv, Zenon

\* and rx_state after the last.
LEMMA BatchDoneInv == ASSUME LockInv, NEW t \in DOMAIN Threads, BatchDone(t) PROVE LockInv'
<1>1. unlock({RxState(Sock(t))}) /\ th[t].pc = "frame" BY DEF BatchDone, At
<1>2. PICK pc \in {"idle", "look", "rx_lock"} : Moves(t, pc) BY ReturnMoves, GotoMoves DEF BatchDone
<1>3. \A k \in Locks : k \in {RxState(Sock(t))} => k \in Holding(t, th[t].pc) BY <1>1 DEF Holding
<1>4. \A k \in Locks : k \in Holding(t, pc) <=> (k \notin {RxState(Sock(t))} /\ k \in Holding(t, th[t].pc))
  BY <1>1, <1>2, LocksDiffer DEF Holding
<1> QED BY <1>1, <1>2, <1>3, <1>4, ReleaseInv, Zenon

-----------------------------------------------------------------------------
(* Sending. *)

\* The lookup of a neighbour holds nothing.
LEMMA LooksInv == ASSUME LockInv, NEW t \in DOMAIN Threads, LookFast(t) \/ LookLo(t) \/ LookMac(t) \/ RequestBusy(t) PROVE LockInv'
<1>1. holder' = holder /\ th[t].pc \in {"look", "look_lo", "look_mac", "request"} BY DEF LookFast, LookLo, LookMac, RequestBusy, At, Moves, LockInv, Fields
<1>2. PICK pc \in {"look_lo", "look_mac", "look_entry", "tx_lock"} : Moves(t, pc) BY GotoMoves DEF LookFast, LookLo, LookMac, RequestBusy, Moves, LockInv, Fields
<1>3. Holding(t, pc) = Holding(t, th[t].pc) BY <1>1, <1>2 DEF Holding
<1> QED BY <1>1, <1>2, <1>3, KeepInv, Zenon

\* Nor does its last step.
LEMMA LookEntryInv == ASSUME LockInv, NEW t \in DOMAIN Threads, LookEntry(t) PROVE LockInv'
<1>1. holder' = holder /\ th[t].pc \in {"look_entry"} BY DEF LookEntry, At, Moves, LockInv, Fields, Idle
<1>2. PICK pc \in {"tx_lock", "request", "rx_lock", "idle"} : Moves(t, pc) BY DEF LookEntry, Moves, LockInv, Fields, Idle
<1>3. Holding(t, pc) = Holding(t, th[t].pc) BY <1>1, <1>2 DEF Holding
<1> QED BY <1>1, <1>2, <1>3, KeepInv, Zenon

\* A request takes q_tx0 alone,
LEMMA RequestLockInv == ASSUME LockInv, NEW t \in DOMAIN Threads, RequestLock(t) PROVE LockInv'
<1>1. Moves(t, "request_burst") /\ th[t].pc = "request" BY GotoMoves DEF RequestLock, At
<1>2. \A k \in Locks : k \in Holding(t, "request_burst") <=> (k = q_tx0 \/ k \in Holding(t, th[t].pc))
  BY <1>1 DEF Holding
<1>3. q_tx0 \in Locks /\ Free(q_tx0) /\ lock(t, q_tx0) BY AreLocks DEF RequestLock
<1> QED BY <1>1, <1>2, <1>3, TakeInv, Zenon

\* and releases it.
LEMMA RequestBurstInv == ASSUME LockInv, NEW t \in DOMAIN Threads, RequestBurst(t) PROVE LockInv'
<1>1. unlock({q_tx0}) /\ th[t].pc = "request_burst" BY DEF RequestBurst, At
<1>2. PICK pc \in {"tx_lock", "rx_lock", "idle"} : Moves(t, pc) BY GotoMoves, ReturnMoves DEF RequestBurst
<1>3. \A k \in Locks : k \in {q_tx0} => k \in Holding(t, th[t].pc) BY <1>1 DEF Holding
<1>4. \A k \in Locks : k \in Holding(t, pc) <=> (k \notin {q_tx0} /\ k \in Holding(t, th[t].pc))
  BY <1>1, <1>2, LocksDiffer DEF Holding
<1> QED BY <1>1, <1>2, <1>3, <1>4, ReleaseInv, Zenon

\* A datagram takes tx_state,
LEMMA TxLockInv == ASSUME LockInv, NEW t \in DOMAIN Threads, TxLock(t) PROVE LockInv'
<1>1. Moves(t, "tx") /\ th[t].pc = "tx_lock" BY GotoMoves DEF TxLock, At
<1>2. \A k \in Locks : k \in Holding(t, "tx") <=> (k = TxState(Sock(t)) \/ k \in Holding(t, th[t].pc))
  BY <1>1 DEF Holding
<1>3. TxState(Sock(t)) \in Locks /\ Free(TxState(Sock(t))) /\ lock(t, TxState(Sock(t))) BY AreLocks DEF TxLock
<1> QED BY <1>1, <1>2, <1>3, TakeInv, Zenon

\* then q_tx0.
LEMMA TxQueueLockInv == ASSUME LockInv, NEW t \in DOMAIN Threads, TxQueueLock(t) PROVE LockInv'
<1>1. Moves(t, "tx_burst") /\ th[t].pc = "tx" BY GotoMoves DEF TxQueueLock, At
<1>2. \A k \in Locks : k \in Holding(t, "tx_burst") <=> (k = q_tx0 \/ k \in Holding(t, th[t].pc))
  BY <1>1 DEF Holding
<1>3. q_tx0 \in Locks /\ Free(q_tx0) /\ lock(t, q_tx0) BY AreLocks DEF TxQueueLock
<1> QED BY <1>1, <1>2, <1>3, TakeInv, Zenon

\* tx_state is released last.
LEMMA RecordSendInv == ASSUME LockInv, NEW t \in DOMAIN Threads, RecordSend(t) PROVE LockInv'
<1>1. unlock({TxState(Sock(t))}) /\ th[t].pc = "sent" BY DEF RecordSend, At
<1>2. PICK pc \in {"idle"} : Moves(t, pc) BY ReturnMoves DEF RecordSend
<1>3. \A k \in Locks : k \in {TxState(Sock(t))} => k \in Holding(t, th[t].pc) BY <1>1 DEF Holding
<1>4. \A k \in Locks : k \in Holding(t, pc) <=> (k \notin {TxState(Sock(t))} /\ k \in Holding(t, th[t].pc))
  BY <1>1, <1>2, LocksDiffer DEF Holding
<1> QED BY <1>1, <1>2, <1>3, <1>4, ReleaseInv, Zenon

\* A send that must not wait lets go of what it holds,
LEMMA TxBusyInv == ASSUME LockInv, NEW t \in DOMAIN Threads, TxBusy(t) PROVE LockInv'
<1>1. Moves(t, "idle") BY ReturnMoves DEF TxBusy
<1>2. CASE th[t].pc = "tx_lock" /\ holder' = holder
  <2>1. Holding(t, "idle") = Holding(t, th[t].pc) BY <1>2 DEF Holding
  <2> QED BY <1>1, <1>2, <2>1, KeepInv, Zenon
<1>3. CASE th[t].pc = "tx" /\ unlock({TxState(Sock(t))})
  <2>1. \A k \in Locks : k \in {TxState(Sock(t))} => k \in Holding(t, th[t].pc) BY <1>3 DEF Holding
  <2>2. \A k \in Locks : k \in Holding(t, "idle") <=> (k \notin {TxState(Sock(t))} /\ k \in Holding(t, th[t].pc))
    BY <1>3 DEF Holding
  <2> QED BY <1>1, <1>3, <2>1, <2>2, ReleaseInv, Zenon
<1> QED BY <1>2, <1>3 DEF TxBusy, At

\* and one that the NIC refuses lets go of both.
LEMMA TxBurstInv == ASSUME LockInv, NEW t \in DOMAIN Threads, tx_burst(t) PROVE LockInv'
<1>1. CASE Goto(t, "sent") /\ unlock({q_tx0})
  <2>1. Moves(t, "sent") /\ th[t].pc = "tx_burst" BY <1>1, GotoMoves DEF tx_burst, At
  <2>2. \A k \in Locks : k \in {q_tx0} => k \in Holding(t, th[t].pc) BY <2>1 DEF Holding
  <2>3. \A k \in Locks : k \in Holding(t, "sent") <=> (k \notin {q_tx0} /\ k \in Holding(t, th[t].pc))
    BY <2>1, LocksDiffer DEF Holding
  <2> QED BY <1>1, <2>1, <2>2, <2>3, ReleaseInv, Zenon
<1>2. CASE Return(t) /\ unlock({q_tx0, TxState(Sock(t))})
  <2>1. Moves(t, "idle") /\ th[t].pc = "tx_burst" BY <1>2, ReturnMoves DEF tx_burst, At
  <2>2. \A k \in Locks : k \in {q_tx0, TxState(Sock(t))} => k \in Holding(t, th[t].pc) BY <2>1 DEF Holding
  <2>3. \A k \in Locks : k \in Holding(t, "idle")
                         <=> (k \notin {q_tx0, TxState(Sock(t))} /\ k \in Holding(t, th[t].pc))
    BY <2>1 DEF Holding
  <2> QED BY <1>2, <2>1, <2>2, <2>3, ReleaseInv, Zenon
<1> QED BY <1>1, <1>2 DEF tx_burst

-----------------------------------------------------------------------------
(* The other calls, and all steps together. *)

\* They hold no lock between their steps; set_recv_buffer_size has rx_state within one.
LEMMA OthersInv ==
  ASSUME LockInv, NEW t \in DOMAIN Threads, connect(t) \/ take_error(t) \/ set_recv_buffer_size(t)
  PROVE LockInv'
<1>1. holder' = holder /\ th[t].pc \in {"connect", "connect2", "connect3", "connect4", "take_error", "pop_error", "set_recv_buffer_size"}
  BY DEF connect, take_error, set_recv_buffer_size, At
<1>2. PICK pc \in {"idle", "connect2", "connect3", "connect4", "pop_error"} : Moves(t, pc)
  BY GotoMoves, ReturnMoves DEF connect, take_error, set_recv_buffer_size
<1>3. Holding(t, pc) = Holding(t, th[t].pc) BY <1>1, <1>2 DEF Holding
<1> QED BY <1>1, <1>2, <1>3, KeepInv, Zenon

\* The ARP cache has a lock of its own, within a step.
LEMMA ArpEditsInv ==
  ASSUME LockInv, NEW t \in DOMAIN Threads, add_arp_entry(t) \/ remove(t) \/ Purge(t)
  PROVE LockInv'
<1>1. holder' = holder /\ th[t].pc \in {"add_arp_entry", "add_mac", "add_entry", "remove", "remove_ip", "remove_mac", "remove_entry", "purge_expired"}
  BY DEF add_arp_entry, remove, Purge, At
<1>2. PICK pc \in {"idle", "add_mac", "add_entry", "remove_ip", "remove_mac", "remove_entry"} : Moves(t, pc)
  BY GotoMoves, ReturnMoves DEF add_arp_entry, remove, Purge
<1>3. Holding(t, pc) = Holding(t, th[t].pc) BY <1>1, <1>2 DEF Holding
<1> QED BY <1>1, <1>2, <1>3, KeepInv, Zenon

\* Every step of a call.
LEMMA StepInv == ASSUME LockInv, NEW t \in DOMAIN Threads, Step(t) PROVE LockInv'
<1>1. CASE Receive(t)
  BY <1>1, WaitsInv, RxLockInv, BurstBusyInv, BurstLockInv, BurstInv, LearnsInv, HandlesInv, ReplyLockInv,
     ReplyBurstInv, BatchDoneInv, Zenon DEF Receive
<1>2. CASE Send(t)
  BY <1>2, LooksInv, LookEntryInv, RequestLockInv, RequestBurstInv, TxLockInv, TxBusyInv, TxQueueLockInv,
     TxBurstInv, RecordSendInv, Zenon DEF Send
<1>3. CASE Other(t)
  BY <1>3, OthersInv, ArpEditsInv, Zenon DEF Other
<1> QED BY <1>1, <1>2, <1>3, Zenon DEF Step

\* The first of the calls left, and the rest of them.
LEMMA FirstCall ==
  ASSUME CallInv, NEW t \in DOMAIN Threads, todo[t] # << >>
  PROVE  /\ Head(todo[t]).op \in Calls /\ IsSeq(Tail(todo[t]))
         /\ \A i \in DOMAIN Tail(todo[t]) : Tail(todo[t])[i].op \in Calls
<1>1. PICK S : todo[t] \in Seq(S) BY Zenon DEF CallInv, IsSeq
<1>2. Len(todo[t]) \in Nat /\ Len(todo[t]) # 0 /\ DOMAIN todo[t] = 1 .. Len(todo[t]) BY <1>1
<1>3. Head(todo[t]) = todo[t][1] /\ Tail(todo[t]) \in Seq(S) /\ DOMAIN Tail(todo[t]) = 1 .. (Len(todo[t]) - 1)
  BY <1>1, <1>2
<1>4. \A i \in DOMAIN Tail(todo[t]) : Tail(todo[t])[i] = todo[t][i + 1] /\ i + 1 \in DOMAIN todo[t]
  BY <1>1, <1>2, <1>3
<1>5. 1 \in DOMAIN todo[t] BY <1>2
<1>6. \A i \in DOMAIN todo[t] : todo[t][i].op \in Calls BY Zenon DEF CallInv
<1>7. IsSeq(Tail(todo[t])) BY <1>3, Zenon DEF IsSeq
<1> QED BY <1>3, <1>4, <1>5, <1>6, <1>7

\* A thread that begins a call holds nothing.
LEMMA CallStepInv == ASSUME SocketInv, NEW t \in DOMAIN Threads, Call(t) PROVE SocketInv'
<1> DEFINE c == Head(todo[t])
<1>0. LockInv /\ CallInv BY DEF SocketInv
<1>1. c.op \in Calls /\ IsSeq(Tail(todo[t])) /\ \A i \in DOMAIN Tail(todo[t]) : Tail(todo[t])[i].op \in Calls
  BY <1>0, FirstCall, Zenon DEF Call
<1>2. th[t].pc = "idle" /\ holder' = holder /\ todo' = [todo EXCEPT ![t] = Tail(todo[t])] BY DEF Call, At
<1>3. CallInv' BY <1>0, <1>1, <1>2 DEF CallInv
<1>4. PICK pc : Moves(t, pc) /\ pc \in Calls \cup {"idle", "rx_lock", "tx_lock", "look"}
                /\ pc \notin {"recv", "try", "nb", "send"}
  <2>1. CASE Refused(t, c) BY <1>0, <1>2, <2>1 DEF Call, Moves, LockInv
  <2>2. CASE ~Refused(t, c)
    <3> DEFINE q == CASE c.op \in {"recv", "try", "nb"} -> "rx_lock"
                      [] c.op = "send" -> IF c.dst = BROADCAST THEN "tx_lock" ELSE "look"
                      [] OTHER -> c.op
    <3>1. Moves(t, q) BY <1>0, <2>2 DEF Call, Moves, LockInv, Fields
    <3>2. q \in Calls \cup {"idle", "rx_lock", "tx_lock", "look"} /\ q \notin {"recv", "try", "nb", "send"}
      BY <1>1 DEF Calls
    <3> QED BY <3>1, <3>2, Zenon
  <2> QED BY <2>1, <2>2
<1>5. Holding(t, pc) = Holding(t, th[t].pc) BY <1>2, <1>4 DEF Holding, Calls
<1>6. LockInv' BY <1>0, <1>2, <1>4, <1>5, KeepInv, Zenon
<1> QED BY <1>3, <1>6 DEF SocketInv

\* Only the beginning of a call changes what is left to do.
LEMMA StepTodo == ASSUME NEW t, Step(t) PROVE todo' = todo /\ scene' = scene
<1>1. CASE Receive(t)
  BY <1>1, Zenon DEF Receive, RecvTimesOut, RxBusy, RecvBuffered, RxLock, BurstBusy, BurstLock, rx_burst, LearnIp,
     LearnLo, LearnMac, LearnEntry, HandleDatagram, HandleError, HandleControl, ReplyLock, ReplyBusy,
     ReplyBurst, BatchDone
<1>2. CASE Send(t)
  BY <1>2 DEF Send, LookFast, LookLo, LookMac, LookEntry, RequestLock, RequestBusy, RequestBurst, TxLock,
     TxBusy, TxQueueLock, tx_burst, RecordSend
<1>3. CASE Other(t)
  BY <1>3, SMTT(30) DEF Other, connect, take_error, set_recv_buffer_size, add_arp_entry, remove, Purge
<1> QED BY <1>1, <1>2, <1>3, Zenon DEF Step

\* The invariant is of th, holder and todo alone.
LEMMA SameInv == ASSUME SocketInv, th' = th, holder' = holder, todo' = todo PROVE SocketInv'
BY DEF SocketInv, LockInv, CallInv, Holding, IsSeq

\* Every step of the sockets.
LEMMA NextInv == ASSUME SocketInv, Next PROVE SocketInv'
<1>1. CASE Arrive \/ Expire
  <2>1. th' = th /\ holder' = holder /\ todo' = todo BY <1>1 DEF Arrive, Expire
  <2> QED BY <2>1, SameInv, Zenon
<1>2. ASSUME NEW t \in DOMAIN Threads, Call(t) PROVE SocketInv' BY <1>2, CallStepInv, Zenon
<1>3. ASSUME NEW t \in DOMAIN Threads, Step(t) PROVE SocketInv'
  <2>1. LockInv' BY <1>3, StepInv, Zenon DEF SocketInv
  <2>2. CallInv' BY <1>3, StepTodo DEF SocketInv, CallInv, IsSeq
  <2> QED BY <2>1, <2>2 DEF SocketInv
<1> QED BY <1>1, <1>2, <1>3, Zenon DEF Next

\* At first no lock is held.
LEMMA InitInv == ASSUME Init PROVE SocketInv
<1>1. LockInv
  <2>1. DOMAIN th = DOMAIN Threads /\ \A t \in DOMAIN Threads : th[t] = Idle BY DEF Init
  <2>2. DOMAIN holder = Locks /\ \A l \in Locks : holder[l] = None BY DEF Init
  <2>3. DOMAIN Idle = Fields /\ Idle.pc = "idle" BY DEF Idle, Fields
  <2>4. \A t \in DOMAIN Threads : Holding(t, "idle") = {} BY DEF Holding
  <2>5. \A t : None # Some(t) BY DEF None, Some
  <2> QED BY <2>1, <2>2, <2>3, <2>4, <2>5 DEF LockInv
<1>2. CallInv
  <2>1. scene \in Scenes /\ todo = scene.calls BY DEF Init
  <2>2. ASSUME NEW t \in DOMAIN Threads
        PROVE  IsSeq(todo[t]) /\ \A i \in DOMAIN todo[t] : todo[t][i].op \in Calls
    BY <2>1, CallsAssumption, Zenon DEF IsSeq
  <2> QED BY <2>1, <2>2, CallsAssumption DEF CallInv
<1> QED BY <1>1, <1>2 DEF SocketInv

\* LockOrder: a thread that takes a lock holds only locks before it in the order the
\* source declares (rx_state, q_rx0, tx_state, q_tx0), in every nesting of receives,
\* automatic replies, ARP resolution and sends, for any number of sockets and threads.
THEOREM SocketLockOrder == Spec => []LockOrder
<1>1. Init => SocketInv BY InitInv
<1>2. SocketInv /\ [Next]_vars => SocketInv'
  <2>1. CASE UNCHANGED vars
    <3>1. th' = th /\ holder' = holder /\ todo' = todo BY <2>1 DEF vars
    <3> QED BY <3>1, SameInv, Zenon
  <2> QED BY <2>1, NextInv, Zenon
<1>3. SocketInv => LockOrder BY LockOrderHolds, Zenon DEF SocketInv
<1> QED BY <1>1, <1>2, <1>3, PTL DEF Spec

-----------------------------------------------------------------------------
(* The same with tasks. *)

\* A task that a worker may poll waits for a receive or a send, and the blocking pool
\* has connects to do.
TaskFields == {"state", "calls", "call", "first", "threshold", "since", "wake", "began"}
TaskOK(r) ==
  /\ DOMAIN r = TaskFields /\ (r.call = None \/ \E c : r.call = Some(c))
  /\ r.state \in {"ready", "sleeping"} => \E c : r.call = Some(c) /\ c.op \in {"recv_from", "send", "try_recv_from"}
RunOK(r) == r = None \/ \E j : r = Some(j) /\ j.task \in Tasks
TaskInv == DOMAIN task = Tasks /\ \A k \in Tasks : TaskOK(task[k])
RunInv == DOMAIN run = DOMAIN Threads /\ \A t \in DOMAIN Threads : RunOK(run[t])
JobInv == IsSeq(jobs) /\ \A i \in DOMAIN jobs : jobs[i].call.op = "connect" /\ jobs[i].task \in Tasks
AsyncInv == SocketInv /\ TaskInv /\ RunInv /\ JobInv

\* A step that changes one task.
LEMMA OneTask ==
  ASSUME TaskInv, NEW k \in Tasks, NEW r, task' = [task EXCEPT ![k] = r], TaskOK(r), scene' = scene
  PROVE TaskInv'
BY DEF TaskInv, TaskOK, Tasks

\* A future that is finished waits for nothing.
LEMMA FinishedOK == ASSUME NEW k PROVE TaskOK(Finished(k))
BY DEF Finished, NoFuture, TaskOK, TaskFields

\* A receive that goes on keeps its call.
LEMMA PaceOK == ASSUME NEW k, TaskOK(task[k]), Doing(k, "recv_from") PROVE TaskOK(Pace(k))
<1>1. PICK c : task[k].call = Some(c) /\ c.op = "recv_from" BY DEF TaskOK, Doing, None, Some
<1> DEFINE r == IF task[k].first
                THEN [task[k] EXCEPT !.first = FALSE, !.threshold = threshold(TSock(k)), !.since = now]
                ELSE task[k]
<1>2. DOMAIN r = TaskFields /\ r.call = Some(c) BY <1>1 DEF TaskOK, TaskFields
<1>3. Pace(k) = (IF r.threshold # OFF /\ now - r.since >= r.threshold
                 THEN [r EXCEPT !.state = "sleeping", !.wake = now + SLEEP_STEP]
                 ELSE [r EXCEPT !.state = "ready"])
  BY DEF Pace
<1> HIDE DEF r
<1>4. DOMAIN Pace(k) = TaskFields /\ Pace(k).call = Some(c) BY <1>2, <1>3 DEF TaskFields
<1> QED BY <1>1, <1>4, Zenon DEF TaskOK

\* What the call of a thread returns to its task.
LEMMA ReturnsInv ==
  ASSUME TaskInv, RunInv, JobInv, NEW t \in DOMAIN Threads, Returns(t), scene' = scene
  PROVE TaskInv' /\ RunInv' /\ JobInv'
<1>1. CASE run[t] = None \/ th'[t].pc # "idle"
  <2>1. task' = task /\ run' = run /\ jobs' = jobs BY <1>1 DEF Returns, asyncVars
  <2>2. TaskInv' BY <2>1, Zenon DEF TaskInv, TaskOK, Tasks
  <2>3. RunInv' BY <2>1, Zenon DEF RunInv, RunOK, Tasks
  <2>4. JobInv' BY <2>1, Zenon DEF JobInv, IsSeq, Tasks
  <2> QED BY <2>2, <2>3, <2>4, Zenon
<1>2. CASE run[t] # None /\ th'[t].pc = "idle"
  <2>0. PICK j : run[t] = Some(j) /\ j.task \in Tasks BY <1>2, Zenon DEF RunInv, RunOK
  <2>1. run[t][1] = j BY <2>0 DEF Some
  <2>2. PICK k \in Tasks : k = j.task BY <2>0
  <2>3. TaskOK(task[k]) /\ jobs' = jobs /\ run' = [run EXCEPT ![t] = None] BY <1>2 DEF TaskInv, Returns
  <2>4. ASSUME t \in scene.pool PROVE TaskInv'
    <3> DEFINE r == [task[k] EXCEPT !.state = IF @ = "awaiting" /\ Len(task[k].calls) = j.id THEN "woken" ELSE @]
    <3>1. task' = [task EXCEPT ![k] = r] BY <1>2, <2>1, <2>2, <2>4 DEF Returns, JobReturns
    <3>2. TaskOK(r) BY <2>3 DEF TaskOK, TaskFields
    <3> HIDE DEF r
    <3> QED BY <3>1, <3>2, OneTask, Zenon
  <2>5. ASSUME t \notin scene.pool PROVE TaskInv'
    <3>1. PollReturns(k) BY <1>2, <2>1, <2>2, <2>5 DEF Returns
    <3>2. CASE task' = [task EXCEPT ![k] = Pace(k)] /\ Doing(k, "recv_from") BY <2>3, <3>2, PaceOK, OneTask, Zenon
    <3>3. CASE task' = [task EXCEPT ![k] = Finished(k)] BY <3>3, FinishedOK, OneTask, Zenon
    <3> QED BY <3>1, <3>2, <3>3, Zenon DEF PollReturns
  <2>6. TaskInv' BY <2>4, <2>5
  <2>7. RunInv' /\ JobInv' BY <2>3 DEF RunInv, JobInv, RunOK, Tasks, IsSeq
  <2> QED BY <2>6, <2>7
<1> QED BY <1>1, <1>2

\* A worker that polls, and a thread of the pool that takes a job, have a call to make.
LEMMA GivenCall ==
  ASSUME SocketInv, NEW t \in DOMAIN Threads, NEW c, c.op \in Calls, todo' = [todo EXCEPT ![t] = <<c>>],
         th' = th, holder' = holder
  PROVE SocketInv'
<1>1. LockInv' BY DEF SocketInv, LockInv, Holding
<1>2. <<c>> \in Seq({c}) /\ DOMAIN <<c>> = {1} /\ <<c>>[1] = c OBVIOUS
<1>3. IsSeq(<<c>>) BY <1>2, Zenon DEF IsSeq
<1>4. CallInv' BY <1>2, <1>3 DEF SocketInv, CallInv
<1> QED BY <1>1, <1>4, SMTT(30) DEF SocketInv

\* A worker polls a task.
LEMMA PollInv == ASSUME AsyncInv, NEW k \in Tasks, NEW t \in DOMAIN Threads, Poll(k, t) PROVE AsyncInv'
<1>0. SocketInv /\ TaskInv /\ RunInv /\ JobInv BY DEF AsyncInv
<1>1. TaskOK(task[k]) BY <1>0 DEF TaskInv
<1>2. PICK c : task[k].call = Some(c) /\ c.op \in {"recv_from", "send", "try_recv_from"} BY <1>1 DEF Poll, TaskOK
<1>3. SocketCall(c).op \in Calls BY <1>2 DEF SocketCall, TryCall, Calls
<1>4. todo' = [todo EXCEPT ![t] = <<SocketCall(c)>>] /\ th' = th /\ holder' = holder /\ scene' = scene /\ jobs' = jobs
  BY <1>2 DEF Poll, Some
<1>5. SocketInv' BY <1>0, <1>3, <1>4, GivenCall, Zenon
<1>6. TaskInv'
  <2>1. task' = [task EXCEPT ![k] = [task[k] EXCEPT !.state = "polling"]] BY DEF Poll
  <2>2. TaskOK([task[k] EXCEPT !.state = "polling"]) BY <1>1, SMTT(30) DEF TaskOK, TaskFields
  <2> QED BY <1>0, <1>4, <2>1, <2>2, OneTask, Zenon
<1>7. RunInv'
  <2>1. run' = [run EXCEPT ![t] = Some([task |-> k, id |-> Len(task[k].calls)])] BY DEF Poll
  <2>2. RunOK(Some([task |-> k, id |-> Len(task[k].calls)])) BY DEF RunOK
  <2> QED BY <1>0, <1>4, <2>1, <2>2 DEF RunInv, RunOK, Tasks
<1>8. JobInv' BY <1>0, <1>4 DEF JobInv, Tasks, IsSeq
<1> QED BY <1>5, <1>6, <1>7, <1>8 DEF AsyncInv

\* The queue of the pool: its first job, and the others.
LEMMA FirstJob ==
  ASSUME JobInv, jobs # << >>
  PROVE  /\ Head(jobs).call.op = "connect" /\ Head(jobs).task \in Tasks /\ IsSeq(Tail(jobs))
         /\ \A i \in DOMAIN Tail(jobs) : Tail(jobs)[i].call.op = "connect" /\ Tail(jobs)[i].task \in Tasks
<1>1. PICK S : jobs \in Seq(S) BY Zenon DEF JobInv, IsSeq
<1>2. Len(jobs) \in Nat /\ Len(jobs) # 0 /\ DOMAIN jobs = 1 .. Len(jobs) BY <1>1
<1>3. Head(jobs) = jobs[1] /\ Tail(jobs) \in Seq(S) /\ DOMAIN Tail(jobs) = 1 .. (Len(jobs) - 1) BY <1>1, <1>2
<1>4. \A i \in DOMAIN Tail(jobs) : Tail(jobs)[i] = jobs[i + 1] /\ i + 1 \in DOMAIN jobs BY <1>1, <1>2, <1>3
<1>5. 1 \in DOMAIN jobs BY <1>2
<1>6. IsSeq(Tail(jobs)) BY <1>3, Zenon DEF IsSeq
<1> QED BY <1>3, <1>4, <1>5, <1>6 DEF JobInv

\* A thread of the pool takes a job.
LEMMA TakeJobInv == ASSUME AsyncInv, NEW t \in DOMAIN Threads, TakeJob(t) PROVE AsyncInv'
<1>0. SocketInv /\ TaskInv /\ RunInv /\ JobInv BY DEF AsyncInv
<1>1. Head(jobs).call.op \in Calls BY <1>0, FirstJob, SMTT(30) DEF TakeJob, Calls
<1>2. todo' = [todo EXCEPT ![t] = <<Head(jobs).call>>] /\ th' = th /\ holder' = holder /\ scene' = scene /\ task' = task
  BY DEF TakeJob
<1>3. SocketInv' BY <1>0, <1>1, <1>2, GivenCall, Zenon
<1>4. TaskInv' BY <1>0, <1>2, Zenon DEF TaskInv, TaskOK, Tasks
<1>5. RunInv'
  <2>1. PICK j : run' = [run EXCEPT ![t] = Some(j)] /\ j = [task |-> Head(jobs).task, id |-> Head(jobs).id]
    BY Zenon DEF TakeJob
  <2>2. j.task \in Tasks BY <1>0, <2>1, FirstJob, Zenon DEF TakeJob
  <2>3. RunOK(Some(j)) BY <2>2, ZenonT(30) DEF RunOK
  <2> QED BY <1>0, <1>2, <2>1, <2>3 DEF RunInv, RunOK, Tasks
<1>6. JobInv'
  <2>1. jobs' = Tail(jobs) /\ jobs # << >> BY Zenon DEF TakeJob
  <2> QED BY <1>0, <1>2, <2>1, FirstJob DEF JobInv, Tasks, IsSeq
<1> QED BY <1>3, <1>4, <1>5, <1>6 DEF AsyncInv

\* A task makes a call, is woken or loses its future.
LEMMA TaskStepInv ==
  ASSUME AsyncInv, NEW k \in Tasks, set_idle_backoff(k) \/ StartCall(k) \/ Connected(k) \/ DropFuture(k)
  PROVE AsyncInv'
<1>0. SocketInv /\ TaskInv /\ RunInv /\ JobInv BY DEF AsyncInv
<1>1. UNCHANGED vars /\ run' = run /\ jobs' = jobs
  BY DEF set_idle_backoff, StartCall, Connected, DropFuture
<1>2. th' = th /\ holder' = holder /\ todo' = todo /\ scene' = scene BY <1>1 DEF vars
<1>3. TaskOK(task[k]) BY <1>0 DEF TaskInv
<1>4. TaskInv'
  <2>1. CASE set_idle_backoff(k)
    <3>1. task' = [task EXCEPT ![k] = [task[k] EXCEPT !.calls = Tail(@)]] BY <2>1 DEF set_idle_backoff
    <3>2. TaskOK([task[k] EXCEPT !.calls = Tail(@)]) BY <1>3 DEF TaskOK, TaskFields
    <3> QED BY <1>0, <1>2, <3>1, <3>2, OneTask, Zenon
  <2>2. CASE StartCall(k)
    <3>1. PICK c : c = Head(task[k].calls) /\ c.op \in {"recv_from", "send", "try_recv_from"}
      BY <2>2 DEF StartCall, Starts
    <3> DEFINE r == [Started(k) EXCEPT !.state = "ready"]
    <3>2. task' = [task EXCEPT ![k] = r] BY <2>2 DEF StartCall
    <3>3. DOMAIN r = TaskFields /\ r.call = Some(c) BY <1>3, <3>1 DEF TaskOK, TaskFields, Started
    <3>4. TaskOK(r) BY <3>1, <3>3, Zenon DEF TaskOK
    <3> HIDE DEF r
    <3> QED BY <1>0, <1>2, <3>2, <3>4, OneTask, Zenon
  <2>3. CASE Connected(k) \/ DropFuture(k)
    <3>1. task' = [task EXCEPT ![k] = Finished(k)] BY <2>3, SMTT(30) DEF Connected, DropFuture
    <3> QED BY <1>0, <1>2, <3>1, FinishedOK, OneTask, ZenonT(30)
  <2> QED BY <2>1, <2>2, <2>3
<1>5. RunInv' /\ JobInv' BY <1>0, <1>1, <1>2 DEF RunInv, JobInv, RunOK, Tasks, IsSeq
<1>6. SocketInv' BY <1>0, <1>2, SameInv, Zenon
<1> QED BY <1>4, <1>5, <1>6 DEF AsyncInv

\* A connect is handed to the pool.
LEMMA AsyncConnectInv == ASSUME AsyncInv, NEW k \in Tasks, AsyncConnect(k) PROVE AsyncInv'
<1>0. SocketInv /\ TaskInv /\ RunInv /\ JobInv BY DEF AsyncInv
<1>1. UNCHANGED vars /\ run' = run BY DEF AsyncConnect
<1>2. th' = th /\ holder' = holder /\ todo' = todo /\ scene' = scene BY <1>1 DEF vars
<1>3. TaskOK(task[k]) BY <1>0 DEF TaskInv
<1>4. TaskInv'
  <2> DEFINE r == [Started(k) EXCEPT !.state = "awaiting"]
  <2>1. task' = [task EXCEPT ![k] = r] BY DEF AsyncConnect
  <2>2. DOMAIN r = TaskFields /\ r.call = Some(Head(task[k].calls)) /\ r.state = "awaiting"
    BY <1>3 DEF TaskOK, TaskFields, Started
  <2>3. TaskOK(r) BY <2>2, SMTT(30) DEF TaskOK
  <2> HIDE DEF r
  <2> QED BY <1>0, <1>2, <2>1, <2>3, OneTask, Zenon
<1>5. JobInv'
  <2>1. PICK j : jobs' = Append(jobs, j) /\ j.call.op = "connect" /\ j.task = k BY DEF AsyncConnect, Starts
  <2>2. PICK S : jobs \in Seq(S) BY <1>0, Zenon DEF JobInv, IsSeq
  <2>3. Append(jobs, j) \in Seq(S \cup {j}) BY <2>2
  <2>4. \A i \in DOMAIN Append(jobs, j) : (i \in DOMAIN jobs /\ Append(jobs, j)[i] = jobs[i]) \/ Append(jobs, j)[i] = j
    BY <2>2
  <2>5. IsSeq(jobs') BY <2>1, <2>3, ZenonT(30) DEF IsSeq
  <2> QED BY <1>0, <1>2, <2>1, <2>4, <2>5 DEF JobInv, Tasks
<1>6. RunInv' BY <1>0, <1>1, <1>2 DEF RunInv, RunOK, Tasks
<1>7. SocketInv' BY <1>0, <1>2, SameInv, Zenon
<1> QED BY <1>4, <1>5, <1>6, <1>7 DEF AsyncInv

\* A step that leaves the sockets and the tasks alone.
LEMMA QuietInv == ASSUME AsyncInv, UNCHANGED <<vars, task, run, jobs>> PROVE AsyncInv'
<1>1. th' = th /\ holder' = holder /\ todo' = todo /\ scene' = scene /\ task' = task /\ run' = run /\ jobs' = jobs
  BY DEF vars
<1>2. SocketInv' BY <1>1, SameInv, Zenon DEF AsyncInv
<1> QED BY <1>1, <1>2 DEF AsyncInv, TaskInv, RunInv, JobInv, Tasks, IsSeq, TaskOK, RunOK

\* A step of the sockets, with what it returns to a task.
LEMMA ThreadStepInv ==
  ASSUME AsyncInv,
         \/ (Arrive \/ Expire) /\ UNCHANGED asyncVars
         \/ \E t \in DOMAIN Threads : (Call(t) /\ UNCHANGED asyncVars) \/ (Step(t) /\ Returns(t))
  PROVE AsyncInv'
<1>0. SocketInv /\ TaskInv /\ RunInv /\ JobInv BY DEF AsyncInv
<1>1. SocketInv' BY <1>0, NextInv, Zenon DEF Next
<1>2. CASE UNCHANGED asyncVars /\ scene' = scene
  <2>1. task' = task /\ run' = run /\ jobs' = jobs BY <1>2 DEF asyncVars
  <2> QED BY <1>0, <1>1, <1>2, <2>1 DEF AsyncInv, TaskInv, RunInv, JobInv, Tasks, IsSeq, TaskOK, RunOK
<1>3. ASSUME NEW t \in DOMAIN Threads, Step(t), Returns(t) PROVE AsyncInv'
  <2>1. scene' = scene BY <1>3, StepTodo, Zenon
  <2> QED BY <1>0, <1>1, <1>3, <2>1, ReturnsInv, Zenon DEF AsyncInv
<1>4. Arrive \/ Expire \/ (\E t \in DOMAIN Threads : Call(t)) => scene' = scene BY Zenon DEF Arrive, Expire, Call
<1> QED BY <1>2, <1>3, <1>4, Zenon

\* The invariant of the sockets and their tasks.
LEMMA AsyncInvHolds == AsyncSpec => []AsyncInv
<1>1. AsyncInit => AsyncInv
  <2> SUFFICES ASSUME AsyncInit PROVE AsyncInv OBVIOUS
  <2>1. SocketInv BY InitInv, Zenon DEF AsyncInit
  <2>2. TaskInv BY Zenon DEF AsyncInit, TaskInv, TaskOK, TaskFields, NoFuture
  <2>3. RunInv BY DEF AsyncInit, RunInv, RunOK
  <2>4. JobInv
    <3>1. jobs = << >> /\ << >> \in Seq({}) BY DEF AsyncInit
    <3> QED BY <3>1 DEF JobInv, IsSeq
  <2> QED BY <2>1, <2>2, <2>3, <2>4 DEF AsyncInv
<1>2. AsyncInv /\ [AsyncNext]_allVars => AsyncInv'
  <2> SUFFICES ASSUME AsyncInv, [AsyncNext]_allVars PROVE AsyncInv' OBVIOUS
  <2>1. CASE AsyncNext
    <3>1. CASE Tick BY <2>1, <3>1, QuietInv, Zenon DEF Tick
    <3> QED BY <2>1, <3>1, ThreadStepInv, TakeJobInv, PollInv, TaskStepInv, AsyncConnectInv, Zenon DEF AsyncNext
  <2>2. CASE UNCHANGED allVars BY <2>2, QuietInv, Zenon DEF allVars, asyncVars
  <2> QED BY <2>1, <2>2
<1> QED BY <1>1, <1>2, PTL DEF AsyncSpec

\* LockOrder with an asynchronous runtime: also when workers poll the sockets for tasks
\* whose futures may be dropped, and a blocking pool connects them, every thread takes
\* the locks in the order the source declares.
THEOREM AsyncLockOrder == AsyncSpec => []LockOrder
<1>1. AsyncInv => LockOrder BY LockOrderHolds, Zenon DEF AsyncInv, SocketInv
<1> QED BY <1>1, AsyncInvHolds, PTL

-----------------------------------------------------------------------------
(* What becomes of the datagrams. *)

\* A frame as it is in the NIC, numbered in the order of arrival.
Stamped == UNION {UNION {{[f EXCEPT !.id = n] : n \in Nat} : f \in s.frames} : s \in Scenes}

\* Later elements of q arrived later.
Rising(q) == \A i, j \in DOMAIN q : i < j => q[i].id < q[j].id

\* q in the receive queue, r returned, h in the hand of a receiving thread and k accepted:
\* an accepted datagram is at one place at most,
Placed(q, r, h, k) ==
  /\ Rising(q) /\ \A i \in DOMAIN q : q[i].id \in k
  /\ \A i \in DOMAIN r : r[i].id \in k /\ \A j \in DOMAIN r : r[i].id = r[j].id => i = j
  /\ \A i \in DOMAIN q : \A j \in DOMAIN r : q[i].id # r[j].id
  /\ h # None => /\ h[1].id \in k
                 /\ \A i \in DOMAIN q : q[i].id # h[1].id
                 /\ \A j \in DOMAIN r : r[j].id # h[1].id

\* and of one peer, those returned arrived before the one in hand, and that one before
\* those in the queue.
Ordered(q, r, h) ==
  /\ \A i, j \in DOMAIN r : i < j /\ r[i].ip = r[j].ip => r[i].id < r[j].id
  /\ \A i \in DOMAIN r : \A j \in DOMAIN q : r[i].ip = q[j].ip => r[i].id < q[j].id
  /\ h # None => /\ \A i \in DOMAIN r : r[i].ip = h[1].ip => r[i].id < h[1].id
                 /\ \A j \in DOMAIN q : q[j].ip = h[1].ip => h[1].id < q[j].id

\* The frames b of a burst arrived after the datagrams k the socket accepted and before
\* those still in the NIC.
Fresh(b, k, frames, n) ==
  /\ Rising(b)
  /\ \A i \in DOMAIN b : /\ b[i].id \in 1 .. n
                         /\ \A j \in DOMAIN frames : b[i].id < frames[j].id
                         /\ \A m \in k : m < b[i].id

\* A numbered frame has a number.
LEMMA StampedIds == \A f \in Stamped : f.id \in Nat
<1>1. ASSUME NEW s \in Scenes, NEW f \in s.frames, NEW n \in Nat PROVE [f EXCEPT !.id = n].id \in Nat
  <2>1. "id" \in DOMAIN f BY FramesAssumption
  <2> QED BY <2>1
<1>2. ASSUME NEW f \in Stamped PROVE \E s \in Scenes : \E g \in s.frames : \E n \in Nat : f = [g EXCEPT !.id = n]
  BY DEF Stamped
<1> QED BY <1>1, <1>2, ZenonT(30)

\* A frame that arrives is numbered.
LEMMA AreStamped == \A s \in Scenes : \A f \in s.frames : \A n \in Nat : [f EXCEPT !.id = n] \in Stamped
BY DEF Stamped

\* Adding an element to a sequence.
LEMMA Appended ==
  ASSUME NEW S, NEW q \in Seq(S), NEW x \in S
  PROVE  /\ Append(q, x) \in Seq(S) /\ Len(Append(q, x)) = Len(q) + 1
         /\ \A i \in DOMAIN Append(q, x) : \/ i \in DOMAIN q /\ Append(q, x)[i] = q[i]
                                           \/ i = Len(q) + 1 /\ Append(q, x)[i] = x
         /\ \A i, j \in DOMAIN Append(q, x) : i < j => i \in DOMAIN q /\ Append(q, x)[i] = q[i]
OBVIOUS

\* Adding a frame.
LEMMA AddedFrame ==
  ASSUME NEW q \in Seq(Stamped), NEW f \in Stamped, NEW i \in DOMAIN Append(q, f)
  PROVE  (i \in DOMAIN q /\ Append(q, f)[i] = q[i]) \/ Append(q, f)[i] = f
BY Appended

\* Taking the first element off a sequence.
LEMMA Popped ==
  ASSUME NEW S, NEW q \in Seq(S), q # << >>
  PROVE  /\ Head(q) \in S /\ Head(q) = q[1] /\ 1 \in DOMAIN q
         /\ Tail(q) \in Seq(S) /\ Len(q) = Len(Tail(q)) + 1
         /\ \A i \in DOMAIN Tail(q) : i + 1 \in DOMAIN q /\ Tail(q)[i] = q[i + 1] /\ 1 < i + 1
         /\ \A i, j \in DOMAIN Tail(q) : i < j => i + 1 < j + 1
OBVIOUS

\* The rest of a rising sequence rises.
LEMMA TailRises ==
  ASSUME NEW q \in Seq(Stamped), q # << >>, Rising(q)
  PROVE  Rising(Tail(q)) /\ \A i \in DOMAIN Tail(q) : Head(q).id < Tail(q)[i].id
BY Popped, Zenon DEF Rising

\* A later datagram at the end of a rising sequence.
LEMMA AppendRises ==
  ASSUME NEW q \in Seq(Stamped), NEW f \in Stamped, Rising(q), \A i \in DOMAIN q : q[i].id < f.id
  PROVE  Rising(Append(q, f))
<1> SUFFICES ASSUME NEW i \in DOMAIN Append(q, f), NEW j \in DOMAIN Append(q, f), i < j
             PROVE  Append(q, f)[i].id < Append(q, f)[j].id
  BY DEF Rising
<1>1. i \in DOMAIN q /\ Append(q, f)[i] = q[i] BY Appended, Zenon
<1>2. CASE j \in DOMAIN q /\ Append(q, f)[j] = q[j] BY <1>1, <1>2, Zenon DEF Rising
<1>3. CASE Append(q, f)[j] = f BY <1>1, <1>3, Zenon
<1> QED BY <1>2, <1>3, AddedFrame, Zenon

-----------------------------------------------------------------------------
(* The five things a receive does with a datagram. *)

\* It is new,
LEMMA NewDatagram ==
  ASSUME NEW k \in SUBSET Nat, NEW f \in Stamped, \A m \in k : m < f.id PROVE f.id \notin k
BY StampedIds

\* queued behind the others,
LEMMA PushPlaced ==
  ASSUME NEW q \in Seq(Stamped), NEW r, NEW h, NEW k \in SUBSET Nat, NEW f \in Stamped, \A m \in k : m < f.id,
         Placed(q, r, h, k)
  PROVE  Placed(Append(q, f), r, h, k \cup {f.id})
<1>1. f.id \notin k BY NewDatagram, Zenon
<1>2. Rising(Append(q, f)) BY AppendRises, Zenon DEF Placed
<1>3. \A i \in DOMAIN Append(q, f) : Append(q, f)[i].id \in k \cup {f.id} BY AddedFrame, Zenon DEF Placed
<1>4. ASSUME NEW i \in DOMAIN Append(q, f), NEW j \in DOMAIN r PROVE Append(q, f)[i].id # r[j].id
  <2>1. r[j].id \in k BY Zenon DEF Placed
  <2>2. CASE i \in DOMAIN q /\ Append(q, f)[i] = q[i] BY <2>2, Zenon DEF Placed
  <2>3. CASE Append(q, f)[i] = f BY <1>1, <2>1, <2>3, Zenon
  <2> QED BY <2>2, <2>3, AddedFrame, Zenon
<1>5. ASSUME NEW i \in DOMAIN Append(q, f), h # None PROVE Append(q, f)[i].id # h[1].id
  <2>1. h[1].id \in k BY <1>5, Zenon DEF Placed
  <2>2. CASE i \in DOMAIN q /\ Append(q, f)[i] = q[i] BY <1>5, <2>2, Zenon DEF Placed
  <2>3. CASE Append(q, f)[i] = f BY <1>1, <2>1, <2>3, Zenon
  <2> QED BY <2>2, <2>3, AddedFrame, Zenon
<1> QED BY <1>2, <1>3, <1>4, <1>5, Zenon DEF Placed

\* and so after those of its peer,
LEMMA PushOrdered ==
  ASSUME NEW q \in Seq(Stamped), NEW r, NEW h, NEW k \in SUBSET Nat, NEW f \in Stamped, \A m \in k : m < f.id,
         Placed(q, r, h, k), Ordered(q, r, h)
  PROVE  Ordered(Append(q, f), r, h)
<1>1. ASSUME NEW i \in DOMAIN r, NEW j \in DOMAIN Append(q, f), r[i].ip = Append(q, f)[j].ip
      PROVE  r[i].id < Append(q, f)[j].id
  <2>1. r[i].id < f.id BY Zenon DEF Placed
  <2>2. CASE j \in DOMAIN q /\ Append(q, f)[j] = q[j] BY <1>1, <2>2, Zenon DEF Ordered
  <2>3. CASE Append(q, f)[j] = f BY <2>1, <2>3, Zenon
  <2> QED BY <2>2, <2>3, AddedFrame, Zenon
<1>2. ASSUME NEW j \in DOMAIN Append(q, f), h # None, Append(q, f)[j].ip = h[1].ip
      PROVE  h[1].id < Append(q, f)[j].id
  <2>1. h[1].id < f.id BY <1>2, Zenon DEF Placed
  <2>2. CASE j \in DOMAIN q /\ Append(q, f)[j] = q[j] BY <1>2, <2>2, Zenon DEF Ordered
  <2>3. CASE Append(q, f)[j] = f BY <2>1, <2>3, Zenon
  <2> QED BY <2>2, <2>3, AddedFrame, Zenon
<1> QED BY <1>1, <1>2, Zenon DEF Ordered

\* or dropped,
LEMMA DropPlaced ==
  ASSUME NEW q, NEW r, NEW h, NEW k, NEW x, Placed(q, r, h, k) PROVE Placed(q, r, h, k \cup {x})
BY Zenon DEF Placed

\* or it is the one the call will return,
LEMMA HandPlaced ==
  ASSUME NEW q \in Seq(Stamped), NEW r, NEW k \in SUBSET Nat, NEW f \in Stamped, \A m \in k : m < f.id,
         Placed(q, r, None, k)
  PROVE  Placed(q, r, Some(f), k \cup {f.id})
<1>1. f.id \notin k BY NewDatagram, Zenon
<1>2. Some(f)[1] = f /\ f.id \in k \cup {f.id} BY DEF Some
<1>3. \A i \in DOMAIN q : q[i].id # f.id BY <1>1, Zenon DEF Placed
<1>4. \A i \in DOMAIN r : r[i].id # f.id BY <1>1, Zenon DEF Placed
<1>5. Placed(q, r, None, k \cup {f.id}) BY DropPlaced, Zenon
<1> QED BY <1>2, <1>3, <1>4, <1>5, Zenon DEF Placed

\* when none of its peer waits in the queue;
LEMMA HandOrdered ==
  ASSUME NEW q, NEW r, NEW k, NEW f, \A m \in k : m < f.id, Placed(q, r, None, k), Ordered(q, r, None),
         \A j \in DOMAIN q : q[j].ip # f.ip
  PROVE  Ordered(q, r, Some(f))
<1>1. Some(f)[1] = f BY DEF Some
<1>2. \A i \in DOMAIN r : r[i].id < f.id BY Zenon DEF Placed
<1> QED BY <1>1, <1>2, Zenon DEF Ordered

\* the first of the queue is returned,
LEMMA PopPlaced ==
  ASSUME NEW q \in Seq(Stamped), q # << >>, NEW r \in Seq(Stamped), NEW k, Placed(q, r, None, k)
  PROVE  Placed(Tail(q), Append(r, Head(q)), None, k)
<1> DEFINE a == Append(r, Head(q))
<1>0. Head(q) \in Stamped /\ Head(q) = q[1] /\ 1 \in DOMAIN q BY Popped, Zenon
<1>1. \A i \in DOMAIN a : (i \in DOMAIN r /\ a[i] = r[i]) \/ (i = Len(r) + 1 /\ a[i] = Head(q))
  BY <1>0, Appended, Zenon
<1> HIDE DEF a
<1>2. Rising(Tail(q)) BY TailRises, Zenon DEF Placed
<1>3. ASSUME NEW i \in DOMAIN Tail(q) PROVE Tail(q)[i].id \in k
  <2>1. i + 1 \in DOMAIN q /\ Tail(q)[i] = q[i + 1] BY Popped, Zenon
  <2> QED BY <2>1, Zenon DEF Placed
<1>4. \A i \in DOMAIN a : a[i].id \in k BY <1>0, <1>1, Zenon DEF Placed
<1>5. \A j \in DOMAIN r : Head(q).id # r[j].id BY <1>0, Zenon DEF Placed
<1>6. ASSUME NEW i \in DOMAIN a, NEW j \in DOMAIN a, a[i].id = a[j].id PROVE i = j
  BY <1>1, <1>5, <1>6, Zenon DEF Placed
<1>7. ASSUME NEW i \in DOMAIN Tail(q), NEW j \in DOMAIN a PROVE Tail(q)[i].id # a[j].id
  <2>1. i + 1 \in DOMAIN q /\ Tail(q)[i] = q[i + 1] BY Popped, Zenon
  <2>2. CASE j \in DOMAIN r /\ a[j] = r[j] BY <2>1, <2>2, Zenon DEF Placed
  <2>3. CASE a[j] = Head(q)
    <3>1. Head(q).id < Tail(q)[i].id BY TailRises, Zenon DEF Placed
    <3>2. Head(q).id \in Nat BY <1>0, StampedIds, Zenon
    <3> QED BY <2>3, <3>1, <3>2
  <2> QED BY <1>1, <2>2, <2>3, Zenon
<1>8. Placed(Tail(q), a, None, k) BY <1>2, <1>3, <1>4, <1>6, <1>7, Zenon DEF Placed
<1> QED BY <1>8 DEF a

\* after those of its peer;
LEMMA PopOrdered ==
  ASSUME NEW q \in Seq(Stamped), q # << >>, NEW r \in Seq(Stamped), NEW k, Placed(q, r, None, k),
         Ordered(q, r, None)
  PROVE  Ordered(Tail(q), Append(r, Head(q)), None)
<1> DEFINE a == Append(r, Head(q))
<1>0. Head(q) \in Stamped /\ Head(q) = q[1] /\ 1 \in DOMAIN q BY Popped, Zenon
<1>1. /\ \A i \in DOMAIN a : (i \in DOMAIN r /\ a[i] = r[i]) \/ (i = Len(r) + 1 /\ a[i] = Head(q))
      /\ \A i, j \in DOMAIN a : i < j => i \in DOMAIN r /\ a[i] = r[i]
  BY <1>0, Appended, ZenonT(30)
<1> HIDE DEF a
<1>2. \A i \in DOMAIN r : r[i].ip = Head(q).ip => r[i].id < Head(q).id BY <1>0, Zenon DEF Ordered
<1>3. ASSUME NEW i \in DOMAIN a, NEW j \in DOMAIN a, i < j, a[i].ip = a[j].ip PROVE a[i].id < a[j].id
  <2>1. i \in DOMAIN r /\ a[i] = r[i] BY <1>1, <1>3, Zenon
  <2>2. CASE j \in DOMAIN r /\ a[j] = r[j] BY <1>3, <2>1, <2>2, Zenon DEF Ordered
  <2>3. CASE a[j] = Head(q) BY <1>2, <1>3, <2>1, <2>3, Zenon
  <2> QED BY <1>1, <2>2, <2>3, Zenon
<1>4. ASSUME NEW i \in DOMAIN a, NEW j \in DOMAIN Tail(q), a[i].ip = Tail(q)[j].ip PROVE a[i].id < Tail(q)[j].id
  <2>1. j + 1 \in DOMAIN q /\ Tail(q)[j] = q[j + 1] BY Popped, Zenon
  <2>2. CASE i \in DOMAIN r /\ a[i] = r[i] BY <1>4, <2>1, <2>2, Zenon DEF Ordered
  <2>3. CASE a[i] = Head(q) BY <2>3, TailRises, Zenon DEF Placed
  <2> QED BY <1>1, <2>2, <2>3, Zenon
<1>5. Ordered(Tail(q), a, None) BY <1>3, <1>4, Zenon DEF Ordered
<1> QED BY <1>5 DEF a

\* and the one in hand is returned,
LEMMA GivePlaced ==
  ASSUME NEW q, NEW r \in Seq(Stamped), NEW f \in Stamped, NEW k, Placed(q, r, Some(f), k)
  PROVE  Placed(q, Append(r, f), None, k)
<1>0. Some(f)[1] = f /\ Some(f) # None BY DEF Some, None
<1>1. /\ f.id \in k /\ \A i \in DOMAIN q : q[i].id # f.id
      /\ \A j \in DOMAIN r : r[j].id # f.id
  BY <1>0, Zenon DEF Placed
<1> DEFINE a == Append(r, f)
<1>2. \A i \in DOMAIN a : (i \in DOMAIN r /\ a[i] = r[i]) \/ (i = Len(r) + 1 /\ a[i] = f) BY Appended, ZenonT(30)
<1> HIDE DEF a
<1>3. \A i \in DOMAIN a : a[i].id \in k BY <1>1, <1>2, Zenon DEF Placed
<1>4. ASSUME NEW i \in DOMAIN a, NEW j \in DOMAIN a, a[i].id = a[j].id PROVE i = j
  BY <1>1, <1>2, <1>4, Zenon DEF Placed
<1>5. \A i \in DOMAIN q : \A j \in DOMAIN a : q[i].id # a[j].id BY <1>1, <1>2, Zenon DEF Placed
<1>6. Placed(q, a, None, k) BY <1>3, <1>4, <1>5, Zenon DEF Placed
<1> QED BY <1>6 DEF a

\* before those of its peer in the queue.
LEMMA GiveOrdered ==
  ASSUME NEW q, NEW r \in Seq(Stamped), NEW f \in Stamped, Ordered(q, r, Some(f))
  PROVE  Ordered(q, Append(r, f), None)
<1>0. Some(f)[1] = f /\ Some(f) # None BY DEF Some, None
<1>1. /\ \A i \in DOMAIN r : r[i].ip = f.ip => r[i].id < f.id
      /\ \A j \in DOMAIN q : q[j].ip = f.ip => f.id < q[j].id
  BY <1>0, Zenon DEF Ordered
<1> DEFINE a == Append(r, f)
<1>2. /\ \A i \in DOMAIN a : (i \in DOMAIN r /\ a[i] = r[i]) \/ (i = Len(r) + 1 /\ a[i] = f)
      /\ \A i, j \in DOMAIN a : i < j => i \in DOMAIN r /\ a[i] = r[i]
  BY Appended, ZenonT(30)
<1> HIDE DEF a
<1>3. ASSUME NEW i \in DOMAIN a, NEW j \in DOMAIN a, i < j, a[i].ip = a[j].ip PROVE a[i].id < a[j].id
  <2>1. i \in DOMAIN r /\ a[i] = r[i] BY <1>2, <1>3, Zenon
  <2>2. CASE j \in DOMAIN r /\ a[j] = r[j] BY <1>3, <2>1, <2>2, Zenon DEF Ordered
  <2>3. CASE a[j] = f BY <1>1, <1>3, <2>1, <2>3, Zenon
  <2> QED BY <1>2, <2>2, <2>3, Zenon
<1>4. ASSUME NEW i \in DOMAIN a, NEW j \in DOMAIN q, a[i].ip = q[j].ip PROVE a[i].id < q[j].id
  BY <1>1, <1>2, <1>4, Zenon DEF Ordered
<1>5. Ordered(q, a, None) BY <1>3, <1>4, Zenon DEF Ordered
<1> QED BY <1>5 DEF a

-----------------------------------------------------------------------------
(* The invariant of receiving. *)

\* The steps at which a thread has rx_state; those that handle the frames of a burst; and
\* those in the middle of one frame.
RxPcs == {"burst", "rx_burst", "frame", "learn_lo", "learn_mac", "learn_entry", "handle", "reply", "reply_burst"}
BatchPcs == RxPcs \ {"burst", "rx_burst"}
FramePcs == BatchPcs \ {"frame"}

\* What Cardinality computes.  The prover takes the Cardinality of the library's theorems
\* for another operator than the one of UdpSocket: both are this one.
Count(S) ==
  LET CS[T \in SUBSET S] == IF T = {} THEN 0 ELSE 1 + CS[T \ {CHOOSE x : x \in T}]
  IN  CS[S]
Counting ==
  /\ Count({}) = 0 /\ \A x : Count({x}) = 1
  /\ \A n \in Nat : \A S \in SUBSET (1 .. n) : /\ Count(S) \in Nat
                                               /\ \A x \in Nat \ S : Count(S \cup {x}) = Count(S) + 1

\* The datagrams of socket s that its threads have in hand, and how many they are.
Hands(s) == {None} \cup {th[t].result : t \in {u \in DOMAIN Threads : Sock(u) = s}}
Holds(t) == IF th[t].result # None THEN 1 ELSE 0
Held(s) == IF \E t \in DOMAIN Threads : Sock(t) = s /\ th[t].result # None THEN 1 ELSE 0

\* A thread has frames, and a datagram in hand, only while it handles a burst.
ThreadOK(r) ==
  /\ r.batch \in Seq(Stamped) /\ (r.result = None \/ \E f \in Stamped : r.result = Some(f))
  /\ r.pc \notin BatchPcs => r.batch = << >> /\ r.result = None
  /\ r.pc \in FramePcs => r.batch # << >>
SocketOK(s) ==
  /\ DOMAIN queue[s] = {"packets", "current_bytes", "max_bytes"} /\ queue[s].packets \in Seq(Stamped)
  /\ returned[s] \in Seq(Stamped) /\ drops[s] \in Nat /\ taken[s] \in SUBSET (1 .. arrived)
Shapes == /\ DOMAIN queue = DOMAIN Sockets
          /\ DOMAIN returned = DOMAIN Sockets /\ returned = [s \in DOMAIN Sockets |-> returned[s]]
          /\ DOMAIN drops = DOMAIN Sockets /\ DOMAIN taken = DOMAIN Sockets
RecvTypes ==
  /\ arrived \in Nat /\ nic \in Seq(Stamped) /\ scene \in Scenes /\ Shapes
  /\ \A s \in DOMAIN Sockets : SocketOK(s)
  /\ \A t \in DOMAIN Threads : ThreadOK(th[t])

\* The NIC has its frames in order, and after all that was accepted.
NicInv ==
  /\ Rising(nic)
  /\ \A i \in DOMAIN nic : nic[i].id \in 1 .. arrived /\ \A s \in DOMAIN Sockets : \A m \in taken[s] : m < nic[i].id
FreshInv == \A t \in DOMAIN Threads : Fresh(th[t].batch, taken[Sock(t)], nic, arrived)
PlaceInv ==
  \A s \in DOMAIN Sockets : \A h \in Hands(s) : Placed(queue[s].packets, returned[s], h, taken[s])
CountInv ==
  \A s \in DOMAIN Sockets :
    Count(taken[s]) = Len(queue[s].packets) + Len(returned[s]) + Held(s) + drops[s]
RecvInv == RecvTypes /\ NicInv /\ FreshInv /\ PlaceInv /\ CountInv

\* A receive that polls the NIC found no datagram in the queue that it could have
\* returned, and queues none.
Waiting(t) ==
  th[t].pc \in RxPcs /\ ~Resolving(t) /\ th[t].result = None
    => \A i \in DOMAIN queue[Sock(t)].packets :
         connected_addr[Sock(t)] \notin {None, Some(queue[Sock(t)].packets[i].ip)}
OrderInv ==
  /\ \A s \in DOMAIN Sockets : \A h \in Hands(s) : Ordered(queue[s].packets, returned[s], h)
  /\ \A t \in DOMAIN Threads : Waiting(t)

\* A step that connects no socket to another peer than it is connected to.
NeverReconnects == \A s \in DOMAIN Sockets : connected_addr[s] # None => connected_addr'[s] = connected_addr[s]

-----------------------------------------------------------------------------
(* The kinds of steps. *)

\* Thread t has rx_state, or it is free: no other thread of the socket has frames.
Others(t) == \A u \in DOMAIN Threads \ {t} : th'[u] = th[u]
Alone(t) ==
  \A u \in DOMAIN Threads \ {t} :
    Sock(u) = Sock(t) => th[u].pc \notin RxPcs /\ th[u].batch = << >> /\ th[u].result = None

\* Nothing happens to the datagrams.
SameQueues == /\ DOMAIN queue' = DOMAIN Sockets
              /\ \A s \in DOMAIN Sockets : /\ DOMAIN queue'[s] = {"packets", "current_bytes", "max_bytes"}
                                           /\ queue'[s].packets = queue[s].packets
SameFrames == nic' = nic /\ arrived' = arrived /\ scene' = scene
Still == SameFrames /\ taken' = taken /\ returned' = returned /\ drops' = drops /\ SameQueues

\* Thread t goes on, past a frame that is no datagram for its socket or outside a burst.
Inside(t) == th[t].pc \in BatchPcs /\ th[t].batch # << >> /\ th'[t].call = th[t].call
QuietMove(t) ==
  /\ Others(t) /\ th'[t].result = th[t].result
  /\ \/ Inside(t) /\ th'[t].pc \in BatchPcs /\ th'[t].batch = th[t].batch
     \/ Inside(t) /\ th'[t].pc = "frame" /\ th'[t].batch = Tail(th[t].batch)
     \/ /\ th[t].pc \notin BatchPcs /\ th'[t].pc \notin BatchPcs /\ th'[t].batch = th[t].batch
        /\ th'[t].pc \in RxPcs => /\ th'[t].call = th[t].call
                                  /\ th[t].pc \in RxPcs \/ Resolving(t) \/ queue[Sock(t)].packets = << >>
     \/ th[t].batch = << >> /\ th[t].result = None /\ th'[t].pc \notin RxPcs /\ th'[t].batch = << >>
Quiet(t) == Still /\ QuietMove(t)

\* The socket of t alone changes.
Elsewhere(t) ==
  /\ Others(t) /\ SameFrames
  /\ Shapes'
  /\ \A s \in DOMAIN Sockets \ {Sock(t)} :
       queue'[s] = queue[s] /\ returned'[s] = returned[s] /\ taken'[s] = taken[s] /\ drops'[s] = drops[s]

\* Thread t takes a datagram for its socket: to queue, drop or return.
Accepts(t) ==
  LET s == Sock(t)
      f == Frame(t)
  IN
  /\ Elsewhere(t) /\ Inside(t)
  /\ th'[t].pc = "frame" /\ th'[t].batch = Tail(th[t].batch)
  /\ taken'[s] = taken[s] \cup {f.id} /\ returned'[s] = returned[s]
  /\ \/ /\ ToQueue(t, f) /\ queue'[s] = push_slice(queue[s], f) /\ drops'[s] = drops[s]
        /\ th'[t].result = th[t].result
     \/ ToQueue(t, f) /\ queue'[s] = queue[s] /\ drops'[s] = drops[s] + 1 /\ th'[t].result = th[t].result
     \/ ~ToQueue(t, f) /\ queue'[s] = queue[s] /\ drops'[s] = drops[s] /\ th'[t].result = Some(f)

\* Thread t returns a datagram of the queue,
GivesQueued(t) ==
  LET s == Sock(t) IN
  /\ Elsewhere(t) /\ th[t].pc \notin RxPcs /\ th'[t] = Idle
  /\ queue[s].packets # << >> /\ queue'[s] = pop_into(queue[s])
  /\ returned'[s] = Append(returned[s], Head(queue[s].packets)) /\ taken'[s] = taken[s] /\ drops'[s] = drops[s]

\* or the one in hand.
GivesHand(t) ==
  LET s == Sock(t) IN
  /\ Elsewhere(t) /\ th[t].pc = "frame" /\ th'[t] = Idle /\ th[t].result # None
  /\ queue'[s] = queue[s] /\ taken'[s] = taken[s] /\ drops'[s] = drops[s]
  /\ returned'[s] = returned[s] \o th[t].result

\* Thread t takes frames from the NIC.
Takes(t) ==
  /\ Others(t) /\ arrived' = arrived /\ scene' = scene /\ UNCHANGED <<taken, returned, drops, queue>>
  /\ th[t].pc = "rx_burst" /\ th'[t].pc = "frame" /\ th'[t].call = th[t].call /\ th'[t].result = th[t].result
  /\ \E n \in 0 .. Len(nic) : nic' = SubSeq(nic, n + 1, Len(nic)) /\ th'[t].batch = SubSeq(nic, 1, n)

\* A frame arrives.
Comes ==
  /\ \E f \in Stamped : f.id = arrived + 1 /\ nic' = Append(nic, f)
  /\ arrived' = arrived + 1 /\ scene' = scene /\ th' = th /\ UNCHANGED <<taken, returned, drops, queue>>

Kind ==
  \/ Still /\ th' = th
  \/ Comes
  \/ \E t \in DOMAIN Threads : \/ Quiet(t) \/ Takes(t)
                               \/ Alone(t) /\ (Accepts(t) \/ GivesQueued(t) \/ GivesHand(t))

\* The holder of rx_state is alone, and so is a thread that finds it free.
LEMMA IsAlone ==
  ASSUME LockInv, RecvTypes, NEW t \in DOMAIN Threads, th[t].pc \in RxPcs \/ Free(RxState(Sock(t)))
  PROVE  Alone(t)
<1> SUFFICES ASSUME NEW u \in DOMAIN Threads, u # t, Sock(u) = Sock(t), th[u].pc \in RxPcs PROVE FALSE
  BY Zenon DEF Alone, RecvTypes, ThreadOK, BatchPcs
<1>1. RxState(Sock(t)) \in Locks BY AreLocks, SMTT(30)
<1>2. RxState(Sock(t)) \in Holding(u, th[u].pc) BY <1>1 DEF Holding, RxPcs
<1>3. holder[RxState(Sock(t))] = Some(u) BY <1>1, <1>2, Zenon DEF LockInv
<1>4. CASE th[t].pc \in RxPcs
  <2>1. RxState(Sock(t)) \in Holding(t, th[t].pc) BY <1>1, <1>4 DEF Holding, RxPcs
  <2>2. holder[RxState(Sock(t))] = Some(t) BY <1>1, <2>1, Zenon DEF LockInv
  <2> QED BY <1>3, <2>2, SMTT(30) DEF Some
<1>5. CASE Free(RxState(Sock(t)))
  <2>1. Some(u) # None BY DEF Some, None
  <2> QED BY <1>3, <1>5, <2>1, Zenon DEF Free
<1> QED BY <1>4, <1>5

\* Going to another step of a call,
Kept(t, pc) ==
  /\ Others(t) /\ th'[t].pc = pc /\ th'[t].call = th[t].call
  /\ th'[t].batch = th[t].batch /\ th'[t].result = th[t].result
LEMMA GotoKept == ASSUME LockInv, NEW t \in DOMAIN Threads, NEW pc, Goto(t, pc) PROVE Kept(t, pc)
BY SMTT(30) DEF Goto, Kept, Others, LockInv, Fields

\* returning from it,
LEMMA ReturnIdle ==
  ASSUME LockInv, NEW t \in DOMAIN Threads, Return(t)
  PROVE  Others(t) /\ th'[t] = Idle /\ th'[t].pc = "idle" /\ th'[t].batch = << >> /\ th'[t].result = None
BY DEF Return, Others, LockInv, Idle

\* and taking the next frame.
LEMMA NextKept ==
  ASSUME LockInv, NEW t \in DOMAIN Threads, NEW r, NextFrame(t, r)
  PROVE  /\ Others(t) /\ th'[t].pc = "frame" /\ th'[t].call = th[t].call
         /\ th'[t].batch = Tail(th[t].batch) /\ th'[t].result = r
BY DEF NextFrame, Others, LockInv, Fields

\* A step that leaves the datagrams where they are.
LEMMA StillStands ==
  ASSUME RecvTypes, SameFrames, UNCHANGED <<queue, taken, returned, drops>> PROVE Still
BY DEF Still, SameQueues, RecvTypes, Shapes, SocketOK

\* Giving up, or waiting, outside a burst,
LEMMA WaitsQuiet ==
  ASSUME LockInv, RecvTypes, NEW t \in DOMAIN Threads, RecvTimesOut(t) \/ RxBusy(t) \/ BurstBusy(t) PROVE Quiet(t)
<1>1. /\ th[t].pc \in {"rx_lock", "burst"} /\ Return(t) /\ SameFrames /\ UNCHANGED <<queue, taken, returned, drops>>
  BY DEF RecvTimesOut, RxBusy, BurstBusy, At, SameFrames, nicVars, queueVars, logVars
<1>2. Still BY <1>1, StillStands, Zenon
<1>3. th[t].pc \notin BatchPcs /\ "idle" \notin BatchPcs /\ "idle" \notin RxPcs BY <1>1 DEF BatchPcs, RxPcs
<1>4. th[t].batch = << >> /\ th[t].result = None BY <1>3, Zenon DEF RecvTypes, ThreadOK
<1> QED BY <1>1, <1>2, <1>3, <1>4, ReturnIdle, ZenonT(30) DEF Quiet, QuietMove

\* and taking the locks for one.
LEMMA LocksQuiet ==
  ASSUME LockInv, RecvTypes, NEW t \in DOMAIN Threads, RxLock(t) \/ BurstLock(t) PROVE Quiet(t)
<1>1. SameFrames /\ UNCHANGED <<queue, taken, returned, drops>>
  BY ZenonT(30) DEF RxLock, BurstLock, SameFrames, nicVars, queueVars, logVars
<1>2. Still BY <1>1, StillStands, Zenon
<1>3. /\ th[t].pc \in {"rx_lock", "burst"}
      /\ th[t].pc = "burst" \/ Resolving(t) \/ queue[Sock(t)].packets = << >>
  BY Zenon DEF RxLock, BurstLock, At
<1>4. PICK pc \in {"burst", "rx_burst"} : Kept(t, pc) BY GotoKept, Zenon DEF RxLock, BurstLock
<1>5. th[t].pc \notin BatchPcs /\ pc \notin BatchPcs /\ "burst" \in RxPcs BY <1>3, <1>4 DEF BatchPcs, RxPcs
<1> QED BY <1>2, <1>3, <1>4, <1>5, ZenonT(30) DEF Quiet, QuietMove, Kept

\* Learning from a frame,
LEMMA LearnsQuiet ==
  ASSUME LockInv, RecvTypes, NEW t \in DOMAIN Threads, LearnIp(t) \/ LearnLo(t) \/ LearnMac(t) \/ LearnEntry(t)
  PROVE  Quiet(t)
<1>1. SameFrames /\ UNCHANGED <<queue, taken, returned, drops>>
  BY Zenon DEF LearnIp, LearnLo, LearnMac, LearnEntry, SameFrames, nicVars, queueVars, logVars
<1>2. Still BY <1>1, StillStands, Zenon
<1>3. PICK pc \in {"learn_lo", "learn_mac", "learn_entry", "handle"} : Kept(t, pc)
  BY GotoKept, ZenonT(30) DEF LearnIp, LearnLo, LearnMac, LearnEntry
<1>4. th[t].pc \in FramePcs \/ (th[t].pc = "frame" /\ th[t].batch # << >>)
  BY ZenonT(30) DEF LearnIp, LearnLo, LearnMac, LearnEntry, At, FramePcs, BatchPcs, RxPcs
<1>5. th[t].pc \in BatchPcs /\ pc \in BatchPcs BY <1>3, <1>4 DEF FramePcs, BatchPcs, RxPcs
<1>6. th[t].batch # << >> BY <1>4, Zenon DEF RecvTypes, ThreadOK
<1> QED BY <1>2, <1>3, <1>5, <1>6, Zenon DEF Quiet, QuietMove, Kept, Inside

\* A thread that handles a frame has one.
LEMMA HasFrame ==
  ASSUME RecvTypes, NEW t \in DOMAIN Threads, Handling(t) \/ At(t, "reply") \/ At(t, "reply_burst")
  PROVE  th[t].pc \in BatchPcs /\ th[t].batch # << >>
<1>1. th[t].pc \in FramePcs \/ (th[t].pc = "frame" /\ th[t].batch # << >>)
  BY DEF Handling, At, FramePcs, BatchPcs, RxPcs
<1>2. th[t].pc \in BatchPcs BY <1>1 DEF FramePcs, BatchPcs, RxPcs
<1> QED BY <1>1, <1>2, Zenon DEF RecvTypes, ThreadOK

\* and answering one that is no datagram.
LEMMA RepliesQuiet ==
  ASSUME LockInv, RecvTypes, NEW t \in DOMAIN Threads,
         HandleError(t) \/ HandleControl(t) \/ ReplyLock(t) \/ ReplyBusy(t) \/ ReplyBurst(t)
  PROVE  Quiet(t)
<1>1. SameFrames /\ UNCHANGED <<queue, taken, returned, drops>>
  BY Zenon DEF HandleError, HandleControl, ReplyLock, ReplyBusy, ReplyBurst, SameFrames, nicVars, queueVars, logVars
<1>2. Still BY <1>1, StillStands, Zenon
<1>3. th[t].pc \in BatchPcs /\ th[t].batch # << >>
  BY HasFrame, Zenon DEF HandleError, HandleControl, ReplyLock, ReplyBusy, ReplyBurst
<1>4. (\E pc \in {"reply", "reply_burst"} : Goto(t, pc)) \/ NextFrame(t, th[t].result)
  BY Zenon DEF HandleError, HandleControl, ReplyLock, ReplyBusy, ReplyBurst
<1>5. CASE NextFrame(t, th[t].result)
  BY <1>2, <1>3, <1>5, NextKept, Zenon DEF Quiet, QuietMove, Inside
<1>6. ASSUME NEW pc \in {"reply", "reply_burst"}, Goto(t, pc) PROVE Quiet(t)
  <2>1. pc \in BatchPcs BY <1>6 DEF BatchPcs, RxPcs
  <2>2. Kept(t, pc) BY <1>6, GotoKept, Zenon
  <2> QED BY <1>2, <1>3, <2>1, <2>2, Zenon DEF Quiet, QuietMove, Kept, Inside
<1> QED BY <1>4, <1>5, <1>6, Zenon

\* Everything that is no receive is outside a burst.
LEMMA OutsideQuiet ==
  ASSUME RecvTypes, NEW t \in DOMAIN Threads, Still, Others(t), th[t].pc \notin BatchPcs, th'[t].pc \notin RxPcs,
         (th'[t].batch = th[t].batch /\ th'[t].result = th[t].result)
           \/ (th'[t].batch = << >> /\ th'[t].result = None)
  PROVE  Quiet(t)
<1>1. th[t].batch = << >> /\ th[t].result = None BY Zenon DEF RecvTypes, ThreadOK
<1> QED BY <1>1, Zenon DEF Quiet, QuietMove

\* Sending,
LEMMA SendsQuiet == ASSUME LockInv, RecvTypes, NEW t \in DOMAIN Threads, Send(t) PROVE Quiet(t)
<1>1. SameFrames /\ UNCHANGED <<queue, taken, returned, drops>>
  BY DEF Send, LookFast, LookLo, LookMac, LookEntry, RequestLock, RequestBusy, RequestBurst, TxLock,
     TxBusy, TxQueueLock, tx_burst, RecordSend, SameFrames, nicVars, queueVars, logVars
<1>2. Still BY <1>1, StillStands, Zenon
<1>3. th[t].pc \in {"look", "look_lo", "look_mac", "look_entry", "request", "request_burst", "tx_lock", "tx", "tx_burst", "sent"}
  BY DEF Send, LookFast, LookLo, LookMac, LookEntry, RequestLock, RequestBusy, RequestBurst, TxLock,
     TxBusy, TxQueueLock, tx_burst, RecordSend, At
<1>4. th[t].pc \notin BatchPcs BY <1>3 DEF BatchPcs, RxPcs
<1>5. ASSUME NEW pc \in {"look_lo", "look_mac", "look_entry", "request_burst", "tx_lock", "rx_lock", "tx", "tx_burst", "sent"},
             Goto(t, pc)
      PROVE Quiet(t)
  <2>1. Kept(t, pc) BY <1>5, GotoKept, Zenon
  <2>2. pc \notin RxPcs BY <1>5 DEF RxPcs
  <2> QED BY <1>2, <1>4, <2>1, <2>2, OutsideQuiet, Zenon DEF Kept
<1>6. CASE Return(t)
  <2>1. "idle" \notin RxPcs BY DEF RxPcs
  <2> QED BY <1>2, <1>4, <1>6, <2>1, ReturnIdle, OutsideQuiet, Zenon
<1>7. CASE LookMac(t) \/ (LookFast(t) /\ V6(t))
  <2>1. PICK pc \in {"look_lo", "tx_lock"} : Kept(t, pc)
    BY <1>7 DEF LookFast, LookMac, Kept, Others, LockInv, Fields
  <2>2. pc \notin RxPcs BY <2>1 DEF RxPcs
  <2> QED BY <1>2, <1>4, <2>1, <2>2, OutsideQuiet, Zenon DEF Kept
<1>8. CASE LookEntry(t)
  <2>1. Others(t) BY <1>8 DEF LookEntry, Others, LockInv
  <2>2. th'[t].pc \in {"tx_lock", "request", "rx_lock", "idle"} BY <1>8 DEF LookEntry, LockInv, Fields, Idle
  <2>3. th'[t].pc \notin RxPcs BY <2>2 DEF RxPcs
  <2>4. (th'[t].batch = th[t].batch /\ th'[t].result = th[t].result) \/ th'[t] = Idle
    <3>1. CASE SlowHit(Cache(t), Key(t)) BY <1>8, <3>1 DEF LookEntry, LockInv, Fields
    <3>2. CASE ~SlowHit(Cache(t), Key(t)) /\ V6(t) BY <1>8, <3>2 DEF LookEntry, LockInv, Fields
    <3>3. CASE ~SlowHit(Cache(t), Key(t)) /\ ~V6(t) BY <1>8, <3>3, SMTT(30) DEF LookEntry, LockInv, Fields
    <3> QED BY <3>1, <3>2, <3>3, Zenon
  <2>5. Idle.batch = << >> /\ Idle.result = None BY DEF Idle
  <2> QED BY <1>2, <1>4, <2>1, <2>3, <2>4, <2>5, OutsideQuiet, Zenon
<1> QED BY <1>5, <1>6, <1>7, <1>8, ZenonT(30) DEF LookFast, Send, LookLo, RequestLock, RequestBusy, RequestBurst, TxLock, TxBusy, TxQueueLock,
           tx_burst, RecordSend

\* the other calls,
LEMMA OthersQuiet == ASSUME LockInv, RecvTypes, NEW t \in DOMAIN Threads, Other(t) PROVE Quiet(t)
<1>1. SameFrames /\ UNCHANGED <<taken, returned, drops>>
  BY SMTT(30) DEF Other, connect, take_error, set_recv_buffer_size, add_arp_entry, remove, Purge, SameFrames, nicVars,
     queueVars, logVars
<1>2. SameQueues
  <2>1. CASE queue' = queue BY <2>1 DEF SameQueues, RecvTypes, Shapes, SocketOK
  <2>2. CASE set_recv_buffer_size(t) BY <2>2 DEF set_recv_buffer_size, SameQueues, RecvTypes, Shapes, SocketOK
  <2> QED BY <2>1, <2>2 DEF Other, connect, take_error, add_arp_entry, remove, Purge, queueVars
<1>3. Still BY <1>1, <1>2 DEF Still
<1>4. th[t].pc \in {"connect", "connect2", "connect3", "connect4", "take_error", "pop_error", "set_recv_buffer_size",
                    "add_arp_entry", "add_mac", "add_entry", "remove", "remove_ip", "remove_mac", "remove_entry", "purge_expired"}
  BY DEF Other, connect, take_error, set_recv_buffer_size, add_arp_entry, remove, Purge, At
<1>5. th[t].pc \notin BatchPcs BY <1>4 DEF BatchPcs, RxPcs
<1>6. ASSUME NEW pc \in {"connect2", "connect3", "connect4", "pop_error", "add_mac", "add_entry", "remove_ip", "remove_mac", "remove_entry"},
             Goto(t, pc)
      PROVE Quiet(t)
  <2>1. Kept(t, pc) BY <1>6, GotoKept, Zenon
  <2>2. pc \notin RxPcs BY <1>6, SMTT(30) DEF RxPcs
  <2> QED BY <1>3, <1>5, <2>1, <2>2, OutsideQuiet, Zenon DEF Kept
<1>7. CASE Return(t)
  <2>1. "idle" \notin RxPcs BY DEF RxPcs
  <2> QED BY <1>3, <1>5, <1>7, <2>1, ReturnIdle, OutsideQuiet, Zenon
<1> QED BY <1>6, <1>7, SMTT(30) DEF Other, connect, take_error, set_recv_buffer_size, add_arp_entry, remove, Purge

\* and the beginning of a call.
LEMMA CallQuiet == ASSUME SocketInv, RecvTypes, NEW t \in DOMAIN Threads, Call(t) PROVE Quiet(t)
<1> DEFINE c == Head(todo[t])
<1>0. LockInv /\ c.op \in Calls BY FirstCall, Zenon DEF SocketInv, Call
<1>1. SameFrames /\ UNCHANGED <<queue, taken, returned, drops>>
  BY SMTT(30) DEF Call, SameFrames, nicVars, queueVars, logVars
<1>2. Still BY <1>1, StillStands, Zenon
<1>3. th[t].pc \notin BatchPcs /\ th[t].pc \notin RxPcs BY DEF Call, At, BatchPcs, RxPcs
<1>4. CASE Refused(t, c)
  <2>1. th' = th BY <1>4 DEF Call
  <2> QED BY <1>2, <1>3, <2>1, OutsideQuiet DEF Others
<1>5. CASE ~Refused(t, c)
  <2> DEFINE q == CASE c.op \in {"recv", "try", "nb"} -> "rx_lock"
                    [] c.op = "send" -> IF c.dst = BROADCAST THEN "tx_lock" ELSE "look"
                    [] OTHER -> c.op
  <2>1. Others(t) /\ th'[t].pc = q /\ th'[t].batch = th[t].batch /\ th'[t].result = th[t].result
    BY <1>0, <1>5 DEF Call, Others, LockInv, Fields
  <2>2. q \notin RxPcs BY <1>0 DEF RxPcs, Calls
  <2> HIDE DEF q
  <2> QED BY <1>2, <1>3, <2>1, <2>2, OutsideQuiet, Zenon
<1> QED BY <1>4, <1>5

\* A datagram that is not for the socket is passed over, any other is accepted.
LEMMA DatagramKind ==
  ASSUME LockInv, RecvTypes, NEW t \in DOMAIN Threads, HandleDatagram(t) PROVE Quiet(t) \/ (Alone(t) /\ Accepts(t))
<1> DEFINE s == Sock(t)
           f == Frame(t)
<1>0. s \in DOMAIN Sockets BY CallsAssumption DEF Sock
<1>1. th[t].pc \in BatchPcs /\ th[t].batch # << >> BY HasFrame, Zenon DEF HandleDatagram
<1>2. SameFrames /\ returned' = returned BY Zenon DEF HandleDatagram, SameFrames, nicVars, logVars
<1>3. PICK r : NextFrame(t, r) BY Zenon DEF HandleDatagram
<1>4. /\ Others(t) /\ th'[t].pc = "frame" /\ th'[t].call = th[t].call
      /\ th'[t].batch = Tail(th[t].batch) /\ th'[t].result = r
  BY <1>3, NextKept, Zenon
<1>5. CASE ~Mine(t, f)
  <2>1. UNCHANGED <<queue, taken, returned, drops>> /\ NextFrame(t, th[t].result)
    BY <1>2, <1>5, Zenon DEF HandleDatagram, queueVars
  <2>2. Still BY <1>2, <2>1, StillStands, Zenon
  <2>3. th'[t].result = th[t].result BY <2>1, NextKept, Zenon
  <2> QED BY <1>1, <1>4, <2>2, <2>3, Zenon DEF Quiet, QuietMove, Inside
<1>6. CASE Mine(t, f)
  <2>1. Alone(t)
    <3>1. th[t].pc \in RxPcs BY <1>1 DEF BatchPcs
    <3> QED BY <3>1, IsAlone, Zenon
  <2>2. taken' = [taken EXCEPT ![s] = taken[s] \cup {f.id}] BY <1>6, Zenon DEF HandleDatagram
  <2>3. CASE ToQueue(t, f)
    <3>1. th'[t].result = th[t].result BY <1>6, <2>3, NextKept, Zenon DEF HandleDatagram
    <3>2. rx_enqueue(s, f) BY <1>6, <2>3, Zenon DEF HandleDatagram
    <3>3. \/ queue' = [queue EXCEPT ![s] = push_slice(queue[s], f)] /\ drops' = drops
          \/ queue' = queue /\ drops' = [drops EXCEPT ![s] = drops[s] + 1]
      BY <3>2, Zenon DEF rx_enqueue, record_rx_drop
    <3> HIDE DEF f
    <3>4. Elsewhere(t) BY <1>0, <1>2, <1>4, <2>2, <3>3, SMTT(30) DEF Elsewhere, RecvTypes, Shapes
    <3>5. /\ taken'[s] = taken[s] \cup {f.id}
          /\ (queue'[s] = push_slice(queue[s], f) /\ drops'[s] = drops[s])
                \/ (queue'[s] = queue[s] /\ drops'[s] = drops[s] + 1)
      BY <1>0, <2>2, <3>3 DEF RecvTypes, Shapes
    <3>6. Accepts(t) BY <1>1, <1>2, <1>4, <2>3, <3>1, <3>4, <3>5, Zenon DEF Accepts, Inside, f
    <3> QED BY <2>1, <3>6
  <2>4. CASE ~ToQueue(t, f)
    <3>1. NextFrame(t, Some(f)) /\ queue' = queue /\ drops' = drops BY <1>6, <2>4, Zenon DEF HandleDatagram
    <3>2. th'[t].result = Some(f) BY <3>1, NextKept, Zenon
    <3> HIDE DEF f
    <3>3. Elsewhere(t) BY <1>0, <1>2, <1>4, <2>2, <3>1, SMTT(30) DEF Elsewhere, RecvTypes, Shapes
    <3>4. taken'[s] = taken[s] \cup {f.id} BY <1>0, <2>2 DEF RecvTypes, Shapes
    <3>5. Accepts(t) BY <1>1, <1>2, <1>4, <2>4, <3>1, <3>2, <3>3, <3>4, Zenon DEF Accepts, Inside, f
    <3> QED BY <2>1, <3>5
  <2> QED BY <2>3, <2>4
<1> QED BY <1>5, <1>6

\* The first of the queue is returned while rx_state is free.
LEMMA BufferedKind ==
  ASSUME LockInv, RecvTypes, NEW t \in DOMAIN Threads, RecvBuffered(t) PROVE Alone(t) /\ GivesQueued(t)
<1> DEFINE s == Sock(t)
<1>0. s \in DOMAIN Sockets BY CallsAssumption DEF Sock
<1>1. /\ th[t].pc = "rx_lock" /\ Free(RxState(s)) /\ queue[s].packets # << >> /\ Return(t) /\ SameFrames
      /\ queue' = [queue EXCEPT ![s] = pop_into(queue[s])] /\ drops' = drops /\ taken' = taken
      /\ returned' = [returned EXCEPT ![s] = Append(returned[s], Head(queue[s].packets))]
  BY DEF RecvBuffered, At, rx_dequeue_into, SameFrames, nicVars
<1>2. Alone(t) BY <1>1, IsAlone, ZenonT(30)
<1>3. th[t].pc \notin RxPcs BY <1>1 DEF RxPcs
<1>4. Others(t) /\ th'[t] = Idle BY <1>1, ReturnIdle, Zenon
<1>5. Elsewhere(t) BY <1>0, <1>1, <1>4, Zenon DEF Elsewhere, RecvTypes, Shapes
<1>6. queue'[s] = pop_into(queue[s]) /\ returned'[s] = Append(returned[s], Head(queue[s].packets))
  BY <1>0, <1>1 DEF RecvTypes, Shapes
<1> QED BY <1>1, <1>2, <1>3, <1>4, <1>5, <1>6, ZenonT(30) DEF GivesQueued

\* The end of a burst.
LEMMA BatchKind ==
  ASSUME LockInv, RecvTypes, NEW t \in DOMAIN Threads, BatchDone(t) PROVE Quiet(t) \/ (Alone(t) /\ GivesHand(t))
<1> DEFINE s == Sock(t)
           r == th[t].result
<1>0. s \in DOMAIN Sockets BY CallsAssumption DEF Sock
<1>1. /\ th[t].pc = "frame" /\ th[t].batch = << >> /\ SameFrames /\ UNCHANGED <<queue, taken, drops>>
      /\ returned' = [returned EXCEPT ![s] = returned[s] \o r]
  BY DEF BatchDone, At, SameFrames, nicVars, queueVars
<1>2. CASE r = None
  <2>1. returned[s] \o r = returned[s] BY <1>0, <1>2 DEF None, RecvTypes, SocketOK
  <2>2. returned' = returned
    <3> HIDE DEF s, r
    <3> QED BY <1>0, <1>1, <2>1 DEF RecvTypes, Shapes
  <2>3. Still BY <1>1, <2>2, StillStands, Zenon
  <2>4. Return(t) \/ Goto(t, "look") \/ Goto(t, "rx_lock") BY Zenon DEF BatchDone
  <2>5. "idle" \notin RxPcs /\ "look" \notin RxPcs /\ "rx_lock" \notin RxPcs BY DEF RxPcs
  <2>6. Others(t) /\ th'[t].pc \notin RxPcs /\ th'[t].batch = << >> /\ th'[t].result = None
    BY <1>1, <1>2, <2>4, <2>5, ReturnIdle, GotoKept, ZenonT(30) DEF Kept
  <2> QED BY <1>1, <1>2, <2>3, <2>6, ZenonT(30) DEF Quiet, QuietMove
<1>3. CASE r # None
  <2>1. Return(t) BY <1>3 DEF BatchDone
  <2>2. Others(t) /\ th'[t] = Idle BY <2>1, ReturnIdle, Zenon
  <2>3. Elsewhere(t) BY <1>0, <1>1, <2>2, Zenon DEF Elsewhere, RecvTypes, Shapes
  <2>4. returned'[s] = returned[s] \o r BY <1>0, <1>1 DEF RecvTypes, Shapes
  <2>5. th[t].pc \in RxPcs BY <1>1 DEF RxPcs
  <2>6. Alone(t) BY <2>5, IsAlone, Zenon
  <2> QED BY <1>1, <1>3, <2>2, <2>3, <2>4, <2>6, Zenon DEF GivesHand
<1> QED BY <1>2, <1>3, ZenonT(30)

\* A burst.
LEMMA BurstKind == ASSUME LockInv, RecvTypes, NEW t \in DOMAIN Threads, rx_burst(t) PROVE Takes(t)
<1> DEFINE n == IF Len(nic) < MaxBurst THEN Len(nic) ELSE MaxBurst
<1>1. n \in 0 .. Len(nic) BY FramesAssumption DEF RecvTypes
<1>2. nic' = SubSeq(nic, n + 1, Len(nic)) BY DEF rx_burst
<1>3. /\ Others(t) /\ th[t].pc = "rx_burst" /\ th'[t].pc = "frame" /\ th'[t].call = th[t].call
      /\ th'[t].result = th[t].result /\ th'[t].batch = SubSeq(nic, 1, n)
  BY DEF rx_burst, At, Others, LockInv, Fields
<1>4. arrived' = arrived /\ scene' = scene /\ UNCHANGED <<taken, returned, drops, queue>>
  BY DEF rx_burst, queueVars, logVars
<1> HIDE DEF n
<1> QED BY <1>1, <1>2, <1>3, <1>4, Zenon DEF Takes

\* Every step is of one of the kinds.
LEMMA EveryKind == ASSUME SocketInv, RecvTypes, Next PROVE Kind
<1>0. LockInv BY DEF SocketInv
<1>1. CASE Arrive
  <2>1. PICK f \in scene.frames : nic' = Append(nic, [f EXCEPT !.id = arrived + 1]) BY <1>1, Zenon DEF Arrive
  <2>2. scene \in Scenes /\ arrived + 1 \in Nat BY DEF RecvTypes
  <2>3. [f EXCEPT !.id = arrived + 1].id = arrived + 1 BY <2>2, FramesAssumption
  <2>4. [f EXCEPT !.id = arrived + 1] \in Stamped BY <2>1, <2>2, AreStamped, ZenonT(30)
  <2>5. arrived' = arrived + 1 /\ scene' = scene /\ th' = th /\ UNCHANGED <<taken, returned, drops, queue>>
    BY <1>1 DEF Arrive, queueVars, logVars
  <2> QED BY <2>1, <2>3, <2>4, <2>5, Zenon DEF Kind, Comes
<1>2. CASE Expire
  <2>1. th' = th /\ SameFrames /\ UNCHANGED <<queue, taken, returned, drops>>
    BY <1>2 DEF Expire, SameFrames, nicVars, queueVars, logVars
  <2> QED BY <2>1, StillStands, ZenonT(30) DEF Kind
<1>3. ASSUME NEW t \in DOMAIN Threads, Call(t) PROVE Kind BY <1>3, CallQuiet, Zenon DEF Kind
<1>4. ASSUME NEW t \in DOMAIN Threads, Receive(t) PROVE Kind
  <2>1. Quiet(t) \/ Takes(t) \/ (Alone(t) /\ (Accepts(t) \/ GivesQueued(t) \/ GivesHand(t)))
    BY <1>0, <1>4, WaitsQuiet, LocksQuiet, LearnsQuiet, RepliesQuiet, DatagramKind, BufferedKind, BatchKind,
       BurstKind, Zenon DEF Receive
  <2> QED BY <2>1, Zenon DEF Kind
<1>5. ASSUME NEW t \in DOMAIN Threads, Send(t) \/ Other(t) PROVE Kind
  BY <1>0, <1>5, SendsQuiet, OthersQuiet, Zenon DEF Kind
<1> QED BY <1>1, <1>2, <1>3, <1>4, <1>5, Zenon DEF Next, Step

-----------------------------------------------------------------------------
(* Every kind of step keeps the invariant. *)

\* The frames left of a burst.
LEMMA TailFresh ==
  ASSUME NEW b \in Seq(Stamped), b # << >>, NEW k, NEW frames, NEW n, Fresh(b, k, frames, n)
  PROVE  Fresh(Tail(b), k, frames, n)
<1>1. Rising(Tail(b)) BY TailRises, Zenon DEF Fresh
<1>2. \A i \in DOMAIN Tail(b) : \E j \in DOMAIN b : Tail(b)[i] = b[j] BY Popped, Zenon
<1> QED BY <1>1, <1>2, Zenon DEF Fresh

\* They are also after the first of it, once that is accepted.
LEMMA TailFresher ==
  ASSUME NEW b \in Seq(Stamped), b # << >>, NEW k, NEW frames, NEW n, Fresh(b, k, frames, n)
  PROVE  Fresh(Tail(b), k \cup {Head(b).id}, frames, n)
<1>1. Fresh(Tail(b), k, frames, n) BY TailFresh, Zenon
<1>2. \A i \in DOMAIN Tail(b) : Head(b).id < Tail(b)[i].id BY TailRises, Zenon DEF Fresh
<1> QED BY <1>1, <1>2, Zenon DEF Fresh

\* An empty burst.
LEMMA NoneFresh == ASSUME NEW k, NEW frames, NEW n PROVE Fresh(<< >>, k, frames, n)
BY DEF Fresh, Rising

\* A step that moves no datagram.
LEMMA SameResults ==
  ASSUME Still, \A u \in DOMAIN Threads : th'[u].result = th[u].result
  PROVE  /\ \A s \in DOMAIN Sockets : Hands(s)' = Hands(s) /\ Held(s)' = Held(s)
         /\ (PlaceInv => PlaceInv') /\ (CountInv => CountInv')
<1>1. ASSUME NEW s \in DOMAIN Sockets PROVE Hands(s)' = Hands(s) /\ Held(s)' = Held(s) BY DEF Hands, Held, Sock
<1>2. ASSUME NEW s \in DOMAIN Sockets
      PROVE  queue'[s].packets = queue[s].packets /\ returned'[s] = returned[s] /\ taken'[s] = taken[s] /\ drops'[s] = drops[s]
  BY DEF Still, SameQueues
<1>3. ASSUME PlaceInv PROVE PlaceInv'
  <2> SUFFICES ASSUME NEW s \in DOMAIN Sockets, NEW h \in Hands(s)'
               PROVE  Placed(queue'[s].packets, returned'[s], h, taken'[s])
    BY DEF PlaceInv
  <2>1. Placed(queue[s].packets, returned[s], h, taken[s]) BY <1>1, <1>3, Zenon DEF PlaceInv
  <2> QED BY <1>2, <2>1, Zenon
<1>4. ASSUME CountInv PROVE CountInv'
  <2> SUFFICES ASSUME NEW s \in DOMAIN Sockets
               PROVE  Count(taken'[s]) = Len(queue'[s].packets) + Len(returned'[s]) + Held(s)' + drops'[s]
    BY Zenon DEF CountInv
  <2>1. Count(taken[s]) = Len(queue[s].packets) + Len(returned[s]) + Held(s) + drops[s] BY <1>4, Zenon DEF CountInv
  <2> QED BY <1>1, <1>2, <2>1, Zenon
<1> QED BY <1>1, <1>3, <1>4, ZenonT(30)

\* The types after such a step.
LEMMA StillTypes ==
  ASSUME RecvTypes, Still, \A u \in DOMAIN Threads : ThreadOK(th'[u]) PROVE RecvTypes'
<1>1. arrived' \in Nat /\ nic' \in Seq(Stamped)' /\ scene' \in Scenes
  BY DEF RecvTypes, Still, SameFrames, Stamped
<1>2. Shapes' BY SMTT(30) DEF RecvTypes, Still, SameQueues, Shapes
<1>3. \A s \in DOMAIN Sockets : SocketOK(s)' BY DEF RecvTypes, SocketOK, Still, SameFrames, SameQueues
<1> QED BY <1>1, <1>2, <1>3, SMTT(30) DEF RecvTypes

\* A quiet move keeps the shape of a thread.
LEMMA QuietThread ==
  ASSUME NEW t \in DOMAIN Threads, ThreadOK(th[t]), QuietMove(t) PROVE ThreadOK(th'[t])
<1>0. "frame" \notin FramePcs /\ "frame" \in BatchPcs /\ FramePcs \subseteq BatchPcs /\ BatchPcs \subseteq RxPcs
  BY DEF FramePcs, BatchPcs, RxPcs
<1>1. << >> \in Seq(Stamped) OBVIOUS
<1>2. th[t].batch # << >> => Tail(th[t].batch) \in Seq(Stamped) BY Popped, Zenon DEF ThreadOK
<1> QED BY <1>0, <1>1, <1>2, Zenon DEF ThreadOK, QuietMove, Inside

\* Quiet steps.
LEMMA QuietRecv == ASSUME RecvInv, NEW t \in DOMAIN Threads, Quiet(t) PROVE RecvInv'
<1>0. RecvTypes /\ NicInv /\ FreshInv /\ PlaceInv /\ CountInv /\ Still /\ QuietMove(t) BY DEF RecvInv, Quiet
<1>1. \A u \in DOMAIN Threads : th'[u].result = th[u].result BY <1>0, Zenon DEF QuietMove, Others
<1>2. \A u \in DOMAIN Threads : ThreadOK(th'[u]) BY <1>0, QuietThread, Zenon DEF QuietMove, Others, RecvTypes
<1>3. RecvTypes' BY <1>0, <1>2, StillTypes, Zenon
<1>4. NicInv' BY <1>0, Zenon DEF NicInv, Still, SameFrames, Rising
<1>5. ASSUME NEW u \in DOMAIN Threads PROVE Fresh(th'[u].batch, taken[Sock(u)], nic, arrived)
  <2>1. Fresh(th[u].batch, taken[Sock(u)], nic, arrived) BY <1>0, Zenon DEF FreshInv
  <2>2. CASE th'[u].batch = th[u].batch BY <2>1, <2>2, Zenon
  <2>3. CASE th[u].batch # << >> /\ th'[u].batch = Tail(th[u].batch)
    <3>1. th[u].batch \in Seq(Stamped) BY <1>0, Zenon DEF RecvTypes, ThreadOK
    <3> QED BY <2>1, <2>3, <3>1, TailFresh, Zenon
  <2>4. CASE th'[u].batch = << >> BY <2>4, NoneFresh, Zenon
  <2> QED BY <1>0, <2>2, <2>3, <2>4, Zenon DEF QuietMove, Others, Inside
<1>6. FreshInv'
  <2>1. nic' = nic /\ arrived' = arrived /\ taken' = taken BY <1>0, Zenon DEF Still, SameFrames
  <2>2. ASSUME NEW u \in DOMAIN Threads PROVE Fresh(th'[u].batch, taken'[Sock(u)], nic', arrived')
    BY <1>5, <2>1, Zenon
  <2> QED BY <2>2, Zenon DEF FreshInv, Sock
<1>7. PlaceInv' /\ CountInv' BY <1>0, <1>1, SameResults, Zenon
<1> QED BY <1>3, <1>4, <1>6, <1>7, Zenon DEF RecvInv

\* A frame arrives.
LEMMA ComesRecv == ASSUME RecvInv, Comes PROVE RecvInv'
<1>0. RecvTypes /\ NicInv /\ FreshInv /\ PlaceInv /\ CountInv BY DEF RecvInv
<1>1. PICK f \in Stamped : f.id = arrived + 1 /\ nic' = Append(nic, f) BY Zenon DEF Comes
<1>2. /\ arrived \in Nat /\ arrived' = arrived + 1 /\ scene' = scene /\ th' = th
      /\ taken' = taken /\ returned' = returned /\ drops' = drops /\ queue' = queue /\ nic \in Seq(Stamped)
  BY <1>0 DEF Comes, RecvTypes
<1>3. /\ Append(nic, f) \in Seq(Stamped)
      /\ \A i \in DOMAIN Append(nic, f) : (i \in DOMAIN nic /\ Append(nic, f)[i] = nic[i]) \/ Append(nic, f)[i] = f
  BY <1>2, Appended, ZenonT(30)
<1>4. \A m \in 1 .. arrived : m \in 1 .. arrived' /\ m < arrived + 1 BY <1>2
<1>5. arrived' \in Nat /\ arrived + 1 \in 1 .. arrived' BY <1>2
<1>6. RecvTypes'
  <2>1. \A s \in DOMAIN Sockets : taken[s] \in SUBSET (1 .. arrived') BY <1>0, <1>4, Zenon DEF RecvTypes, SocketOK
  <2>2. \A s \in DOMAIN Sockets : SocketOK(s)' BY <1>0, <1>2, <2>1, Zenon DEF SocketOK, RecvTypes
  <2>3. \A t \in DOMAIN Threads : ThreadOK(th'[t]) BY <1>0, <1>2, Zenon DEF RecvTypes
  <2>4. Shapes' BY <1>0, <1>2, Zenon DEF Shapes, RecvTypes
  <2>5. scene' \in Scenes BY <1>0, <1>2, Zenon DEF RecvTypes
  <2> QED BY <1>1, <1>3, <1>5, <2>2, <2>3, <2>4, <2>5, Zenon DEF RecvTypes
<1>7. NicInv'
  <2>1. Rising(Append(nic, f))
    <3>1. \A i \in DOMAIN nic : nic[i].id < f.id BY <1>0, <1>1, <1>4, Zenon DEF NicInv
    <3> QED BY <1>0, <1>2, <3>1, AppendRises, Zenon DEF NicInv
  <2>2. ASSUME NEW i \in DOMAIN Append(nic, f)
        PROVE  /\ Append(nic, f)[i].id \in 1 .. arrived'
               /\ \A s \in DOMAIN Sockets : \A m \in taken'[s] : m < Append(nic, f)[i].id
    <3>1. CASE i \in DOMAIN nic /\ Append(nic, f)[i] = nic[i] BY <1>0, <1>2, <1>4, <3>1, Zenon DEF NicInv
    <3>2. CASE Append(nic, f)[i] = f
      <4>1. \A s \in DOMAIN Sockets : \A m \in taken'[s] : m \in 1 .. arrived BY <1>0, <1>2, Zenon DEF RecvTypes, SocketOK
      <4> QED BY <1>1, <1>4, <1>5, <3>2, <4>1, Zenon
    <3> QED BY <1>3, <3>1, <3>2, Zenon
  <2> QED BY <1>1, <2>1, <2>2, Zenon DEF NicInv, Rising
<1>8. FreshInv'
  <2> SUFFICES ASSUME NEW t \in DOMAIN Threads PROVE Fresh(th'[t].batch, taken'[Sock(t)], nic', arrived')
    BY Zenon DEF FreshInv, Sock
  <2>1. Fresh(th[t].batch, taken[Sock(t)], nic, arrived) BY <1>0, Zenon DEF FreshInv
  <2>2. ASSUME NEW i \in DOMAIN th[t].batch, NEW j \in DOMAIN nic' PROVE th[t].batch[i].id < nic'[j].id
    <3>1. th[t].batch[i].id < arrived + 1 BY <1>4, <2>1, Zenon DEF Fresh
    <3> QED BY <1>1, <1>3, <2>1, <3>1, Zenon DEF Fresh
  <2> QED BY <1>2, <1>4, <2>1, <2>2, Zenon DEF Fresh
<1>9. PlaceInv' BY <1>0, <1>2, Zenon DEF PlaceInv, Hands, Sock
<1>10. CountInv'
  <2>1. \A s \in DOMAIN Sockets : Held(s)' = Held(s) BY <1>2, Zenon DEF Held, Sock
  <2> QED BY <1>0, <1>2, <2>1, Zenon DEF CountInv
<1> QED BY <1>6, <1>7, <1>8, <1>9, <1>10, Zenon DEF RecvInv

\* The two parts of a sequence.
LEMMA Parts ==
  ASSUME NEW S, NEW q \in Seq(S), NEW n \in 0 .. Len(q)
  PROVE  /\ SubSeq(q, 1, n) \in Seq(S) /\ SubSeq(q, n + 1, Len(q)) \in Seq(S)
         /\ \A i \in DOMAIN SubSeq(q, 1, n) : i \in DOMAIN q /\ i <= n /\ SubSeq(q, 1, n)[i] = q[i]
         /\ \A j \in DOMAIN SubSeq(q, n + 1, Len(q)) : /\ n + j \in DOMAIN q /\ n < n + j
                                                       /\ SubSeq(q, n + 1, Len(q))[j] = q[n + j]
OBVIOUS

\* A burst.
LEMMA TakesRecv == ASSUME RecvInv, NEW t \in DOMAIN Threads, Takes(t), Alone(t) PROVE RecvInv'
<1>0. RecvTypes /\ NicInv /\ FreshInv /\ PlaceInv /\ CountInv BY DEF RecvInv
<1>1. PICK n \in 0 .. Len(nic) : nic' = SubSeq(nic, n + 1, Len(nic)) /\ th'[t].batch = SubSeq(nic, 1, n)
  BY ZenonT(30) DEF Takes
<1>2. /\ arrived' = arrived /\ scene' = scene /\ taken' = taken /\ returned' = returned /\ drops' = drops
      /\ queue' = queue /\ th[t].pc = "rx_burst" /\ th'[t].pc = "frame" /\ th'[t].result = th[t].result
  BY DEF Takes
<1>3. nic \in Seq(Stamped) BY <1>0 DEF RecvTypes
<1>4. /\ th'[t].batch \in Seq(Stamped) /\ nic' \in Seq(Stamped)
      /\ \A i \in DOMAIN th'[t].batch : i \in DOMAIN nic /\ i <= n /\ th'[t].batch[i] = nic[i]
      /\ \A j \in DOMAIN nic' : n + j \in DOMAIN nic /\ n < n + j /\ nic'[j] = nic[n + j]
  <2>1. /\ SubSeq(nic, 1, n) \in Seq(Stamped) /\ SubSeq(nic, n + 1, Len(nic)) \in Seq(Stamped)
        /\ \A i \in DOMAIN SubSeq(nic, 1, n) : i \in DOMAIN nic /\ i <= n /\ SubSeq(nic, 1, n)[i] = nic[i]
        /\ \A j \in DOMAIN SubSeq(nic, n + 1, Len(nic)) : /\ n + j \in DOMAIN nic /\ n < n + j
                                                          /\ SubSeq(nic, n + 1, Len(nic))[j] = nic[n + j]
    BY <1>3, Parts, Zenon
  <2> QED BY <1>1, <2>1, Zenon
<1>5. \A u \in DOMAIN Threads : th'[u].result = th[u].result BY <1>2, Zenon DEF Takes, Others
<1>6. ThreadOK(th'[t])
  <2>1. "frame" \in BatchPcs /\ "frame" \notin FramePcs BY DEF BatchPcs, FramePcs, RxPcs
  <2> QED BY <1>0, <1>2, <1>4, <2>1, Zenon DEF ThreadOK, RecvTypes
<1>7. RecvTypes'
  <2>1. \A u \in DOMAIN Threads : ThreadOK(th'[u]) BY <1>0, <1>6, Zenon DEF Takes, Others, RecvTypes
  <2>2. \A s \in DOMAIN Sockets : SocketOK(s)' BY <1>0, <1>2, Zenon DEF SocketOK, RecvTypes
  <2>3. Shapes' BY <1>0, <1>2, Zenon DEF Shapes, RecvTypes
  <2>4. scene' \in Scenes /\ arrived' \in Nat BY <1>0, <1>2, Zenon DEF RecvTypes
  <2> QED BY <1>4, <2>1, <2>2, <2>3, <2>4, Zenon DEF RecvTypes
<1>8. \A i, j \in DOMAIN nic' : i < j => n + i < n + j BY <1>3, <1>4
<1>9. Rising(nic') BY <1>0, <1>4, <1>8, Zenon DEF Rising, NicInv
<1>10. NicInv' BY <1>0, <1>2, <1>4, <1>9, Zenon DEF NicInv, Rising
<1>11. Fresh(th'[t].batch, taken[Sock(t)], nic', arrived)
  <2>1. Rising(th'[t].batch) BY <1>0, <1>4, Zenon DEF Rising, NicInv
  <2>2. ASSUME NEW i \in DOMAIN th'[t].batch, NEW j \in DOMAIN nic' PROVE th'[t].batch[i].id < nic'[j].id
    <3>1. i \in DOMAIN nic /\ n + j \in DOMAIN nic /\ i <= n /\ n < n + j BY <1>4, Zenon
    <3>2. i < n + j BY <1>3, <3>1, SMTT(30)
    <3> QED BY <1>0, <1>4, <3>1, <3>2, Zenon DEF NicInv, Rising
  <2>3. Sock(t) \in DOMAIN Sockets BY CallsAssumption DEF Sock
  <2> QED BY <1>0, <1>4, <2>1, <2>2, <2>3, Zenon DEF Fresh, NicInv
<1>12. ASSUME NEW u \in DOMAIN Threads, u # t PROVE Fresh(th'[u].batch, taken[Sock(u)], nic', arrived)
  <2>1. Fresh(th[u].batch, taken[Sock(u)], nic, arrived) /\ th'[u] = th[u] BY <1>0, <1>12, Zenon DEF FreshInv, Takes, Others
  <2> QED BY <1>4, <2>1, Zenon DEF Fresh
<1>13. FreshInv'
  <2>1. ASSUME NEW u \in DOMAIN Threads PROVE Fresh(th'[u].batch, taken'[Sock(u)], nic', arrived')
    BY <1>2, <1>11, <1>12, Zenon
  <2> QED BY <2>1, Zenon DEF FreshInv, Sock
<1>14. PlaceInv'
  <2>1. ASSUME NEW s \in DOMAIN Sockets PROVE Hands(s)' = Hands(s) BY <1>5 DEF Hands, Sock
  <2> QED BY <1>0, <1>2, <2>1, Zenon DEF PlaceInv
<1>15. CountInv'
  <2>1. ASSUME NEW s \in DOMAIN Sockets PROVE Held(s)' = Held(s) BY <1>5 DEF Held, Sock
  <2> QED BY <1>0, <1>2, <2>1, Zenon DEF CountInv
<1> QED BY <1>7, <1>10, <1>13, <1>14, <1>15, Zenon DEF RecvInv

\* A step of the socket of t, when t is alone there.
LEMMA ElsewhereRecv ==
  ASSUME RecvInv, NEW t \in DOMAIN Threads, Alone(t), Elsewhere(t), ThreadOK(th'[t]),
         NEW q, queue'[Sock(t)].packets = q, NEW r, returned'[Sock(t)] = r, NEW k, taken'[Sock(t)] = k,
         NEW h, th'[t].result = h, SocketOK(Sock(t))', Fresh(th'[t].batch, k, nic, arrived),
         \A i \in DOMAIN nic : \A m \in k : m < nic[i].id,
         Placed(q, r, None, k), Placed(q, r, h, k),
         Count(k) = Len(q) + Len(r) + Holds(t)' + drops'[Sock(t)]
  PROVE  RecvInv'
<1>0. RecvTypes /\ NicInv /\ FreshInv /\ PlaceInv /\ CountInv BY ZenonT(30) DEF RecvInv
<1>1. nic' = nic /\ arrived' = arrived /\ scene' = scene /\ Shapes' /\ Sock(t) \in DOMAIN Sockets
  BY CallsAssumption, ZenonT(30) DEF Elsewhere, SameFrames, Sock
<1>2. ASSUME NEW s \in DOMAIN Sockets, s # Sock(t)
      PROVE  queue'[s] = queue[s] /\ returned'[s] = returned[s] /\ taken'[s] = taken[s] /\ drops'[s] = drops[s]
  BY <1>2, Zenon DEF Elsewhere
<1>3. ASSUME NEW u \in DOMAIN Threads, u # t PROVE th'[u] = th[u] BY <1>3, Zenon DEF Elsewhere, Others
<1>4. RecvTypes'
  <2>1. \A u \in DOMAIN Threads : ThreadOK(th'[u]) BY <1>0, <1>3, Zenon DEF RecvTypes
  <2>2. \A s \in DOMAIN Sockets : SocketOK(s)' BY <1>0, <1>1, <1>2, Zenon DEF SocketOK, RecvTypes
  <2>3. scene' \in Scenes /\ arrived' \in Nat /\ nic' \in Seq(Stamped) BY <1>0, <1>1, Zenon DEF RecvTypes
  <2> QED BY <1>1, <2>1, <2>2, <2>3, Zenon DEF RecvTypes
<1>5. NicInv'
  <2>1. ASSUME NEW i \in DOMAIN nic, NEW s \in DOMAIN Sockets, NEW m \in taken'[s] PROVE m < nic[i].id
    <3>1. CASE s = Sock(t) BY <2>1, <3>1, Zenon
    <3>2. CASE s # Sock(t) BY <1>0, <1>2, <2>1, <3>2, Zenon DEF NicInv
    <3> QED BY <3>1, <3>2, Zenon
  <2> QED BY <1>0, <1>1, <2>1, Zenon DEF NicInv, Rising
<1>6. FreshInv'
  <2> SUFFICES ASSUME NEW u \in DOMAIN Threads PROVE Fresh(th'[u].batch, taken'[Sock(u)], nic', arrived')
    BY Zenon DEF FreshInv, Sock
  <2>1. CASE u = t BY <1>1, <2>1, Zenon
  <2>2. CASE u # t /\ Sock(u) = Sock(t)
    <3>1. th'[u].batch = << >> BY <1>3, <2>2, Zenon DEF Alone
    <3> QED BY <3>1, NoneFresh, Zenon
  <2>3. CASE u # t /\ Sock(u) # Sock(t)
    <3>1. Sock(u) \in DOMAIN Sockets BY CallsAssumption, Zenon DEF Sock
    <3>2. Fresh(th[u].batch, taken[Sock(u)], nic, arrived) BY <1>0, Zenon DEF FreshInv
    <3> QED BY <1>1, <1>2, <1>3, <2>3, <3>1, <3>2, Zenon
  <2> QED BY <2>1, <2>2, <2>3, Zenon
<1>7. \A x \in Hands(Sock(t))' : x = None \/ x = h BY <1>3, Zenon DEF Hands, Sock, Alone
<1>8. ASSUME NEW s \in DOMAIN Sockets, s # Sock(t) PROVE Hands(s)' = Hands(s) /\ Held(s)' = Held(s)
  <2>1. \A u \in DOMAIN Threads : Sock(u) = s => th'[u].result = th[u].result BY <1>3, <1>8, Zenon
  <2> QED BY <2>1, Zenon DEF Hands, Held, Sock
<1>9. Held(Sock(t))' = Holds(t)' BY <1>3, Zenon DEF Held, Holds, Alone, Sock
<1>10. PlaceInv'
  <2> SUFFICES ASSUME NEW s \in DOMAIN Sockets, NEW x \in Hands(s)'
               PROVE  Placed(queue'[s].packets, returned'[s], x, taken'[s])
    BY Zenon DEF PlaceInv
  <2>1. CASE s = Sock(t) BY <1>7, <2>1, Zenon
  <2>2. CASE s # Sock(t)
    <3>1. Placed(queue[s].packets, returned[s], x, taken[s]) BY <1>0, <1>8, <2>2, Zenon DEF PlaceInv
    <3> QED BY <1>2, <2>2, <3>1, Zenon
  <2> QED BY <2>1, <2>2, Zenon
<1>11. CountInv'
  <2> SUFFICES ASSUME NEW s \in DOMAIN Sockets
               PROVE  Count(taken'[s]) = Len(queue'[s].packets) + Len(returned'[s]) + Held(s)' + drops'[s]
    BY Zenon DEF CountInv
  <2>1. CASE s = Sock(t) BY <1>9, <2>1, Zenon
  <2>2. CASE s # Sock(t)
    <3>1. Count(taken[s]) = Len(queue[s].packets) + Len(returned[s]) + Held(s) + drops[s] BY <1>0, Zenon DEF CountInv
    <3> QED BY <1>2, <1>8, <2>2, <3>1, Zenon
  <2> QED BY <2>1, <2>2, Zenon
<1> QED BY <1>4, <1>5, <1>6, <1>10, <1>11, Zenon DEF RecvInv

\* What the invariant says of the socket of a thread that is alone there.
LEMMA AloneFacts ==
  ASSUME RecvInv, NEW t \in DOMAIN Threads, Alone(t)
  PROVE  LET s == Sock(t) IN
         /\ s \in DOMAIN Sockets /\ SocketOK(s) /\ ThreadOK(th[t]) /\ arrived \in Nat
         /\ Placed(queue[s].packets, returned[s], None, taken[s])
         /\ Placed(queue[s].packets, returned[s], th[t].result, taken[s])
         /\ Count(taken[s]) = Len(queue[s].packets) + Len(returned[s]) + Holds(t) + drops[s]
         /\ Fresh(th[t].batch, taken[s], nic, arrived)
         /\ \A i \in DOMAIN nic : \A m \in taken[s] : m < nic[i].id
<1>1. Sock(t) \in DOMAIN Sockets BY CallsAssumption, SMTT(30) DEF Sock
<1>2. Held(Sock(t)) = Holds(t) BY DEF Held, Holds, Alone
<1>3. None \in Hands(Sock(t)) /\ th[t].result \in Hands(Sock(t)) BY DEF Hands
<1> QED BY <1>1, <1>2, <1>3, Zenon DEF RecvInv, RecvTypes, PlaceInv, CountInv, FreshInv, NicInv

\* A sequence one longer
LEMMA Longer ==
  ASSUME NEW q \in Seq(Stamped), NEW f \in Stamped
  PROVE  /\ Append(q, f) \in Seq(Stamped) /\ Len(Append(q, f)) = Len(q) + 1 /\ Len(q) \in Nat
         /\ q \o Some(f) = Append(q, f)
BY DEF Some

\* and a queue with a datagram more or less.
LEMMA Queued ==
  ASSUME NEW b, NEW f, DOMAIN b = {"packets", "current_bytes", "max_bytes"}
  PROVE  /\ push_slice(b, f).packets = Append(b.packets, f) /\ pop_into(b).packets = Tail(b.packets)
         /\ DOMAIN push_slice(b, f) = {"packets", "current_bytes", "max_bytes"}
         /\ DOMAIN pop_into(b) = {"packets", "current_bytes", "max_bytes"}
BY DEF push_slice, pop_into

\* One less in the queue is one more returned.
LEMMA Moved == \A a, b, e \in Nat : (a + 1) + b + 0 + e = a + (b + 1) + 0 + e
OBVIOUS

\* A count that goes on.
LEMMA Counts == \A n \in Nat : n + 1 \in Nat
BY SMTT(30)

\* A thread has one datagram in hand, or none.
LEMMA HoldsOne ==
  ASSUME NEW t
  PROVE  /\ Holds(t) \in Nat
         /\ (th[t].result = None => Holds(t) = 0) /\ (th[t].result # None => Holds(t) = 1)
         /\ (th'[t].result = None => Holds(t)' = 0) /\ (th'[t].result # None => Holds(t)' = 1)
         /\ (th'[t].result = th[t].result => Holds(t)' = Holds(t))
BY DEF Holds

\* Accepting a datagram.
LEMMA AcceptsRecv == ASSUME Counting, RecvInv, NEW t \in DOMAIN Threads, Alone(t), Accepts(t) PROVE RecvInv'
<1> DEFINE s == Sock(t)
           f == Head(th[t].batch)
           q == queue[s].packets
           r == returned[s]
           k == taken[s]
           h == th[t].result
<1> HIDE DEF f, q, r, k, h
<1>0. /\ s \in DOMAIN Sockets /\ SocketOK(s) /\ ThreadOK(th[t]) /\ arrived \in Nat
      /\ Placed(q, r, None, k) /\ Placed(q, r, h, k)
      /\ Count(k) = Len(q) + Len(r) + Holds(t) + drops[s]
      /\ Fresh(th[t].batch, k, nic, arrived)
      /\ \A i \in DOMAIN nic : \A m \in k : m < nic[i].id
  BY AloneFacts, Zenon DEF q, r, k, h
<1>1. /\ Elsewhere(t) /\ th[t].batch # << >> /\ th[t].batch \in Seq(Stamped) /\ arrived' = arrived
      /\ th'[t].pc = "frame" /\ th'[t].batch = Tail(th[t].batch)
      /\ taken'[s] = k \cup {f.id} /\ returned'[s] = r
  BY <1>0, Zenon DEF Accepts, Inside, Frame, Elsewhere, SameFrames, ThreadOK, f, r, k
<1>2. /\ f \in Stamped /\ f = th[t].batch[1] /\ 1 \in DOMAIN th[t].batch /\ Tail(th[t].batch) \in Seq(Stamped)
  BY <1>1, Popped, Zenon DEF f
<1>3. /\ \A m \in k : m < f.id
      /\ f.id \in 1 .. arrived /\ \A j \in DOMAIN nic : f.id < nic[j].id
  BY <1>0, <1>2, Zenon DEF Fresh
<1>4. /\ q \in Seq(Stamped) /\ r \in Seq(Stamped) /\ k \in SUBSET (1 .. arrived) /\ k \in SUBSET Nat
      /\ drops[s] \in Nat /\ DOMAIN queue[s] = {"packets", "current_bytes", "max_bytes"}
  <2>1. /\ q \in Seq(Stamped) /\ r \in Seq(Stamped) /\ k \in SUBSET (1 .. arrived)
        /\ drops[s] \in Nat /\ DOMAIN queue[s] = {"packets", "current_bytes", "max_bytes"}
    BY <1>0, Zenon DEF SocketOK, q, r, k
  <2>2. k \in SUBSET Nat BY <2>1
  <2> QED BY <2>1, <2>2, Zenon
<1>5. Count(k) \in Nat /\ Count(k \cup {f.id}) = Count(k) + 1
  <2>1. f.id \notin k BY <1>2, <1>3, <1>4, NewDatagram, Zenon
  <2>2. f.id \in Nat BY <1>2, StampedIds, Zenon
  <2> QED BY <1>0, <1>4, <2>1, <2>2, Zenon DEF Counting
<1>6. k \cup {f.id} \in SUBSET (1 .. arrived) BY <1>3, <1>4, Zenon
<1>7. Fresh(th'[t].batch, k \cup {f.id}, nic, arrived)
  <2>1. Fresh(Tail(th[t].batch), k \cup {f.id}, nic, arrived) BY <1>0, <1>1, TailFresher, Zenon DEF f
  <2> QED BY <1>1, <2>1, Zenon
<1>8. \A i \in DOMAIN nic : \A m \in k \cup {f.id} : m < nic[i].id BY <1>0, <1>3, Zenon
<1>9. "frame" \in BatchPcs /\ "frame" \notin FramePcs BY DEF BatchPcs, FramePcs, RxPcs
<1>10. CASE ToQueue(t, Frame(t)) /\ queue'[s] = push_slice(queue[s], f) /\ drops'[s] = drops[s] /\ th'[t].result = h
  <2>1. ThreadOK(th'[t]) BY <1>0, <1>1, <1>2, <1>9, <1>10, Zenon DEF ThreadOK, h
  <2>2. queue'[s].packets = Append(q, f) /\ DOMAIN queue'[s] = {"packets", "current_bytes", "max_bytes"}
    BY <1>4, <1>10, Queued, Zenon DEF q
  <2>3. Append(q, f) \in Seq(Stamped) /\ Len(Append(q, f)) = Len(q) + 1 BY <1>2, <1>4, Longer, Zenon
  <2>4. SocketOK(s)' BY <1>1, <1>4, <1>6, <1>10, <2>2, <2>3, Zenon DEF SocketOK, q, r
  <2>5. Placed(Append(q, f), r, h, k \cup {f.id}) /\ Placed(Append(q, f), r, None, k \cup {f.id})
    BY <1>0, <1>2, <1>3, <1>4, PushPlaced, Zenon
  <2>6. Holds(t)' = Holds(t) /\ Holds(t) \in Nat BY <1>10, HoldsOne, Zenon DEF h
  <2>7. Len(q) \in Nat /\ Len(r) \in Nat BY <1>2, <1>4, Longer, Zenon
  <2>8. Count(k \cup {f.id}) = Len(Append(q, f)) + Len(r) + Holds(t)' + drops'[s]
    <3>1. Count(k) = Len(q) + Len(r) + Holds(t) + drops[s] /\ drops[s] \in Nat BY <1>0, <1>4, Zenon
    <3>2. Len(q) + Len(r) + Holds(t) + drops[s] + 1 = (Len(q) + 1) + Len(r) + Holds(t) + drops[s]
      BY <2>6, <2>7, <3>1
    <3> QED BY <1>5, <1>10, <2>3, <2>6, <3>1, <3>2, Zenon
  <2> QED BY <1>1, <1>7, <1>8, <1>10, <2>1, <2>2, <2>4, <2>5, <2>8, ElsewhereRecv, ZenonT(30) DEF h, r, k
<1>11. CASE ToQueue(t, Frame(t)) /\ queue'[s] = queue[s] /\ drops'[s] = drops[s] + 1 /\ th'[t].result = h
  <2>1. ThreadOK(th'[t]) BY <1>0, <1>1, <1>2, <1>9, <1>11, Zenon DEF ThreadOK, h
  <2>2. queue'[s].packets = q /\ drops[s] + 1 \in Nat BY <1>4, <1>11, Counts, Zenon DEF q
  <2>3. SocketOK(s)' BY <1>1, <1>4, <1>6, <1>11, <2>2, Zenon DEF SocketOK, q, r
  <2>4. Placed(q, r, h, k \cup {f.id}) /\ Placed(q, r, None, k \cup {f.id}) BY <1>0, DropPlaced, Zenon
  <2>5. Holds(t)' = Holds(t) /\ Holds(t) \in Nat BY <1>11, HoldsOne, Zenon DEF h
  <2>6. Len(q) \in Nat /\ Len(r) \in Nat BY <1>2, <1>4, Longer, Zenon
  <2>7. Count(k \cup {f.id}) = Len(q) + Len(r) + Holds(t)' + drops'[s]
    <3>1. Count(k) = Len(q) + Len(r) + Holds(t) + drops[s] /\ drops[s] \in Nat BY <1>0, <1>4, Zenon
    <3>2. Len(q) + Len(r) + Holds(t) + drops[s] + 1 = Len(q) + Len(r) + Holds(t) + (drops[s] + 1)
      BY <2>5, <2>6, <3>1
    <3> QED BY <1>5, <1>11, <2>5, <3>1, <3>2, ZenonT(30)
  <2> QED BY <1>1, <1>7, <1>8, <1>11, <2>1, <2>2, <2>3, <2>4, <2>7, ElsewhereRecv, ZenonT(30) DEF h, r, k
<1>12. CASE ~ToQueue(t, Frame(t)) /\ queue'[s] = queue[s] /\ drops'[s] = drops[s] /\ th'[t].result = Some(f)
  <2>1. ThreadOK(th'[t]) BY <1>0, <1>1, <1>2, <1>9, <1>12, Zenon DEF ThreadOK, h
  <2>2. queue'[s].packets = q BY <1>12, Zenon DEF q
  <2>3. SocketOK(s)' BY <1>1, <1>4, <1>6, <1>12, <2>2, Zenon DEF SocketOK, q, r
  <2>4. Placed(q, r, Some(f), k \cup {f.id}) BY <1>0, <1>2, <1>3, <1>4, HandPlaced, Zenon
  <2>5. Placed(q, r, None, k \cup {f.id}) BY <1>0, DropPlaced, Zenon
  <2>6. Holds(t) = 0 /\ Holds(t)' = 1
    <3>1. th[t].result = None BY <1>12, Zenon DEF ToQueue
    <3>2. Some(f) # None BY DEF Some, None
    <3> QED BY <1>12, <3>1, <3>2, HoldsOne, Zenon
  <2>7. Count(k \cup {f.id}) = Len(q) + Len(r) + Holds(t)' + drops'[s]
    <3>1. Len(q) \in Nat /\ Len(r) \in Nat BY <1>2, <1>4, Longer, Zenon
    <3>2. Count(k) = Len(q) + Len(r) + Holds(t) + drops[s] /\ drops[s] \in Nat BY <1>0, <1>4, Zenon
    <3>3. Len(q) + Len(r) + 0 + drops[s] + 1 = Len(q) + Len(r) + 1 + drops[s] BY <3>1, <3>2
    <3> QED BY <1>5, <1>12, <2>6, <3>2, <3>3, ZenonT(30)
  <2> QED BY <1>1, <1>7, <1>8, <1>12, <2>1, <2>2, <2>3, <2>4, <2>5, <2>7, ElsewhereRecv, ZenonT(30) DEF r, k
<1> QED BY <1>10, <1>11, <1>12, Zenon DEF Accepts, Frame, f, h

\* An idle thread.
LEMMA IdleOK == ThreadOK(Idle) /\ Idle.batch = << >> /\ Idle.result = None
<1>1. Idle.batch = << >> /\ Idle.result = None /\ Idle.pc = "idle" BY DEF Idle
<1>2. "idle" \notin FramePcs BY DEF FramePcs, BatchPcs, RxPcs
<1>3. << >> \in Seq(Stamped) OBVIOUS
<1> QED BY <1>1, <1>2, <1>3, Zenon DEF ThreadOK

\* Returning a datagram of the queue.
LEMMA QueuedRecv == ASSUME RecvInv, NEW t \in DOMAIN Threads, Alone(t), GivesQueued(t) PROVE RecvInv'
<1> DEFINE s == Sock(t)
           q == queue[s].packets
           r == returned[s]
           k == taken[s]
<1> HIDE DEF q, r, k
<1>0. /\ s \in DOMAIN Sockets /\ SocketOK(s) /\ ThreadOK(th[t]) /\ arrived \in Nat
      /\ Placed(q, r, None, k)
      /\ Count(k) = Len(q) + Len(r) + Holds(t) + drops[s]
      /\ \A i \in DOMAIN nic : \A m \in k : m < nic[i].id
  BY AloneFacts, Zenon DEF q, r, k
<1>1. /\ Elsewhere(t) /\ th[t].pc \notin RxPcs /\ th'[t] = Idle /\ q # << >> /\ queue'[s] = pop_into(queue[s])
      /\ returned'[s] = Append(r, Head(q)) /\ taken'[s] = k /\ drops'[s] = drops[s] /\ arrived' = arrived
  BY Zenon DEF GivesQueued, Elsewhere, SameFrames, q, r, k
<1>2. /\ q \in Seq(Stamped) /\ r \in Seq(Stamped) /\ k \in SUBSET (1 .. arrived)
      /\ drops[s] \in Nat /\ DOMAIN queue[s] = {"packets", "current_bytes", "max_bytes"}
  BY <1>0, Zenon DEF SocketOK, q, r, k
<1>3. queue'[s].packets = Tail(q) /\ DOMAIN queue'[s] = {"packets", "current_bytes", "max_bytes"}
  BY <1>1, <1>2, Queued, Zenon DEF q
<1>4. Head(q) \in Stamped /\ Tail(q) \in Seq(Stamped) /\ Len(q) = Len(Tail(q)) + 1 BY <1>1, <1>2, Popped, Zenon
<1>5. Append(r, Head(q)) \in Seq(Stamped) /\ Len(Append(r, Head(q))) = Len(r) + 1 BY <1>2, <1>4, Longer, Zenon
<1>6. SocketOK(s)' BY <1>1, <1>2, <1>3, <1>4, <1>5, Zenon DEF SocketOK, r, k
<1>7. Placed(Tail(q), Append(r, Head(q)), None, k) BY <1>0, <1>1, <1>2, PopPlaced, Zenon
<1>8. Holds(t) = 0 /\ Holds(t)' = 0
  <2>1. th[t].result = None BY <1>0, <1>1, Zenon DEF ThreadOK, BatchPcs
  <2> QED BY <1>1, <2>1, IdleOK, HoldsOne, Zenon
<1>9. Count(k) = Len(Tail(q)) + Len(Append(r, Head(q))) + Holds(t)' + drops'[s]
  <2>1. Len(Tail(q)) \in Nat /\ Len(r) \in Nat BY <1>2, <1>4, Longer, Zenon
  <2>2. /\ Count(k) = Len(q) + Len(r) + Holds(t) + drops[s] /\ drops[s] \in Nat /\ drops'[s] = drops[s]
        /\ Len(q) = Len(Tail(q)) + 1 /\ Len(Append(r, Head(q))) = Len(r) + 1
    BY <1>0, <1>1, <1>2, <1>4, <1>5, Zenon
  <2>3. (Len(Tail(q)) + 1) + Len(r) + 0 + drops[s] = Len(Tail(q)) + (Len(r) + 1) + 0 + drops[s]
    BY <2>1, <2>2, Moved, Zenon
  <2> QED BY <1>8, <2>2, <2>3, Zenon
<1>10. ThreadOK(th'[t]) /\ th'[t].result = None /\ th'[t].batch = << >> BY <1>1, IdleOK, Zenon
<1>11. Fresh(th'[t].batch, k, nic, arrived) BY <1>10, NoneFresh, Zenon
<1> QED BY <1>0, <1>1, <1>3, <1>6, <1>7, <1>9, <1>10, <1>11, ElsewhereRecv, Zenon DEF r, k

\* Returning the one in hand.
LEMMA HandRecv == ASSUME RecvInv, NEW t \in DOMAIN Threads, Alone(t), GivesHand(t) PROVE RecvInv'
<1> DEFINE s == Sock(t)
           q == queue[s].packets
           r == returned[s]
           k == taken[s]
<1> HIDE DEF q, r, k
<1>0. /\ s \in DOMAIN Sockets /\ SocketOK(s) /\ ThreadOK(th[t]) /\ arrived \in Nat
      /\ Placed(q, r, th[t].result, k)
      /\ Count(k) = Len(q) + Len(r) + Holds(t) + drops[s]
      /\ \A i \in DOMAIN nic : \A m \in k : m < nic[i].id
  BY AloneFacts, Zenon DEF q, r, k
<1>1. /\ Elsewhere(t) /\ th'[t] = Idle /\ queue'[s] = queue[s] /\ th[t].result # None
      /\ returned'[s] = r \o th[t].result /\ taken'[s] = k /\ drops'[s] = drops[s] /\ arrived' = arrived
  BY Zenon DEF GivesHand, Elsewhere, SameFrames, r, k
<1>2. /\ q \in Seq(Stamped) /\ r \in Seq(Stamped) /\ k \in SUBSET (1 .. arrived)
      /\ drops[s] \in Nat /\ DOMAIN queue[s] = {"packets", "current_bytes", "max_bytes"}
  BY <1>0, Zenon DEF SocketOK, q, r, k
<1>3. PICK f \in Stamped : th[t].result = Some(f) BY <1>0, <1>1, Zenon DEF ThreadOK
<1>4. r \o Some(f) = Append(r, f) BY <1>2, Longer, Zenon
<1>5. Append(r, f) \in Seq(Stamped) /\ Len(Append(r, f)) = Len(r) + 1 BY <1>2, Longer, Zenon
<1>6. returned'[s] = Append(r, f) BY <1>1, <1>3, <1>4, Zenon
<1>7. SocketOK(s)' BY <1>1, <1>2, <1>5, <1>6, Zenon DEF SocketOK, q, r, k
<1>8. Placed(q, Append(r, f), None, k) BY <1>0, <1>2, <1>3, GivePlaced, Zenon
<1>9. Holds(t) = 1 /\ Holds(t)' = 0 BY <1>1, IdleOK, HoldsOne, Zenon
<1>10. Count(k) = Len(q) + Len(Append(r, f)) + Holds(t)' + drops'[s]
  <2>1. Len(q) \in Nat /\ Len(r) \in Nat BY <1>2, Longer, Zenon
  <2>2. /\ Count(k) = Len(q) + Len(r) + Holds(t) + drops[s] /\ drops[s] \in Nat /\ drops'[s] = drops[s]
        /\ Len(Append(r, f)) = Len(r) + 1
    BY <1>0, <1>1, <1>2, <1>5, ZenonT(30)
  <2>3. Len(q) + Len(r) + 1 + drops[s] = Len(q) + (Len(r) + 1) + 0 + drops[s] BY <2>1, <2>2
  <2> QED BY <1>9, <2>2, <2>3, Zenon
<1>11. ThreadOK(th'[t]) /\ th'[t].result = None /\ th'[t].batch = << >> BY <1>1, IdleOK, Zenon
<1>12. Fresh(th'[t].batch, k, nic, arrived) BY <1>11, NoneFresh, Zenon
<1>13. queue'[s].packets = q BY <1>1, Zenon DEF q
<1> QED BY <1>0, <1>1, <1>6, <1>7, <1>8, <1>10, <1>11, <1>12, <1>13, ElsewhereRecv, Zenon DEF r, k

\* A step of no thread.
LEMMA StillRecv == ASSUME RecvInv, Still, th' = th PROVE RecvInv'
<1>0. RecvTypes /\ NicInv /\ FreshInv /\ PlaceInv /\ CountInv BY DEF RecvInv
<1>1. RecvTypes' BY <1>0, StillTypes, Zenon DEF RecvTypes
<1>2. NicInv' BY <1>0, Zenon DEF NicInv, Still, SameFrames, Rising
<1>3. FreshInv' BY <1>0, Zenon DEF FreshInv, Still, SameFrames, Sock
<1>4. PlaceInv' /\ CountInv' BY <1>0, SameResults, Zenon
<1> QED BY <1>1, <1>2, <1>3, <1>4, Zenon DEF RecvInv

\* Every step.
LEMMA KindRecv == ASSUME Counting, LockInv, RecvInv, Kind PROVE RecvInv'
<1>1. ASSUME NEW t \in DOMAIN Threads, Takes(t) PROVE Alone(t)
  <2>1. th[t].pc \in RxPcs BY <1>1 DEF Takes, RxPcs
  <2> QED BY <2>1, IsAlone, Zenon DEF RecvInv
<1> QED BY <1>1, StillRecv, ComesRecv, QuietRecv, TakesRecv, AcceptsRecv, QueuedRecv, HandRecv, Zenon DEF Kind

\* At first there are no datagrams.
LEMMA InitRecv == ASSUME Counting, Init PROVE RecvInv
<1>1. /\ nic = << >> /\ arrived = 0 /\ scene \in Scenes
      /\ \A s \in DOMAIN Sockets : /\ queue[s] = with_limits(MaxBytes) /\ returned[s] = << >>
                                   /\ drops[s] = 0 /\ taken[s] = {}
      /\ Shapes
  BY DEF Init, OnSockets, Shapes
<1>2. \A t \in DOMAIN Threads : th[t] = Idle BY Zenon DEF Init
<1>3. << >> \in Seq(Stamped) /\ Len(<< >>) = 0 /\ DOMAIN << >> = {} BY SMTT(30)
<1>4. ASSUME NEW s \in DOMAIN Sockets
      PROVE  DOMAIN queue[s] = {"packets", "current_bytes", "max_bytes"} /\ queue[s].packets = << >>
  BY <1>1 DEF with_limits
<1>5. RecvTypes
  <2>1. ASSUME NEW s \in DOMAIN Sockets PROVE SocketOK(s)
    <3>1. returned[s] = << >> /\ drops[s] = 0 /\ taken[s] = {} BY <1>1, Zenon
    <3>2. 0 \in Nat /\ {} \in SUBSET (1 .. arrived) OBVIOUS
    <3> QED BY <1>3, <1>4, <3>1, <3>2, Zenon DEF SocketOK
  <2>2. 0 \in Nat OBVIOUS
  <2> QED BY <1>1, <1>2, <1>3, <2>1, <2>2, IdleOK, Zenon DEF RecvTypes
<1>6. NicInv BY <1>1, <1>3, Zenon DEF NicInv, Rising
<1>7. FreshInv BY <1>2, IdleOK, NoneFresh, Zenon DEF FreshInv
<1>8. ASSUME NEW s \in DOMAIN Sockets PROVE Hands(s) = {None} /\ Held(s) = 0
  <2>1. \A t \in DOMAIN Threads : th[t].result = None BY <1>2, IdleOK, Zenon
  <2> QED BY <2>1 DEF Hands, Held
<1>9. PlaceInv
  <2>1. Placed(<< >>, << >>, None, {}) BY <1>3, ZenonT(30) DEF Placed, Rising
  <2> QED BY <1>1, <1>4, <1>8, <2>1, Zenon DEF PlaceInv
<1>10. ASSUME NEW s \in DOMAIN Sockets
       PROVE  Count(taken[s]) = Len(queue[s].packets) + Len(returned[s]) + Held(s) + drops[s]
  <2>1. taken[s] = {} /\ returned[s] = << >> /\ drops[s] = 0 /\ queue[s].packets = << >> /\ Held(s) = 0
    BY <1>1, <1>4, <1>8, Zenon
  <2>2. Count(taken[s]) = 0 BY <2>1, Zenon DEF Counting
  <2> QED BY <1>3, <2>1, <2>2
<1> QED BY <1>5, <1>6, <1>7, <1>9, <1>10, Zenon DEF RecvInv, CountInv
=============================================================================
