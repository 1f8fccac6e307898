--------------------------- MODULE DatagramProofs ---------------------------
(***************************************************************************)
(* Proofs that no datagram a UDP socket accepts is lost, duplicated or,    *)
(* within those of one peer, reordered on its way to the caller, for any   *)
(* number of sockets, threads and tasks, any calls and any frames.         *)
(***************************************************************************)
EXTENDS UdpSocketProofs

(* The order of the datagrams of a peer. *)

\* A receive goes on with the queue it found.
LEMMA KeepsWaiting ==
  ASSUME NeverReconnects, NEW u \in DOMAIN Threads, Waiting(u), th'[u].pc \in RxPcs => th[u].pc \in RxPcs,
         th'[u].call = th[u].call, th'[u].result = th[u].result,
         queue'[Sock(u)].packets = queue[Sock(u)].packets
  PROVE  Waiting(u)'
<1>0. Sock(u)' = Sock(u) /\ (Resolving(u)' <=> Resolving(u)) BY DEF Sock, Resolving, Op
<1> SUFFICES ASSUME th'[u].pc \in RxPcs, ~Resolving(u), th[u].result = None,
                    NEW i \in DOMAIN queue[Sock(u)].packets
             PROVE  connected_addr'[Sock(u)] \notin {None, Some(queue[Sock(u)].packets[i].ip)}
  BY <1>0, Zenon DEF Waiting
<1>1. connected_addr[Sock(u)] \notin {None, Some(queue[Sock(u)].packets[i].ip)} BY Zenon DEF Waiting
<1>2. Sock(u) \in DOMAIN Sockets BY CallsAssumption DEF Sock
<1>3. connected_addr'[Sock(u)] = connected_addr[Sock(u)] BY <1>1, <1>2, Zenon DEF NeverReconnects
<1> QED BY <1>1, <1>3, Zenon

\* A step that moves no datagram keeps their order.
LEMMA StillOrder ==
  ASSUME OrderInv, Still, \A u \in DOMAIN Threads : th'[u].result = th[u].result,
         \A u \in DOMAIN Threads : Waiting(u)'
  PROVE  OrderInv'
<1>1. ASSUME NEW s \in DOMAIN Sockets, NEW h \in Hands(s)' PROVE Ordered(queue'[s].packets, returned'[s], h)
  <2>1. h \in Hands(s) BY SameResults, Zenon
  <2>2. Ordered(queue[s].packets, returned[s], h) BY <2>1, Zenon DEF OrderInv
  <2> QED BY <2>2, Zenon DEF Still, SameQueues
<1> QED BY <1>1, Zenon DEF OrderInv

\* Quiet steps,
LEMMA QuietOrder == ASSUME NeverReconnects, OrderInv, NEW t \in DOMAIN Threads, Quiet(t) PROVE OrderInv'
<1>0. Still /\ QuietMove(t) BY DEF Quiet
<1>1. \A u \in DOMAIN Threads : th'[u].result = th[u].result BY <1>0, Zenon DEF QuietMove, Others
<1>2. \A u \in DOMAIN Threads : queue'[Sock(u)].packets = queue[Sock(u)].packets
  BY <1>0, CallsAssumption DEF Still, SameQueues, Sock
<1>3. ASSUME NEW u \in DOMAIN Threads, u # t PROVE Waiting(u)'
  BY <1>0, <1>1, <1>2, <1>3, KeepsWaiting, Zenon DEF OrderInv, QuietMove, Others
<1>4. Waiting(t)'
  <2>1. CASE th'[t].pc \notin RxPcs BY <2>1, Zenon DEF Waiting
  <2>2. CASE th[t].pc \in RxPcs /\ th'[t].call = th[t].call
    BY <1>1, <1>2, <2>2, KeepsWaiting, Zenon DEF OrderInv
  <2>3. CASE th'[t].call = th[t].call /\ Resolving(t) BY <2>3 DEF Waiting, Resolving, Op
  <2>4. CASE queue[Sock(t)].packets = << >>
    <3>1. DOMAIN queue'[Sock(t)].packets = {} /\ Sock(t)' = Sock(t) BY <1>2, <2>4 DEF Sock
    <3> QED BY <3>1, Zenon DEF Waiting
  <2>5. BatchPcs \subseteq RxPcs BY DEF BatchPcs
  <2> QED BY <1>0, <2>1, <2>2, <2>3, <2>4, <2>5, Zenon DEF QuietMove, Inside
<1> QED BY <1>0, <1>1, <1>3, <1>4, StillOrder, Zenon

\* frames that arrive, and bursts.
LEMMA FramesOrder ==
  ASSUME NeverReconnects, OrderInv, (Still /\ th' = th) \/ Comes \/ \E t \in DOMAIN Threads : Takes(t)
  PROVE  OrderInv'
<1>1. \A u \in DOMAIN Threads : th'[u].result = th[u].result /\ th'[u].call = th[u].call
  BY Zenon DEF Comes, Takes, Others
<1>2. \A u \in DOMAIN Threads : th'[u].pc \in RxPcs => th[u].pc \in RxPcs
  <2>1. "rx_burst" \in RxPcs BY DEF RxPcs
  <2> QED BY <2>1, Zenon DEF Comes, Takes, Others
<1>3. \A s \in DOMAIN Sockets : queue'[s].packets = queue[s].packets /\ returned'[s] = returned[s]
  BY Zenon DEF Comes, Takes, Still, SameQueues
<1>4. \A u \in DOMAIN Threads : queue'[Sock(u)].packets = queue[Sock(u)].packets BY <1>3, CallsAssumption DEF Sock
<1>5. ASSUME NEW u \in DOMAIN Threads PROVE Waiting(u)' BY <1>1, <1>2, <1>4, KeepsWaiting, Zenon DEF OrderInv
<1>6. ASSUME NEW s \in DOMAIN Sockets, NEW h \in Hands(s)' PROVE Ordered(queue'[s].packets, returned'[s], h)
  <2>1. Hands(s)' = Hands(s) BY <1>1 DEF Hands, Sock
  <2>2. Ordered(queue[s].packets, returned[s], h) BY <2>1, Zenon DEF OrderInv
  <2> QED BY <1>3, <2>2, Zenon
<1> QED BY <1>5, <1>6, Zenon DEF OrderInv

\* A step of the socket of t, when t is alone there.
LEMMA ElsewhereOrder ==
  ASSUME NeverReconnects, OrderInv, NEW t \in DOMAIN Threads, Alone(t), Elsewhere(t),
         NEW q, queue'[Sock(t)].packets = q, NEW r, returned'[Sock(t)] = r, NEW h, th'[t].result = h,
         Ordered(q, r, None), Ordered(q, r, h), Waiting(t)'
  PROVE  OrderInv'
<1>2. ASSUME NEW s \in DOMAIN Sockets, s # Sock(t) PROVE queue'[s] = queue[s] /\ returned'[s] = returned[s]
  BY <1>2, Zenon DEF Elsewhere
<1>3. ASSUME NEW u \in DOMAIN Threads, u # t PROVE th'[u] = th[u] BY <1>3, Zenon DEF Elsewhere, Others
<1>4. ASSUME NEW u \in DOMAIN Threads PROVE Waiting(u)'
  <2>1. CASE u = t BY <2>1
  <2>2. CASE u # t /\ Sock(u) = Sock(t)
    <3>1. th'[u].pc \notin RxPcs BY <1>3, <2>2, Zenon DEF Alone
    <3> QED BY <3>1, Zenon DEF Waiting
  <2>3. CASE u # t /\ Sock(u) # Sock(t)
    <3>1. Sock(u) \in DOMAIN Sockets BY CallsAssumption DEF Sock
    <3> QED BY <1>2, <1>3, <2>3, <3>1, KeepsWaiting, Zenon DEF OrderInv
  <2> QED BY <2>1, <2>2, <2>3
<1>5. \A x \in Hands(Sock(t))' : x = None \/ x = h BY <1>3 DEF Hands, Sock, Alone
<1>6. ASSUME NEW s \in DOMAIN Sockets, NEW x \in Hands(s)' PROVE Ordered(queue'[s].packets, returned'[s], x)
  <2>1. CASE s = Sock(t) BY <1>5, <2>1, Zenon
  <2>2. CASE s # Sock(t)
    <3>1. \A u \in DOMAIN Threads : Sock(u) = s => th'[u].result = th[u].result BY <1>3, <2>2, Zenon
    <3>2. Hands(s)' = Hands(s) BY <3>1, Zenon DEF Hands, Sock
    <3>3. Ordered(queue[s].packets, returned[s], x) BY <3>2, Zenon DEF OrderInv
    <3> QED BY <1>2, <2>2, <3>3, Zenon
  <2> QED BY <2>1, <2>2
<1> QED BY <1>4, <1>6, Zenon DEF OrderInv

\* What the order says of the socket of a thread.
LEMMA OrderFacts ==
  ASSUME OrderInv, NEW t \in DOMAIN Threads
  PROVE  LET s == Sock(t) IN
         /\ Ordered(queue[s].packets, returned[s], None) /\ Ordered(queue[s].packets, returned[s], th[t].result)
         /\ Waiting(t)
<1>1. Sock(t) \in DOMAIN Sockets BY CallsAssumption DEF Sock
<1>2. None \in Hands(Sock(t)) /\ th[t].result \in Hands(Sock(t)) BY DEF Hands
<1> QED BY <1>1, <1>2, Zenon DEF OrderInv

\* Accepting a datagram.
LEMMA AcceptsOrder ==
  ASSUME NeverReconnects, RecvInv, OrderInv, NEW t \in DOMAIN Threads, Alone(t), Accepts(t) PROVE OrderInv'
<1> DEFINE s == Sock(t)
           f == Head(th[t].batch)
           q == queue[s].packets
           r == returned[s]
           k == taken[s]
           h == th[t].result
<1>0. /\ s \in DOMAIN Sockets /\ SocketOK(s) /\ ThreadOK(th[t]) /\ Placed(q, r, None, k) /\ Placed(q, r, h, k)
      /\ Fresh(th[t].batch, k, nic, arrived)
  BY AloneFacts, Zenon
<1>1. /\ Elsewhere(t) /\ th[t].batch # << >> /\ th[t].batch \in Seq(Stamped) /\ returned'[s] = r
      /\ th'[t].call = th[t].call /\ th[t].pc \in BatchPcs
  BY <1>0, Zenon DEF Accepts, Inside, ThreadOK
<1>2. f \in Stamped /\ f = th[t].batch[1] /\ 1 \in DOMAIN th[t].batch BY <1>1, Popped, Zenon
<1>3. \A m \in k : m < f.id BY <1>0, <1>2, Zenon DEF Fresh
<1>4. /\ q \in Seq(Stamped) /\ k \in SUBSET Nat /\ DOMAIN queue[s] = {"packets", "current_bytes", "max_bytes"}
  BY <1>0 DEF SocketOK
<1>5. Ordered(q, r, None) /\ Ordered(q, r, h) /\ Waiting(t) BY OrderFacts, Zenon
<1>6. th[t].pc \in RxPcs BY <1>1 DEF BatchPcs
<1>7. Sock(t)' = s /\ (Resolving(t)' <=> Resolving(t)) BY <1>1 DEF Sock, Resolving, Op
<1>8. CASE ToQueue(t, f) /\ queue'[s] = push_slice(queue[s], f) /\ th'[t].result = h
  <2>1. queue'[s].packets = Append(q, f) BY <1>4, <1>8 DEF push_slice
  <2>2. Ordered(Append(q, f), r, h) /\ Ordered(Append(q, f), r, None)
    BY <1>0, <1>2, <1>3, <1>4, <1>5, PushOrdered, Zenon
  <2>3. Waiting(t)'
    <3> SUFFICES ASSUME ~Resolving(t), h = None, NEW i \in DOMAIN Append(q, f)
                 PROVE  connected_addr'[s] \notin {None, Some(Append(q, f)[i].ip)}
      BY <1>7, <1>8, <2>1, Zenon DEF Waiting
    <3>1. connected_addr[s] \notin {None, Some(f.ip)} BY <1>8, Zenon DEF ToQueue
    <3>2. \A j \in DOMAIN q : connected_addr[s] \notin {None, Some(q[j].ip)} BY <1>5, <1>6, Zenon DEF Waiting
    <3>3. connected_addr'[s] = connected_addr[s] BY <1>0, <3>1, Zenon DEF NeverReconnects
    <3>4. (i \in DOMAIN q /\ Append(q, f)[i] = q[i]) \/ Append(q, f)[i] = f BY <1>2, <1>4, AddedFrame, Zenon
    <3> QED BY <3>1, <3>2, <3>3, <3>4, Zenon
  <2> HIDE DEF q, r, f
  <2> QED BY <1>1, <1>8, <2>1, <2>2, <2>3, ElsewhereOrder, Zenon DEF h
<1>9. CASE queue'[s] = queue[s] /\ th'[t].result = h
  <2>1. queue'[s].packets = q BY <1>9
  <2>2. Waiting(t)' BY <1>1, <1>5, <1>6, <1>9, <2>1, KeepsWaiting, Zenon
  <2> HIDE DEF q, r, f
  <2> QED BY <1>1, <1>5, <1>9, <2>1, <2>2, ElsewhereOrder, Zenon DEF h
<1>10. CASE ~ToQueue(t, f) /\ queue'[s] = queue[s] /\ th'[t].result = Some(f)
  <2>1. queue'[s].packets = q BY <1>10
  <2>2. Waiting(t)'
    <3>1. th'[t].result # None BY <1>10 DEF Some, None
    <3> QED BY <3>1, Zenon DEF Waiting
  <2>3. \A j \in DOMAIN q : q[j].ip # f.ip
    <3>1. ~Resolving(t) /\ h = None /\ connected_addr[s] \in {None, Some(f.ip)} BY <1>10, Zenon DEF ToQueue
    <3>2. \A j \in DOMAIN q : connected_addr[s] \notin {None, Some(q[j].ip)} BY <1>5, <1>6, <3>1, Zenon DEF Waiting
    <3> QED BY <3>1, <3>2, Zenon
  <2>4. Ordered(q, r, Some(f)) BY <1>0, <1>3, <1>5, <2>3, HandOrdered, Zenon
  <2> HIDE DEF q, r, f
  <2> QED BY <1>1, <1>5, <1>10, <2>1, <2>2, <2>4, ElsewhereOrder, Zenon
<1> QED BY <1>8, <1>9, <1>10, Zenon DEF Accepts, Frame

\* Returning a datagram.
LEMMA GivesOrder ==
  ASSUME NeverReconnects, RecvInv, OrderInv, NEW t \in DOMAIN Threads, Alone(t), GivesQueued(t) \/ GivesHand(t)
  PROVE  OrderInv'
<1> DEFINE s == Sock(t)
           q == queue[s].packets
           r == returned[s]
           k == taken[s]
<1>0. /\ SocketOK(s) /\ ThreadOK(th[t]) /\ Placed(q, r, None, k) /\ Placed(q, r, th[t].result, k)
  BY AloneFacts, Zenon
<1>1. q \in Seq(Stamped) /\ r \in Seq(Stamped) /\ DOMAIN queue[s] = {"packets", "current_bytes", "max_bytes"}
  BY <1>0, Zenon DEF SocketOK
<1>2. Elsewhere(t) /\ th'[t] = Idle BY Zenon DEF GivesQueued, GivesHand
<1>3. th'[t].result = None /\ Waiting(t)'
  <2>1. Idle.pc = "idle" /\ "idle" \notin RxPcs BY DEF Idle, RxPcs
  <2> QED BY <1>2, <2>1, IdleOK, Zenon DEF Waiting
<1>4. Ordered(q, r, None) /\ Ordered(q, r, th[t].result) BY OrderFacts, Zenon
<1>5. CASE GivesQueued(t)
  <2>1. q # << >> /\ queue'[s] = pop_into(queue[s]) /\ returned'[s] = Append(r, Head(q)) BY <1>5, Zenon DEF GivesQueued
  <2>2. queue'[s].packets = Tail(q) BY <1>1, <2>1 DEF pop_into
  <2>3. Ordered(Tail(q), Append(r, Head(q)), None) BY <1>0, <1>1, <1>4, <2>1, PopOrdered, Zenon
  <2> HIDE DEF q, r
  <2> QED BY <1>2, <1>3, <2>1, <2>2, <2>3, ElsewhereOrder, Zenon
<1>6. CASE GivesHand(t)
  <2>1. th[t].result # None /\ queue'[s] = queue[s] /\ returned'[s] = r \o th[t].result BY <1>6, Zenon DEF GivesHand
  <2>2. PICK f \in Stamped : th[t].result = Some(f) BY <1>0, <2>1, Zenon DEF ThreadOK
  <2>3. returned'[s] = Append(r, f)
    <3>1. r \o Some(f) = Append(r, f) BY <1>1, <2>2 DEF Some
    <3> QED BY <2>1, <2>2, <3>1, Zenon
  <2>4. queue'[s].packets = q BY <2>1
  <2>5. Ordered(q, Append(r, f), None) BY <1>1, <1>4, <2>2, GiveOrdered, Zenon
  <2> HIDE DEF q, r
  <2> QED BY <1>2, <1>3, <2>3, <2>4, <2>5, ElsewhereOrder, Zenon
<1> QED BY <1>5, <1>6

\* Every step.
LEMMA KindOrder == ASSUME NeverReconnects, RecvInv, OrderInv, Kind PROVE OrderInv'
BY QuietOrder, FramesOrder, AcceptsOrder, GivesOrder, Zenon DEF Kind

\* At first nothing has been returned.
LEMMA InitOrder == ASSUME Init PROVE OrderInv
<1>1. ASSUME NEW s \in DOMAIN Sockets PROVE queue[s].packets = << >> /\ returned[s] = << >>
  BY DEF Init, OnSockets, with_limits
<1>2. ASSUME NEW t \in DOMAIN Threads PROVE th[t].pc \notin RxPcs /\ th[t].result = None BY DEF Init, Idle, RxPcs
<1>3. \A s \in DOMAIN Sockets : Hands(s) = {None} BY <1>2 DEF Hands
<1>4. Ordered(<< >>, << >>, None) BY DEF Ordered
<1>5. \A s \in DOMAIN Sockets : \A h \in Hands(s) : Ordered(queue[s].packets, returned[s], h) BY <1>1, <1>3, <1>4
<1> QED BY <1>2, <1>5, Zenon DEF OrderInv, Waiting

-----------------------------------------------------------------------------
(* What the runtime hands to its tasks. *)

\* When the threads make no calls of their own, one at work is a worker that polls for a
\* task of its socket, or connects for the blocking pool.
ConnectPcs == {"connect", "connect2", "connect3", "connect4"}
Runtime == scene.tasks # << >> /\ \A t \in DOMAIN Threads : scene.calls[t] = << >>
Working(t) ==
  /\ todo[t] = << >> \/ (th[t].pc = "idle" /\ \E c : todo[t] = <<c>> /\ (t \in scene.pool => c.op = "connect"))
  /\ th[t].pc # "idle" \/ todo[t] # << >> => run[t] # None
  /\ t \in scene.pool => th[t].pc \in {"idle"} \cup ConnectPcs
  /\ t \notin scene.pool /\ run[t] # None => TSock(run[t][1].task) = Sock(t)
GivenInv ==
  /\ DOMAIN given = DOMAIN Sockets
  /\ Runtime => /\ \A t \in DOMAIN Threads : Working(t)
                /\ \A s \in DOMAIN Sockets : given[s] = returned[s]

\* A call that returns a datagram ends, and returns one of its socket.
LEMMA StepReturned ==
  ASSUME LockInv, RecvTypes, NEW t \in DOMAIN Threads, Step(t)
  PROVE  /\ th[t].pc # "idle" /\ Others(t)
         /\ \/ returned' = returned
            \/ /\ th'[t].pc = "idle"
               /\ \E f \in Stamped : returned' = [returned EXCEPT ![Sock(t)] = Append(returned[Sock(t)], f)]
<1>0. Sock(t) \in DOMAIN Sockets BY CallsAssumption DEF Sock
<1>1. CASE Send(t)
  <2>1. th[t].pc # "idle"
    BY <1>1, SMTT(30) DEF Send, LookFast, LookLo, LookMac, LookEntry, RequestLock, RequestBusy, RequestBurst, TxLock,
       TxBusy, TxQueueLock, tx_burst, RecordSend, At
  <2> QED BY <1>1, <2>1, SendsQuiet, Zenon DEF Quiet, Still, QuietMove
<1>2. CASE Other(t)
  <2>1. th[t].pc # "idle"
    BY <1>2 DEF Other, connect, take_error, set_recv_buffer_size, add_arp_entry, remove, Purge, At
  <2> QED BY <1>2, <2>1, OthersQuiet, Zenon DEF Quiet, Still, QuietMove
<1>3. CASE Receive(t)
  <2>1. th[t].pc # "idle"
    BY <1>3, Zenon DEF Receive, RecvTimesOut, RxBusy, RecvBuffered, RxLock, BurstBusy, BurstLock, rx_burst, LearnIp,
       LearnLo, LearnMac, LearnEntry, HandleDatagram, HandleError, HandleControl, Handling, ReplyLock, ReplyBusy,
       ReplyBurst, BatchDone, At
  <2>2. Others(t)
    BY <1>3, WaitsQuiet, LocksQuiet, LearnsQuiet, RepliesQuiet, DatagramKind, BufferedKind, BatchKind, BurstKind,
       Zenon DEF Receive, Quiet, QuietMove, Accepts, GivesQueued, GivesHand, Elsewhere, Takes
  <2>3. CASE RecvBuffered(t)
    <3>1. /\ returned' = [returned EXCEPT ![Sock(t)] = Append(returned[Sock(t)], Head(queue[Sock(t)].packets))]
          /\ Return(t) /\ queue[Sock(t)].packets # << >>
      BY <2>3 DEF RecvBuffered
    <3>2. Head(queue[Sock(t)].packets) \in Stamped BY <1>0, <3>1, Popped, Zenon DEF RecvTypes, SocketOK
    <3> QED BY <2>1, <2>2, <3>1, <3>2, ReturnIdle, Zenon
  <2>4. CASE BatchDone(t)
    <3>1. returned' = [returned EXCEPT ![Sock(t)] = returned[Sock(t)] \o th[t].result] BY <2>4, Zenon DEF BatchDone
    <3>2. CASE th[t].result = None
      <4>1. returned[Sock(t)] \o th[t].result = returned[Sock(t)] BY <1>0, <3>2 DEF None, RecvTypes, SocketOK
      <4>2. returned' = returned BY <3>1, <4>1, Zenon DEF RecvTypes, Shapes
      <4> QED BY <2>1, <2>2, <4>2
    <3>3. CASE th[t].result # None
      <4>1. PICK f \in Stamped : th[t].result = Some(f) BY <3>3, Zenon DEF RecvTypes, ThreadOK
      <4>2. returned[Sock(t)] \o Some(f) = Append(returned[Sock(t)], f) BY <1>0 DEF Some, RecvTypes, SocketOK
      <4>3. th'[t].pc = "idle" BY <2>4, <3>3, ReturnIdle, ZenonT(30) DEF BatchDone
      <4> QED BY <2>1, <2>2, <3>1, <4>1, <4>2, <4>3, Zenon
    <3> QED BY <3>2, <3>3
  <2>5. CASE ~RecvBuffered(t) /\ ~BatchDone(t)
    <3>1. returned' = returned
      BY <1>3, <2>5 DEF Receive, RecvTimesOut, RxBusy, RxLock, BurstBusy, BurstLock, rx_burst, LearnIp,
         LearnLo, LearnMac, LearnEntry, HandleDatagram, HandleError, HandleControl, ReplyLock, ReplyBusy,
         ReplyBurst, logVars
    <3> QED BY <2>1, <2>2, <3>1
  <2> QED BY <2>3, <2>4, <2>5, Zenon
<1> QED BY <1>1, <1>2, <1>3, Zenon DEF Step

\* A thread that connects goes on connecting.
LEMMA ConnectSteps ==
  ASSUME LockInv, NEW t \in DOMAIN Threads, Step(t), th[t].pc \in ConnectPcs
  PROVE  returned' = returned /\ th'[t].pc \in {"idle"} \cup ConnectPcs
<1>1. ~Send(t)
  BY DEF Send, LookFast, LookLo, LookMac, LookEntry, RequestLock, RequestBusy, RequestBurst, TxLock,
     TxBusy, TxQueueLock, tx_burst, RecordSend, At, ConnectPcs
<1>2. ~Receive(t)
  BY Zenon DEF Receive, RecvTimesOut, RxBusy, RecvBuffered, RxLock, BurstBusy, BurstLock, rx_burst, LearnIp,
     LearnLo, LearnMac, LearnEntry, HandleDatagram, HandleError, HandleControl, Handling, ReplyLock, ReplyBusy,
     ReplyBurst, BatchDone, At, ConnectPcs
<1>3. connect(t)
  BY <1>1, <1>2 DEF Step, Other, take_error, set_recv_buffer_size, add_arp_entry, remove, Purge, At, ConnectPcs
<1>4. returned' = returned BY <1>3 DEF connect, logVars
<1>5. PICK pc \in {"idle", "connect2", "connect3", "connect4"} : Moves(t, pc) BY <1>3, GotoMoves, ReturnMoves, Zenon DEF connect
<1> QED BY <1>4, <1>5 DEF Moves, ConnectPcs

\* What is added to a sequence is the difference of the two.
LEMMA AddedPart ==
  ASSUME NEW S, NEW q \in Seq(S), NEW x \in S
  PROVE  /\ q \o SubSeq(Append(q, x), Len(q) + 1, Len(Append(q, x))) = Append(q, x)
         /\ q \o SubSeq(q, Len(q) + 1, Len(q)) = q
<1>1. Append(q, x) \in Seq(S) /\ Len(Append(q, x)) = Len(q) + 1 /\ Append(q, x)[Len(q) + 1] = x OBVIOUS
<1>2. SubSeq(Append(q, x), Len(q) + 1, Len(q) + 1) = <<x>>
  <2> DEFINE a == Append(q, x)
             m == Len(q) + 1
             y == SubSeq(a, m, m)
  <2>1. a \in Seq(S) /\ m \in 1 .. Len(a) /\ a[m] = x BY <1>1
  <2> HIDE DEF a, m
  <2>2. y \in Seq(S) /\ Len(y) = 1 /\ y[1] = x BY <2>1
  <2> HIDE DEF y
  <2>3. y = <<x>> BY <2>2
  <2> QED BY <2>3 DEF y, a, m
<1>3. q \o <<x>> = Append(q, x) OBVIOUS
<1>4. SubSeq(q, Len(q) + 1, Len(q)) = << >> OBVIOUS
<1>5. q \o << >> = q OBVIOUS
<1> QED BY <1>1, <1>2, <1>3, <1>4, <1>5, Zenon

\* A step of the sockets that moves no thread.
LEMMA SameGiven ==
  ASSUME GivenInv, UNCHANGED <<given, returned, scene, todo, run, th>> PROVE GivenInv'
BY Zenon DEF GivenInv, Working, Runtime, TSock, Sock

\* Threads other than the one that steps keep their work.
LEMMA OthersWork ==
  ASSUME NEW t \in DOMAIN Threads, NEW u \in DOMAIN Threads, u # t, Working(u), scene' = scene, th'[u] = th[u],
         todo'[u] = todo[u], run'[u] = run[u]
  PROVE  Working(u)'
BY DEF Working, TSock, Sock

\* A call begins.
LEMMA CallGiven ==
  ASSUME AsyncInv, GivenInv, NEW t \in DOMAIN Threads, Call(t), UNCHANGED asyncVars PROVE GivenInv'
<1>0. LockInv /\ CallInv /\ RunInv BY SMTT(30) DEF AsyncInv, SocketInv
<1>1. /\ given' = given /\ run' = run /\ scene' = scene /\ returned' = returned /\ th[t].pc = "idle"
      /\ todo' = [todo EXCEPT ![t] = Tail(todo[t])] /\ todo[t] # << >>
  BY DEF Call, asyncVars, logVars, At
<1>2. Runtime' <=> Runtime BY <1>1 DEF Runtime
<1> SUFFICES ASSUME Runtime PROVE \A u \in DOMAIN Threads : Working(u)'
  BY <1>1, <1>2, Zenon DEF GivenInv
<1>3. ASSUME NEW u \in DOMAIN Threads, u # t PROVE Working(u)'
  <2>1. th'[u] = th[u] /\ todo'[u] = todo[u] /\ run'[u] = run[u] BY <1>0, <1>1, <1>3 DEF Call, LockInv, CallInv
  <2> QED BY <1>1, <1>3, <2>1, OthersWork, Zenon DEF GivenInv
<1>4. Working(t)'
  <2>1. Working(t) BY DEF GivenInv
  <2>2. PICK c : todo[t] = <<c>> /\ (t \in scene.pool => c.op = "connect") BY <1>1, <2>1, Zenon DEF Working
  <2>3. Head(todo[t]) = c /\ Tail(todo[t]) = << >> BY <2>2
  <2>4. todo'[t] = << >> BY <1>0, <1>1, <2>3, Zenon DEF CallInv
  <2>5. run'[t] # None BY <1>1, <2>1 DEF Working
  <2>6. ASSUME t \in scene.pool PROVE th'[t].pc \in {"idle"} \cup ConnectPcs
    <3>1. c.op = "connect" BY <2>2, <2>6, SMTT(30)
    <3>2. CASE Refused(t, c) BY <1>1, <2>3, <3>2, SMTT(30) DEF Call
    <3>3. CASE ~Refused(t, c) BY <1>0, <2>3, <3>1, <3>3, SMTT(30) DEF Call, LockInv, Fields, ConnectPcs
    <3> QED BY <3>2, <3>3
  <2>7. run'[t] = run[t] /\ (t \notin scene.pool => TSock(run[t][1].task) = Sock(t)) BY <1>1, <2>1, <2>5 DEF Working
  <2> QED BY <1>1, <2>4, <2>5, <2>6, <2>7, Zenon DEF Working, TSock, Sock
<1> QED BY <1>3, <1>4

\* A call goes on, or returns.
LEMMA StepGiven ==
  ASSUME AsyncInv, RecvTypes, GivenInv, NEW t \in DOMAIN Threads, Step(t), Returns(t) PROVE GivenInv'
<1>0. LockInv /\ CallInv /\ RunInv BY DEF AsyncInv, SocketInv
<1>1. todo' = todo /\ scene' = scene BY StepTodo, Zenon
<1>2. /\ th[t].pc # "idle" /\ Others(t)
      /\ \/ returned' = returned
         \/ /\ th'[t].pc = "idle"
            /\ \E f \in Stamped : returned' = [returned EXCEPT ![Sock(t)] = Append(returned[Sock(t)], f)]
  BY <1>0, StepReturned, Zenon
<1>3. DOMAIN given' = DOMAIN Sockets
  <2>1. DOMAIN given = DOMAIN Sockets BY DEF GivenInv
  <2> QED BY <2>1, Zenon DEF Returns, asyncVars, JobReturns, PollReturns
<1>4. Runtime' <=> Runtime BY <1>1 DEF Runtime
<1> SUFFICES ASSUME Runtime
             PROVE  /\ \A u \in DOMAIN Threads : Working(u)'
                    /\ \A s \in DOMAIN Sockets : given'[s] = returned'[s]
  BY <1>3, <1>4 DEF GivenInv
<1>5. Working(t) /\ run[t] # None /\ todo[t] = << >> /\ \A s \in DOMAIN Sockets : given[s] = returned[s]
  BY <1>2, Zenon DEF GivenInv, Working
<1>6. ASSUME NEW u \in DOMAIN Threads, u # t PROVE Working(u)'
  <2>1. run'[u] = run[u] BY <1>0, <1>6 DEF Returns, asyncVars, RunInv
  <2>2. th'[u] = th[u] BY <1>2, <1>6, Zenon DEF Others
  <2> QED BY <1>1, <1>6, <2>1, <2>2, OthersWork, Zenon DEF GivenInv
<1>7. ASSUME t \in scene.pool PROVE returned' = returned /\ th'[t].pc \in {"idle"} \cup ConnectPcs
  <2>1. th[t].pc \in ConnectPcs BY <1>2, <1>5, <1>7, Zenon DEF Working
  <2> QED BY <1>0, <2>1, ConnectSteps, Zenon
<1>8. CASE th'[t].pc # "idle"
  <2>1. run' = run /\ given' = given /\ returned' = returned BY <1>2, <1>8 DEF Returns, asyncVars
  <2>2. Working(t)' BY <1>1, <1>5, <1>7, <2>1, Zenon DEF Working, TSock, Sock
  <2> QED BY <1>5, <1>6, <2>1, <2>2, Zenon
<1>9. CASE th'[t].pc = "idle"
  <2>1. run' = [run EXCEPT ![t] = None] BY <1>5, <1>9 DEF Returns
  <2>2. run'[t] = None BY <1>0, <2>1 DEF RunInv
  <2>3. Working(t)' BY <1>1, <1>5, <1>9, <2>2, Zenon DEF Working
  <2>4. CASE t \in scene.pool
    <3>1. given' = given BY <1>5, <1>9, <2>4 DEF Returns, JobReturns
    <3> QED BY <1>5, <1>6, <1>7, <2>3, <2>4, <3>1, ZenonT(30)
  <2>5. CASE t \notin scene.pool
    <3> DEFINE s == Sock(t)
               got == SubSeq(returned'[s], Len(returned[s]) + 1, Len(returned'[s]))
    <3>1. TSock(run[t][1].task) = s BY <1>5, <2>5, Zenon DEF Working
    <3>2. given' = [given EXCEPT ![s] = given[s] \o got] BY <1>5, <1>9, <2>5, <3>1, Zenon DEF Returns, PollReturns
    <3>3. s \in DOMAIN Sockets BY CallsAssumption DEF Sock
    <3>4. returned[s] \in Seq(Stamped) /\ DOMAIN returned = DOMAIN Sockets /\ DOMAIN given = DOMAIN Sockets
      BY <3>3 DEF RecvTypes, SocketOK, Shapes, GivenInv
    <3>5. returned[s] \o got = returned'[s]
      <4>1. CASE returned' = returned
        <5>1. SubSeq(returned[s], Len(returned[s]) + 1, Len(returned[s])) = << >> /\ returned[s] \o << >> = returned[s]
          BY <3>4
        <5> QED BY <4>1, <5>1, Zenon
      <4>2. ASSUME NEW f \in Stamped, returned' = [returned EXCEPT ![s] = Append(returned[s], f)]
            PROVE  returned[s] \o got = returned'[s]
        <5>1. returned'[s] = Append(returned[s], f) BY <3>3, <3>4, <4>2
        <5> QED BY <3>4, <4>2, <5>1, AddedPart, ZenonT(30)
      <4> QED BY <1>2, <4>1, <4>2, Zenon
    <3>6. ASSUME NEW x \in DOMAIN Sockets, x # s PROVE returned'[x] = returned[x]
      BY <1>2, <3>4, <3>6
    <3> HIDE DEF s, got
    <3>7. ASSUME NEW x \in DOMAIN Sockets PROVE given'[x] = returned'[x]
      <4>1. CASE x = s BY <1>5, <3>2, <3>3, <3>4, <3>5, <4>1, Zenon
      <4>2. CASE x # s BY <1>5, <3>2, <3>4, <3>6, <4>2, Zenon
      <4> QED BY <4>1, <4>2
    <3> QED BY <1>6, <2>3, <3>7, Zenon
  <2> QED BY <2>4, <2>5, Zenon
<1> QED BY <1>8, <1>9

\* A worker polls, or a thread of the pool takes a job.
LEMMA WorkGiven ==
  ASSUME AsyncInv, RecvTypes, GivenInv, NEW t \in DOMAIN Threads, TakeJob(t) \/ \E k \in Tasks : Poll(k, t) PROVE GivenInv'
<1>0. CallInv /\ RunInv /\ JobInv /\ scene \in Scenes BY Zenon DEF AsyncInv, SocketInv, RecvTypes
<1>1. given' = given /\ returned' = returned /\ scene' = scene /\ th' = th /\ th[t].pc = "idle"
  BY Zenon DEF TakeJob, Poll, logVars, At
<1>2. Runtime' <=> Runtime BY <1>1, Zenon DEF Runtime
<1>3. PICK c, j : todo' = [todo EXCEPT ![t] = <<c>>] /\ run' = [run EXCEPT ![t] = Some(j)]
                  /\ (t \in scene.pool => c.op = "connect") /\ (t \notin scene.pool => TSock(j.task) = Sock(t))
  <2>1. CASE TakeJob(t)
    <3>1. Head(jobs).call.op = "connect" BY <1>0, <2>1, FirstJob, Zenon DEF TakeJob
    <3>2. /\ t \in scene.pool /\ todo' = [todo EXCEPT ![t] = <<Head(jobs).call>>]
          /\ run' = [run EXCEPT ![t] = Some([task |-> Head(jobs).task, id |-> Head(jobs).id])]
      BY <2>1, Zenon DEF TakeJob
    <3> QED BY <3>1, <3>2, Zenon
  <2>2. ASSUME NEW k \in Tasks, Poll(k, t)
        PROVE  \E c, j : todo' = [todo EXCEPT ![t] = <<c>>] /\ run' = [run EXCEPT ![t] = Some(j)]
                 /\ (t \in scene.pool => c.op = "connect") /\ (t \notin scene.pool => TSock(j.task) = Sock(t))
    <3>1. t \notin scene.pool BY <1>0, <2>2, PoolAssumption, SMTT(30) DEF Poll
    <3>2. /\ Sock(t) = TSock(k) /\ todo' = [todo EXCEPT ![t] = <<SocketCall(task[k].call[1])>>]
          /\ run' = [run EXCEPT ![t] = Some([task |-> k, id |-> Len(task[k].calls)])]
      BY <2>2 DEF Poll
    <3>3. [task |-> k, id |-> Len(task[k].calls)].task = k OBVIOUS
    <3> QED BY <3>1, <3>2, <3>3, Zenon
  <2> QED BY <2>1, <2>2, Zenon
<1> SUFFICES ASSUME Runtime PROVE \A u \in DOMAIN Threads : Working(u)'
  BY <1>1, <1>2 DEF GivenInv
<1>4. ASSUME NEW u \in DOMAIN Threads, u # t PROVE Working(u)'
  <2>1. todo'[u] = todo[u] /\ run'[u] = run[u] /\ th'[u] = th[u] BY <1>0, <1>1, <1>3, <1>4, Zenon DEF CallInv, RunInv
  <2> QED BY <1>1, <1>4, <2>1, OthersWork, Zenon DEF GivenInv
<1>5. Working(t)'
  <2>1. todo'[t] = <<c>> /\ run'[t] = Some(j) BY <1>0, <1>3, SMTT(30) DEF CallInv, RunInv
  <2>2. run'[t] # None /\ run'[t][1] = j BY <2>1 DEF Some, None
  <2> QED BY <1>1, <1>3, <2>1, <2>2, Zenon DEF Working, TSock, Sock
<1> QED BY <1>4, <1>5

\* Every step of the sockets and their tasks.
LEMMA NextGiven == ASSUME AsyncInv, RecvTypes, GivenInv, [AsyncNext]_allVars PROVE GivenInv'
<1>1. CASE (Arrive \/ Expire) /\ UNCHANGED asyncVars
  <2>1. UNCHANGED <<given, returned, scene, todo, run, th>> BY <1>1, Zenon DEF Arrive, Expire, asyncVars, logVars
  <2> QED BY <2>1, SameGiven, Zenon
<1>2. CASE UNCHANGED <<vars, run, given>>
  <2>1. UNCHANGED <<given, returned, scene, todo, run, th>> BY <1>2 DEF vars, logVars
  <2> QED BY <2>1, SameGiven, Zenon
<1>3. CASE Tick \/ UNCHANGED allVars BY <1>2, <1>3 DEF Tick, allVars, asyncVars
<1>4. ASSUME NEW k \in Tasks, set_idle_backoff(k) \/ AsyncConnect(k) \/ StartCall(k) \/ Connected(k) \/ DropFuture(k)
      PROVE  GivenInv'
  <2>1. UNCHANGED <<vars, run, given>> BY <1>4 DEF set_idle_backoff, AsyncConnect, StartCall, Connected, DropFuture
  <2> QED BY <1>2, <2>1, SMTT(30)
<1> QED BY <1>1, <1>3, <1>4, CallGiven, StepGiven, WorkGiven, Zenon DEF AsyncNext

-----------------------------------------------------------------------------
(* The results. *)

\* Every step of the sockets and their tasks is of one of the kinds.
LEMMA AsyncKind == ASSUME AsyncInv, RecvTypes, [AsyncNext]_allVars PROVE Kind
<1>0. SocketInv BY DEF AsyncInv
<1>1. CASE Next BY <1>0, <1>1, EveryKind, Zenon
<1>2. CASE UNCHANGED <<nicVars, queueVars, logVars, scene, th>>
  <2>1. SameFrames /\ UNCHANGED <<queue, taken, returned, drops>> /\ th' = th
    BY <1>2 DEF SameFrames, nicVars, queueVars, logVars
  <2> QED BY <2>1, StillStands, Zenon DEF Kind
<1>3. CASE Tick \/ UNCHANGED allVars BY <1>2, <1>3 DEF Tick, allVars, vars
<1>4. ASSUME NEW k \in Tasks, set_idle_backoff(k) \/ AsyncConnect(k) \/ StartCall(k) \/ Connected(k) \/ DropFuture(k)
      PROVE  Kind
  <2>1. UNCHANGED vars BY <1>4 DEF set_idle_backoff, AsyncConnect, StartCall, Connected, DropFuture
  <2> QED BY <1>2, <2>1 DEF vars
<1>5. ASSUME NEW t \in DOMAIN Threads, TakeJob(t) \/ \E k \in Tasks : Poll(k, t) PROVE Kind
  BY <1>2, <1>5, Zenon DEF TakeJob, Poll
<1> QED BY <1>1, <1>3, <1>4, <1>5, Zenon DEF AsyncNext, Next

\* One sequence after another.
LEMMA Joined ==
  ASSUME NEW S, NEW a \in Seq(S), NEW b \in Seq(S)
  PROVE  /\ Len(a \o b) = Len(a) + Len(b) /\ DOMAIN (a \o b) = 1 .. (Len(a) + Len(b))
         /\ \A i \in 1 .. (Len(a) + Len(b)) :
              (i \in 1 .. Len(a) /\ (a \o b)[i] = a[i]) \/ (i - Len(a) \in 1 .. Len(b) /\ (a \o b)[i] = b[i - Len(a)])
<1>1. a \o b \in Seq(S) /\ Len(a \o b) = Len(a) + Len(b) /\ Len(a) \in Nat /\ Len(b) \in Nat OBVIOUS
<1>2. ASSUME NEW i \in 1 .. (Len(a) + Len(b)), i <= Len(a) PROVE i \in 1 .. Len(a) /\ (a \o b)[i] = a[i]
  BY <1>1, <1>2
<1>3. ASSUME NEW i \in 1 .. (Len(a) + Len(b)), ~(i <= Len(a))
      PROVE  i - Len(a) \in 1 .. Len(b) /\ (a \o b)[i] = b[i - Len(a)]
  BY <1>1, <1>3
<1>4. DOMAIN (a \o b) = 1 .. (Len(a) + Len(b)) BY <1>1
<1> QED BY <1>1, <1>2, <1>3, <1>4, Zenon

\* Where the datagrams of a socket are, one after the other.
LEMMA PlacesOnce ==
  ASSUME NEW q \in Seq(Stamped), NEW r \in Seq(Stamped), NEW h, NEW k, Placed(q, r, h, k)
  PROVE  LET places == [i \in 1 .. Len(q) |-> q[i].id] \o [i \in 1 .. Len(r) |-> r[i].id] IN
         /\ IsInjective(places) /\ Len(places) = Len(q) + Len(r)
         /\ \A x \in Range(places) : (\E i \in DOMAIN q : x = q[i].id) \/ (\E i \in DOMAIN r : x = r[i].id)
<1> DEFINE a == [i \in 1 .. Len(q) |-> q[i].id]
           b == [i \in 1 .. Len(r) |-> r[i].id]
           p == a \o b
<1>0. DOMAIN q = 1 .. Len(q) /\ DOMAIN r = 1 .. Len(r) /\ Len(q) \in Nat /\ Len(r) \in Nat OBVIOUS
<1>1. a \in Seq(Nat) /\ b \in Seq(Nat) /\ Len(a) = Len(q) /\ Len(b) = Len(r)
  <2>1. \A i \in DOMAIN q : q[i].id \in Nat BY StampedIds
  <2>2. \A i \in DOMAIN r : r[i].id \in Nat BY StampedIds
  <2> QED BY <1>0, <2>1, <2>2, SMTT(30)
<1>2. \A i \in DOMAIN q : a[i] = q[i].id BY <1>0
<1>3. \A i \in DOMAIN r : b[i] = r[i].id BY <1>0
<1> HIDE DEF a, b
<1>4. /\ Len(p) = Len(q) + Len(r) /\ DOMAIN p = 1 .. (Len(q) + Len(r))
      /\ \A i \in 1 .. (Len(q) + Len(r)) :
           (i \in 1 .. Len(q) /\ p[i] = a[i]) \/ (i - Len(q) \in 1 .. Len(r) /\ p[i] = b[i - Len(q)])
  <2>1. /\ Len(a \o b) = Len(a) + Len(b) /\ DOMAIN (a \o b) = 1 .. (Len(a) + Len(b))
        /\ \A i \in 1 .. (Len(a) + Len(b)) :
             (i \in 1 .. Len(a) /\ (a \o b)[i] = a[i]) \/ (i - Len(a) \in 1 .. Len(b) /\ (a \o b)[i] = b[i - Len(a)])
    BY <1>1, Joined, Zenon
  <2> QED BY <1>1, <2>1, Zenon
<1> HIDE DEF p
<1>5. \A i \in DOMAIN p : \/ i \in DOMAIN q /\ p[i] = q[i].id
                          \/ i - Len(q) \in DOMAIN r /\ p[i] = r[i - Len(q)].id
  BY <1>0, <1>2, <1>3, <1>4, Zenon
<1>6. ASSUME NEW i \in DOMAIN p, NEW j \in DOMAIN p, p[i] = p[j] PROVE i = j
  <2>0. i \in Int /\ j \in Int /\ Len(q) \in Int BY <1>0, <1>4
  <2>1. ASSUME NEW x \in DOMAIN q, NEW y \in DOMAIN q, q[x].id = q[y].id PROVE x = y
    <3>1. q[x].id \in Nat /\ q[y].id \in Nat BY StampedIds, SMTT(30)
    <3>2. ~(x < y) /\ ~(y < x) BY <2>1, <3>1 DEF Placed, Rising
    <3> QED BY <1>0, <3>2, SMTT(30)
  <2>2. ASSUME NEW x \in DOMAIN r, NEW y \in DOMAIN r, r[x].id = r[y].id PROVE x = y BY <2>2, Zenon DEF Placed
  <2>3. \A x \in DOMAIN q : \A y \in DOMAIN r : q[x].id # r[y].id BY Zenon DEF Placed
  <2>4. CASE i \in DOMAIN q /\ p[i] = q[i].id BY <1>5, <1>6, <2>1, <2>3, <2>4, Zenon
  <2>5. CASE i - Len(q) \in DOMAIN r /\ p[i] = r[i - Len(q)].id
    <3>1. j - Len(q) \in DOMAIN r /\ p[j] = r[j - Len(q)].id BY <1>5, <1>6, <2>3, <2>5, Zenon
    <3>2. i - Len(q) = j - Len(q) BY <1>6, <2>2, <2>5, <3>1, Zenon
    <3> QED BY <2>0, <3>2
  <2> QED BY <1>5, <2>4, <2>5, Zenon
<1>7. IsInjective(p) BY <1>6, Zenon DEF IsInjective
<1>8. \A x \in Range(p) : (\E i \in DOMAIN q : x = q[i].id) \/ (\E i \in DOMAIN r : x = r[i].id)
  BY <1>5, Zenon DEF Range
<1> QED BY <1>4, <1>7, <1>8, Zenon DEF p, a, b

\* The Cardinality in UdpSocket's properties.
LEMMA SizeIsCount == \A S : Cardinality(S) = Count(S)
BY DEF Cardinality, Count

\* DatagramsAccounted follows.
LEMMA RecvAccounts == ASSUME Counting, LockInv, RecvInv PROVE DatagramsAccounted
<1> SUFFICES ASSUME NEW s \in DOMAIN Sockets
             PROVE  LET queued == queue[s].packets
                        inHand == {t \in DOMAIN Threads : Sock(t) = s /\ th[t].result # None}
                        places == [i \in 1..Len(queued) |-> queued[i].id] \o [i \in 1..Len(returned[s]) |-> returned[s][i].id]
                        held == {th[t].result[1].id : t \in inHand}
                    IN  /\ IsInjective(places)
                        /\ held \cap Range(places) = {}
                        /\ Range(places) \cup held \subseteq taken[s]
                        /\ Cardinality(taken[s]) = Len(places) + Cardinality(inHand) + drops[s]
  BY Zenon DEF DatagramsAccounted
<1> DEFINE q == queue[s].packets
           r == returned[s]
           k == taken[s]
           inHand == {t \in DOMAIN Threads : Sock(t) = s /\ th[t].result # None}
           places == [i \in 1..Len(q) |-> q[i].id] \o [i \in 1..Len(r) |-> r[i].id]
           held == {th[t].result[1].id : t \in inHand}
<1>1. q \in Seq(Stamped) /\ r \in Seq(Stamped) BY Zenon DEF RecvInv, RecvTypes, SocketOK
<1>2. Placed(q, r, None, k) BY DEF RecvInv, PlaceInv, Hands
<1>3. /\ IsInjective(places) /\ Len(places) = Len(q) + Len(r)
      /\ \A x \in Range(places) : (\E i \in DOMAIN q : x = q[i].id) \/ (\E i \in DOMAIN r : x = r[i].id)
  BY <1>1, <1>2, PlacesOnce, Zenon
<1>4. Count(k) = Len(q) + Len(r) + Held(s) + drops[s] BY Zenon DEF RecvInv, CountInv
<1> HIDE DEF places
<1>5. ASSUME NEW x \in Range(places) PROVE x \in k
  <2> HIDE DEF q, r, k
  <2>1. (\E i \in DOMAIN q : x = q[i].id) \/ (\E i \in DOMAIN r : x = r[i].id) BY <1>3, Zenon
  <2> QED BY <1>2, <2>1, Zenon DEF Placed
<1>6. ASSUME NEW x \in held PROVE x \in k /\ x \notin Range(places)
  <2>1. PICK t \in DOMAIN Threads : Sock(t) = s /\ th[t].result # None /\ x = th[t].result[1].id BY <1>6, ZenonT(30)
  <2>2. th[t].result \in Hands(s) BY <2>1 DEF Hands
  <2>3. Placed(q, r, th[t].result, k) BY <2>2, Zenon DEF RecvInv, PlaceInv
  <2> HIDE DEF q, r, k
  <2>4. x \in k /\ (\A i \in DOMAIN q : q[i].id # x) /\ \A i \in DOMAIN r : r[i].id # x
    BY <2>1, <2>3, Zenon DEF Placed
  <2> QED BY <1>3, <2>4, Zenon
<1>7. Count(inHand) = Held(s)
  <2>1. CASE \E t \in DOMAIN Threads : Sock(t) = s /\ th[t].result # None
    <3>1. PICK t \in DOMAIN Threads : Sock(t) = s /\ th[t].result # None BY <2>1
    <3>2. th[t].pc \in RxPcs BY <3>1, Zenon DEF RecvInv, RecvTypes, ThreadOK, BatchPcs
    <3>3. Alone(t) BY <3>2, IsAlone, Zenon DEF RecvInv
    <3>4. inHand = {t} BY <3>1, <3>3 DEF Alone
    <3> HIDE DEF inHand
    <3>5. Count(inHand) = 1 BY <3>4, Zenon DEF Counting
    <3> QED BY <2>1, <3>5, SMTT(30) DEF Held
  <2>2. CASE ~\E t \in DOMAIN Threads : Sock(t) = s /\ th[t].result # None
    <3>1. inHand = {} BY <2>2, Zenon
    <3> HIDE DEF inHand
    <3>2. Count(inHand) = 0 BY <3>1, Zenon DEF Counting
    <3> QED BY <2>2, <3>2 DEF Held
  <2> QED BY <2>1, <2>2
<1> HIDE DEF inHand
<1>8. Cardinality(k) = Len(places) + Cardinality(inHand) + drops[s] BY <1>3, <1>4, <1>7, SizeIsCount, Zenon
<1>9. held \cap Range(places) = {} /\ Range(places) \cup held \subseteq k BY <1>5, <1>6
<1> QED BY <1>3, <1>8, <1>9, Zenon DEF places, inHand

\* PeerInOrder follows from the order,
LEMMA OrderIsPeers == ASSUME OrderInv PROVE PeerInOrder
<1>1. \A s \in DOMAIN Sockets : None \in Hands(s) BY DEF Hands
<1> QED BY <1>1, Zenon DEF OrderInv, Ordered, PeerInOrder

\* and CancelLosesNothing from what the runtime does.
LEMMA GivenIsAll == ASSUME GivenInv PROVE CancelLosesNothing
BY Zenon DEF GivenInv, Runtime, CancelLosesNothing

\* What holds at first,
LEMMA AsyncInitRecv == ASSUME Counting, AsyncInit PROVE RecvInv /\ GivenInv /\ OrderInv
<1>1. RecvInv /\ OrderInv BY InitRecv, InitOrder, Zenon DEF AsyncInit
<1>2. /\ given = OnSockets(<< >>) /\ returned = OnSockets(<< >>) /\ run = [t \in DOMAIN Threads |-> None]
      /\ th = [t \in DOMAIN Threads |-> Idle] /\ todo = scene.calls
  BY DEF AsyncInit, Init
<1>3. ASSUME NEW t \in DOMAIN Threads, Runtime PROVE Working(t)
  <2>1. th[t].pc = "idle" /\ run[t] = None /\ todo[t] = << >> BY <1>2, <1>3 DEF Idle, Runtime
  <2> QED BY <2>1, SMTT(30) DEF Working
<1>4. DOMAIN given = DOMAIN Sockets /\ \A s \in DOMAIN Sockets : given[s] = returned[s] BY <1>2 DEF OnSockets
<1> QED BY <1>1, <1>3, <1>4, Zenon DEF GivenInv

\* and after every step.
LEMMA AsyncNextRecv ==
  ASSUME Counting, AsyncInv, RecvInv, GivenInv, [AsyncNext]_allVars
  PROVE  RecvInv' /\ GivenInv' /\ (OrderInv /\ [NeverReconnects]_allVars => OrderInv')
<1>1. RecvTypes /\ LockInv BY DEF RecvInv, AsyncInv, SocketInv
<1>2. Kind BY <1>1, AsyncKind, Zenon
<1>3. RecvInv' BY <1>1, <1>2, KindRecv, Zenon
<1>4. GivenInv' BY <1>1, NextGiven, Zenon
<1>5. ASSUME OrderInv, [NeverReconnects]_allVars PROVE OrderInv'
  <2>1. CASE UNCHANGED allVars
    <3>1. NeverReconnects BY <2>1, Zenon DEF NeverReconnects, allVars, vars, connVars
    <3> QED BY <1>1, <1>2, <1>5, <3>1, KindOrder, Zenon
  <2>2. CASE NeverReconnects BY <1>1, <1>2, <1>5, <2>2, KindOrder, Zenon
  <2> QED BY <1>5, <2>1, <2>2
<1> QED BY <1>3, <1>4, <1>5, Zenon

\* What follows from it.
LEMMA RecvMeans ==
  ASSUME Counting, AsyncInv, RecvInv, GivenInv
  PROVE  DatagramsAccounted /\ CancelLosesNothing /\ (OrderInv => ReceivedOnceInOrder)
BY RecvAccounts, GivenIsAll, OrderIsPeers, Zenon DEF AsyncInv, SocketInv, ReceivedOnceInOrder

\* The library's theorems about finite sets.
LOCAL INSTANCE FiniteSetTheorems

\* The Cardinality in the library's theorems.
LEMMA CardinalityIsCount == \A S : Cardinality(S) = Count(S)
BY DEF Cardinality, Count

\* Datagrams can be counted.
LEMMA DatagramsCount == Counting
<1>1. Count({}) = 0
  <2>1. Cardinality({}) = 0 BY FS_EmptySet
  <2> QED BY <2>1, CardinalityIsCount, SMTT(30)
<1>2. ASSUME NEW x PROVE Count({x}) = 1
  <2>1. Cardinality({x}) = 1 BY FS_Singleton
  <2> QED BY <2>1, CardinalityIsCount, SMTT(30)
<1>3. ASSUME NEW n \in Nat, NEW S \in SUBSET (1 .. n)
      PROVE  /\ Cardinality(S) \in Nat
             /\ \A x \in Nat \ S : Cardinality(S \cup {x}) = Cardinality(S) + 1
  <2>1. IsFiniteSet(1 .. n) BY FS_Interval
  <2>2. IsFiniteSet(S) BY <2>1, FS_Subset, Zenon
  <2>3. Cardinality(S) \in Nat BY <2>2, FS_CardinalityType, Zenon
  <2>4. ASSUME NEW x \in Nat \ S PROVE Cardinality(S \cup {x}) = Cardinality(S) + 1 BY <2>2, FS_AddElement, SMTT(30)
  <2> QED BY <2>3, <2>4, SMTT(30)
<1> QED BY <1>1, <1>2, <1>3, CardinalityIsCount, ZenonT(30) DEF Counting

\* The invariant of receiving, with tasks.
LEMMA RecvInvHolds == AsyncSpec => [](AsyncInv /\ RecvInv /\ GivenInv)
<1>1. AsyncInit => RecvInv /\ GivenInv BY AsyncInitRecv, DatagramsCount, Zenon
<1>2. AsyncInv /\ RecvInv /\ GivenInv /\ [AsyncNext]_allVars => RecvInv' /\ GivenInv'
  BY AsyncNextRecv, DatagramsCount, Zenon
<1> QED BY <1>1, <1>2, AsyncInvHolds, PTL DEF AsyncSpec

\* DatagramsAccounted and CancelLosesNothing: for any number of sockets, threads and tasks,
\* any calls and any frames, a datagram that a socket accepts is in the hand of one
\* receiving thread, in the receive queue, returned once, or counted as dropped; and all
\* that the polls of a runtime's workers return is handed to a task, whichever futures are
\* dropped.
THEOREM DatagramsAreAccounted == AsyncSpec => [](DatagramsAccounted /\ CancelLosesNothing)
<1>1. AsyncInv /\ RecvInv /\ GivenInv => DatagramsAccounted /\ CancelLosesNothing
  BY RecvMeans, DatagramsCount, Zenon
<1> QED BY <1>1, RecvInvHolds, PTL

\* ReceivedOnceInOrder: with them the datagrams of one peer are returned in the order of
\* their arrival, whichever were buffered on the way, as long as no socket that is
\* connected is connected to another peer: what a receive queued because it came from a
\* stranger would otherwise be overtaken when the stranger becomes the peer.
THEOREM DatagramsKeepOrder == AsyncSpec /\ [][NeverReconnects]_allVars => []ReceivedOnceInOrder
<1>1. AsyncInit => OrderInv BY AsyncInitRecv, DatagramsCount, Zenon
<1>2. AsyncInv /\ RecvInv /\ GivenInv /\ [AsyncNext]_allVars /\ OrderInv /\ [NeverReconnects]_allVars => OrderInv'
  BY AsyncNextRecv, DatagramsCount, Zenon
<1>3. AsyncInv /\ RecvInv /\ GivenInv /\ OrderInv => ReceivedOnceInOrder BY RecvMeans, DatagramsCount, Zenon
<1> QED BY <1>1, <1>2, <1>3, RecvInvHolds, PTL DEF AsyncSpec
=============================================================================
