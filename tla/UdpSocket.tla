----------------------------- MODULE UdpSocket -----------------------------
(***************************************************************************)
(* UDP sockets in run-to-completion mode that share one port of the NIC,   *)
(* used by several threads (dpdk-stdlib-udp/src/lib.rs): recv_from,        *)
(* try_recv_from, try_recv_from_nb, send_to and try_send_to_nb with        *)
(* resolve_arp, connect, take_error, set_recv_buffer_size and the changes  *)
(* an application makes to the ARP cache.  A step is what a thread does    *)
(* between two points where another thread can interfere: taking a lock,   *)
(* a store to or a load from an atomic, a burst of the NIC.                *)
(*                                                                         *)
(* A received frame is what the parsers make of it:                        *)
(*   [id, kind, family, ip, mac, port, good, target]                       *)
(* kind "udp" (to `port`, `good` when its checksums hold), "error" (an     *)
(* ICMP error about a datagram sent from `port`), "echo", and "ask" and    *)
(* "tell", the question and the answer of ARP or of NDP.                   *)
(***************************************************************************)
EXTENDS KernelTables, FiniteSets

CONSTANTS Sockets,       \* socket -> [family, ip, port]
          Threads,       \* thread -> the socket it uses
          Scenes,        \* [calls, table, frames, expiring]: what the threads do, thread ->
                         \* sequence of calls; the routing table; the frames that can
                         \* arrive; the addresses whose ARP entries can expire
          MaxFrames,     \* bound: frames that arrive
          MaxBurst,      \* frames of one rx_burst
          MaxPackets,    \* max_packets of a receive queue
          MaxBytes,      \* max_bytes of a receive queue, when it is created
          MAX_ERROR_QUEUE,
          MAX_ATTEMPTS, POLLS_PER_ATTEMPT,
          MaxRefused     \* bound: transmissions the NIC has no room for

\* A thread makes calls of the socket, one after the other.
Calls == {"recv", "try", "nb", "send", "connect", "take_error", "set_recv_buffer_size", "add_arp_entry",
          "remove", "purge_expired"}
ASSUME CallsAssumption ==
  /\ \A t \in DOMAIN Threads : Threads[t] \in DOMAIN Sockets
  /\ \A s \in Scenes :
       /\ DOMAIN s.calls = DOMAIN Threads
       /\ \A t \in DOMAIN Threads :
            /\ s.calls[t] \in Seq({s.calls[t][i] : i \in DOMAIN s.calls[t]})
            /\ \A i \in DOMAIN s.calls[t] : s.calls[t][i].op \in Calls

\* A frame is numbered when it arrives.
ASSUME FramesAssumption == MaxBurst \in Nat /\ \A s \in Scenes : \A f \in s.frames : "id" \in DOMAIN f

VARIABLES nic,           \* frames in RX queue 0
          arrived,       \* number of frames that arrived
          refused,       \* transmissions the NIC had no room for
          holder,        \* lock -> the thread that holds it, None when free
          arp, ndp,      \* the port's ArpCache; socket -> its NdpCache
          queue,         \* socket -> rx_state.queue
          has_buffered_packets,
          drops,         \* socket -> rx_dropped_packets
          connected_addr, is_connected, connection_state, has_connection_state,
          error_queue, has_pending_error,
          auto_reply_drops,
          scene,         \* the scene, which fixes routing_table
          todo,          \* thread -> calls it has still to make
          th,            \* thread -> its registers
          taken,         \* socket -> datagrams it accepted
          returned       \* socket -> datagrams its receive calls returned, in order

nicVars == <<nic, arrived, refused>>
cacheVars == <<arp, ndp>>
queueVars == <<queue, has_buffered_packets, drops, taken>>
connVars == <<connected_addr, is_connected, connection_state, has_connection_state>>
errVars == <<error_queue, has_pending_error>>
logVars == <<auto_reply_drops, returned>>
vars == <<nicVars, holder, cacheVars, queueVars, connVars, errVars, logVars, scene, todo, th>>

None == << >>
Some(x) == <<x>>
routing == scene.table

\* The locks, and the order in which they may nest.
RxState(s) == <<s, "rx_state">>
TxState(s) == <<s, "tx_state">>
q_rx0 == <<"port", "q_rx0">>
q_tx0 == <<"port", "q_tx0">>
Locks == {RxState(s) : s \in DOMAIN Sockets} \cup {TxState(s) : s \in DOMAIN Sockets}
           \cup {q_rx0, q_tx0}
Rank(l) == CASE l[2] = "rx_state" -> 1 [] l[2] = "q_rx0" -> 2
             [] l[2] = "tx_state" -> 3 [] l[2] = "q_tx0" -> 4

Idle == [pc |-> "idle", call |-> None, batch |-> << >>, result |-> None, target |-> None,
         hi |-> 0, mac |-> 0, attempt |-> 0, poll |-> 0]

BroadcastMac == 255

OnSockets(x) == [s \in DOMAIN Sockets |-> x]

\* ReceiveQueue: bounded in packets and in octets.
with_limits(bytes) == [packets |-> << >>, current_bytes |-> 0, max_bytes |-> bytes]
HasRoom(q, f) == Len(q.packets) < MaxPackets /\ q.current_bytes + f.len <= q.max_bytes
push_slice(q, f) == [q EXCEPT !.packets = Append(@, f), !.current_bytes = @ + f.len]
pop_into(q) == [q EXCEPT !.packets = Tail(@), !.current_bytes = @ - Head(q.packets).len]

\* ConnectionState.
NewConnection == [sent |-> 0, received |-> 0]
record_send(c) == [c EXCEPT !.sent = @ + 1]
record_recv(c) == [c EXCEPT !.received = @ + 1]

Init ==
  /\ nic = << >> /\ arrived = 0 /\ refused = 0
  /\ holder = [l \in Locks |-> None]
  /\ scene \in Scenes
  /\ arp = BindArp(scene.local_ip, scene.kernel) /\ ndp = OnSockets(NewCache)
  /\ queue = OnSockets(with_limits(MaxBytes))
  /\ has_buffered_packets = OnSockets(FALSE) /\ drops = OnSockets(0)
  /\ connected_addr = OnSockets(None) /\ is_connected = OnSockets(FALSE)
  /\ connection_state = OnSockets(None) /\ has_connection_state = OnSockets(FALSE)
  /\ error_queue = OnSockets(<< >>) /\ has_pending_error = OnSockets(FALSE)
  /\ auto_reply_drops = 0
  /\ todo = scene.calls
  /\ th = [t \in DOMAIN Threads |-> Idle]
  /\ taken = OnSockets({}) /\ returned = OnSockets(<< >>)

-----------------------------------------------------------------------------
\* What the steps have in common.

Sock(t) == Threads[t]
At(t, pc) == th[t].pc = pc
Op(t) == th[t].call.op
Goto(t, pc) == th' = [th EXCEPT ![t].pc = pc]
Return(t) == th' = [th EXCEPT ![t] = Idle]

Free(l) == holder[l] = None
lock(t, l) == holder' = [holder EXCEPT ![l] = Some(t)]
unlock(ls) == holder' = [l \in Locks |-> IF l \in ls THEN None ELSE holder[l]]

\* A call that must not wait, and one that waits in resolve_arp.
Nonblocking(t) == Op(t) = "nb" \/ (Op(t) = "send" /\ ~th[t].call.blocking)
Resolving(t) == Op(t) = "send"

\* A frame reaches the NIC.
Arrive ==
  /\ arrived < MaxFrames
  /\ \E f \in scene.frames : nic' = Append(nic, [f EXCEPT !.id = arrived + 1])
  /\ arrived' = arrived + 1
  /\ UNCHANGED <<refused, holder, cacheVars, queueVars, connVars, errVars, logVars, scene, todo, th>>

\* An entry of the ARP cache outlives ARP_CACHE_TTL.
Expire ==
  /\ \E ip \in scene.expiring : SlowHit(arp, ip) /\ arp' = Age(arp, ip)
  /\ UNCHANGED <<nicVars, holder, ndp, queueVars, connVars, errVars, logVars, scene, todo, th>>

\* A thread makes its next call.  send_to finds the next hop, and an IPv4
\* socket refuses an IPv6 destination.
Refused(t, c) == c.op = "send" /\ c.family = "v6" /\ Sockets[Sock(t)].family = "v4"
NextHop(c) == IF c.family = "v6" THEN c.dst ELSE lookup(routing, c.dst)
Call(t) ==
  LET c == Head(todo[t]) IN
  /\ At(t, "idle") /\ todo[t] # << >>
  /\ todo' = [todo EXCEPT ![t] = Tail(@)]
  /\ IF Refused(t, c) THEN UNCHANGED th
     ELSE th' = [th EXCEPT ![t].call = c,
            ![t].pc = CASE c.op \in {"recv", "try", "nb"} -> "rx_lock"
                        [] c.op = "send" -> IF c.dst = BROADCAST THEN "tx_lock" ELSE "look"
                        [] OTHER -> c.op,
            ![t].mac = IF c.op = "send" /\ c.dst = BROADCAST THEN BroadcastMac ELSE 0,
            ![t].target = IF c.op = "send" THEN Some(NextHop(c)) ELSE None]
  /\ UNCHANGED <<nicVars, holder, cacheVars, queueVars, connVars, errVars, logVars, scene>>

-----------------------------------------------------------------------------
\* Receiving: recv_from_inline, try_recv_from_inline_poll, and the poll of
\* resolve_arp.  rx_state is held from the look at the queue to the end of the
\* burst.

\* Mutant: the flag is cleared by every dequeue.
rx_dequeue_into_clears(s) ==
  /\ queue' = [queue EXCEPT ![s] = pop_into(@)]
  /\ has_buffered_packets' = [has_buffered_packets EXCEPT ![s] = FALSE]

rx_dequeue_into(s) ==
  /\ queue' = [queue EXCEPT ![s] = pop_into(@)]
  /\ has_buffered_packets' = [has_buffered_packets EXCEPT ![s] = Tail(queue[s].packets) # << >>]

record_rx_drop(s) == drops' = [drops EXCEPT ![s] = @ + 1]
rx_enqueue(s, f) ==
  IF HasRoom(queue[s], f)
  THEN /\ queue' = [queue EXCEPT ![s] = push_slice(@, f)]
       /\ has_buffered_packets' = [has_buffered_packets EXCEPT ![s] = TRUE]
       /\ UNCHANGED drops
  ELSE record_rx_drop(s) /\ UNCHANGED <<queue, has_buffered_packets>>

\* The loop top: the deadline, then rx_state and the buffered packets.
RecvTimesOut(t) ==
  /\ At(t, "rx_lock") /\ Op(t) = "recv" /\ th[t].call.timeout
  /\ Return(t)
  /\ UNCHANGED <<nicVars, holder, cacheVars, queueVars, connVars, errVars, logVars, scene, todo>>

RxBusy(t) ==
  /\ At(t, "rx_lock") /\ Op(t) = "nb" /\ ~Free(RxState(Sock(t)))
  /\ Return(t)
  /\ UNCHANGED <<nicVars, holder, cacheVars, queueVars, connVars, errVars, logVars, scene, todo>>

RecvBuffered(t) ==
  LET s == Sock(t) IN
  /\ At(t, "rx_lock") /\ Op(t) \in {"recv", "try", "nb"} /\ Free(RxState(s))
  /\ queue[s].packets # << >>
  /\ rx_dequeue_into(s)
  /\ returned' = [returned EXCEPT ![s] = Append(@, Head(queue[s].packets))]
  /\ Return(t)
  /\ UNCHANGED <<nicVars, holder, cacheVars, drops, taken, connVars, errVars, auto_reply_drops, scene, todo>>

\* Mutant: the NIC is polled before the buffered packets are looked at.
RxLockFirst(t) ==
  /\ At(t, "rx_lock") /\ Free(RxState(Sock(t)))
  /\ lock(t, RxState(Sock(t)))
  /\ Goto(t, "burst")
  /\ UNCHANGED <<nicVars, cacheVars, queueVars, connVars, errVars, logVars, scene, todo>>

RxLock(t) ==
  LET s == Sock(t) IN
  /\ At(t, "rx_lock") /\ Free(RxState(s))
  /\ Resolving(t) \/ queue[s].packets = << >>
  /\ lock(t, RxState(s))
  /\ Goto(t, "burst")
  /\ UNCHANGED <<nicVars, cacheVars, queueVars, connVars, errVars, logVars, scene, todo>>

\* recv_guarded, try_recv_guarded.
BurstBusy(t) ==
  /\ At(t, "burst") /\ Op(t) = "nb" /\ ~Free(q_rx0)
  /\ unlock({RxState(Sock(t))})
  /\ Return(t)
  /\ UNCHANGED <<nicVars, cacheVars, queueVars, connVars, errVars, logVars, scene, todo>>

BurstLock(t) ==
  /\ At(t, "burst") /\ Free(q_rx0)
  /\ lock(t, q_rx0)
  /\ Goto(t, "rx_burst")
  /\ UNCHANGED <<nicVars, cacheVars, queueVars, connVars, errVars, logVars, scene, todo>>

rx_burst(t) ==
  LET n == IF Len(nic) < MaxBurst THEN Len(nic) ELSE MaxBurst IN
  /\ At(t, "rx_burst")
  /\ nic' = SubSeq(nic, n + 1, Len(nic))
  /\ th' = [th EXCEPT ![t].batch = SubSeq(nic, 1, n), ![t].pc = "frame"]
  /\ unlock({q_rx0})
  /\ UNCHANGED <<arrived, refused, cacheVars, queueVars, connVars, errVars, logVars, scene, todo>>

\* What a frame teaches: its sender's address, from ARP and NDP messages and
\* from datagrams; resolve_arp looks at IPv4 only and does not verify checksums.
Frame(t) == Head(th[t].batch)
Learns(t, f) ==
  /\ f.kind \in {"udp", "ask", "tell"}
  /\ f.kind = "udp" => f.good \/ (Resolving(t) /\ f.family = "v4")
  /\ f.family = "v6" => ~Resolving(t) /\ ~Unchanged(ndp[Sock(t)], f.ip, f.mac)

LearnIp(t) ==
  LET f == Frame(t) IN
  /\ At(t, "frame") /\ th[t].batch # << >> /\ Learns(t, f)
  /\ IF f.family = "v4" THEN arp' = StoreLo(arp, f.ip) /\ UNCHANGED ndp
     ELSE ndp' = [ndp EXCEPT ![Sock(t)] = StoreHi(@, f.ip)] /\ UNCHANGED arp
  /\ Goto(t, IF f.family = "v4" THEN "learn_mac" ELSE "learn_lo")
  /\ UNCHANGED <<nicVars, holder, queueVars, connVars, errVars, logVars, scene, todo>>

LearnLo(t) ==
  /\ At(t, "learn_lo")
  /\ ndp' = [ndp EXCEPT ![Sock(t)] = StoreLo(@, Frame(t).ip)]
  /\ Goto(t, "learn_mac")
  /\ UNCHANGED <<nicVars, holder, arp, queueVars, connVars, errVars, logVars, scene, todo>>

LearnMac(t) ==
  LET f == Frame(t) IN
  /\ At(t, "learn_mac")
  /\ IF f.family = "v4" THEN arp' = StoreMac(arp, f.mac) /\ UNCHANGED ndp
     ELSE ndp' = [ndp EXCEPT ![Sock(t)] = StoreMac(@, f.mac)] /\ UNCHANGED arp
  /\ Goto(t, "learn_entry")
  /\ UNCHANGED <<nicVars, holder, queueVars, connVars, errVars, logVars, scene, todo>>

LearnEntry(t) ==
  LET f == Frame(t) IN
  /\ At(t, "learn_entry")
  /\ IF f.family = "v4" THEN arp' = InsertEntry(arp, f.ip, f.mac) /\ UNCHANGED ndp
     ELSE ndp' = [ndp EXCEPT ![Sock(t)] = InsertEntry(@, f.ip, f.mac)] /\ UNCHANGED arp
  /\ Goto(t, "handle")
  /\ UNCHANGED <<nicVars, holder, queueVars, connVars, errVars, logVars, scene, todo>>

\* What the socket does with a frame once it has learnt from it
\* (process_frame_zerocopy_locked, the loop of resolve_arp).
Handling(t) == \/ At(t, "handle")
               \/ At(t, "frame") /\ th[t].batch # << >> /\ ~Learns(t, Frame(t))
NextFrame(t, r) == th' = [th EXCEPT ![t].batch = Tail(@), ![t].pc = "frame", ![t].result = r]

Mine(t, f) == IF Resolving(t) THEN f.family = "v4"
              ELSE f.good /\ f.port = Sockets[Sock(t)].port

ToQueue(t, f) ==
  \/ Resolving(t)
  \/ th[t].result # None
  \/ connected_addr[Sock(t)] \notin {None, Some(f.ip)}

HandleDatagram(t) ==
  LET s == Sock(t)
      f == Frame(t)
  IN
  /\ Handling(t) /\ f.kind = "udp"
  /\ IF ~Mine(t, f) THEN NextFrame(t, th[t].result) /\ UNCHANGED <<queueVars, connection_state>>
     ELSE /\ taken' = [taken EXCEPT ![s] = @ \cup {f.id}]
          /\ IF ToQueue(t, f)
             THEN rx_enqueue(s, f) /\ NextFrame(t, th[t].result) /\ UNCHANGED connection_state
             ELSE /\ NextFrame(t, Some(f))
                  /\ connection_state' = [connection_state EXCEPT ![s] =
                       IF @ = None THEN None ELSE Some(record_recv(@[1]))]
                  /\ UNCHANGED <<queue, has_buffered_packets, drops>>
  /\ UNCHANGED <<nicVars, holder, cacheVars, connected_addr, is_connected, has_connection_state,
                 errVars, logVars, scene, todo>>

\* queue_icmp_error, for an error about a datagram sent from the socket's port.
HandleError(t) ==
  LET s == Sock(t)
      f == Frame(t)
      local_port == IF f.family = "v4" /\ Sockets[s].family = "v6" THEN 0 ELSE Sockets[s].port
  IN
  /\ Handling(t) /\ f.kind = "error"
  /\ IF ~Resolving(t) /\ f.port = local_port /\ Len(error_queue[s]) < MAX_ERROR_QUEUE
     THEN /\ error_queue' = [error_queue EXCEPT ![s] = Append(@, f.id)]
          /\ has_pending_error' = [has_pending_error EXCEPT ![s] = TRUE]
     ELSE UNCHANGED errVars
  /\ NextFrame(t, th[t].result)
  /\ UNCHANGED <<nicVars, holder, cacheVars, queueVars, connVars, logVars, scene, todo>>

\* ARP, NDP and echo requests for one of the socket's own addresses are answered.
Answers(t, f) ==
  /\ f.kind = "ask" \/ (f.kind = "echo" /\ ~Resolving(t))
  /\ Resolving(t) => f.family = "v4"
  /\ f.family = Sockets[Sock(t)].family /\ f.target = Sockets[Sock(t)].ip

HandleControl(t) ==
  LET f == Frame(t) IN
  /\ Handling(t) /\ f.kind \in {"ask", "tell", "echo"}
  /\ IF Answers(t, f) THEN Goto(t, "reply") ELSE NextFrame(t, th[t].result)
  /\ UNCHANGED <<nicVars, holder, cacheVars, queueVars, connVars, errVars, logVars, scene, todo>>

\* send_auto_reply: only q_tx0 is taken, and a non-blocking receive drops the
\* reply instead of waiting for it.
ReplyLock(t) ==
  /\ At(t, "reply") /\ Free(q_tx0)
  /\ lock(t, q_tx0)
  /\ Goto(t, "reply_burst")
  /\ UNCHANGED <<nicVars, cacheVars, queueVars, connVars, errVars, logVars, scene, todo>>

\* Mutant: the reply of a non-blocking receive waits for the queue.
ReplyWaits(t) == FALSE /\ At(t, "reply") /\ UNCHANGED vars
ReplyBusy(t) ==
  /\ At(t, "reply") /\ Nonblocking(t) /\ ~Resolving(t) /\ ~Free(q_tx0)
  /\ auto_reply_drops' = auto_reply_drops + 1
  /\ NextFrame(t, th[t].result)
  /\ UNCHANGED <<nicVars, holder, cacheVars, queueVars, connVars, errVars, returned, scene, todo>>

ReplyBurst(t) ==
  /\ At(t, "reply_burst")
  /\ \/ UNCHANGED <<refused, auto_reply_drops>>
     \/ /\ refused < MaxRefused /\ refused' = refused + 1
        /\ auto_reply_drops' = auto_reply_drops + (IF Op(t) = "nb" THEN 1 ELSE 0)
  /\ unlock({q_tx0})
  /\ NextFrame(t, th[t].result)
  /\ UNCHANGED <<nic, arrived, cacheVars, queueVars, connVars, errVars, returned, scene, todo>>

\* Mutant: resolve_arp keeps rx_state between its polls.
BatchDoneHolds(t) ==
  LET s == Sock(t)
      r == th[t].result
  IN
  /\ At(t, "frame") /\ th[t].batch = << >>
  /\ IF Resolving(t) THEN UNCHANGED holder ELSE unlock({RxState(s)})
  /\ returned' = [returned EXCEPT ![s] = @ \o r]
  /\ IF r # None \/ Op(t) \in {"try", "nb"} THEN Return(t)
     ELSE Goto(t, IF Resolving(t) THEN "look" ELSE "rx_lock")
  /\ UNCHANGED <<nicVars, cacheVars, queueVars, connVars, errVars, auto_reply_drops, scene, todo>>

\* The end of a burst: the result is returned; without one recv_from polls again
\* after it has let go of rx_state, and resolve_arp looks the address up.
BatchDone(t) ==
  LET s == Sock(t)
      r == th[t].result
  IN
  /\ At(t, "frame") /\ th[t].batch = << >>
  /\ unlock({RxState(s)})
  /\ returned' = [returned EXCEPT ![s] = @ \o r]
  /\ IF r # None \/ Op(t) \in {"try", "nb"} THEN Return(t)
     ELSE Goto(t, IF Resolving(t) THEN "look" ELSE "rx_lock")
  /\ UNCHANGED <<nicVars, cacheVars, queueVars, connVars, errVars, auto_reply_drops, scene, todo>>

-----------------------------------------------------------------------------
\* Sending: send_to_v4, send_to_v6, resolve_arp.

V6(t) == th[t].call.family = "v6"
Cache(t) == IF V6(t) THEN ndp[Sock(t)] ELSE arp
Key(t) == IF V6(t) THEN th[t].target[1] ELSE <<0, U32(th[t].target[1])>>

\* lookup: the words of the fast address, then its MAC, otherwise the map.
LookFast(t) ==
  /\ At(t, "look")
  /\ IF V6(t) THEN th' = [th EXCEPT ![t].hi = Cache(t).hi, ![t].pc = "look_lo"]
     ELSE Goto(t, IF FastHit(Cache(t), Key(t)) THEN "look_mac" ELSE "look_entry")
  /\ UNCHANGED <<nicVars, holder, cacheVars, queueVars, connVars, errVars, logVars, scene, todo>>

LookLo(t) ==
  /\ At(t, "look_lo")
  /\ Goto(t, IF FastHit6(th[t].hi, Cache(t), Key(t)) THEN "look_mac" ELSE "look_entry")
  /\ UNCHANGED <<nicVars, holder, cacheVars, queueVars, connVars, errVars, logVars, scene, todo>>

LookMac(t) ==
  /\ At(t, "look_mac")
  /\ th' = [th EXCEPT ![t].mac = Cache(t).mac, ![t].pc = "tx_lock"]
  /\ UNCHANGED <<nicVars, holder, cacheVars, queueVars, connVars, errVars, logVars, scene, todo>>

\* A miss: IPv6 solicits and falls back to the broadcast MAC; IPv4 resolves, in
\* MAX_ATTEMPTS rounds of a request and POLLS_PER_ATTEMPT polls.
LookEntry(t) ==
  LET e == Cache(t).entries[Key(t)]
      r == th[t]
  IN
  /\ At(t, "look_entry")
  /\ th' = [th EXCEPT ![t] =
       CASE SlowHit(Cache(t), Key(t)) -> [r EXCEPT !.mac = e.mac, !.pc = "tx_lock"]
         [] ~SlowHit(Cache(t), Key(t)) /\ V6(t) -> [r EXCEPT !.mac = BroadcastMac, !.pc = "request"]
         [] ~SlowHit(Cache(t), Key(t)) /\ ~V6(t) ->
              IF r.attempt > 0 /\ r.poll < POLLS_PER_ATTEMPT THEN [r EXCEPT !.poll = @ + 1, !.pc = "rx_lock"]
              ELSE IF r.attempt < MAX_ATTEMPTS THEN [r EXCEPT !.attempt = @ + 1, !.poll = 1, !.pc = "request"]
              ELSE Idle]
  /\ UNCHANGED <<nicVars, holder, cacheVars, queueVars, connVars, errVars, logVars, scene, todo>>

\* The ARP request, which fails the send when the NIC refuses it, or the
\* neighbour solicitation, whose outcome is ignored.
RequestLock(t) ==
  /\ At(t, "request") /\ Free(q_tx0)
  /\ lock(t, q_tx0)
  /\ Goto(t, "request_burst")
  /\ UNCHANGED <<nicVars, cacheVars, queueVars, connVars, errVars, logVars, scene, todo>>

RequestBusy(t) ==
  /\ At(t, "request") /\ V6(t) /\ Nonblocking(t) /\ ~Free(q_tx0)
  /\ Goto(t, "tx_lock")
  /\ UNCHANGED <<nicVars, holder, cacheVars, queueVars, connVars, errVars, logVars, scene, todo>>

RequestBurst(t) ==
  /\ At(t, "request_burst")
  /\ \/ Goto(t, IF V6(t) THEN "tx_lock" ELSE "rx_lock") /\ UNCHANGED refused
     \/ /\ refused < MaxRefused /\ refused' = refused + 1
        /\ IF V6(t) THEN Goto(t, "tx_lock") ELSE Return(t)
  /\ unlock({q_tx0})
  /\ UNCHANGED <<nic, arrived, cacheVars, queueVars, connVars, errVars, logVars, scene, todo>>

\* The datagram: tx_state for the scratch buffer it is built in, then q_tx0.
TxLock(t) ==
  /\ At(t, "tx_lock") /\ Free(TxState(Sock(t)))
  /\ lock(t, TxState(Sock(t)))
  /\ Goto(t, "tx")
  /\ UNCHANGED <<nicVars, cacheVars, queueVars, connVars, errVars, logVars, scene, todo>>

TxBusy(t) ==
  \/ /\ At(t, "tx_lock") /\ Nonblocking(t) /\ ~Free(TxState(Sock(t)))
     /\ Return(t) /\ UNCHANGED holder
     /\ UNCHANGED <<nicVars, cacheVars, queueVars, connVars, errVars, logVars, scene, todo>>
  \/ /\ At(t, "tx") /\ Nonblocking(t) /\ ~Free(q_tx0)
     /\ Return(t) /\ unlock({TxState(Sock(t))})
     /\ UNCHANGED <<nicVars, cacheVars, queueVars, connVars, errVars, logVars, scene, todo>>

TxQueueLock(t) ==
  /\ At(t, "tx") /\ Free(q_tx0)
  /\ lock(t, q_tx0)
  /\ Goto(t, "tx_burst")
  /\ UNCHANGED <<nicVars, cacheVars, queueVars, connVars, errVars, logVars, scene, todo>>

tx_burst(t) ==
  LET s == Sock(t) IN
  /\ At(t, "tx_burst")
  /\ \/ UNCHANGED refused /\ Goto(t, "sent") /\ unlock({q_tx0})
     \/ refused < MaxRefused /\ refused' = refused + 1 /\ Return(t) /\ unlock({q_tx0, TxState(s)})
  /\ UNCHANGED <<nic, arrived, cacheVars, queueVars, connVars, errVars, logVars, scene, todo>>

\* record_send, while the scratch buffer is still held.
RecordSend(t) ==
  LET s == Sock(t) IN
  /\ At(t, "sent")
  /\ connection_state' = [connection_state EXCEPT ![s] =
       IF has_connection_state[s] /\ @ # None THEN Some(record_send(@[1])) ELSE @]
  /\ unlock({TxState(s)})
  /\ Return(t)
  /\ UNCHANGED <<nicVars, cacheVars, queueVars, connected_addr, is_connected, has_connection_state,
                 errVars, logVars, scene, todo>>

-----------------------------------------------------------------------------
\* The other calls.

\* connect: four stores, in this order.
connect(t) ==
  LET s == Sock(t) IN
  /\ \/ /\ At(t, "connect") /\ Goto(t, "connect2")
        /\ connection_state' = [connection_state EXCEPT ![s] = Some(NewConnection)]
        /\ UNCHANGED <<has_connection_state, connected_addr, is_connected>>
     \/ /\ At(t, "connect2") /\ Goto(t, "connect3")
        /\ has_connection_state' = [has_connection_state EXCEPT ![s] = TRUE]
        /\ UNCHANGED <<connection_state, connected_addr, is_connected>>
     \/ /\ At(t, "connect3") /\ Goto(t, "connect4")
        /\ connected_addr' = [connected_addr EXCEPT ![s] = Some(th[t].call.peer)]
        /\ UNCHANGED <<connection_state, has_connection_state, is_connected>>
     \/ /\ At(t, "connect4") /\ Return(t)
        /\ is_connected' = [is_connected EXCEPT ![s] = TRUE]
        /\ UNCHANGED <<connection_state, has_connection_state, connected_addr>>
  /\ UNCHANGED <<nicVars, holder, cacheVars, queueVars, errVars, logVars, scene, todo>>

\* take_error: the flag without a lock, then the queue under its own.
take_error(t) ==
  LET s == Sock(t) IN
  /\ \/ /\ At(t, "take_error")
        /\ IF has_pending_error[s] THEN Goto(t, "pop_error") ELSE Return(t)
        /\ UNCHANGED errVars
     \/ /\ At(t, "pop_error")
        /\ error_queue' = [error_queue EXCEPT ![s] = IF @ = << >> THEN @ ELSE Tail(@)]
        /\ has_pending_error' = [has_pending_error EXCEPT ![s] = @ /\ error_queue'[s] # << >>]
        /\ Return(t)
  /\ UNCHANGED <<nicVars, holder, cacheVars, queueVars, connVars, logVars, scene, todo>>

set_recv_buffer_size(t) ==
  LET s == Sock(t) IN
  /\ At(t, "set_recv_buffer_size") /\ Free(RxState(s))
  /\ queue' = [queue EXCEPT ![s].max_bytes = th[t].call.bytes]
  /\ Return(t)
  /\ UNCHANGED <<nicVars, holder, cacheVars, has_buffered_packets, drops, taken, connVars, errVars,
                 logVars, scene, todo>>

\* add_arp_entry, ArpCache::remove and ArpCache::purge_expired.
add_arp_entry(t) ==
  LET c == th[t].call IN
  /\ \/ At(t, "add_arp_entry") /\ arp' = StoreLo(arp, c.ip) /\ Goto(t, "add_mac")
     \/ At(t, "add_mac") /\ arp' = StoreMac(arp, c.mac) /\ Goto(t, "add_entry")
     \/ At(t, "add_entry") /\ arp' = InsertEntry(arp, c.ip, c.mac) /\ Return(t)
  /\ UNCHANGED <<nicVars, holder, ndp, queueVars, connVars, errVars, logVars, scene, todo>>

remove(t) ==
  LET ip == th[t].call.ip IN
  /\ \/ /\ At(t, "remove") /\ UNCHANGED arp
        /\ Goto(t, IF FastIs(arp, ip) THEN "remove_ip" ELSE "remove_entry")
     \/ At(t, "remove_ip") /\ arp' = ClearLo(arp) /\ Goto(t, "remove_mac")
     \/ At(t, "remove_mac") /\ arp' = ClearMac(arp) /\ Goto(t, "remove_entry")
     \/ At(t, "remove_entry") /\ arp' = RemoveEntry(arp, ip) /\ Return(t)
  /\ UNCHANGED <<nicVars, holder, ndp, queueVars, connVars, errVars, logVars, scene, todo>>

Purge(t) ==
  /\ At(t, "purge_expired") /\ arp' = purge_expired(arp) /\ Return(t)
  /\ UNCHANGED <<nicVars, holder, ndp, queueVars, connVars, errVars, logVars, scene, todo>>

-----------------------------------------------------------------------------
Receive(t) ==
  \/ RecvTimesOut(t) \/ RxBusy(t) \/ RecvBuffered(t) \/ RxLock(t)
  \/ BurstBusy(t) \/ BurstLock(t) \/ rx_burst(t)
  \/ LearnIp(t) \/ LearnLo(t) \/ LearnMac(t) \/ LearnEntry(t)
  \/ HandleDatagram(t) \/ HandleError(t) \/ HandleControl(t)
  \/ ReplyLock(t) \/ ReplyBusy(t) \/ ReplyBurst(t) \/ BatchDone(t)

Send(t) ==
  \/ LookFast(t) \/ LookLo(t) \/ LookMac(t) \/ LookEntry(t)
  \/ RequestLock(t) \/ RequestBusy(t) \/ RequestBurst(t)
  \/ TxLock(t) \/ TxBusy(t) \/ TxQueueLock(t) \/ tx_burst(t) \/ RecordSend(t)

Other(t) ==
  \/ connect(t) \/ take_error(t) \/ set_recv_buffer_size(t)
  \/ add_arp_entry(t) \/ remove(t) \/ Purge(t)

Step(t) == Receive(t) \/ Send(t) \/ Other(t)

Next ==
  \/ Arrive \/ Expire
  \/ \E t \in DOMAIN Threads : Call(t) \/ Step(t)

Spec == Init /\ [][Next]_vars

-----------------------------------------------------------------------------
PCs == {"idle", "rx_lock", "burst", "rx_burst", "frame", "learn_lo", "learn_mac", "learn_entry",
        "handle", "reply", "reply_burst", "look", "look_lo", "look_mac", "look_entry", "request",
        "request_burst", "tx_lock", "tx", "tx_burst", "sent", "connect", "connect2", "connect3",
        "connect4", "take_error", "pop_error", "set_recv_buffer_size", "add_arp_entry", "add_mac",
        "add_entry", "remove", "remove_ip", "remove_mac", "remove_entry", "purge_expired"}

\* The type of the state.
TypeOK ==
  /\ arp \in Caches /\ \A s \in DOMAIN Sockets : ndp[s] \in Caches
  /\ \A t \in DOMAIN Threads : th[t].pc \in PCs
  /\ \A l \in Locks : holder[l] = None \/ holder[l][1] \in DOMAIN Threads
  /\ \A s \in DOMAIN Sockets : /\ Len(queue[s].packets) <= MaxPackets
                               /\ Len(error_queue[s]) <= MAX_ERROR_QUEUE

\* The lock a thread is about to take.
Wants(t) ==
  CASE At(t, "rx_lock") \/ At(t, "set_recv_buffer_size") -> Some(RxState(Sock(t)))
    [] At(t, "burst") -> Some(q_rx0)
    [] At(t, "tx_lock") -> Some(TxState(Sock(t)))
    [] At(t, "tx") \/ At(t, "reply") \/ At(t, "request") -> Some(q_tx0)
    [] OTHER -> None

\* The lock order the source declares (rx_state < q_rx0 < tx_state < q_tx0): a
\* thread that takes a lock holds only locks before it, in every nesting of
\* receives, automatic replies, ARP resolution and sends; so the sockets of a
\* port cannot deadlock.
LockOrder ==
  \A t \in DOMAIN Threads : \A l \in Locks :
    Wants(t) # None /\ holder[l] = Some(t) => Rank(l) < Rank(Wants(t)[1])

\* Every datagram a socket accepts is handed out once: it is in the hands of a
\* receiving thread, in the receive queue, or returned, at one place only; one
\* that is at none of them was counted by recv_drops.
DatagramsAccounted ==
  \A s \in DOMAIN Sockets :
    LET queued == queue[s].packets
        inHand == {t \in DOMAIN Threads : Sock(t) = s /\ th[t].result # None}
        places == [i \in 1..Len(queued) |-> queued[i].id] \o [i \in 1..Len(returned[s]) |-> returned[s][i].id]
        held == {th[t].result[1].id : t \in inHand}
    IN  /\ IsInjective(places)
        /\ held \cap Range(places) = {}
        /\ Range(places) \cup held \subseteq taken[s]
        /\ Cardinality(taken[s]) = Len(places) + Cardinality(inHand) + drops[s]

\* The receive calls of a socket return the datagrams of one peer in the order
\* in which they arrived, whichever of them were buffered on the way.  This is
\* meant of sockets that are not connected to another peer while they are used: a
\* stranger's datagram that is queued can be overtaken once the stranger is the peer.
PeerInOrder ==
  \A s \in DOMAIN Sockets : \A i, j \in DOMAIN returned[s] :
    i < j /\ returned[s][i].ip = returned[s][j].ip => returned[s][i].id < returned[s][j].id

\* The flags that let the fast paths skip a lock say what the locked state says:
\* an unlocked queue has packets exactly when has_buffered_packets is set, errors
\* are pending exactly when has_pending_error is, and the connection flags are
\* never ahead of what they announce.
FlagsHonest ==
  \A s \in DOMAIN Sockets :
    /\ Free(RxState(s)) => has_buffered_packets[s] = (queue[s].packets # << >>)
    /\ has_pending_error[s] = (error_queue[s] # << >>)
    /\ has_connection_state[s] => connection_state[s] # None
    /\ is_connected[s] => connected_addr[s] # None

\* try_recv_from_nb never waits: wherever it is and whatever the other threads
\* hold, it can take its next step.
NonblockingNeverWaits ==
  \A t \in DOMAIN Threads : th[t].pc # "idle" /\ Op(t) = "nb" => ENABLED Receive(t)

\* The next hop of a send is the gateway of a most specific matching route, the
\* default gateway when no route matches, the destination itself when it is on
\* the link or nothing is known of it.
NextHopRight ==
  \A t \in DOMAIN Threads :
    th[t].pc # "idle" /\ Op(t) = "send" /\ th[t].call.family = "v4" =>
      LET ip == th[t].call.dst
          hop == th[t].target[1]
          config == routing[1]
          onLink == routing = None \/ ip = BROADCAST \/ LinkLocal(ip) \/ Multicast(ip) \/ is_local(config, ip)
          covering == {r \in Range(config.static_routes) : matches(r, ip)}
      IN  IF onLink THEN hop = ip
          ELSE IF covering # {}
          THEN \E r \in covering : hop = r.gateway /\ \A q \in covering : q.prefix_len <= r.prefix_len
          ELSE hop = (IF config.default_gateway = None THEN ip ELSE config.default_gateway[1])

\* Neighbours the kernel knew, on the interface of the local address, and that
\* nothing takes away.
KnownAtBind ==
  LET detected == auto_detect_routing(scene.local_ip, scene.kernel) IN
  IF detected = << >> THEN {}
  ELSE {<<0, U32(l.ip[1])>> : l \in Range(detected[1].arp)} \ scene.expiring

\* The kernel's neighbours are there from the start: a send whose next hop the
\* kernel knew when the socket was bound never has to resolve it, whatever the
\* other threads insert or read meanwhile.
NoColdStart ==
  \A t \in DOMAIN Threads :
    th[t].pc \in {"request", "request_burst"} /\ ~V6(t) => Key(t) \notin KnownAtBind

\* A send goes to the right neighbour without a needless resolution: the next hop is
\* the most specific route's, and one the kernel knew at bind is never asked for.
RoutedToNeighbour == NextHopRight /\ NoColdStart
=============================================================================
