---------------------------- MODULE QuicProvider ----------------------------
(***************************************************************************)
(* The QUIC provider (dpdk-stdlib-quic): the thread that calls             *)
(* Provider::start, the event loop it spawns, the ProviderHandle, over one *)
(* of the packet backends of dpdk-stdlib-net: DPDK, AF_PACKET with mmap    *)
(* rings, plain AF_PACKET, the loopback queue.  The s2n-quic endpoint is   *)
(* external: when it is asked to transmit it may push the next of its      *)
(* messages, and it takes whatever it is given to receive.                 *)
(*                                                                         *)
(* A frame is a record: what it carries, its number in the order of        *)
(* arrival or of generation, its addresses, TOS octet and length.  The     *)
(* codec is in UdpFrames and ControlFrames.                                *)
(***************************************************************************)
EXTENDS DpdkNic, PacketRing

CONSTANTS Scenes,         \* [config, traffic, msgs, ends, stops, controls]: what the provider is
                          \* given, what arrives, what the endpoint has to send, whether
                          \* it may close, whether shutdown() is called, the modes set
          max_rx_burst, max_tx_burst, busy_poll_budget,
          PortFirst, PortCount, PortMod,  \* EPHEMERAL_FIRST, EPHEMERAL_COUNT, 2^16
          SockQueue,      \* bound: frames a plain socket or the loopback holds
          MaxFaults,      \* bound: system calls that fail
          MaxBinds        \* bound: other providers that bind port 0

VARIABLES scene,
          start,                      \* the caller of start: [pc, candidates, bound, cas]
          backend,                    \* the backend that was opened, "none" before
          nic, rx_ring, tx_ring,      \* DPDK; the mmap rings
          sockq, fds,                 \* the socket's or the loopback's queue; open sockets
          next_port, binds,           \* NEXT_EPHEMERAL_PORT; ports of the other providers
          shutdown, slot, handle,     \* the flag, SharedThread, ProviderHandle::shutdown
          lp,                         \* the loop: [pc, batch, frame, ret, held, rxn, txn, idle]
          rx_queue, pending,          \* DpdkRxQueue, DpdkTxQueue
          stats,                      \* received, transmitted, rx_drops, tx_drops
          path_local,                 \* local address of the endpoint's path
          traffic, msgs, faults,      \* what the network and the endpoint still do
          arrived, delivered,         \* frames the backend took; datagrams the endpoint got
          generated, txlog, out,      \* datagrams it wrote; outcomes of sends; the wire
          leaked,                     \* sockets whose ring setup failed
          modes                       \* receive modes: of the device, cached in the backend,
                                      \* and the calls that change them: [dev, cached, pc,
                                      \* local, raced]

startVars == <<start, next_port, binds, backend, fds, leaked>>
stopVars == <<shutdown, slot, handle>>
devVars == <<nic, rx_ring, tx_ring, sockq, modes>>
queueVars == <<rx_queue, pending, stats>>
endpointVars == <<path_local, msgs, delivered, generated>>
wireVars == <<traffic, arrived, out>>
vars == <<scene, startVars, stopVars, devVars, lp, queueVars, endpointVars, wireVars, faults,
          txlog>>

Unspecified == [ip |-> "any", port |-> 0]

Modes == {"promiscuous", "allmulticast"}

RingOf(s) == MmapRing_new(s.config.ring)

Init ==
  /\ scene \in Scenes
  /\ start = [pc |-> "bind", candidates |-> << >>, bound |-> Unspecified, mac |-> "zero"]
  /\ backend = "none" /\ nic = NoNic /\ sockq = << >> /\ fds = 0 /\ leaked = 0
  /\ rx_ring = RingOf(scene) /\ tx_ring = RingOf(scene)
  /\ modes = [dev |-> {}, cached |-> {}, pc |-> [c \in Modes |-> "idle"], local |-> [c \in Modes |-> {}],
              raced |-> FALSE]
  /\ next_port = scene.config.counter /\ binds = << >>
  /\ shutdown = FALSE /\ slot = "empty" /\ handle = "idle"
  /\ lp = [pc |-> "none", batch |-> << >>, frame |-> NoFrame, ret |-> "none", held |-> << >>,
           rxn |-> 0, txn |-> 0, idle |-> 0]
  /\ rx_queue = << >> /\ pending = << >>
  /\ stats = [received |-> 0, transmitted |-> 0, rx_drops |-> 0, tx_drops |-> 0]
  /\ path_local = Unspecified /\ delivered = << >> /\ generated = << >>
  /\ traffic = scene.traffic /\ msgs = scene.msgs /\ faults = 0
  /\ arrived = << >> /\ txlog = << >> /\ out = << >>

-----------------------------------------------------------------------------
(* Provider::start *)

\* An IPv6 address is refused; an injected backend is used as it is; Dpdk and Auto both mean
\* new_real_nic, the others go through create_backend.
create_backend(type) ==
  CASE type = "Dpdk" -> <<"dpdk">>
    [] type = "RawSocketMmap" -> <<"ring">>
    [] type = "RawSocket" -> <<"basic">>
    [] type = "Auto" -> <<"dpdk", "ring", "basic">>

Candidates(config) ==
  CASE config.injected = "loopback" -> <<"loopback">>
    [] config.injected # "none" -> create_backend(config.injected)
    [] config.backend_type \in {"Dpdk", "Auto"} -> <<"dpdk">>
    [] OTHER -> create_backend(config.backend_type)

\* Where the opening of a candidate begins.
OpenFirst(kind) == CASE kind = "dpdk" -> "eal" [] kind \in {"ring", "basic"} -> "socket"
                     [] kind = "loopback" -> "opened"

StartBind ==
  /\ start.pc = "bind"
  /\ start' = IF scene.config.v6 THEN [start EXCEPT !.pc = "failed"]
              ELSE [start EXCEPT !.candidates = Candidates(scene.config),
                                 !.pc = OpenFirst(Head(Candidates(scene.config)))]
  /\ UNCHANGED <<scene, next_port, binds, backend, fds, leaked, stopVars, devVars, lp, queueVars,
                 endpointVars, wireVars, faults, txlog>>

\* A step of the opening fails: what was built is dropped in the reverse order, and the next
\* candidate is tried.  setup_mmap_rings returns its error without closing the socket.
OpenFails ==
  /\ start.pc \in {"eal", "pool", "port", "portstart", "socket", "query", "rings"}
  /\ faults < MaxFaults
  /\ faults' = faults + 1
  /\ LET rest == Tail(start.candidates)
     IN  start' = [start EXCEPT !.candidates = rest,
                                !.pc = IF rest = << >> THEN "failed" ELSE OpenFirst(Head(rest))]
  /\ nic' = Eal_drop(Mempool_drop(Port_drop(nic)))
  /\ fds' = IF start.pc = "query" THEN fds - 1 ELSE fds
  /\ leaked' = IF start.pc = "rings" THEN leaked + 1 ELSE leaked
  /\ UNCHANGED <<scene, modes, next_port, binds, backend, stopVars, rx_ring, tx_ring, sockq, lp,
                 queueVars, endpointVars, wireVars, txlog>>

OpenStep(at, to) == start.pc = at /\ start' = [start EXCEPT !.pc = to]

\* DpdkBackend::new_real_nic, step by step.
OpenDpdk ==
  /\ \/ OpenStep("eal", "pool") /\ nic' = Eal_init(nic)
     \/ OpenStep("pool", "port") /\ nic' = Mempool_create(nic)
     \/ OpenStep("port", "portstart") /\ nic' = Port_init(nic)
     \/ OpenStep("portstart", "opened") /\ nic' = Port_start(nic)
  /\ modes' = IF start.pc = "portstart" THEN [modes EXCEPT !.dev = {"promiscuous"}] ELSE modes
  /\ UNCHANGED <<scene, next_port, binds, backend, fds, leaked, stopVars, rx_ring, tx_ring, sockq,
                 lp, queueVars, endpointVars, wireVars, faults, txlog>>

\* RawSocketBackend::with_mmap: the socket, the queries and bind, the rings.
OpenRaw ==
  /\ \/ OpenStep("socket", "query") /\ fds' = fds + 1
     \/ /\ OpenStep("query", IF Head(start.candidates) = "ring" THEN "rings" ELSE "opened")
        /\ UNCHANGED fds
     \/ OpenStep("rings", "opened") /\ UNCHANGED fds
  /\ UNCHANGED <<scene, next_port, binds, backend, leaked, stopVars, devVars, lp, queueVars,
                 endpointVars, wireVars, faults, txlog>>

\* resolve_gateway_mac: the configured address, else the kernel's ARP entry of its default
\* gateway, else zeros.
read_default_gateway(routes) ==
  LET d == SelectSeq(routes, LAMBDA r : r.dst = "default") IN IF d = << >> THEN "none" ELSE d[1].gw
lookup_arp_entry(arp, ip) ==
  LET e == SelectSeq(arp, LAMBDA x : x.ip = ip /\ x.complete) IN IF e = << >> THEN "zero" ELSE e[1].mac
resolve_gateway_mac(c) ==
  IF c.gateway # "none" THEN c.gateway
  ELSE IF read_default_gateway(c.routes) = "none" THEN "zero"
       ELSE lookup_arp_entry(c.arp, read_default_gateway(c.routes))

\* ephemeral_port, its first atomic: compare_exchange(0, seed + 1).
StartSeed ==
  /\ start.pc = "opened"
  /\ backend' = Head(start.candidates)
  /\ start' = [start EXCEPT !.mac = resolve_gateway_mac(scene.config),
                            !.bound = [ip |-> "us", port |-> scene.config.port],
                            !.pc = IF scene.config.port = 0 THEN "fetch" ELSE "spawn"]
  /\ next_port' = IF scene.config.port = 0 /\ next_port = 0 THEN scene.config.seed + 1
                  ELSE next_port
  /\ modes' = [modes EXCEPT !.cached = modes.dev]
  /\ UNCHANGED <<scene, binds, fds, leaked, stopVars, nic, rx_ring, tx_ring, sockq, lp, queueVars,
                 endpointVars, wireVars, faults, txlog>>

\* Its second: fetch_add, and the port that follows from it.
EphemeralOf(n) == PortFirst + (((n + PortMod - 1) % PortMod) % PortCount)

StartFetch ==
  /\ start.pc = "fetch"
  /\ start' = [start EXCEPT !.bound.port = EphemeralOf(next_port), !.pc = "spawn"]
  /\ next_port' = (next_port + 1) % PortMod
  /\ UNCHANGED <<scene, binds, backend, fds, leaked, stopVars, devVars, lp, queueVars,
                 endpointVars, wireVars, faults, txlog>>

\* Another provider of the process goes through ephemeral_port.
OtherProviderBinds ==
  /\ scene.config.port = 0 /\ Len(binds) < MaxBinds
  /\ LET n == IF next_port = 0 THEN scene.config.seed + 1 ELSE next_port
     IN  binds' = Append(binds, EphemeralOf(n)) /\ next_port' = (n + 1) % PortMod
  /\ UNCHANGED <<scene, start, backend, fds, leaked, stopVars, devVars, lp, queueVars,
                 endpointVars, wireVars, faults, txlog>>

\* The thread is spawned, and only then is its handle stored where shutdown looks for it.
StartSpawn ==
  /\ start.pc = "spawn"
  /\ start' = [start EXCEPT !.pc = "store"]
  /\ lp' = [lp EXCEPT !.pc = "top"]
  /\ UNCHANGED <<scene, next_port, binds, backend, fds, leaked, stopVars, devVars, queueVars,
                 endpointVars, wireVars, faults, txlog>>

StartStore ==
  /\ start.pc = "store" /\ handle # "join"
  /\ start' = [start EXCEPT !.pc = "returned"]
  /\ slot' = "stored"
  /\ UNCHANGED <<scene, next_port, binds, backend, fds, leaked, shutdown, handle, devVars, lp,
                 queueVars, endpointVars, wireVars, faults, txlog>>

-----------------------------------------------------------------------------
(* ProviderHandle::shutdown: the flag, the slot, the join (under the slot's lock). *)

ShutdownStore ==
  /\ scene.stops /\ handle = "idle"
  /\ shutdown' = TRUE
  /\ handle' = IF start.pc = "returned" THEN "take" ELSE "take early"
  /\ UNCHANGED <<scene, startVars, slot, devVars, lp, queueVars, endpointVars, wireVars, faults,
                 txlog>>

ShutdownTake ==
  /\ handle \in {"take", "take early"}
  /\ slot' = IF slot = "stored" THEN "taken" ELSE slot
  /\ handle' = IF slot = "stored" THEN "join"
               ELSE IF handle = "take" THEN "returned" ELSE "returned early"
  /\ UNCHANGED <<scene, startVars, shutdown, devVars, lp, queueVars, endpointVars, wireVars,
                 faults, txlog>>

ShutdownJoin ==
  /\ handle = "join" /\ lp.pc = "done"
  /\ handle' = "returned"
  /\ UNCHANGED <<scene, startVars, shutdown, slot, devVars, lp, queueVars, endpointVars, wireVars,
                 faults, txlog>>

-----------------------------------------------------------------------------
(* The network and the device *)

\* The loop has not begun to drop the backend.
LoopServes == lp.pc \notin {"exit", "drop eal", "drop port", "drop pool", "drop socket", "done"}

\* A frame reaches the interface once the backend listens.
BackendRoom ==
  CASE backend = "dpdk" -> HwRoom(nic)
    [] backend = "ring" -> KernelRoom(rx_ring)
    [] OTHER -> Len(sockq) < SockQueue

Arrive ==
  /\ backend \notin {"none", "loopback"} /\ traffic # << >> /\ lp.pc # "done"
  /\ LET f == [Head(traffic) EXCEPT !.id = Len(scene.traffic) - Len(traffic) + 1,
                                    !.port = IF @ = "ours" THEN start.bound.port ELSE 0]
     IN  IF BackendRoom
         THEN /\ arrived' = Append(arrived, f)
              /\ CASE backend = "dpdk" -> nic' = HwReceive(nic, f) /\ UNCHANGED <<rx_ring, sockq>>
                   [] backend = "ring" ->
                        rx_ring' = KernelReceive(rx_ring, f) /\ UNCHANGED <<nic, sockq>>
                   [] OTHER -> sockq' = Append(sockq, f) /\ UNCHANGED <<nic, rx_ring>>
         ELSE UNCHANGED <<arrived, nic, rx_ring, sockq>>
  /\ traffic' = Tail(traffic)
  /\ UNCHANGED <<scene, modes, startVars, stopVars, tx_ring, lp, queueVars, endpointVars, out, faults,
                 txlog>>

\* The device sends the oldest frame of the transmit queue.
DeviceTransmits ==
  /\ nic.port = "started" /\ nic.txq # << >>
  /\ out' = Append(out, Head(nic.txq).f)
  /\ nic' = HwTransmit(nic)
  /\ UNCHANGED <<scene, modes, startVars, stopVars, rx_ring, tx_ring, sockq, lp, queueVars, endpointVars,
                 traffic, arrived, faults, txlog>>

\* The device has sent the oldest frame it was given from the transmit ring.
RingCompletes ==
  /\ backend = "ring" /\ DeviceBusy(tx_ring)
  /\ out' = Append(out, tx_ring.mem[DeviceSlot(tx_ring)].f)
  /\ tx_ring' = DeviceDone(tx_ring)
  /\ UNCHANGED <<scene, modes, startVars, stopVars, nic, rx_ring, sockq, lp, queueVars, endpointVars,
                 traffic, arrived, faults, txlog>>

-----------------------------------------------------------------------------
(* set_promiscuous(true), set_allmulticast(true): the application keeps a clone of the backend *)
(* it injected, and calls them from threads of its own while the loop runs.                    *)

Calling == {c \in Modes : modes.pc[c] # "idle"}
MayCall(c) == /\ c \in scene.controls \ modes.dev
              /\ backend # "none" /\ lp.pc \notin {"none", "copy"} /\ ~shutdown /\ LoopServes

\* DpdkBackend: the device and the cached mode change under the port's mutex.
SetModeDpdk(c) ==
  /\ backend = "dpdk" /\ MayCall(c)
  /\ modes' = [modes EXCEPT !.dev = @ \cup {c}, !.cached = @ \cup {c}]
  /\ UNCHANGED faults

\* RawSocketBackend::modify_if_flags reads the interface's flags, writes them back with the
\* one changed, and the caller caches the mode.
GetFlags(c) ==
  /\ backend \in {"ring", "basic"} /\ MayCall(c) /\ modes.pc[c] = "idle"
  /\ modes' = [modes EXCEPT !.local[c] = modes.dev \cup {c}, !.pc[c] = "set",
                            !.raced = @ \/ Calling # {}]
  /\ UNCHANGED faults

SetFlags(c) ==
  /\ modes.pc[c] = "set"
  /\ modes' = [modes EXCEPT !.dev = modes.local[c], !.pc[c] = "cache"]
  /\ UNCHANGED faults

SetFlagsFails(c) ==
  /\ modes.pc[c] = "set" /\ faults < MaxFaults
  /\ modes' = [modes EXCEPT !.pc[c] = "idle"]
  /\ faults' = faults + 1

CacheMode(c) ==
  /\ modes.pc[c] = "cache"
  /\ modes' = [modes EXCEPT !.cached = @ \cup {c}, !.pc[c] = "idle"]
  /\ UNCHANGED faults

SetMode ==
  /\ \E c \in Modes : SetModeDpdk(c) \/ GetFlags(c) \/ SetFlags(c) \/ SetFlagsFails(c) \/ CacheMode(c)
  /\ UNCHANGED <<scene, startVars, stopVars, nic, rx_ring, tx_ring, sockq, lp, queueVars,
                 endpointVars, wireVars, txlog>>

-----------------------------------------------------------------------------
(* event_loop_with_tx_queue *)

Goto(pc) == lp' = [lp EXCEPT !.pc = pc]

\* Mutant: only the endpoint can end the loop.
LoopTopBlind ==
  /\ lp.pc = "top"
  /\ Goto("wakeups")
  /\ UNCHANGED <<scene, startVars, stopVars, devVars, queueVars, endpointVars, wireVars, faults,
                 txlog>>

LoopTop ==
  /\ lp.pc = "top"
  /\ Goto(IF shutdown THEN "exit" ELSE "wakeups")
  /\ UNCHANGED <<scene, startVars, stopVars, devVars, queueVars, endpointVars, wireVars, faults,
                 txlog>>

\* poll_wakeups fails once every handle of the application is gone.
PollWakeups ==
  /\ lp.pc = "wakeups"
  /\ Goto("recv") \/ (scene.ends /\ Goto("exit"))
  /\ UNCHANGED <<scene, startVars, stopVars, devVars, queueVars, endpointVars, wireVars, faults,
                 txlog>>

\* recv_frames of the DPDK backend: the burst, then the copies and the drop of the buffers.
RecvBurst ==
  /\ lp.pc = "recv" /\ backend = "dpdk"
  /\ LET b == Port_rx_burst(nic, max_rx_burst)
     IN  nic' = b.nic /\ lp' = [lp EXCEPT !.pc = "copy", !.held = b.mbufs]
  /\ UNCHANGED <<scene, modes, startVars, stopVars, rx_ring, tx_ring, sockq, queueVars, endpointVars,
                 wireVars, faults, txlog>>

RecvCopy ==
  /\ lp.pc = "copy"
  /\ nic' = Mbuf_drop(nic, lp.held)
  /\ lp' = [lp EXCEPT !.pc = "dispatch", !.held = << >>,
                      !.batch = [i \in DOMAIN lp.held |-> lp.held[i].f]]
  /\ UNCHANGED <<scene, modes, startVars, stopVars, rx_ring, tx_ring, sockq, queueVars, endpointVars,
                 wireVars, faults, txlog>>

\* recv_mmap: a slot is copied, then given back, then left.
RecvSlot ==
  /\ lp.pc = "recv" /\ backend = "ring"
  /\ IF Len(lp.batch) < max_rx_burst /\ CanRead(rx_ring)
     THEN lp' = [lp EXCEPT !.pc = "release", !.batch = Append(@, frame_data(rx_ring))]
     ELSE Goto("dispatch")
  /\ UNCHANGED <<scene, startVars, stopVars, devVars, queueVars, endpointVars, wireVars, faults,
                 txlog>>

RecvRelease ==
  /\ lp.pc = "release"
  /\ rx_ring' = advance(Released(rx_ring))
  /\ Goto("recv")
  /\ UNCHANGED <<scene, modes, startVars, stopVars, nic, tx_ring, sockq, queueVars, endpointVars, wireVars,
                 faults, txlog>>

\* recv_basic: one recv per frame until it would block.
RecvSocket ==
  /\ lp.pc = "recv" /\ backend = "basic"
  /\ IF Len(lp.batch) < max_rx_burst /\ sockq # << >>
     THEN lp' = [lp EXCEPT !.batch = Append(@, Head(sockq))] /\ sockq' = Tail(sockq)
     ELSE Goto("dispatch") /\ UNCHANGED sockq
  /\ UNCHANGED <<scene, modes, startVars, stopVars, nic, rx_ring, tx_ring, queueVars, endpointVars,
                 wireVars, faults, txlog>>

\* An error of recv is reported only if no frame was read before it.
RecvFails ==
  /\ lp.pc = "recv" /\ backend = "basic" /\ faults < MaxFaults
  /\ Len(lp.batch) < max_rx_burst
  /\ faults' = faults + 1
  /\ Goto("dispatch")
  /\ stats' = IF lp.batch = << >> THEN [stats EXCEPT !.rx_drops = @ + 1] ELSE stats
  /\ UNCHANGED <<scene, startVars, stopVars, devVars, rx_queue, pending, endpointVars, wireVars,
                 txlog>>

RecvLoopback ==
  /\ lp.pc = "recv" /\ backend = "loopback"
  /\ LET n == Min({max_rx_burst, Len(sockq)})
     IN  /\ lp' = [lp EXCEPT !.pc = "dispatch", !.batch = SubSeq(sockq, 1, n)]
         /\ sockq' = SubSeq(sockq, n + 1, Len(sockq))
  /\ UNCHANGED <<scene, modes, startVars, stopVars, nic, rx_ring, tx_ring, queueVars, endpointVars,
                 wireVars, faults, txlog>>

\* A datagram as the loop sees it: parse_udp_packet_ref rejects a frame that was cut short.
extract_ecn(tos) == tos % 4
ecn_to_tos_bits(ecn) == ecn

parse_to_rx_datagram(f) ==
  IF f.t # "udp" \/ f.cut \/ f.port # start.bound.port THEN << >>
  ELSE <<[id |-> f.id, local |-> [ip |-> f.ip, port |-> f.port], ecn |-> extract_ecn(f.tos)]>>

\* process_icmp_full: a ping for our address is answered, anything else is absorbed.
process_icmp_full(f) ==
  IF f.t = "ping" /\ f.ip = "us" THEN <<[f EXCEPT !.t = "pong"]>> ELSE << >>

\* The frames of the burst, in order.
Dispatch ==
  /\ lp.pc = "dispatch" /\ lp.batch # << >>
  /\ LET f == Head(lp.batch)
         rest == [lp EXCEPT !.batch = Tail(@)]
     IN  IF f.t \in {"ping", "pong"}
         THEN /\ lp' = IF process_icmp_full(f) = << >> THEN rest
                       ELSE [rest EXCEPT !.frame = process_icmp_full(f)[1], !.ret = "dispatch",
                                         !.pc = "send"]
              /\ UNCHANGED rx_queue
         ELSE /\ rx_queue' = rx_queue \o parse_to_rx_datagram(f)
              /\ lp' = [rest EXCEPT !.rxn = @ + Len(parse_to_rx_datagram(f))]
  /\ UNCHANGED <<scene, startVars, stopVars, devVars, pending, stats, endpointVars, wireVars,
                 faults, txlog>>

\* The count, then endpoint.receive, which drains the queue.
Receive ==
  /\ lp.pc = "dispatch" /\ lp.batch = << >>
  /\ stats' = [stats EXCEPT !.received = @ + lp.rxn]
  /\ delivered' = delivered \o rx_queue
  /\ path_local' = IF rx_queue = << >> THEN path_local ELSE Last(rx_queue).local
  /\ rx_queue' = << >>
  /\ Goto("transmit")
  /\ UNCHANGED <<scene, startVars, stopVars, devVars, pending, msgs, generated, wireVars, faults,
                 txlog>>

\* The source address of a frame: the path's, or the bound one while the path has none.
SourceOf(local) == [ip |-> IF local.ip = "any" THEN start.bound.ip ELSE local.ip,
                    port |-> IF local.port = 0 THEN start.bound.port ELSE local.port]

build_quic_frame(id, src, msg) ==
  [t |-> "udp", id |-> id, src |-> src, mac |-> start.mac, ip |-> msg.ip,
   port |-> IF msg.port = "ours" THEN start.bound.port ELSE 0, tos |-> ecn_to_tos_bits(msg.ecn),
   len |-> 1, cut |-> FALSE]

\* DpdkTxQueue::push: refused at capacity; a message with nothing to say is an error; else one
\* frame per write_payload until the message or the room ends.
Segments(msg) == Min({msg.segments, max_tx_burst - Len(pending)})

push ==
  /\ lp.pc = "transmit" /\ msgs # << >>
  /\ Len(pending) < max_tx_burst
  /\ LET msg == Head(msgs)
         n == Segments(msg)
         ids == [i \in 1..n |-> Len(generated) + i]
     IN  /\ generated' = generated \o ids
         /\ pending' = pending \o [i \in 1..n |-> build_quic_frame(ids[i], SourceOf(path_local), msg)]
         /\ msgs' = IF n < msg.segments THEN [msgs EXCEPT ![1].segments = @ - n] ELSE Tail(msgs)
  /\ UNCHANGED <<scene, startVars, stopVars, devVars, lp, rx_queue, stats, path_local, delivered,
                 wireVars, faults, txlog>>

TransmitDone ==
  /\ lp.pc = "transmit"
  /\ Goto("drain")
  /\ UNCHANGED <<scene, startVars, stopVars, devVars, queueVars, endpointVars, wireVars, faults,
                 txlog>>

Drain ==
  /\ lp.pc = "drain" /\ pending # << >>
  /\ lp' = [lp EXCEPT !.frame = Head(pending), !.ret = "drain", !.pc = "send"]
  /\ pending' = Tail(pending)
  /\ UNCHANGED <<scene, startVars, stopVars, devVars, rx_queue, stats, endpointVars, wireVars,
                 faults, txlog>>

\* send_frame returns: the outcome is counted for a datagram, ignored for an ICMP reply.
Returns(ok, held) ==
  /\ lp' = [lp EXCEPT !.pc = lp.ret, !.frame = NoFrame, !.held = held,
                      !.txn = IF ok /\ lp.ret = "drain" THEN @ + 1 ELSE @]
  /\ txlog' = IF lp.ret = "drain" THEN Append(txlog, [id |-> lp.frame.id, ok |-> ok]) ELSE txlog
  /\ stats' = IF ~ok /\ lp.ret = "drain" THEN [stats EXCEPT !.tx_drops = @ + 1] ELSE stats

\* DpdkBackend::send_frame: a buffer is taken and filled ...
SendAlloc ==
  /\ lp.pc = "send" /\ backend = "dpdk"
  /\ IF CanAlloc(nic) /\ lp.frame.len <= DataRoom
     THEN /\ nic' = Allocated(nic)
          /\ lp' = [lp EXCEPT !.pc = "burst", !.held = <<[m |-> Mempool_alloc(nic), f |-> lp.frame]>>]
          /\ UNCHANGED <<stats, txlog>>
     ELSE Returns(FALSE, << >>) /\ UNCHANGED nic
  /\ UNCHANGED <<scene, modes, startVars, stopVars, rx_ring, tx_ring, sockq, rx_queue, pending,
                 endpointVars, wireVars, faults>>

\* ... and offered to the driver; what the driver leaves is dropped.
SendBurst ==
  /\ lp.pc = "burst"
  /\ LET b == Port_tx_burst(nic, lp.held)
     IN  nic' = Mbuf_drop(b.nic, b.left) /\ Returns(b.sent > 0, << >>)
  /\ UNCHANGED <<scene, modes, startVars, stopVars, rx_ring, tx_ring, sockq, rx_queue, pending,
                 endpointVars, wireVars, faults>>

\* send_mmap: the frame is written to the next slot ...
SendSlot ==
  /\ lp.pc = "send" /\ backend = "ring"
  /\ IF CanWrite(tx_ring) /\ lp.frame.len <= RingRoom
     THEN /\ tx_ring' = advance(write_tx_frame(tx_ring, lp.frame))
          /\ lp' = [lp EXCEPT !.pc = "kick"]
          /\ UNCHANGED <<stats, txlog>>
     ELSE Returns(FALSE, << >>) /\ UNCHANGED tx_ring
  /\ UNCHANGED <<scene, modes, startVars, stopVars, nic, rx_ring, sockq, rx_queue, pending, endpointVars,
                 wireVars, faults>>

\* ... and sendto has the kernel take what is marked, in order ...
SendKick ==
  /\ lp.pc = "kick"
  /\ IF KernelToSend(tx_ring)
     THEN tx_ring' = KernelSend(tx_ring) /\ UNCHANGED <<lp, stats, txlog>>
     ELSE Returns(TRUE, << >>) /\ UNCHANGED tx_ring
  /\ UNCHANGED <<scene, modes, startVars, stopVars, nic, rx_ring, sockq, rx_queue, pending, endpointVars,
                 wireVars, faults>>

\* ... or fails, with ENOBUFS, which counts as success, or another error, which does not; the
\* slot stays marked in both cases.
SendKickFails ==
  /\ lp.pc = "kick" /\ KernelToSend(tx_ring) /\ faults < MaxFaults
  /\ faults' = faults + 1
  /\ \E err \in {"ENOBUFS", "ENETDOWN"} : Returns(err = "ENOBUFS", << >>)
  /\ UNCHANGED <<scene, startVars, stopVars, devVars, rx_queue, pending, endpointVars, wireVars>>

\* send_basic
SendSocket ==
  /\ lp.pc = "send" /\ backend = "basic"
  /\ \/ out' = Append(out, lp.frame) /\ Returns(TRUE, << >>) /\ UNCHANGED faults
     \/ /\ faults < MaxFaults /\ faults' = faults + 1
        /\ Returns(FALSE, << >>) /\ UNCHANGED out
  /\ UNCHANGED <<scene, startVars, stopVars, devVars, rx_queue, pending, endpointVars, traffic,
                 arrived>>

\* LoopbackBackend::send_frame
SendLoopback ==
  /\ lp.pc = "send" /\ backend = "loopback"
  /\ sockq' = Append(sockq, lp.frame)
  /\ arrived' = Append(arrived, lp.frame)
  /\ out' = Append(out, lp.frame)
  /\ Returns(TRUE, << >>)
  /\ UNCHANGED <<scene, modes, startVars, stopVars, nic, rx_ring, tx_ring, rx_queue, pending,
                 endpointVars, traffic, faults>>

\* The count, and the cooldown: after busy_poll_budget idle rounds the loop sleeps once.
DrainDone ==
  /\ lp.pc = "drain" /\ pending = << >>
  /\ stats' = [stats EXCEPT !.transmitted = @ + lp.txn]
  /\ LET idle == IF lp.rxn > 0 \/ lp.txn > 0 THEN 0 ELSE lp.idle + 1
     IN  lp' = [lp EXCEPT !.rxn = 0, !.txn = 0, !.idle = idle,
                          !.pc = IF idle > busy_poll_budget THEN "sleep" ELSE "top"]
  /\ UNCHANGED <<scene, startVars, stopVars, devVars, rx_queue, pending, endpointVars, wireVars,
                 faults, txlog>>

Sleep ==
  /\ lp.pc = "sleep"
  /\ lp' = [lp EXCEPT !.pc = "top", !.idle = 0]
  /\ UNCHANGED <<scene, startVars, stopVars, devVars, queueVars, endpointVars, wireVars, faults,
                 txlog>>

\* The loop returns and drops the backend: the fields of DpdkBackend in the order they are
\* declared; the rings, then the socket.
LoopExit ==
  /\ lp.pc = "exit"
  /\ Goto(CASE backend = "dpdk" -> "drop eal" [] backend \in {"ring", "basic"} -> "drop socket"
            [] backend = "loopback" -> "done")
  /\ UNCHANGED <<scene, startVars, stopVars, devVars, queueVars, endpointVars, wireVars, faults,
                 txlog>>

DropDpdk ==
  /\ \/ lp.pc = "drop eal" /\ nic' = Eal_drop(nic) /\ Goto("drop port")
     \/ lp.pc = "drop port" /\ nic' = Port_drop(nic) /\ Goto("drop pool")
     \/ lp.pc = "drop pool" /\ nic' = Mempool_drop(nic) /\ Goto("done")
  /\ UNCHANGED <<scene, modes, startVars, stopVars, rx_ring, tx_ring, sockq, queueVars, endpointVars,
                 wireVars, faults, txlog>>

DropSocket ==
  /\ lp.pc = "drop socket"
  /\ fds' = fds - 1
  /\ Goto("done")
  /\ UNCHANGED <<scene, start, next_port, binds, backend, leaked, stopVars, devVars, queueVars,
                 endpointVars, wireVars, faults, txlog>>

-----------------------------------------------------------------------------
Start == StartBind \/ OpenFails \/ OpenDpdk \/ OpenRaw \/ StartSeed \/ StartFetch \/ StartSpawn
           \/ StartStore
Stop == ShutdownStore \/ ShutdownTake \/ ShutdownJoin
Environment == SetMode \/ Arrive \/ DeviceTransmits \/ RingCompletes \/ OtherProviderBinds
Loop == LoopTop \/ PollWakeups \/ RecvBurst \/ RecvCopy \/ RecvSlot \/ RecvRelease \/ RecvSocket
          \/ RecvFails \/ RecvLoopback \/ Dispatch \/ Receive \/ push \/ TransmitDone \/ Drain
          \/ SendAlloc \/ SendBurst \/ SendSlot \/ SendKick \/ SendKickFails \/ SendSocket
          \/ SendLoopback \/ DrainDone \/ Sleep \/ LoopExit \/ DropDpdk \/ DropSocket

Next == Start \/ Stop \/ Environment \/ Loop

\* The threads run: the loop always, start and shutdown until they return, and the device.
LoopRuns == lp.pc \notin {"none", "done"}
StartRuns == start.pc \notin {"returned", "failed"} /\ ~(start.pc = "store" /\ handle = "join")
Fairness ==
  /\ []<>~LoopRuns \/ []<><<Loop>>_vars
  /\ []<>~StartRuns \/ []<><<Start>>_vars
  /\ []<>(handle # "join" \/ lp.pc # "done") \/ []<><<ShutdownJoin>>_vars
  /\ []<>(nic.port # "started" \/ nic.txq = << >>) \/ []<><<DeviceTransmits>>_vars
  /\ []<>~DeviceBusy(tx_ring) \/ []<><<RingCompletes>>_vars

Spec == Init /\ [][Next]_vars /\ Fairness

-----------------------------------------------------------------------------
(* What holds *)

Ids(s) == [i \in DOMAIN s |-> s[i].id]
Ours(f) == f.t = "udp" /\ f.port = start.bound.port

\* Frames the kernel has handed over and the loop has not copied.
RingContents ==
  LET users == {a \in DOMAIN rx_ring.mem : rx_ring.mem[a].st = "user"}
      skip == IF lp.pc = "release" THEN 1 ELSE 0
  IN  [i \in 1..Cardinality(users) - skip |->
         rx_ring.mem[frame_header(rx_ring, (rx_ring.current_frame + skip + i - 1)
                                             % rx_ring.frame_count)].f]

Frames(s) == [i \in DOMAIN s |-> s[i].f]

\* What the backend has received and not yet returned from recv_frames.
Contents ==
  CASE backend = "dpdk" -> (IF lp.pc = "copy" THEN Frames(lp.held) ELSE << >>) \o Frames(nic.rxq)
    [] backend = "ring" -> RingContents
    [] OTHER -> sockq

Queued ==
  CASE backend = "dpdk" -> {nic.txq[i].f : i \in DOMAIN nic.txq}
    [] backend = "ring" -> {tx_ring.mem[a].f : a \in {b \in DOMAIN tx_ring.mem : tx_ring.mem[b].st # "kernel"}}
    [] OTHER -> {}

\* The loop still owns its backend.
Holding == lp.pc \notin {"drop pool", "done"}

\* Types and bounds: neither burst is exceeded, by the loop or by the queues of the provider.
TypeOK ==
  /\ backend \in {"none", "dpdk", "ring", "basic", "loopback"}
  /\ nic.eal \in {"up", "down"} /\ nic.pool \in {"live", "none"}
  /\ nic.port \in {"none", "stopped", "started"} /\ nic.free \in [Mbuf -> 0..1]
  /\ Len(nic.rxq) <= RxDesc /\ Len(nic.txq) <= TxDesc
  /\ Len(lp.batch) <= max_rx_burst /\ Len(lp.held) <= max_rx_burst
  /\ Len(rx_queue) <= max_rx_burst /\ Len(pending) <= max_tx_burst
  /\ lp.idle \in 0..busy_poll_budget + 1
  /\ next_port \in 0..PortMod - 1 /\ fds \in 0..2 /\ leaked \in 0..1
  /\ slot \in {"empty", "stored", "taken"}

\* Every buffer of the mempool is in one place: on the free list, with the driver, or an Mbuf
\* value of send_frame or recv_frames (Port::tx_burst forgets exactly what the driver took).
MbufsConserved ==
  nic.pool = "live" =>
    \A m \in Mbuf : nic.free[m] + Copies(m, nic.rxq) + Copies(m, nic.txq) + Copies(m, lp.held) = 1

\* The device never has a queue in memory that was given back: the mempool goes after the port,
\* whether start unwinds or the loop drops the backend.
PoolOutlivesPort == nic.port # "none" => nic.pool = "live"

\* Once start has failed or the loop is gone nothing is left open, but for the sockets whose
\* ring setup failed (setup_mmap_rings does not close them).
NothingLeftOpen ==
  start.pc = "failed" \/ lp.pc = "done" =>
    nic.eal = "down" /\ nic.pool = "none" /\ nic.port = "none" /\ fds = leaked

\* The endpoint gets every datagram for its port that the backend took, once, in order, with
\* its local address and ECN codepoint; what it has not got is on its way.  A frame too long
\* for a slot of the ring is lost.
DatagramsReachEndpoint ==
  LET whole == SelectSeq(arrived, LAMBDA f : Ours(f) /\ (backend = "ring" => f.len <= RingRoom))
      todo == SelectSeq(lp.batch \o Contents, LAMBDA f : Ours(f) /\ ~f.cut)
      seen == delivered \o rx_queue
  IN  Holding =>
        /\ Ids(whole) = Ids(seen) \o Ids(todo)
        /\ \A i \in DOMAIN seen : seen[i] = [id |-> whole[i].id, ecn |-> whole[i].tos % 4,
                                             local |-> [ip |-> whole[i].ip, port |-> start.bound.port]]

\* Every datagram the endpoint wrote is pending, being sent, or was sent or refused, in the
\* order it was written, and the counters of ProviderStats tell how many of each.
DatagramsAccounted ==
  LET inflight == IF lp.ret = "drain" /\ lp.frame # NoFrame THEN <<lp.frame.id>> ELSE << >>
      count(ok) == Cardinality({i \in DOMAIN txlog : txlog[i].ok = ok})
  IN  /\ generated = Ids(txlog) \o inflight \o Ids(pending)
      /\ stats.received = Len(delivered)
      /\ stats.transmitted + lp.txn = count(TRUE) /\ stats.tx_drops = count(FALSE)

\* Datagrams leave in the order they were written, none twice; one the backend accepted has
\* left or waits with the driver or in the ring.
AcceptedIsSentOrQueued ==
  LET udp == SelectSeq(out, LAMBDA f : f.t = "udp")
  IN  /\ \A i, j \in DOMAIN udp : i < j => udp[i].id < udp[j].id
      /\ Holding => \A i \in DOMAIN txlog :
           txlog[i].ok => \E f \in Queued \cup {udp[k] : k \in DOMAIN udp} : f.t = "udp" /\ f.id = txlog[i].id

\* No datagram leaves from the unspecified address or from port 0, also on a path that has no
\* local address yet, and with a port the caller left to the provider.
SourceIsBound ==
  \A i \in DOMAIN out : out[i].t = "udp" => out[i].src.ip # "any" /\ out[i].src.port = start.bound.port
                                            /\ start.bound.port # 0

\* Providers of a process that bind port 0 get different ports, whatever the interleaving of
\* ephemeral_port's two atomics.
PortsDistinct ==
  start.pc \in {"spawn", "store", "returned"} /\ scene.config.port = 0 =>
    start.bound.port \notin {binds[i] : i \in DOMAIN binds}

\* is_promiscuous and is_allmulticast tell what the device does, unless calls to a raw backend
\* overlapped: modify_if_flags reads and writes the flags in two system calls.
ModesCached == Calling = {} /\ ~modes.raced /\ backend # "none" => modes.cached = modes.dev

\* shutdown() called after start() has returned comes back only when the loop has ended.
ShutdownJoins == handle = "returned" => ~LoopRuns

\* Once the flag is set the loop ends, also if start has yet to spawn it.
LoopStops == shutdown ~> lp.pc = "done" \/ start.pc = "failed"

\* What a backend has received is taken from it, unless the loop ends.
ArrivedIsTaken == Contents # << >> /\ LoopRuns ~> Contents = << >> \/ ~LoopRuns

\* Whatever fails during start and whenever the provider stops, every resource is in one
\* place while it is used and given back in order afterwards: buffers, mempool, port, EAL,
\* sockets, interface modes and the thread of the loop.
ResourcesReturned ==
  TypeOK /\ MbufsConserved /\ PoolOutlivesPort /\ NothingLeftOpen /\ ModesCached /\ ShutdownJoins

\* Every datagram the endpoint wrote is accounted for by the statistics, and leaves once,
\* in order, from the bound address and a port no other provider of the process has.
SentAsWritten == DatagramsAccounted /\ AcceptedIsSentOrQueued /\ SourceIsBound /\ PortsDistinct

\* The loop takes what arrives until it is told to stop, and then it stops.
LoopProgress == LoopStops /\ ArrivedIsTaken
=============================================================================
