---------------------------- MODULE SocketSetup ----------------------------
(***************************************************************************)
(* How UDP sockets come to be (dpdk-stdlib-udp/src/lib.rs, topology.rs and *)
(* the bind functions of dpdk-stdlib-tokio): the resources of the port     *)
(* that the sockets of a process share and the first of them initialises,  *)
(* ephemeral ports, the choice of a backend, the builder and its plan of   *)
(* threads, and the fallback of the facades to a socket of the kernel.     *)
(*                                                                         *)
(* A call is [api, port, ...] with api "bind_v4", "bind_v6", "backend"     *)
(* (create_backend of `type` on `iface`, then bind_with_backend),          *)
(* "builder" (with rx_queues) or "compat" (the facades).                   *)
(***************************************************************************)
EXTENDS PerfReporter

CONSTANTS Binders,       \* threads that bind
          FirstPort, LastPort,   \* the range of ephemeral ports
          IsStub,        \* linked against the stubs
          Lcores, NicMaxRx, NicMaxTx,    \* what the builder tells detect_topology
          EnvQueues,     \* DPDK_RX_QUEUES, None when it is unset or no number
          MaxReporters   \* how many reporters are started at most

ASSUME SetupAssumption ==
  /\ IsFiniteSet(Binders)
  /\ FirstPort \in Nat /\ LastPort \in Nat /\ FirstPort <= LastPort
  /\ IsStub \in BOOLEAN /\ Lcores \in Nat /\ NicMaxRx \in Nat /\ NicMaxTx \in Nat
  /\ EnvQueues \in Option(Nat)

VARIABLES DPDK_RESOURCES,        \* are the shared resources there
          resourcesLock,         \* who holds their mutex, None
          held,                  \* what of DPDK is initialised in the process
          NEXT_EPHEMERAL_PORT,
          binder,                \* thread -> its registers
          sockets,               \* the sockets, in the order they were bound
          failed,                \* has a bind failed
          faults,                \* faults that can still happen
          faulted,               \* has one happened
          foreign,               \* has a DpdkBackend been opened beside the sockets' resources
          refused,               \* has one been refused because DPDK was initialised already
          wrapped                \* has the range of ephemeral ports been used up

portVars == <<NEXT_EPHEMERAL_PORT, wrapped>>
faultVars == <<faults, faulted>>
foreignVars == <<foreign, refused>>
setupVars == <<DPDK_RESOURCES, resourcesLock, held, portVars, binder, sockets, failed, faultVars, foreignVars>>

Unbound(calls) == [pc |-> "idle", calls |-> calls, call |-> None, port |-> 0, backend |-> "none",
                   tries |-> << >>, pre |-> FALSE, stage |-> 0]

SetupInit(calls, n) ==
  /\ DPDK_RESOURCES = FALSE /\ resourcesLock = None /\ held = {}
  /\ NEXT_EPHEMERAL_PORT = FirstPort /\ wrapped = FALSE
  /\ binder = [b \in Binders |-> Unbound(calls[b])]
  /\ sockets = << >> /\ failed = FALSE
  /\ faults = n /\ faulted = FALSE /\ foreign = FALSE /\ refused = FALSE

BinderAt(b, pc) == binder[b].pc = pc
BinderGoto(b, pc) == binder' = [binder EXCEPT ![b].pc = pc]
Api(b) == binder[b].call[1].api

\* Something fails that DPDK or the kernel does.
Fault == faults > 0 /\ faults' = faults - 1 /\ faulted' = TRUE

\* A call fails, and drops the backend it has opened; a facade falls back to the
\* kernel; and the builder ignores that its own initialisation failed.
BindFails(b) ==
  IF binder[b].pre THEN binder' = [binder EXCEPT ![b].pc = "get", ![b].pre = FALSE] /\ UNCHANGED failed
  ELSE IF Api(b) = "compat" THEN BinderGoto(b, "kernel") /\ UNCHANGED failed
  ELSE binder' = [binder EXCEPT ![b] = Unbound(@.calls)] /\ failed' = TRUE

\* A thread binds.  An IPv6 socket and one with a backend take their port first.
Tries(c) == CASE c.type = "Dpdk" -> <<"dpdk">>
              [] c.type = "RawSocketMmap" -> <<"mmap">>
              [] c.type = "RawSocket" -> <<"raw">>
              [] c.type = "Auto" -> IF c.iface THEN <<"dpdk", "mmap", "raw">> ELSE <<"dpdk">>

Bind(b) ==
  LET r == binder[b]
      c == Head(r.calls)
  IN
  /\ BinderAt(b, "idle") /\ r.calls # << >>
  /\ binder' = [binder EXCEPT ![b] = [r EXCEPT
       !.calls = Tail(r.calls), !.call = Some(c), !.port = c.port,
       !.tries = IF c.api = "backend" THEN Tries(c) ELSE << >>,
       !.pre = (c.api = "builder"),
       !.pc = CASE c.api = "backend" -> "open"
                [] c.api = "bind_v6" -> "port"
                [] c.api = "compat" /\ IsStub -> "kernel"
                [] OTHER -> "get"]]
  /\ UNCHANGED <<DPDK_RESOURCES, resourcesLock, held, portVars, sockets, failed, faultVars, foreignVars>>

\* create_backend: the first one that can be opened.  A DpdkBackend has an EAL of
\* its own, which cannot be initialised a second time.
create_backend(b) ==
  LET r == binder[b] IN
  /\ BinderAt(b, "open")
  /\ CASE r.tries = << >> -> BindFails(b) /\ UNCHANGED <<held, faultVars, foreignVars>>
       [] r.tries # << >> ->
          \/ /\ \/ Fault /\ UNCHANGED refused
                \/ Head(r.tries) = "dpdk" /\ "eal" \in held /\ refused' = TRUE /\ UNCHANGED faultVars
             /\ binder' = [binder EXCEPT ![b].tries = Tail(@)]
             /\ UNCHANGED <<held, failed, foreign>>
          \/ /\ Head(r.tries) = "dpdk" => "eal" \notin held
             /\ held' = held \cup (IF Head(r.tries) = "dpdk" THEN {"eal"} ELSE {})
             /\ foreign' = (foreign \/ Head(r.tries) = "dpdk")
             /\ binder' = [binder EXCEPT ![b].backend = Head(r.tries), ![b].pc = "port"]
             /\ UNCHANGED <<failed, faultVars, refused>>
  /\ UNCHANGED <<DPDK_RESOURCES, resourcesLock, portVars, sockets>>

-----------------------------------------------------------------------------
\* get_or_init_dpdk: the mutex is held from the look at the resources to the end
\* of their initialisation.

\* What follows it in each of the bind functions.
AfterGet(b) == IF binder[b].pre THEN "get"
               ELSE IF Api(b) \in {"bind_v6", "backend"} THEN "finish" ELSE "port"

GetResources(b) ==
  /\ BinderAt(b, "get") /\ resourcesLock = None
  /\ IF DPDK_RESOURCES
     THEN /\ binder' = [binder EXCEPT ![b].pc = AfterGet(b), ![b].pre = FALSE]
          /\ UNCHANGED resourcesLock
     ELSE resourcesLock' = Some(b) /\ BinderGoto(b, "init")
  /\ UNCHANGED <<DPDK_RESOURCES, held, portVars, sockets, failed, faultVars, foreignVars>>

\* init_dpdk_resources: EAL, mempool, port, start.
Stages == <<"eal", "pool", "port", "started">>
AllStages == {Stages[i] : i \in DOMAIN Stages}
InitStage(b) ==
  LET s == Stages[binder[b].stage + 1] IN
  /\ BinderAt(b, "init") /\ binder[b].stage < Len(Stages)
  /\ IF s = "eal" /\ s \in held THEN BinderGoto(b, "undo") /\ UNCHANGED held
     ELSE held' = held \cup {s} /\ binder' = [binder EXCEPT ![b].stage = @ + 1]
  /\ UNCHANGED <<DPDK_RESOURCES, resourcesLock, portVars, sockets, failed, faultVars, foreignVars>>

InitFails(b) ==
  /\ BinderAt(b, "init") /\ binder[b].stage < Len(Stages)
  /\ Fault
  /\ BinderGoto(b, "undo")
  /\ UNCHANGED <<DPDK_RESOURCES, resourcesLock, held, portVars, sockets, failed, foreignVars>>

\* Mutant: what was acquired first is released first.
DroppedForwards(n) == CHOOSE i \in 1..n : Stages[i] \in held /\ \A j \in 1..i-1 : Stages[j] \notin held
\* The local that is dropped next: the last one acquired.
Dropped(n) == n

\* The locals are dropped in the reverse order, then the guard; with the failed
\* call goes the backend, and its EAL.
UndoInit(b) ==
  LET n == binder[b].stage IN
  /\ BinderAt(b, "undo")
  /\ IF n > 0
     THEN /\ held' = held \ {Stages[Dropped(n)]}
          /\ binder' = [binder EXCEPT ![b].stage = n - 1]
          /\ UNCHANGED <<resourcesLock, failed>>
     ELSE /\ resourcesLock' = None /\ BindFails(b)
          /\ held' = IF binder[b].backend = "dpdk" THEN held \ {"eal"} ELSE held
  /\ UNCHANGED <<DPDK_RESOURCES, portVars, sockets, faultVars, foreignVars>>

Publish(b) ==
  /\ BinderAt(b, "init") /\ binder[b].stage = Len(Stages)
  /\ DPDK_RESOURCES' = TRUE
  /\ resourcesLock' = None
  /\ binder' = [binder EXCEPT ![b].pc = AfterGet(b), ![b].pre = FALSE, ![b].stage = 0]
  /\ UNCHANGED <<held, portVars, sockets, failed, faultVars, foreignVars>>

-----------------------------------------------------------------------------
\* allocate_ephemeral_port: fetch_add, and past the end of the range the store
\* that starts it again.
AfterPort(b) == IF Api(b) \in {"bind_v6", "backend"} THEN "get" ELSE "finish"

FixedPort(b) ==
  /\ BinderAt(b, "port") /\ binder[b].port # 0
  /\ BinderGoto(b, AfterPort(b))
  /\ UNCHANGED <<DPDK_RESOURCES, resourcesLock, held, portVars, sockets, failed, faultVars, foreignVars>>

InRange(p) == p \in FirstPort..LastPort

\* Mutant: the counter is read and not advanced.
EphemeralPortReads(b) ==
  /\ BinderAt(b, "port") /\ binder[b].port = 0
  /\ binder' = [binder EXCEPT ![b].pc = AfterPort(b), ![b].port = NEXT_EPHEMERAL_PORT]
  /\ UNCHANGED <<DPDK_RESOURCES, resourcesLock, held, portVars, sockets, failed, faultVars, foreignVars>>

EphemeralPort(b) ==
  /\ BinderAt(b, "port") /\ binder[b].port = 0
  /\ binder' = [binder EXCEPT ![b].pc = IF InRange(NEXT_EPHEMERAL_PORT) THEN AfterPort(b) ELSE "wrap",
                              ![b].port = IF InRange(NEXT_EPHEMERAL_PORT) THEN NEXT_EPHEMERAL_PORT ELSE @]
  /\ NEXT_EPHEMERAL_PORT' = NEXT_EPHEMERAL_PORT + 1
  /\ wrapped' = (wrapped \/ ~InRange(NEXT_EPHEMERAL_PORT))
  /\ UNCHANGED <<DPDK_RESOURCES, resourcesLock, held, sockets, failed, faultVars, foreignVars>>

WrapPort(b) ==
  /\ BinderAt(b, "wrap")
  /\ NEXT_EPHEMERAL_PORT' = FirstPort + 1
  /\ binder' = [binder EXCEPT ![b].port = FirstPort, ![b].pc = AfterPort(b)]
  /\ UNCHANGED <<DPDK_RESOURCES, resourcesLock, held, sockets, failed, faultVars, foreignVars, wrapped>>
-----------------------------------------------------------------------------
\* The plan of the builder: detect_topology.
clamp_rx_queues(requested, nic_max) ==
  IF nic_max = 0 \/ requested < 1 THEN 1 ELSE IF requested > nic_max THEN nic_max ELSE requested

auto_detect_queues(lcores, nic_max) ==
  IF lcores <= 2 THEN 1 ELSE clamp_rx_queues(lcores - 1, nic_max)

compute_tx_queues(rx_queues, nic_max) ==
  IF rx_queues <= 1 THEN 1 ELSE IF nic_max = 1 THEN 1 ELSE 2

detect_topology(rx_queues) ==
  LET rx == CASE IsStub -> 1
              [] ~IsStub /\ rx_queues # None -> clamp_rx_queues(rx_queues[1], NicMaxRx)
              [] ~IsStub /\ rx_queues = None /\ EnvQueues # None -> clamp_rx_queues(EnvQueues[1], NicMaxRx)
              [] OTHER -> auto_detect_queues(Lcores, NicMaxRx)
  IN  [rx |-> rx, tx |-> compute_tx_queues(rx, NicMaxTx)]

OneThread == [rx |-> 1, tx |-> 1]

\* The socket is there, over the port or over the backend that was opened, and
\* with a port of its own.  The gratuitous ARP is sent and its outcome ignored.
NewSocket(b, kind, topology) ==
  /\ sockets' = Append(sockets, [kind |-> kind, by |-> b, port |-> binder[b].port,
                                 ephemeral |-> binder[b].call[1].port = 0,
                                 topology |-> topology, pipeline |-> topology.rx > 1])
  /\ binder' = [binder EXCEPT ![b] = Unbound(@.calls)]
  /\ UNCHANGED <<DPDK_RESOURCES, resourcesLock, held, portVars, failed, faultVars, foreignVars>>

bind_v4_on(b) ==
  BinderAt(b, "finish") /\ Api(b) \in {"bind_v4", "compat"} /\ NewSocket(b, "ipv4", OneThread)

bind_v6(b) ==
  BinderAt(b, "finish") /\ Api(b) = "bind_v6" /\ NewSocket(b, "ipv6", OneThread)

bind_with_backend(b) ==
  BinderAt(b, "finish") /\ Api(b) = "backend" /\ NewSocket(b, binder[b].backend, OneThread)

\* UdpSocketBuilder::bind: when the plan has more than one receive queue, the
\* pipeline is started, and then the reporter.  PerfReporter follows the first
\* socket of the process; the counters and the reporter of another are its own.
BuilderBind(b) ==
  LET topology == detect_topology(binder[b].call[1].rx_queues) IN
  /\ BinderAt(b, "finish") /\ Api(b) = "builder"
  /\ NewSocket(b, "ipv4", topology)
  /\ IF topology.rx > 1 /\ sockets = << >> THEN StartReporter /\ UNCHANGED <<countVars, guard, recv, user, plan>>
     ELSE UNCHANGED perfVars

\* The facades' fallback.
KernelBind(b) ==
  /\ BinderAt(b, "kernel")
  /\ \/ /\ Fault /\ failed' = TRUE /\ UNCHANGED sockets
     \/ /\ UNCHANGED <<faultVars, failed>>
        /\ sockets' = Append(sockets, [kind |-> "kernel", by |-> b, port |-> 0, ephemeral |-> FALSE,
                                       topology |-> OneThread, pipeline |-> FALSE])
  /\ binder' = [binder EXCEPT ![b] = Unbound(@.calls)]
  /\ UNCHANGED <<DPDK_RESOURCES, resourcesLock, held, portVars, foreignVars>>

SetupStep(b) ==
  \/ Bind(b) \/ create_backend(b) \/ GetResources(b) \/ InitStage(b) \/ InitFails(b) \/ UndoInit(b)
  \/ Publish(b) \/ FixedPort(b) \/ EphemeralPort(b) \/ WrapPort(b)
  \/ bind_v4_on(b) \/ bind_v6(b) \/ bind_with_backend(b) \/ KernelBind(b)

\* The threads of the socket run once it is there.
SetupNext ==
  \/ \E b \in Binders : SetupStep(b) /\ UNCHANGED perfVars
  \/ \E b \in Binders : BuilderBind(b)
  \/ sockets # << >> /\ PerfNext /\ UNCHANGED setupVars

\* The threads are scheduled: the reporter, and whoever joins it.
SetupFairness ==
  /\ \A i \in 1..MaxReporters : WF_<<setupVars, perfVars>>(i \in DOMAIN loops /\ Loop(i) /\ UNCHANGED setupVars)
  /\ \A u \in Users : WF_<<setupVars, perfVars>>(DisableJoined(u) /\ UNCHANGED setupVars)

-----------------------------------------------------------------------------
SetupTypeOK ==
  /\ DPDK_RESOURCES \in BOOLEAN /\ resourcesLock \in {None} \cup {Some(b) : b \in Binders}
  /\ held \subseteq AllStages
  /\ NEXT_EPHEMERAL_PORT \in FirstPort..LastPort + Cardinality(Binders) + 1
  /\ \A b \in Binders :
       /\ binder[b].pc \in {"idle", "open", "get", "init", "undo", "port", "wrap", "finish", "kernel"}
       /\ binder[b].stage \in 0..Len(Stages)
  /\ failed \in BOOLEAN /\ faults \in Nat /\ faulted \in BOOLEAN /\ foreign \in BOOLEAN /\ refused \in BOOLEAN
  /\ rx_packets \in Nat /\ imissed \in Nat /\ latency_max \in Latencies \cup {0}
  /\ sampler \in [samples : [0..Capacity-1 -> Latencies \cup {0}], count : Nat, write_idx : Nat,
                  packet_count : 0..SampleRate-1]
  /\ reporter \in {None} \cup {Some(i) : i \in DOMAIN loops}
  /\ guard \in {None} \cup {Some(u) : u \in Users} /\ \A u \in Users : user[u].pc \in {"idle", "join", "count", "load"}

\* The sockets of a process share one initialisation of DPDK, whichever of them
\* comes first and however many bind at once: a bind fails only when something
\* failed in DPDK or in the kernel, or when the application asked for a DpdkBackend:
\* the one that is there keeps the sockets out, and the sockets keep out another.
BindFailsOnlyByFault == failed => faulted \/ foreign \/ refused

\* An initialisation that fails leaves nothing behind and undoes what it did in
\* the reverse order: the port is never there without its mempool, nor that
\* without the EAL; and when nobody initialises, there is all of it or, but for
\* the EAL of a DpdkBackend, nothing.
InitUndone ==
  /\ \A i \in 2..Len(Stages) : Stages[i] \in held => Stages[i - 1] \in held
  /\ DPDK_RESOURCES => held = AllStages
  /\ ~DPDK_RESOURCES /\ resourcesLock = None => held = {} \/ (foreign /\ held = {"eal"})

\* Ephemeral ports are in the range, and until the range is used up no two
\* sockets have the same one, however many threads bind.
EphemeralPortsDistinct ==
  LET given == {i \in DOMAIN sockets : sockets[i].ephemeral} IN
  /\ \A i \in given : sockets[i].port \in FirstPort..LastPort
  /\ ~wrapped => \A i, j \in given : sockets[i].port = sockets[j].port => i = j

\* The plan fits the NIC: at least one queue and no more than there are, and a
\* pipeline has the second transmit queue that the application sends on.
PlanFits ==
  \A i \in DOMAIN sockets :
    /\ sockets[i].topology.rx \in 1..(IF NicMaxRx = 0 THEN 1 ELSE NicMaxRx)
    /\ sockets[i].pipeline => sockets[i].topology.tx = 2 \/ NicMaxTx = 1
=============================================================================
