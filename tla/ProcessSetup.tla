---------------------------- MODULE ProcessSetup ----------------------------
(***************************************************************************)
(* What a process sets up: its UDP sockets, with the counters and the      *)
(* reporter of the first (SocketSetup), and beside them the TCP context    *)
(* with its engine (TcpContext).  Threads bind, report, initialise and     *)
(* connect in any order and with any arguments.                            *)
(***************************************************************************)
EXTENDS SocketSetup, TcpContext

BindCalls ==
  [api : {"bind_v4", "bind_v6", "compat"}, port : Nat]
    \cup [api : {"backend"}, port : Nat, type : {"Dpdk", "RawSocketMmap", "RawSocket", "Auto"}, iface : BOOLEAN]
    \cup [api : {"builder"}, port : Nat, rx_queues : Option(Nat)]

PerfPlans ==
  [calls : [Users -> Seq({"enable", "disable", "snapshot"})], bursts : Nat, drops : Nat, failures : Nat,
   stats : BOOLEAN]

TcpCalls ==
  [op : {"init"}, gateway_mac : BOOLEAN]
    \cup [op : {"connect"}, family : {"v4", "v6"}, timeout : BOOLEAN]
    \cup [op : {"listen"}, family : {"v4", "v6"}]

Everything == <<setupVars, perfVars, tcpVars>>

ProcessInit ==
  /\ \E calls \in [Binders -> Seq(BindCalls)], n \in Nat : SetupInit(calls, n)
  /\ \E p \in PerfPlans : PerfInit(p)
  /\ \E calls \in [Callers -> Seq(TcpCalls)], n \in Nat : ContextInit(calls, n)

SocketStep == SetupNext /\ UNCHANGED tcpVars
ContextStep == ContextNext /\ UNCHANGED <<setupVars, perfVars>>
ProcessNext == SocketStep \/ ContextStep
ProcessSpec == ProcessInit /\ [][ProcessNext]_Everything

-----------------------------------------------------------------------------
\* The ephemeral ports of UDP sockets, and those of TCP connects, differ until their range
\* is used up, however many threads ask at once.
EphemeralPortsDiffer == EphemeralPortsDistinct /\ PortsSpread

\* Of each background thread there is one: an engine for the process, a reporter for the
\* socket, whichever calls race to start them.
OneThreadEach == OneEngine /\ ReporterJoined

\* A bind fails only when something failed below it, leaves nothing behind then, and plans
\* queues the NIC has.
BindSound == SetupTypeOK /\ BindFailsOnlyByFault /\ InitUndone /\ PlanFits

\* Calls that wait for a background thread return: disable for the reporter it joins,
\* connect and bind for the engine that answers.  No more reporters are started than the
\* fairness is about.
EveryCallReturns == DisableReturns /\ CallsReturn /\ [](Len(loops) <= MaxReporters)
=============================================================================
