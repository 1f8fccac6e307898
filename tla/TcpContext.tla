----------------------------- MODULE TcpContext -----------------------------
(***************************************************************************)
(* The process-wide TCP context: init_dpdk_tcp_context and the global      *)
(* TcpContext (dpdk-stdlib-tcp/src/runtime.rs, tcp_stream.rs), through     *)
(* which connect and bind reach the engine, the allocator of ephemeral     *)
(* ports, and the neighbour resolver of dpdk-stdlib-net/src/neighbor.rs.   *)
(*                                                                         *)
(* A call is [op, ...]: "init" with the gateway_mac configured or not,     *)
(* "connect" with the family of the address and whether it has a timeout,  *)
(* "listen".  What the engine does with a command is in TcpEngine; here it *)
(* answers it.  An engine and its command channel are named after the      *)
(* thread that made them, which initialises once at most.                  *)
(***************************************************************************)
EXTENDS Naturals, Sequences, FiniteSets

CONSTANTS Callers,
          PortModulus,   \* 2^16
          RANGE_START    \* the first ephemeral port; the last is PortModulus - 1

ASSUME PortAssumption ==
  PortModulus \in Nat /\ RANGE_START \in Nat /\ RANGE_START < PortModulus

VARIABLES TCP_CONTEXT,   \* the thread whose context was published, an option
          gateway,       \* does the resolver of the context have a gateway MAC
          eal,           \* who has initialised the EAL, an option
          channel,       \* thread -> [queue, open] of the channel it created
          engines,       \* the engines that run
          next_port,
          ports,         \* the ports allocated, in order
          answered,      \* callers whose response was sent
          caller,        \* thread -> [pc, calls, call]
          mishaps        \* what can still fail

contextVars == <<TCP_CONTEXT, gateway, eal, channel, engines>>
portState == <<next_port, ports>>
callVars == <<answered, caller, mishaps>>
tcpVars == <<contextVars, portState, callVars>>

ContextInit(calls, n) ==
  /\ TCP_CONTEXT = << >> /\ gateway = FALSE /\ eal = << >>
  /\ channel = [t \in Callers |-> [queue |-> << >>, open |-> FALSE]] /\ engines = {}
  /\ next_port \in RANGE_START .. PortModulus - 1 /\ ports = << >>
  /\ answered = {} /\ mishaps = n
  /\ caller = [t \in Callers |-> [pc |-> "idle", calls |-> calls[t], call |-> << >>]]

CallerAt(t, pc) == caller[t].pc = pc
CallerGoto(t, pc) == caller' = [caller EXCEPT ![t].pc = pc]
CallReturns(t) == caller' = [caller EXCEPT ![t].pc = "idle", ![t].call = << >>]
Mishap == mishaps > 0 /\ mishaps' = mishaps - 1

\* A thread makes its next call.  init returns when there is a context, connect
\* and bind fail when there is none; an IPv6 address is the kernel's.
is_tcp_context_initialized == TCP_CONTEXT # << >>
BeginCall(t) ==
  LET c == Head(caller[t].calls)
      next == IF c.op = "init" THEN (IF is_tcp_context_initialized THEN "idle" ELSE "backend")
              ELSE IF c.family = "v6" \/ ~is_tcp_context_initialized THEN "idle"
              ELSE IF c.op = "connect" THEN "port" ELSE "send"
  IN
  /\ CallerAt(t, "idle") /\ caller[t].calls # << >>
  /\ caller' = [caller EXCEPT ![t] = [pc |-> next, calls |-> Tail(@.calls),
                                      call |-> IF next = "idle" THEN << >> ELSE <<c>>]]
  /\ answered' = answered \ {t}
  /\ UNCHANGED <<contextVars, portState, mishaps>>

-----------------------------------------------------------------------------
\* init_dpdk_tcp_context.

\* Mutant: the EAL is cleaned up by a call that did not initialise it.
InitBackendCleansUp(t) ==
  /\ CallerAt(t, "backend")
  /\ \/ eal = << >> /\ eal' = <<t>> /\ CallerGoto(t, "publish") /\ UNCHANGED mishaps
     \/ eal = << >> /\ Mishap /\ CallReturns(t) /\ UNCHANGED eal
     \/ eal # << >> /\ CallReturns(t) /\ eal' = << >> /\ UNCHANGED mishaps
  /\ UNCHANGED <<TCP_CONTEXT, gateway, channel, engines, portState, answered>>

\* DpdkBackend::new_real_nic.  The EAL is initialised once in a process; what it
\* has opened is closed again when a later step fails.
InitBackend(t) ==
  /\ CallerAt(t, "backend")
  /\ \/ eal = << >> /\ eal' = <<t>> /\ CallerGoto(t, "publish") /\ UNCHANGED mishaps
     \/ eal = << >> /\ Mishap /\ CallReturns(t) /\ UNCHANGED eal
     \/ eal # << >> /\ CallReturns(t) /\ UNCHANGED <<eal, mishaps>>
  /\ UNCHANGED <<TCP_CONTEXT, gateway, channel, engines, portState, answered>>

\* The channel, and init_tcp_context, which keeps the first context.
InitPublish(t) ==
  /\ CallerAt(t, "publish")
  /\ channel' = [channel EXCEPT ![t].open = TRUE]
  /\ IF is_tcp_context_initialized THEN UNCHANGED <<TCP_CONTEXT, gateway>>
     ELSE TCP_CONTEXT' = <<t>> /\ gateway' = caller[t].call[1].gateway_mac
  /\ CallerGoto(t, "spawn")
  /\ UNCHANGED <<eal, engines, portState, answered, mishaps>>

\* Mutant: the engine starts with a channel of its own.
InitSpawnAnew(t) ==
  /\ CallerAt(t, "spawn")
  /\ \/ engines' = engines \cup {t} /\ channel' = [channel EXCEPT ![t].queue = << >>] /\ UNCHANGED mishaps
     \/ /\ Mishap /\ UNCHANGED engines
        /\ channel' = [channel EXCEPT ![t] = [queue |-> << >>, open |-> FALSE]]
  /\ CallReturns(t)
  /\ UNCHANGED <<TCP_CONTEXT, gateway, eal, portState, answered>>

\* The thread of the engine; when it cannot be started, its end of the channel is
\* dropped with what is in it.
InitSpawn(t) ==
  /\ CallerAt(t, "spawn")
  /\ \/ engines' = engines \cup {t} /\ UNCHANGED <<channel, mishaps>>
     \/ /\ Mishap /\ UNCHANGED engines
        /\ channel' = [channel EXCEPT ![t] = [queue |-> << >>, open |-> FALSE]]
  /\ CallReturns(t)
  /\ UNCHANGED <<TCP_CONTEXT, gateway, eal, portState, answered>>

-----------------------------------------------------------------------------
\* connect and bind.

\* allocate_port: fetch_add wraps to 0 after the last port, and the loop goes on
\* to the start of the range; the branch that stores RANGE_START is never taken.
AllocatePort(t) ==
  /\ CallerAt(t, "port")
  /\ next_port' = (next_port + 1) % PortModulus
  /\ IF next_port >= RANGE_START
     THEN ports' = Append(ports, next_port) /\ CallerGoto(t, "resolve")
     ELSE UNCHANGED <<ports, caller>>
  /\ UNCHANGED <<contextVars, answered, mishaps>>

\* ArpResolver::resolve: the gateway's MAC; nothing puts entries in its cache, so
\* that without one there is an error.
resolve(t) ==
  /\ CallerAt(t, "resolve")
  /\ IF gateway THEN CallerGoto(t, "send") ELSE CallReturns(t)
  /\ UNCHANGED <<contextVars, portState, answered, mishaps>>

\* CommandSender::send.
SendCommand(t) ==
  LET to == TCP_CONTEXT[1] IN
  /\ CallerAt(t, "send")
  /\ IF channel[to].open
     THEN channel' = [channel EXCEPT ![to].queue = Append(@, t)] /\ CallerGoto(t, "wait")
     ELSE UNCHANGED channel /\ CallReturns(t)
  /\ UNCHANGED <<TCP_CONTEXT, gateway, eal, engines, portState, answered, mishaps>>

\* The engine takes a command and sends the response.
Answer(e) ==
  /\ e \in engines /\ channel[e].queue # << >>
  /\ answered' = answered \cup {Head(channel[e].queue)}
  /\ channel' = [channel EXCEPT ![e].queue = Tail(@)]
  /\ UNCHANGED <<TCP_CONTEXT, gateway, eal, engines, portState, caller, mishaps>>

\* OneshotReceiver::recv and recv_timeout.
MayReturn(t) == t \in answered \/ (caller[t].call[1].op = "connect" /\ caller[t].call[1].timeout)
RecvResponse(t) ==
  /\ CallerAt(t, "wait") /\ MayReturn(t)
  /\ CallReturns(t)
  /\ UNCHANGED <<contextVars, portState, answered, mishaps>>

CallerStep(t) ==
  \/ BeginCall(t) \/ InitBackend(t) \/ InitPublish(t) \/ InitSpawn(t)
  \/ AllocatePort(t) \/ resolve(t) \/ SendCommand(t) \/ RecvResponse(t)
ContextNext == \E t \in Callers : CallerStep(t) \/ Answer(t)

\* The threads are scheduled: weak fairness of CallerStep and of Answer, written
\* with the conditions under which they can be taken.
CallerReady(t) ==
  CASE CallerAt(t, "idle") -> caller[t].calls # << >>
    [] CallerAt(t, "wait") -> MayReturn(t)
    [] OTHER -> TRUE
AnswerReady(t) == t \in engines /\ channel[t].queue # << >>
ContextFairness ==
  \A t \in Callers :
    /\ []<>~CallerReady(t) \/ []<><<CallerStep(t)>>_tcpVars
    /\ []<>~AnswerReady(t) \/ []<><<Answer(t)>>_tcpVars

-----------------------------------------------------------------------------
\* However many threads initialise at once, one engine at most drives the port,
\* and it is the one whose channel the context has.
OneEngine == Cardinality(engines) <= 1 /\ \A e \in engines : TCP_CONTEXT = <<e>>

\* Ephemeral ports are in their range, across the wrap of the 16-bit counter, and
\* a port comes back only when all of the others were given out.
PortsSpread ==
  \A i \in DOMAIN ports :
    /\ ports[i] \in RANGE_START .. PortModulus - 1
    /\ \A j \in 1 .. i - 1 : ports[j] = ports[i] => i - j >= PortModulus - RANGE_START

\* A connect or bind that got the context is answered or refused, even when it is
\* faster than the start of the engine, as long as the engine can be started: the
\* context is published before the thread is spawned, and the channel keeps the
\* commands.
SpawnFailed == is_tcp_context_initialized /\ TCP_CONTEXT[1] \notin engines /\ ~channel[TCP_CONTEXT[1]].open
CallsReturn ==
  \A t \in Callers : (caller[t].pc \notin {"idle", "backend", "publish", "spawn"})
                       ~> (CallerAt(t, "idle") \/ SpawnFailed)
=============================================================================
