----------------------------- MODULE SetupProofs ----------------------------
(***************************************************************************)
(* Proofs about the set-up of a process, for any number of threads, any    *)
(* calls they make and any faults.                                         *)
(***************************************************************************)
EXTENDS ProcessSetup, TLAPS

-----------------------------------------------------------------------------
(* The TCP context.                                                        *)

CallerPcs == {"idle", "backend", "publish", "spawn", "port", "resolve", "send", "wait"}
CallerRegs == [pc : CallerPcs, calls : Seq(TcpCalls), call : Seq(TcpCalls)]

\* The EAL belongs to one thread, which alone comes to publish a context and to start an
\* engine, once each and in this order.
EngineInv ==
  /\ \A t \in Callers : caller[t].pc \in {"publish", "spawn"} => eal = <<t>>
  /\ TCP_CONTEXT # << >> => TCP_CONTEXT = eal
  /\ \A t \in Callers : caller[t].pc = "publish" => TCP_CONTEXT = << >>
  /\ \A t \in Callers : caller[t].pc = "spawn" => TCP_CONTEXT = <<t>>
  /\ \A e \in engines : TCP_CONTEXT = <<e>>

\* The port that is given out next: the counter, or the start of the range when it is
\* still below it.
NextGiven == IF next_port >= RANGE_START THEN next_port ELSE RANGE_START
PortCount == PortModulus - RANGE_START

\* A port that was given out less than a round ago is as far behind the next one, across
\* the wrap, as ports were given out since.
SpreadInv ==
  /\ next_port \in 0 .. PortModulus - 1 /\ ports \in Seq(Nat)
  /\ \A i \in 1 .. Len(ports) : ports[i] \in RANGE_START .. PortModulus - 1
  /\ \A i \in 1 .. Len(ports) :
       LET since == Len(ports) + 1 - i IN
       since >= PortCount \/ ports[i] + since = NextGiven \/ ports[i] + since = NextGiven + PortCount
  /\ \A i \in 1 .. Len(ports) : \A j \in 1 .. i - 1 : ports[j] = ports[i] => i - j >= PortCount

ContextInv == caller \in [Callers -> CallerRegs] /\ EngineInv /\ SpreadInv

(* What a step of a caller makes of its registers.                         *)
LEMMA CallerMoves ==
  ASSUME caller \in [Callers -> CallerRegs], NEW t \in Callers, CallerStep(t)
  PROVE  /\ caller' \in [Callers -> CallerRegs]
         /\ \A u \in Callers \ {t} : caller'[u] = caller[u]
  <1>1. caller[t] \in CallerRegs
    OBVIOUS
  <1>2. \A pc \in CallerPcs : [caller EXCEPT ![t].pc = pc] \in [Callers -> CallerRegs]
    BY Zenon DEF CallerRegs
  <1>3. [caller EXCEPT ![t].pc = "idle", ![t].call = << >>] \in [Callers -> CallerRegs]
    <2>1. << >> \in Seq(TcpCalls) /\ "idle" \in CallerPcs
      BY DEF CallerPcs
    <2>2. [caller[t] EXCEPT !.pc = "idle", !.call = << >>] \in CallerRegs
      BY <1>1, <2>1, Zenon DEF CallerRegs
    <2>3. [caller EXCEPT ![t].pc = "idle", ![t].call = << >>]
            = [caller EXCEPT ![t] = [caller[t] EXCEPT !.pc = "idle", !.call = << >>]]
      BY <1>1, Zenon DEF CallerRegs
    <2> QED  BY <2>2, <2>3
  <1>4. ASSUME BeginCall(t) PROVE caller' \in [Callers -> CallerRegs]
    <2>1. caller[t].calls \in Seq(TcpCalls) /\ caller[t].calls # << >>
      BY <1>4 DEF BeginCall, CallerRegs
    <2>2. Head(caller[t].calls) \in TcpCalls /\ Tail(caller[t].calls) \in Seq(TcpCalls)
      BY <2>1
    <2>3. PICK next \in CallerPcs :
            caller' = [caller EXCEPT ![t] = [pc |-> next, calls |-> Tail(@.calls),
                         call |-> IF next = "idle" THEN << >> ELSE <<Head(caller[t].calls)>>]]
      BY <1>4, Zenon DEF BeginCall, CallerPcs
    <2> QED  BY <2>2, <2>3 DEF CallerRegs
  <1>5. caller' \in [Callers -> CallerRegs]
    BY <1>2, <1>3, <1>4 DEF CallerStep, InitBackend, InitPublish, InitSpawn, AllocatePort, resolve, SendCommand,
       RecvResponse, CallerGoto, CallReturns, CallerPcs
  <1>6. \A u \in Callers \ {t} : caller'[u] = caller[u]
    BY DEF CallerStep, BeginCall, InitBackend, InitPublish, InitSpawn, AllocatePort, resolve, SendCommand,
       RecvResponse, CallerGoto, CallReturns
  <1> QED  BY <1>5, <1>6

(* Who owns the EAL, the context and the engine.                           *)
LEMMA EngineStep ==
  ASSUME caller \in [Callers -> CallerRegs], EngineInv, NEW t \in Callers, CallerStep(t)
  PROVE  EngineInv'
  <1>1. /\ caller' \in [Callers -> CallerRegs]
        /\ \A u \in Callers \ {t} : caller'[u] = caller[u]
    BY CallerMoves
  <1>2. \A x, y : <<x>> = <<y>> => x = y
    OBVIOUS
  <1>3. CASE BeginCall(t) \/ AllocatePort(t) \/ resolve(t) \/ SendCommand(t) \/ RecvResponse(t)
    <2>1. caller'[t].pc \notin {"publish", "spawn"}
      BY <1>3 DEF BeginCall, AllocatePort, resolve, SendCommand, RecvResponse, CallerGoto, CallReturns, CallerAt,
         CallerRegs
    <2>2. UNCHANGED <<TCP_CONTEXT, eal, engines>>
      BY <1>3 DEF BeginCall, AllocatePort, resolve, SendCommand, RecvResponse, contextVars
    <2> QED  BY <1>1, <2>1, <2>2 DEF EngineInv
  <1>4. CASE InitBackend(t)
    <2>1. TCP_CONTEXT' = TCP_CONTEXT /\ engines' = engines
      BY <1>4 DEF InitBackend
    <2>2. CASE eal = << >> /\ eal' = <<t>> /\ CallerGoto(t, "publish")
      <3>1. caller'[t].pc = "publish"
        BY <2>2 DEF CallerGoto, CallerRegs
      <3>3. TCP_CONTEXT = << >>
        BY <2>2 DEF EngineInv
      <3>4. engines = {}
        BY <3>3 DEF EngineInv
      <3>2. \A u \in Callers : caller[u].pc \notin {"publish", "spawn"}
        BY <2>2 DEF EngineInv
      <3> QED  BY <1>1, <2>1, <2>2, <3>1, <3>2, <3>3, <3>4 DEF EngineInv
    <2>3. CASE eal' = eal /\ CallReturns(t)
      <3>1. caller'[t].pc = "idle"
        BY <2>3 DEF CallReturns, CallerRegs
      <3> QED  BY <1>1, <2>1, <2>3, <3>1 DEF EngineInv
    <2> QED  BY <1>4, <2>2, <2>3 DEF InitBackend
  <1>5. CASE InitPublish(t)
    <2>1. caller[t].pc = "publish" /\ eal = <<t>> /\ TCP_CONTEXT = << >> /\ engines = {}
      BY <1>5 DEF InitPublish, CallerAt, EngineInv
    <2>2. caller'[t].pc = "spawn" /\ TCP_CONTEXT' = <<t>> /\ eal' = eal /\ engines' = engines
      BY <1>5, <2>1 DEF InitPublish, CallerGoto, CallerRegs, is_tcp_context_initialized
    <2>3. \A u \in Callers \ {t} : caller'[u].pc \notin {"publish", "spawn"}
      BY <1>1, <1>2, <2>1 DEF EngineInv
    <2> QED  BY <1>1, <2>1, <2>2, <2>3 DEF EngineInv
  <1>6. CASE InitSpawn(t)
    <2>1. caller[t].pc = "spawn" /\ TCP_CONTEXT = <<t>>
      BY <1>6 DEF InitSpawn, CallerAt, EngineInv
    <2>2. caller'[t].pc = "idle" /\ UNCHANGED <<TCP_CONTEXT, eal>> /\ engines' \subseteq engines \cup {t}
      BY <1>6 DEF InitSpawn, CallReturns, CallerRegs
    <2> QED  BY <1>1, <2>1, <2>2 DEF EngineInv
  <1> QED  BY <1>3, <1>4, <1>5, <1>6 DEF CallerStep

(* A port is given out: the ones before it are one further behind.         *)
LEMMA SpreadStep ==
  ASSUME SpreadInv, NEW t \in Callers, AllocatePort(t)
  PROVE  SpreadInv'
  <1> USE PortAssumption
  <1>1. /\ next_port \in 0 .. PortModulus - 1 /\ ports \in Seq(Nat)
        /\ \A i \in 1 .. Len(ports) : ports[i] \in RANGE_START .. PortModulus - 1
    BY DEF SpreadInv
  <1>2. next_port' \in 0 .. PortModulus - 1 /\ next_port' = IF next_port = PortModulus - 1 THEN 0 ELSE next_port + 1
    BY <1>1 DEF AllocatePort
  <1>3. CASE next_port < RANGE_START
    <2>1. ports' = ports /\ NextGiven' = NextGiven
      BY <1>1, <1>2, <1>3 DEF AllocatePort, NextGiven
    <2> QED  BY <1>2, <2>1 DEF SpreadInv
  <1>4. CASE next_port >= RANGE_START
    <2> DEFINE q == next_port
    <2>1. ports' = Append(ports, q) /\ NextGiven = q
      BY <1>4 DEF AllocatePort, NextGiven
    <2>2. /\ ports' \in Seq(Nat) /\ Len(ports') = Len(ports) + 1 /\ ports'[Len(ports) + 1] = q
          /\ \A i \in 1 .. Len(ports) : ports'[i] = ports[i]
      BY <1>1, <2>1
    <2>3. NextGiven' = IF q = PortModulus - 1 THEN RANGE_START ELSE q + 1
      BY <1>1, <1>2, <1>4 DEF NextGiven
    <2>4. PICK n \in Nat : n = Len(ports)
      BY <1>1
    <2>5. \A i \in 1 .. n + 1 : ports'[i] \in RANGE_START .. PortModulus - 1
      <3>1. q \in RANGE_START .. PortModulus - 1
        BY <1>1, <1>4
      <3>2. \A i \in 1 .. n : ports'[i] \in RANGE_START .. PortModulus - 1
        BY <1>1, <2>2, <2>4, Zenon
      <3>3. \A i \in 1 .. n + 1 : i \in 1 .. n \/ i = n + 1
        OBVIOUS
      <3> QED  BY <2>2, <2>4, <3>1, <3>2, <3>3, Zenon
    <2>6. ASSUME NEW i \in 1 .. n + 1, n + 2 - i < PortCount
          PROVE  ports'[i] + (n + 2 - i) = NextGiven' \/ ports'[i] + (n + 2 - i) = NextGiven' + PortCount
      <3>1. CASE i = n + 1
        BY <1>1, <1>4, <2>2, <2>3, <2>4, <3>1 DEF PortCount
      <3>2. CASE i \in 1 .. n
        <4>1. ports[i] + (n + 1 - i) = q \/ ports[i] + (n + 1 - i) = q + PortCount
          BY <2>1, <2>4, <2>6, <3>2 DEF SpreadInv, PortCount
        <4>2. ports[i] \in RANGE_START .. PortModulus - 1 /\ ports'[i] = ports[i]
          BY <1>1, <2>2, <2>4, <3>2
        <4>3. q \in RANGE_START .. PortModulus - 1 /\ i \in Nat /\ i <= n + 1
          BY <1>1, <1>4
        <4>4. PICK p \in Nat : p = ports[i] /\ p >= RANGE_START /\ p < PortModulus
          BY <4>2
        <4> HIDE DEF q
        <4>5. CASE q = PortModulus - 1
          BY <2>3, <2>6, <4>1, <4>2, <4>3, <4>4, <4>5 DEF PortCount
        <4>6. CASE q # PortModulus - 1
          BY <2>3, <2>6, <4>1, <4>2, <4>3, <4>4, <4>6 DEF PortCount
        <4> QED  BY <4>5, <4>6
      <3> QED  BY <3>1, <3>2
    <2>7. ASSUME NEW i \in 1 .. n + 1, NEW j \in 1 .. i - 1, ports'[j] = ports'[i]
          PROVE  i - j >= PortCount
      <3>1. CASE i \in 1 .. n
        <4>1. j \in 1 .. n
          BY <3>1
        <4>2. ports[j] = ports[i]
          BY <2>2, <2>4, <2>7, <3>1, <4>1
        <4> QED  BY <2>4, <3>1, <4>2, Zenon DEF SpreadInv
      <3>2. CASE i = n + 1
        <4>1. j \in 1 .. n /\ ports[j] = q /\ ports[j] \in Nat
          BY <1>1, <2>2, <2>4, <2>7, <3>2
        <4>2. n + 1 - j >= PortCount \/ q + (n + 1 - j) = q \/ q + (n + 1 - j) = q + PortCount
          BY <2>1, <2>4, <4>1, Zenon DEF SpreadInv
        <4> QED  BY <1>1, <2>4, <3>2, <4>1, <4>2 DEF PortCount
      <3> QED  BY <3>1, <3>2
    <2> HIDE DEF q
    <2> QED  BY <1>2, <2>2, <2>4, <2>5, <2>6, <2>7 DEF SpreadInv, PortCount
  <1> QED  BY <1>1, <1>3, <1>4

(* The context keeps its invariant.                                        *)
LEMMA ContextStepInv == ContextInv /\ ContextNext => ContextInv'
  <1> SUFFICES ASSUME ContextInv, NEW t \in Callers, CallerStep(t) \/ Answer(t) PROVE ContextInv'
    BY DEF ContextNext
  <1>1. CASE CallerStep(t)
    <2>1. caller' \in [Callers -> CallerRegs] /\ EngineInv'
      BY <1>1, CallerMoves, EngineStep DEF ContextInv
    <2>2. SpreadInv'
      <3>1. CASE AllocatePort(t)
        BY <3>1, SpreadStep DEF ContextInv
      <3>2. CASE ~AllocatePort(t)
        <4>1. UNCHANGED <<next_port, ports>>
          BY <1>1, <3>2 DEF CallerStep, BeginCall, InitBackend, InitPublish, InitSpawn, resolve, SendCommand,
             RecvResponse, portState
        <4> QED  BY <4>1, Zenon DEF ContextInv, SpreadInv, NextGiven
      <3> QED  BY <3>1, <3>2
    <2> QED  BY <2>1, <2>2 DEF ContextInv
  <1>2. CASE Answer(t)
    <2>1. UNCHANGED <<caller, TCP_CONTEXT, eal, engines, next_port, ports>>
      BY <1>2 DEF Answer, portState
    <2> QED  BY <2>1 DEF ContextInv, EngineInv, SpreadInv, NextGiven
  <1> QED  BY <1>1, <1>2

-----------------------------------------------------------------------------
(* Binding sockets.                                                        *)

BinderPcs == {"idle", "open", "get", "init", "undo", "port", "wrap", "finish", "kernel"}
Backends == {"dpdk", "mmap", "raw"}
BinderRegs ==
  [pc : BinderPcs, calls : Seq(BindCalls), call : Option(BindCalls), port : Nat, backend : Backends \cup {"none"},
   tries : Seq(Backends), pre : BOOLEAN, stage : 0 .. 4]
ApiOf(r) == r.call[1].api

\* A thread that asked for an ephemeral port has been given it.
HasPort(r) ==
  /\ r.pc \in {"finish", "get", "init", "undo"} /\ r.call[1].port = 0
  /\ r.pc = "finish" \/ ApiOf(r) \in {"bind_v6", "backend"}

\* The registers of a thread fit each other.
RegsOK(r) ==
  /\ r.pc # "idle" => r.call # None
  /\ r.pc = "open" => ApiOf(r) = "backend" /\ r.backend = "none"
  /\ r.pc = "kernel" => ApiOf(r) = "compat"
  /\ r.pc = "wrap" => r.call[1].port = 0
  /\ r.pre => r.pc \in {"get", "init", "undo"} /\ ApiOf(r) = "builder"
  /\ r.backend # "none" => r.pc \notin {"idle", "open", "kernel"} /\ ApiOf(r) = "backend"
  /\ r.stage > 0 => r.pc \in {"init", "undo"}
  /\ r.pc # "idle" => r.port = r.call[1].port \/ HasPort(r)
  /\ HasPort(r) => r.port \in FirstPort .. LastPort

Regs == binder \in [Binders -> BinderRegs] /\ \A b \in Binders : RegsOK(binder[b])

\* The mutex is held by the thread that initialises, or undoes what it did.
LockOK ==
  /\ DPDK_RESOURCES \in BOOLEAN
  /\ resourcesLock = None \/ \E b \in Binders : resourcesLock = Some(b)
  /\ \A b \in Binders : binder[b].pc \in {"init", "undo"} <=> resourcesLock = Some(b)

\* What is initialised: everything for the sockets, or what the thread has got that
\* initialises, or the EAL of the one DpdkBackend, or nothing.
Upto(n) == {Stages[i] : i \in 1 .. n}
HeldOK ==
  /\ DPDK_RESOURCES => held = Upto(4) /\ resourcesLock = None
  /\ \A b \in Binders : binder[b].stage > 0 => held = Upto(binder[b].stage) /\ ~DPDK_RESOURCES
  /\ \A b \in Binders :
       binder[b].backend = "dpdk" => held = Upto(1) /\ foreign /\ ~DPDK_RESOURCES /\ binder[b].pc # "finish"
  /\ \A b, c \in Binders : binder[b].backend = "dpdk" => binder[c].stage = 0 /\ (binder[c].backend = "dpdk" => b = c)
  /\ ~DPDK_RESOURCES /\ (\A b \in Binders : binder[b].stage = 0 /\ binder[b].backend # "dpdk") => held = Upto(0)

\* A bind that fails has its reason.
ReasonOK ==
  /\ failed \in BOOLEAN /\ faults \in Nat /\ faulted \in BOOLEAN /\ foreign \in BOOLEAN /\ refused \in BOOLEAN
  /\ failed => faulted \/ foreign \/ refused
  /\ \A b \in Binders : binder[b].pc = "undo" => faulted \/ foreign
  /\ \A b \in Binders : binder[b].pc = "open" /\ binder[b].tries = << >> => faulted \/ refused

\* The ephemeral ports of sockets and of threads that still bind are below the counter and
\* differ.
SocketKinds == {"ipv4", "ipv6", "kernel", "none"} \cup Backends
SocketRecs ==
  [kind : SocketKinds, by : Binders, port : Nat, ephemeral : BOOLEAN, topology : [rx : Nat, tx : Nat],
   pipeline : BOOLEAN]
PortsOK ==
  /\ sockets \in Seq(SocketRecs) /\ NEXT_EPHEMERAL_PORT \in Nat /\ wrapped \in BOOLEAN
  /\ NEXT_EPHEMERAL_PORT >= FirstPort
  /\ \A b \in Binders : binder[b].pc = "wrap" => wrapped
  /\ \A i \in 1 .. Len(sockets) : sockets[i].ephemeral => sockets[i].port \in FirstPort .. LastPort
  /\ ~wrapped => NEXT_EPHEMERAL_PORT <= LastPort + 1
  /\ ~wrapped => \A b \in Binders : HasPort(binder[b]) => binder[b].port < NEXT_EPHEMERAL_PORT
  /\ ~wrapped => \A b, c \in Binders :
       HasPort(binder[b]) /\ HasPort(binder[c]) /\ binder[b].port = binder[c].port => b = c
  /\ ~wrapped => \A i \in 1 .. Len(sockets) : sockets[i].ephemeral => sockets[i].port < NEXT_EPHEMERAL_PORT
  /\ ~wrapped => \A i, j \in 1 .. Len(sockets) :
       sockets[i].ephemeral /\ sockets[j].ephemeral /\ sockets[i].port = sockets[j].port => i = j
  /\ ~wrapped => \A b \in Binders : \A i \in 1 .. Len(sockets) :
       HasPort(binder[b]) /\ sockets[i].ephemeral => binder[b].port # sockets[i].port

SetupInv == Regs /\ LockOK /\ HeldOK /\ ReasonOK /\ PortsOK /\ PlanFits

(* Options.                                                                *)
LEMMA OptionFacts ==
  ASSUME NEW S
  PROVE  /\ None \in Option(S) /\ \A x \in S : Some(x) \in Option(S) /\ Some(x) # None /\ Some(x)[1] = x
         /\ \A o \in Option(S) : o # None => o[1] \in S
  <1>1. << >> \in Seq(S) /\ Len(<< >>) = 0 /\ \A x \in S : <<x>> \in Seq(S) /\ Len(<<x>>) = 1 /\ <<x>>[1] = x
    OBVIOUS
  <1>2. \A x : <<x>> # << >>
    OBVIOUS
  <1>3. \A o \in Seq(S) : o # << >> => o[1] \in S
    OBVIOUS
  <1> QED  BY <1>1, <1>2, <1>3 DEF Option, None, Some

(* Options of one thing are equal only when it is.                         *)
LEMMA SomeIsOne == \A x, y : (Some(x) = Some(y) => x = y) /\ Some(x) # None
  BY DEF Some, None

(* What every call has.                                                    *)
LEMMA CallHas ==
  ASSUME NEW c \in BindCalls
  PROVE  /\ c.api \in {"bind_v4", "bind_v6", "compat", "backend", "builder"} /\ c.port \in Nat
         /\ c.api = "backend" => c.type \in {"Dpdk", "RawSocketMmap", "RawSocket", "Auto"} /\ c.iface \in BOOLEAN
         /\ c.api = "builder" => c.rx_queues \in Option(Nat)
  <1>1. CASE c \in [api : {"bind_v4", "bind_v6", "compat"}, port : Nat]
    BY <1>1
  <1>2. CASE c \in [api : {"backend"}, port : Nat, type : {"Dpdk", "RawSocketMmap", "RawSocket", "Auto"}, iface : BOOLEAN]
    BY <1>2
  <1>3. CASE c \in [api : {"builder"}, port : Nat, rx_queues : Option(Nat)]
    BY <1>3
  <1> QED  BY <1>1, <1>2, <1>3 DEF BindCalls

\* A step makes r of the registers of b.
Moves(b, r) == r \in BinderRegs /\ RegsOK(r) /\ binder' = [binder EXCEPT ![b] = r]

(* A thread that has a call has one of the ones above.                     *)
LEMMA Called1 ==
  ASSUME Regs, NEW b \in Binders
  PROVE  /\ binder[b] \in BinderRegs /\ RegsOK(binder[b])
         /\ binder[b].pc # "idle" => binder[b].call # None /\ binder[b].call[1] \in BindCalls
  BY OptionFacts DEF Regs, RegsOK, BinderRegs

(* The registers of a thread whose call is over.                           *)
LEMMA UnboundOK == \A calls \in Seq(BindCalls) : Unbound(calls) \in BinderRegs /\ RegsOK(Unbound(calls))
  <1>1. None \in Option(BindCalls)
    BY OptionFacts
  <1> QED  BY <1>1 DEF Unbound, BinderRegs, RegsOK, BinderPcs, HasPort

(* What a step keeps of the others.                                        *)
LEMMA MovesRegs ==
  ASSUME Regs, NEW b \in Binders, NEW r, Moves(b, r)
  PROVE  Regs' /\ binder'[b] = r /\ \A c \in Binders \ {b} : binder'[c] = binder[c]
  <1>1. /\ binder' \in [Binders -> BinderRegs] /\ binder'[b] = r
        /\ \A c \in Binders \ {b} : binder'[c] = binder[c]
    BY DEF Regs, Moves
  <1>2. \A c \in Binders : RegsOK(binder'[c])
    BY <1>1, Zenon DEF Regs, Moves
  <1>3. \A c \in Binders : RegsOK(binder[c])'
    BY <1>2 DEF RegsOK, HasPort, ApiOf
  <1> QED  BY <1>1, <1>3 DEF Regs

(* A step that neither takes nor releases the mutex.                       *)
LEMMA LockKept ==
  ASSUME Regs, LockOK, NEW b \in Binders, NEW r, Moves(b, r), UNCHANGED <<DPDK_RESOURCES, resourcesLock>>,
         r.pc \in {"init", "undo"} <=> binder[b].pc \in {"init", "undo"}
  PROVE  LockOK'
  BY MovesRegs DEF LockOK

(* A step that initialises nothing, and opens and closes no DpdkBackend.   *)
LEMMA HeldKept ==
  ASSUME Regs, HeldOK, NEW b \in Binders, NEW r, Moves(b, r), UNCHANGED <<DPDK_RESOURCES, held, foreign>>,
         DPDK_RESOURCES => resourcesLock' = resourcesLock,
         r.stage = binder[b].stage, r.backend = "dpdk" <=> binder[b].backend = "dpdk",
         r.backend = "dpdk" => r.pc # "finish"
  PROVE  HeldOK'
  <1>1. binder'[b] = r /\ \A c \in Binders \ {b} : binder'[c] = binder[c]
    BY MovesRegs
  <1>2. \A c \in Binders : /\ binder'[c].stage = binder[c].stage
                           /\ binder'[c].backend = "dpdk" <=> binder[c].backend = "dpdk"
                           /\ binder'[c].backend = "dpdk" => binder'[c].pc # "finish" \/ binder[c].pc = "finish"
    BY <1>1
  <1> QED  BY <1>2 DEF HeldOK, Upto

(* What is initialised is unchanged when nothing it is about is.           *)
LEMMA HeldStill == HeldOK /\ UNCHANGED <<DPDK_RESOURCES, resourcesLock, held, foreign, binder>> => HeldOK'
  BY DEF HeldOK, Upto

(* A step that does not fail.                                              *)
LEMMA ReasonKept ==
  ASSUME Regs, ReasonOK, NEW b \in Binders, NEW r, Moves(b, r), UNCHANGED <<failed, faultVars, foreignVars>>,
         r.pc = "undo" => binder[b].pc = "undo", r.pc = "open" => r.tries # << >>
  PROVE  ReasonOK'
  BY MovesRegs DEF ReasonOK, faultVars, foreignVars

(* A step that gives no port.                                              *)
LEMMA PortsKept ==
  ASSUME Regs, PortsOK, NEW b \in Binders, NEW r, Moves(b, r), UNCHANGED <<sockets, portVars>>,
         HasPort(r) => HasPort(binder[b]) /\ r.port = binder[b].port, r.pc # "wrap"
  PROVE  PortsOK'
  <1>1. binder'[b] = r /\ \A c \in Binders \ {b} : binder'[c] = binder[c]
    BY MovesRegs
  <1>2. \A c \in Binders : /\ HasPort(binder[c])' => HasPort(binder[c]) /\ binder'[c].port = binder[c].port
                           /\ binder'[c].pc = "wrap" => binder[c].pc = "wrap"
    BY <1>1 DEF HasPort, ApiOf
  <1>3. UNCHANGED <<sockets, NEXT_EPHEMERAL_PORT, wrapped>>
    BY DEF portVars
  <1> HIDE DEF HasPort
  <1> QED  BY <1>2, <1>3 DEF PortsOK

(* The stages that have been reached.                                      *)
LEMMA Reached ==
  /\ Upto(0) = {} /\ Upto(1) = {"eal"} /\ Upto(4) = {"eal", "pool", "port", "started"} /\ Len(Stages) = 4
  /\ \A n \in 0 .. 3 : /\ Upto(n + 1) = Upto(n) \cup {Stages[n + 1]} /\ Upto(n + 1) \ {Stages[n + 1]} = Upto(n)
                       /\ "eal" \in Upto(n + 1) /\ (Stages[n + 1] = "eal" <=> n = 0)
  <1>1. Len(Stages) = 4 /\ Stages[1] = "eal" /\ Stages[2] = "pool" /\ Stages[3] = "port" /\ Stages[4] = "started"
    BY DEF Stages
  <1>2. Upto(0) = {} /\ Upto(1) = {"eal"} /\ Upto(2) = {"eal", "pool"} /\ Upto(3) = {"eal", "pool", "port"}
    BY <1>1 DEF Upto
  <1>3. Upto(4) = {"eal", "pool", "port", "started"}
    BY <1>1 DEF Upto
  <1>4. ASSUME NEW n \in 0 .. 3
        PROVE  /\ Upto(n + 1) = Upto(n) \cup {Stages[n + 1]} /\ Upto(n + 1) \ {Stages[n + 1]} = Upto(n)
               /\ "eal" \in Upto(n + 1) /\ (Stages[n + 1] = "eal" <=> n = 0)
    <2>1. n = 0 \/ n = 1 \/ n = 2 \/ n = 3
      OBVIOUS
    <2> HIDE DEF Upto, Stages
    <2> QED  BY <1>1, <1>2, <1>3, <2>1
  <1> QED  BY <1>1, <1>2, <1>3, <1>4

(* A thread binds.                                                         *)
LEMMA BindInv ==
  ASSUME SetupInv, NEW b \in Binders, Bind(b)
  PROVE  SetupInv'
  <1> DEFINE o == binder[b]
             c == Head(o.calls)
             next == CASE c.api = "backend" -> "open" [] c.api = "bind_v6" -> "port"
                       [] c.api = "compat" /\ IsStub -> "kernel" [] OTHER -> "get"
             t == IF c.api = "backend" THEN Tries(c) ELSE << >>
             r == [o EXCEPT !.calls = Tail(o.calls), !.call = Some(c), !.port = c.port, !.tries = t,
                            !.pre = (c.api = "builder"), !.pc = next]
  <1>1. o \in BinderRegs /\ RegsOK(o) /\ Regs
    BY Called1 DEF SetupInv
  <1>2. o.pc = "idle" /\ o.calls # << >> /\ o.calls \in Seq(BindCalls)
    BY <1>1 DEF Bind, BinderAt, BinderRegs
  <1>3. c \in BindCalls /\ Tail(o.calls) \in Seq(BindCalls)
    BY <1>2
  <1>4. Some(c) \in Option(BindCalls) /\ Some(c) # None /\ Some(c)[1] = c
    BY <1>3, OptionFacts, Zenon
  <1>5. t \in Seq(Backends) /\ (c.api = "backend" => t # << >>)
    <2>1. CASE c.api = "backend"
      <3>1. c.type \in {"Dpdk", "RawSocketMmap", "RawSocket", "Auto"}
        BY <1>3, <2>1, CallHas
      <3>2. \A x \in Backends : <<x>> \in Seq(Backends) /\ <<x>> # << >>
        OBVIOUS
      <3>3. <<"dpdk", "mmap", "raw">> \in Seq(Backends) /\ <<"dpdk", "mmap", "raw">> # << >>
        BY DEF Backends
      <3>4. "dpdk" \in Backends /\ "mmap" \in Backends /\ "raw" \in Backends
        BY DEF Backends
      <3>5. Tries(c) \in Seq(Backends) /\ Tries(c) # << >>
        BY <3>1, <3>2, <3>3, <3>4 DEF Tries
      <3> QED  BY <2>1, <3>5
    <2> QED  BY <2>1
  <1>6. next \in {"open", "port", "kernel", "get"} /\ (next = "open" <=> c.api = "backend")
        /\ (next = "kernel" => c.api = "compat") /\ (next = "get" => c.api \in {"bind_v4", "compat", "builder"})
        /\ (c.api = "builder" => next = "get")
    BY <1>3, CallHas
  <1>7. c.port \in Nat
    BY <1>3, CallHas
  <1> HIDE DEF c, next, t
  <1>8. /\ r \in BinderRegs /\ r.pc = next /\ r.call = Some(c) /\ r.port = c.port /\ r.tries = t
        /\ r.pre = (c.api = "builder") /\ r.stage = o.stage /\ r.backend = o.backend
    BY <1>1, <1>3, <1>4, <1>5, <1>6, <1>7, Zenon DEF BinderRegs, BinderPcs
  <1>9. o.stage = 0 /\ o.backend = "none"
    BY <1>1, <1>2 DEF RegsOK, BinderRegs
  <1>10. ~HasPort(r)
    BY <1>4, <1>6, <1>8 DEF HasPort, ApiOf
  <1>11. RegsOK(r)
    <2>1. r.pc = next /\ r.call[1] = c /\ r.call # None /\ r.stage = 0 /\ r.backend = "none" /\ r.port = c.port
      BY <1>4, <1>8, <1>9, Zenon
    <2>2. r.pre => c.api = "builder" /\ next = "get"
      BY <1>6, <1>8, Zenon
    <2> HIDE DEF r
    <2> QED  BY <1>6, <1>10, <2>1, <2>2 DEF RegsOK, ApiOf
  <1>12. binder' = [binder EXCEPT ![b] = r]
    BY Zenon DEF Bind, c, next, t
  <1> HIDE DEF r
  <1>13. Moves(b, r)
    BY <1>8, <1>11, <1>12 DEF Moves
  <1>14. UNCHANGED <<DPDK_RESOURCES, resourcesLock, held, portVars, sockets, failed, faultVars, foreignVars>>
    BY DEF Bind
  <1>15. Regs'
    BY <1>1, <1>13, MovesRegs
  <1>16. LockOK'
    BY <1>1, <1>2, <1>6, <1>8, <1>13, <1>14, LockKept, SMTT(30) DEF SetupInv
  <1>17. HeldOK'
    BY <1>1, <1>8, <1>9, <1>13, <1>14, HeldKept DEF SetupInv, foreignVars
  <1>18. ReasonOK'
    BY <1>1, <1>5, <1>6, <1>8, <1>13, <1>14, ReasonKept DEF SetupInv
  <1>19. PortsOK'
    BY <1>1, <1>6, <1>8, <1>10, <1>13, <1>14, PortsKept, SMTT(30) DEF SetupInv
  <1>20. PlanFits'
    BY <1>14 DEF SetupInv, PlanFits
  <1> QED  BY <1>15, <1>16, <1>17, <1>18, <1>19, <1>20 DEF SetupInv

(* A call fails.                                                           *)
LEMMA Failing ==
  ASSUME Regs, NEW b \in Binders, BindFails(b), binder[b].pc \in {"undo", "open"}, binder[b].stage = 0
  PROVE  \E r : /\ Moves(b, r) /\ r.stage = 0 /\ r.pc \in {"get", "kernel", "idle"} /\ ~HasPort(r)
                /\ r.backend = "none" /\ failed' \in {failed, TRUE}
  <1> DEFINE o == binder[b]
  <1>1. o \in BinderRegs /\ RegsOK(o) /\ o.call # None /\ o.call[1] \in BindCalls
    BY Called1
  <1>2. CASE o.pre
    <2> DEFINE r == [o EXCEPT !.pc = "get", !.pre = FALSE]
    <2>1. binder' = [binder EXCEPT ![b] = r] /\ failed' = failed
      BY <1>1, <1>2, Zenon DEF BindFails, Regs, BinderRegs
    <2>2. /\ r \in BinderRegs /\ r.pc = "get" /\ ~r.pre /\ r.stage = o.stage /\ r.backend = o.backend /\ r.call = o.call
          /\ r.port = o.port
      BY <1>1, Zenon DEF BinderRegs, BinderPcs
    <2>3. ApiOf(o) = "builder" /\ o.backend = "none"
      BY <1>1, <1>2 DEF RegsOK
    <2> HIDE DEF r
    <2>4. ~HasPort(r) /\ ~HasPort(o)
      BY <1>1, <2>2, <2>3, Zenon DEF HasPort, ApiOf
    <2>5. RegsOK(r)
      BY <1>1, <2>2, <2>3, <2>4 DEF RegsOK
    <2> QED  BY <2>1, <2>2, <2>3, <2>4, <2>5, Zenon DEF Moves
  <1>3. CASE ~o.pre /\ Api(b) = "compat"
    <2> DEFINE r == [o EXCEPT !.pc = "kernel"]
    <2>1. binder' = [binder EXCEPT ![b] = r] /\ failed' = failed
      BY <1>1, <1>3 DEF BindFails, BinderGoto, Regs, BinderRegs
    <2>2. /\ r \in BinderRegs /\ r.pc = "kernel" /\ r.pre = o.pre /\ r.stage = o.stage /\ r.backend = o.backend
          /\ r.call = o.call /\ r.port = o.port
      BY <1>1 DEF BinderRegs, BinderPcs
    <2>3. ApiOf(o) = "compat" /\ o.backend = "none"
      BY <1>1, <1>3 DEF RegsOK, ApiOf, Api
    <2> HIDE DEF r
    <2>4. ~HasPort(r) /\ ~HasPort(o)
      BY <1>1, <2>2, <2>3, Zenon DEF HasPort, ApiOf
    <2>5. RegsOK(r)
      BY <1>1, <1>3, <2>2, <2>3, <2>4 DEF RegsOK, ApiOf
    <2> QED  BY <2>1, <2>2, <2>3, <2>4, <2>5, Zenon DEF Moves
  <1>4. CASE ~o.pre /\ Api(b) # "compat"
    <2> DEFINE r == Unbound(o.calls)
    <2>1. binder' = [binder EXCEPT ![b] = r] /\ failed' = TRUE
      BY <1>4, Zenon DEF BindFails, Regs
    <2>2. r \in BinderRegs /\ RegsOK(r)
      BY <1>1, UnboundOK, ZenonT(30) DEF BinderRegs
    <2>3. r.pc = "idle" /\ r.stage = 0 /\ r.backend = "none"
      BY DEF Unbound
    <2> HIDE DEF r
    <2>4. ~HasPort(r)
      BY <2>3 DEF HasPort
    <2> QED  BY <2>1, <2>2, <2>3, <2>4, Zenon DEF Moves
  <1> QED  BY <1>2, <1>3, <1>4, Zenon

(* A backend is opened, refused, or there is none left to try.             *)
LEMMA BackendInv ==
  ASSUME SetupInv, NEW b \in Binders, create_backend(b)
  PROVE  SetupInv'
  <1> DEFINE o == binder[b]
  <1>1. o \in BinderRegs /\ RegsOK(o) /\ Regs /\ o.call # None /\ o.call[1] \in BindCalls /\ o.pc = "open"
    BY Called1, ZenonT(30) DEF SetupInv, create_backend, BinderAt
  <1>2. ApiOf(o) = "backend" /\ o.backend = "none" /\ o.stage = 0 /\ ~o.pre /\ ~HasPort(o) /\ o.port = o.call[1].port
    BY <1>1 DEF RegsOK, BinderRegs, HasPort
  <1>3. UNCHANGED <<DPDK_RESOURCES, resourcesLock, portVars, sockets>>
    BY Zenon DEF create_backend
  <1>4. PlanFits'
    BY <1>3 DEF SetupInv, PlanFits
  <1>5. CASE o.tries = << >>
    <2>1. BindFails(b) /\ UNCHANGED <<held, faultVars, foreignVars>>
      BY <1>5 DEF create_backend
    <2>2. PICK r : /\ Moves(b, r) /\ r.stage = 0 /\ r.pc \in {"get", "kernel", "idle"} /\ ~HasPort(r)
                   /\ r.backend = "none" /\ failed' \in {failed, TRUE}
      BY <1>1, <1>2, <2>1, Failing, Zenon
    <2>3. Regs' /\ binder'[b] = r /\ \A c \in Binders \ {b} : binder'[c] = binder[c]
      BY <1>1, <2>2, MovesRegs
    <2>4. LockOK'
      BY <1>1, <1>3, <2>2, LockKept, Zenon DEF SetupInv
    <2>5. HeldOK'
      BY <1>1, <1>2, <1>3, <2>1, <2>2, HeldKept DEF SetupInv, foreignVars
    <2>6. ReasonOK'
      <3>1. faulted \/ refused
        BY <1>1, <1>5, Zenon DEF SetupInv, ReasonOK
      <3> QED  BY <2>1, <2>2, <2>3, <3>1, Zenon DEF SetupInv, ReasonOK, faultVars, foreignVars
    <2>7. PortsOK'
      BY <1>1, <1>3, <2>2, PortsKept, Zenon DEF SetupInv
    <2> QED  BY <1>4, <2>3, <2>4, <2>5, <2>6, <2>7 DEF SetupInv
  <1>6. CASE /\ o.tries # << >>
             /\ (Fault /\ UNCHANGED refused) \/ (refused' = TRUE /\ UNCHANGED faultVars)
             /\ binder' = [binder EXCEPT ![b].tries = Tail(@)]
             /\ UNCHANGED <<held, failed, foreign>>
    <2> DEFINE r == [o EXCEPT !.tries = Tail(o.tries)]
    <2>2. binder' = [binder EXCEPT ![b] = r]
      BY <1>6
    <2>3. Tail(o.tries) \in Seq(Backends)
      BY <1>1, <1>6 DEF BinderRegs
    <2>4. /\ r \in BinderRegs /\ r.pc = "open" /\ r.call = o.call /\ r.port = o.port /\ r.backend = "none" /\ r.stage = 0
          /\ ~r.pre
      BY <1>1, <1>2, <2>3, Zenon DEF BinderRegs
    <2> HIDE DEF r
    <2>5. ~HasPort(r)
      BY <2>4, Zenon DEF HasPort
    <2>6. RegsOK(r)
      BY <1>1, <1>2, <2>4, <2>5 DEF RegsOK, ApiOf
    <2>7. Moves(b, r)
      BY <2>2, <2>4, <2>6 DEF Moves
    <2>8. Regs' /\ binder'[b] = r /\ \A c \in Binders \ {b} : binder'[c] = binder[c]
      BY <1>1, <2>7, MovesRegs
    <2>9. LockOK'
      BY <1>1, <1>3, <2>4, <2>7, LockKept DEF SetupInv
    <2>10. HeldOK'
      BY <1>1, <1>2, <1>3, <1>6, <2>4, <2>7, HeldKept DEF SetupInv
    <2>11. ReasonOK'
      <3>1. CASE Fault /\ UNCHANGED refused
        <4>1. faults' \in Nat /\ faulted'
          BY <3>1 DEF Fault, SetupInv, ReasonOK
        <4> QED  BY <1>6, <2>4, <2>8, <3>1, <4>1, Zenon DEF SetupInv, ReasonOK, Fault
      <3>2. CASE refused' = TRUE /\ UNCHANGED faultVars
        BY <1>6, <2>4, <2>8, <3>2, Zenon DEF SetupInv, ReasonOK, faultVars
      <3> QED  BY <1>6, <3>1, <3>2, Zenon
    <2>12. PortsOK'
      BY <1>1, <1>3, <2>4, <2>5, <2>7, PortsKept DEF SetupInv
    <2> QED  BY <1>4, <2>8, <2>9, <2>10, <2>11, <2>12 DEF SetupInv
  <1>7. CASE /\ o.tries # << >>
             /\ Head(o.tries) = "dpdk" => "eal" \notin held
             /\ held' = held \cup (IF Head(o.tries) = "dpdk" THEN {"eal"} ELSE {})
             /\ foreign' = (foreign \/ Head(o.tries) = "dpdk")
             /\ binder' = [binder EXCEPT ![b].backend = Head(o.tries), ![b].pc = "port"]
             /\ UNCHANGED <<failed, faultVars, refused>>
    <2> DEFINE h == Head(o.tries)
               r == [o EXCEPT !.backend = h, !.pc = "port"]
    <2>1. h \in Backends
      <3>1. o.tries \in Seq(Backends)
        BY <1>1 DEF BinderRegs
      <3> QED  BY <1>7, <3>1
    <2>2. binder' = [binder EXCEPT ![b] = r]
      BY <1>1, <1>7, Zenon DEF Regs, BinderRegs
    <2>3. /\ r \in BinderRegs /\ r.pc = "port" /\ r.call = o.call /\ r.port = o.port /\ r.backend = h /\ r.stage = 0
          /\ ~r.pre
      BY <1>1, <1>2, <2>1, Zenon DEF BinderRegs, BinderPcs
    <2> HIDE DEF r, h
    <2>4. ~HasPort(r)
      BY <2>3, Zenon DEF HasPort
    <2>5. RegsOK(r)
      BY <1>1, <1>2, <2>3, <2>4 DEF RegsOK, ApiOf
    <2>6. Moves(b, r)
      BY <2>2, <2>3, <2>5, ZenonT(30) DEF Moves
    <2>7. Regs' /\ binder'[b] = r /\ \A c \in Binders \ {b} : binder'[c] = binder[c]
      BY <1>1, <2>6, MovesRegs
    <2>8. LockOK'
      BY <1>1, <1>3, <2>3, <2>6, LockKept DEF SetupInv
    <2>9. HeldOK'
      <3>1. CASE h # "dpdk"
        <4>1. held' = held /\ foreign' = foreign
          BY <1>7, <3>1, Zenon DEF SetupInv, ReasonOK, h
        <4> QED  BY <1>1, <1>2, <1>3, <2>3, <2>6, <3>1, <4>1, HeldKept DEF SetupInv
      <3>2. CASE h = "dpdk"
        <4>1. "eal" \notin held /\ held' = held \cup {"eal"} /\ foreign'
          BY <1>7, <3>2, Zenon DEF h
        <4>2. HeldOK
          BY DEF SetupInv
        <4>3. ~DPDK_RESOURCES
          BY <4>1, <4>2, Reached DEF HeldOK
        <4>4. \A c \in Binders : binder[c].stage = 0 /\ binder[c].backend # "dpdk"
          <5>1. ASSUME NEW c \in Binders PROVE binder[c].backend # "dpdk"
            BY <4>1, <4>2, <5>1, Reached DEF HeldOK
          <5>2. ASSUME NEW c \in Binders, binder[c].stage # 0 PROVE FALSE
            <6>1. binder[c].stage \in 1 .. 4
              BY <1>1, <5>2 DEF Regs, BinderRegs
            <6>2. PICK n \in 0 .. 3 : binder[c].stage = n + 1
              <7>1. binder[c].stage - 1 \in 0 .. 3 /\ binder[c].stage = (binder[c].stage - 1) + 1
                BY <6>1
              <7> QED  BY <7>1
            <6>3. held = Upto(n + 1)
              BY <4>2, <6>1, <6>2 DEF HeldOK
            <6> QED  BY <4>1, <6>3, Reached
          <5> QED  BY <5>1, <5>2
        <4>5. held = {} /\ held' = Upto(1)
          BY <4>1, <4>2, <4>3, <4>4, Reached DEF HeldOK
        <4>6. \A c \in Binders : binder'[c].stage = 0 /\ (binder'[c].backend = "dpdk" <=> c = b)
          BY <2>3, <2>7, <3>2, <4>4
        <4>7. binder'[b].pc # "finish" /\ ~DPDK_RESOURCES'
          BY <1>3, <2>3, <2>7, <4>3
        <4>8. \A n : Upto(n)' = Upto(n)
          BY DEF Upto
        <4> HIDE DEF Upto
        <4> QED  BY <4>1, <4>5, <4>6, <4>7, <4>8 DEF HeldOK
      <3> QED  BY <3>1, <3>2, ZenonT(30)
    <2>10. ReasonOK'
      BY <1>7, <2>3, <2>7, Zenon DEF SetupInv, ReasonOK, faultVars
    <2>11. PortsOK'
      BY <1>1, <1>3, <2>3, <2>4, <2>6, PortsKept, Zenon DEF SetupInv
    <2> QED  BY <1>4, <2>7, <2>8, <2>9, <2>10, <2>11 DEF SetupInv
  <1> QED  BY <1>5, <1>6, <1>7, Zenon DEF create_backend

(* The resources are there, or the thread takes the mutex.                 *)
LEMMA GetInv ==
  ASSUME SetupInv, NEW b \in Binders, GetResources(b)
  PROVE  SetupInv'
  <1> DEFINE o == binder[b]
  <1>1. o \in BinderRegs /\ RegsOK(o) /\ Regs /\ o.call # None /\ o.call[1] \in BindCalls /\ o.pc = "get"
    BY Called1 DEF SetupInv, GetResources, BinderAt
  <1>2. UNCHANGED <<DPDK_RESOURCES, held, portVars, sockets, failed, faultVars, foreignVars>> /\ resourcesLock = None
    BY ZenonT(30) DEF GetResources
  <1>3. PlanFits'
    BY <1>2 DEF SetupInv, PlanFits
  <1>4. CASE DPDK_RESOURCES
    <2> DEFINE next == AfterGet(b)
               r == [o EXCEPT !.pc = next, !.pre = FALSE]
    <2>1. binder' = [binder EXCEPT ![b] = r] /\ resourcesLock' = resourcesLock
      BY <1>1, <1>4, ZenonT(30) DEF GetResources, Regs, BinderRegs
    <2>2. /\ next \in {"get", "finish", "port"} /\ (next = "finish" => ApiOf(o) \in {"bind_v6", "backend"})
          /\ (next = "get" => ApiOf(o) = "builder") /\ (next = "port" => ApiOf(o) \notin {"bind_v6", "backend"})
      BY <1>1 DEF AfterGet, Api, ApiOf, RegsOK
    <2> HIDE DEF next
    <2>3. /\ r \in BinderRegs /\ r.pc = next /\ r.call = o.call /\ r.port = o.port /\ r.backend = o.backend
          /\ r.stage = o.stage /\ ~r.pre
      BY <1>1, <2>2, Zenon DEF BinderRegs, BinderPcs
    <2>4. o.stage = 0 /\ o.backend # "dpdk"
      BY <1>1, <1>4 DEF SetupInv, HeldOK, RegsOK, BinderRegs
    <2> HIDE DEF r
    <2>5. HasPort(r) <=> HasPort(o)
      BY <1>1, <2>2, <2>3, ZenonT(30) DEF HasPort, ApiOf
    <2>6. RegsOK(r)
      BY <1>1, <2>2, <2>3, <2>4, <2>5 DEF RegsOK, ApiOf
    <2>7. Moves(b, r)
      BY <2>1, <2>3, <2>6 DEF Moves
    <2>8. Regs'
      BY <1>1, <2>7, MovesRegs, Zenon
    <2>9. LockOK'
      BY <1>1, <1>2, <2>1, <2>2, <2>3, <2>7, LockKept, Zenon DEF SetupInv
    <2>10. HeldOK'
      BY <1>1, <1>2, <2>1, <2>3, <2>4, <2>7, HeldKept, Zenon DEF SetupInv, foreignVars
    <2>11. ReasonOK'
      BY <1>1, <1>2, <2>2, <2>3, <2>7, ReasonKept, Zenon DEF SetupInv
    <2>12. PortsOK'
      BY <1>1, <1>2, <2>2, <2>3, <2>5, <2>7, PortsKept DEF SetupInv
    <2> QED  BY <1>3, <2>8, <2>9, <2>10, <2>11, <2>12 DEF SetupInv
  <1>5. CASE ~DPDK_RESOURCES
    <2> DEFINE r == [o EXCEPT !.pc = "init"]
    <2>1. binder' = [binder EXCEPT ![b] = r] /\ resourcesLock' = Some(b)
      BY <1>1, <1>5 DEF GetResources, BinderGoto, Regs, BinderRegs
    <2>3. /\ r \in BinderRegs /\ r.pc = "init" /\ r.call = o.call /\ r.port = o.port /\ r.backend = o.backend
          /\ r.stage = o.stage /\ r.pre = o.pre
      BY <1>1, Zenon DEF BinderRegs, BinderPcs
    <2> HIDE DEF r
    <2>5. HasPort(r) <=> HasPort(o)
      BY <1>1, <2>3, ZenonT(30) DEF HasPort, ApiOf
    <2>6. RegsOK(r)
      BY <1>1, <2>3, <2>5 DEF RegsOK, ApiOf
    <2>7. Moves(b, r)
      BY <2>1, <2>3, <2>6, ZenonT(30) DEF Moves
    <2>8. Regs' /\ binder'[b] = r /\ \A c \in Binders \ {b} : binder'[c] = binder[c]
      BY <1>1, <2>7, MovesRegs
    <2>9. LockOK'
      <3>1. \A c \in Binders : binder[c].pc \notin {"init", "undo"}
        BY <1>2, SomeIsOne DEF SetupInv, LockOK
      <3>2. \A c \in Binders : binder'[c].pc \in {"init", "undo"} <=> c = b
        BY <2>3, <2>8, <3>1, Zenon
      <3> QED  BY <1>2, <2>1, <3>2, SomeIsOne DEF SetupInv, LockOK
    <2>10. HeldOK'
      BY <1>1, <1>2, <1>5, <2>3, <2>7, HeldKept, Zenon DEF SetupInv, foreignVars
    <2>11. ReasonOK'
      BY <1>1, <1>2, <2>3, <2>7, ReasonKept, Zenon DEF SetupInv
    <2>12. PortsOK'
      BY <1>1, <1>2, <2>3, <2>5, <2>7, PortsKept, Zenon DEF SetupInv
    <2> QED  BY <1>3, <2>8, <2>9, <2>10, <2>11, <2>12 DEF SetupInv
  <1> QED  BY <1>4, <1>5 DEF SetupInv, LockOK

(* Who initialises is alone with what is initialised.                      *)
LEMMA AloneInInit ==
  ASSUME SetupInv, NEW b \in Binders, binder[b].pc \in {"init", "undo"}
  PROVE  /\ ~DPDK_RESOURCES /\ resourcesLock = Some(b) /\ binder[b].stage \in 0 .. 4
         /\ \A c \in Binders \ {b} : binder[c].stage = 0 /\ binder[c].pc \notin {"init", "undo"}
         /\ binder[b].stage > 0 => held = Upto(binder[b].stage) /\ \A c \in Binders : binder[c].backend # "dpdk"
         /\ binder[b].stage = 0 =>
              \/ held = Upto(0) /\ \A c \in Binders : binder[c].backend # "dpdk"
              \/ held = Upto(1) /\ foreign
  <1>1. resourcesLock = Some(b)
    BY DEF SetupInv, LockOK
  <1>2. ~DPDK_RESOURCES
    BY <1>1, SomeIsOne DEF SetupInv, HeldOK
  <1>3. \A c \in Binders \ {b} : binder[c].pc \notin {"init", "undo"}
    BY <1>1, SomeIsOne, ZenonT(30) DEF SetupInv, LockOK
  <1>4. \A c \in Binders : binder[c].stage \in 0 .. 4 /\ (binder[c].stage > 0 => binder[c].pc \in {"init", "undo"})
    BY DEF SetupInv, Regs, RegsOK, BinderRegs
  <1>5. \A c \in Binders \ {b} : binder[c].stage = 0
    BY <1>3, <1>4
  <1>6. ASSUME binder[b].stage > 0 PROVE held = Upto(binder[b].stage) /\ \A c \in Binders : binder[c].backend # "dpdk"
    BY <1>6 DEF SetupInv, HeldOK
  <1>7. ASSUME binder[b].stage = 0
        PROVE  \/ held = Upto(0) /\ \A c \in Binders : binder[c].backend # "dpdk"
               \/ held = Upto(1) /\ foreign
    <2>1. CASE \E c \in Binders : binder[c].backend = "dpdk"
      BY <2>1 DEF SetupInv, HeldOK
    <2>2. CASE ~ \E c \in Binders : binder[c].backend = "dpdk"
      <3>1. \A c \in Binders : binder[c].stage = 0
        BY <1>5, <1>7
      <3> QED  BY <1>2, <2>2, <3>1 DEF SetupInv, HeldOK
    <2> QED  BY <2>1, <2>2
  <1> QED  BY <1>1, <1>2, <1>3, <1>4, <1>5, <1>6, <1>7

(* An initialisation turns to what it has to undo.                         *)
LEMMA TurnsToUndo ==
  ASSUME SetupInv, NEW b \in Binders, binder[b].pc = "init", BinderGoto(b, "undo"),
         faults' \in Nat /\ faulted' \in BOOLEAN, faulted => faulted', faulted' \/ foreign,
         UNCHANGED <<DPDK_RESOURCES, resourcesLock, held, portVars, sockets, failed, foreignVars>>
  PROVE  SetupInv'
  <1> DEFINE o == binder[b]
             r == [o EXCEPT !.pc = "undo"]
  <1>1. o \in BinderRegs /\ RegsOK(o) /\ Regs /\ o.call # None
    BY Called1 DEF SetupInv
  <1>2. binder' = [binder EXCEPT ![b] = r]
    BY <1>1 DEF BinderGoto, Regs, BinderRegs
  <1>3. /\ r \in BinderRegs /\ r.pc = "undo" /\ r.call = o.call /\ r.port = o.port /\ r.backend = o.backend
        /\ r.stage = o.stage /\ r.pre = o.pre
    BY <1>1, SMTT(30) DEF BinderRegs, BinderPcs
  <1> HIDE DEF r
  <1>5. HasPort(r) <=> HasPort(o)
    BY <1>1, <1>3, Zenon DEF HasPort, ApiOf
  <1>6. RegsOK(r)
    BY <1>1, <1>3, <1>5 DEF RegsOK, ApiOf
  <1>7. Moves(b, r)
    BY <1>2, <1>3, <1>6, Zenon DEF Moves
  <1>8. Regs' /\ binder'[b] = r /\ \A c \in Binders \ {b} : binder'[c] = binder[c]
    BY <1>1, <1>7, MovesRegs, Zenon
  <1>9. LockOK'
    BY <1>1, <1>3, <1>7, LockKept, Zenon DEF SetupInv
  <1>10. HeldOK'
    BY <1>1, <1>3, <1>7, HeldKept, Zenon DEF SetupInv, foreignVars
  <1>11. ReasonOK'
    BY <1>3, <1>8, Zenon DEF SetupInv, ReasonOK, foreignVars
  <1>12. PortsOK'
    BY <1>1, <1>3, <1>5, <1>7, PortsKept, ZenonT(30) DEF SetupInv
  <1>13. PlanFits'
    BY DEF SetupInv, PlanFits
  <1> QED  BY <1>8, <1>9, <1>10, <1>11, <1>12, <1>13, ZenonT(30) DEF SetupInv

(* A stage of the initialisation fails.                                    *)
LEMMA InitFailsInv ==
  ASSUME SetupInv, NEW b \in Binders, InitFails(b)
  PROVE  SetupInv'
  <1>1. faults' \in Nat /\ faulted' = TRUE
    BY DEF InitFails, Fault, SetupInv, ReasonOK
  <1> QED  BY <1>1, TurnsToUndo DEF InitFails, BinderAt

(* A stage is added or released: the registers and the mutex.              *)
LEMMA StageMoves ==
  ASSUME SetupInv, NEW b \in Binders, binder[b].pc \in {"init", "undo"}, NEW n \in 0 .. 4,
         binder' = [binder EXCEPT ![b].stage = n], held' = Upto(n),
         binder[b].stage > 0 \/ \A c \in Binders : binder[c].backend # "dpdk",
         UNCHANGED <<DPDK_RESOURCES, resourcesLock, portVars, sockets, failed, faultVars, foreignVars>>
  PROVE  SetupInv'
  <1> DEFINE o == binder[b]
             r == [o EXCEPT !.stage = n]
  <1>1. o \in BinderRegs /\ RegsOK(o) /\ Regs /\ o.call # None
    BY Called1 DEF SetupInv
  <1>2. binder' = [binder EXCEPT ![b] = r]
    BY <1>1 DEF Regs, BinderRegs
  <1>3. /\ r \in BinderRegs /\ r.pc = o.pc /\ r.call = o.call /\ r.port = o.port /\ r.backend = o.backend
        /\ r.stage = n /\ r.pre = o.pre
    BY <1>1, Zenon DEF BinderRegs
  <1> HIDE DEF r
  <1>5. HasPort(r) <=> HasPort(o)
    BY <1>1, <1>3 DEF HasPort, ApiOf
  <1>6. RegsOK(r)
    BY <1>1, <1>3, <1>5 DEF RegsOK, ApiOf
  <1>7. Moves(b, r)
    BY <1>2, <1>3, <1>6, Zenon DEF Moves
  <1>8. Regs' /\ binder'[b] = r /\ \A c \in Binders \ {b} : binder'[c] = binder[c]
    BY <1>1, <1>7, MovesRegs
  <1>9. LockOK'
    BY <1>1, <1>3, <1>7, LockKept DEF SetupInv
  <1>10. HeldOK'
    <2>1. /\ ~DPDK_RESOURCES /\ \A c \in Binders \ {b} : binder[c].stage = 0
          /\ \A c \in Binders : binder[c].backend # "dpdk"
      BY AloneInInit
    <2>2. \A c \in Binders : binder'[c].backend # "dpdk"
      BY <1>3, <1>8, <2>1
    <2>3. binder'[b].stage = n /\ \A c \in Binders \ {b} : binder'[c].stage = 0
      BY <1>3, <1>8, <2>1
    <2>4. \A k : Upto(k)' = Upto(k)
      BY DEF Upto
    <2> HIDE DEF Upto
    <2>5. \A c \in Binders : binder'[c].stage > 0 => c = b /\ binder'[c].stage = n
      BY <2>3
    <2>6. (\A c \in Binders : binder'[c].stage = 0) => n = 0
      BY <2>3
    <2> QED  BY <2>1, <2>2, <2>4, <2>5, <2>6, Zenon DEF HeldOK
  <1>11. ReasonOK'
    BY <1>1, <1>3, <1>7, ReasonKept DEF SetupInv
  <1>12. PortsOK'
    BY <1>1, <1>3, <1>5, <1>7, PortsKept DEF SetupInv
  <1>13. PlanFits'
    BY DEF SetupInv, PlanFits
  <1> QED  BY <1>8, <1>9, <1>10, <1>11, <1>12, <1>13 DEF SetupInv

(* A stage is initialised, or the EAL is there already.                    *)
LEMMA InitStageInv ==
  ASSUME SetupInv, NEW b \in Binders, InitStage(b)
  PROVE  SetupInv'
  <1> DEFINE n == binder[b].stage
             s == Stages[n + 1]
  <1>1. /\ binder[b].pc = "init" /\ n < 4
        /\ UNCHANGED <<DPDK_RESOURCES, resourcesLock, portVars, sockets, failed, faultVars, foreignVars>>
    BY Reached, Zenon DEF InitStage, BinderAt
  <1>2. n \in 0 .. 3 /\ n + 1 \in 0 .. 4
    BY <1>1, AloneInInit, SMTT(30)
  <1>3. CASE s = "eal" /\ s \in held
    <2>1. n = 0
      BY <1>2, <1>3, Reached
    <2>2. held # Upto(0)
      BY <1>3, Reached
    <2>3. foreign
      BY <1>1, <2>1, <2>2, AloneInInit
    <2>4. BinderGoto(b, "undo") /\ UNCHANGED held
      BY <1>3 DEF InitStage
    <2>5. faults' \in Nat /\ faulted' \in BOOLEAN /\ (faulted => faulted')
      BY <1>1 DEF SetupInv, ReasonOK, faultVars
    <2> QED  BY <1>1, <2>3, <2>4, <2>5, TurnsToUndo
  <1>4. CASE ~(s = "eal" /\ s \in held)
    <2>1. held' = held \cup {s} /\ binder' = [binder EXCEPT ![b].stage = n + 1]
      BY <1>4 DEF InitStage
    <2>2. CASE n > 0
      <3>1. held = Upto(n)
        BY <1>1, <2>2, AloneInInit
      <3>2. held' = Upto(n + 1)
        BY <1>2, <2>1, <3>1, Reached
      <3> QED  BY <1>1, <1>2, <2>1, <2>2, <3>2, StageMoves, Zenon
    <2>3. CASE n = 0
      <3>1. s = "eal"
        BY <1>2, <2>3, Reached
      <3>2. held # Upto(1)
        BY <1>4, <3>1, Reached, Zenon
      <3>3. held = Upto(0) /\ \A c \in Binders : binder[c].backend # "dpdk"
        BY <1>1, <2>3, <3>2, AloneInInit
      <3>4. held' = Upto(n + 1)
        BY <1>2, <2>1, <2>3, <3>3, Reached
      <3> QED  BY <1>1, <1>2, <2>1, <3>3, <3>4, StageMoves, Zenon
    <2> QED  BY <1>2, <2>2, <2>3
  <1> QED  BY <1>3, <1>4

(* A stage is released, or with the last of them the mutex.                *)
LEMMA UndoInv ==
  ASSUME SetupInv, NEW b \in Binders, UndoInit(b)
  PROVE  SetupInv'
  <1> DEFINE o == binder[b]
             n == o.stage
  <1>1. o \in BinderRegs /\ RegsOK(o) /\ Regs /\ o.pc = "undo" /\ n \in 0 .. 4
    BY Called1 DEF SetupInv, UndoInit, BinderAt, BinderRegs
  <1>2. UNCHANGED <<DPDK_RESOURCES, portVars, sockets, faultVars, foreignVars>>
    BY DEF UndoInit
  <1>3. CASE n > 0
    <2>1. held' = held \ {Stages[n]} /\ binder' = [binder EXCEPT ![b].stage = n - 1] /\ UNCHANGED <<resourcesLock, failed>>
      BY <1>3, ZenonT(30) DEF UndoInit, Dropped
    <2>2. held = Upto(n)
      BY <1>1, <1>3, AloneInInit
    <2>3. n - 1 \in 0 .. 3 /\ (n - 1) + 1 = n /\ n - 1 \in 0 .. 4
      BY <1>1, <1>3
    <2>4. held' = Upto(n - 1)
      BY <2>1, <2>2, <2>3, Reached, Zenon
    <2> QED  BY <1>1, <1>2, <1>3, <2>1, <2>3, <2>4, StageMoves, Zenon
  <1>4. CASE n = 0
    <2>1. /\ resourcesLock' = None /\ BindFails(b)
          /\ held' = IF o.backend = "dpdk" THEN held \ {"eal"} ELSE held
      BY <1>4 DEF UndoInit
    <2>2. PICK r : /\ Moves(b, r) /\ r.stage = 0 /\ r.pc \in {"get", "kernel", "idle"} /\ ~HasPort(r)
                   /\ r.backend = "none" /\ failed' \in {failed, TRUE}
      BY <1>1, <1>4, <2>1, Failing, Zenon
    <2>3. Regs' /\ binder'[b] = r /\ \A c \in Binders \ {b} : binder'[c] = binder[c]
      BY <1>1, <2>2, MovesRegs, Zenon
    <2>4. /\ ~DPDK_RESOURCES /\ \A c \in Binders \ {b} : binder[c].stage = 0 /\ binder[c].pc \notin {"init", "undo"}
      BY <1>1, AloneInInit, Zenon
    <2>5. LockOK'
      <3>1. \A c \in Binders : binder'[c].pc \notin {"init", "undo"}
        BY <2>2, <2>3, <2>4, Zenon
      <3> QED  BY <1>2, <2>1, <3>1, SomeIsOne, Zenon DEF SetupInv, LockOK
    <2>6. HeldOK'
      <3>1. \A c \in Binders : binder'[c].stage = 0
        BY <2>2, <2>3, <2>4
      <3>2. \A k : Upto(k)' = Upto(k)
        BY DEF Upto
      <3>3. foreign' = foreign /\ ~DPDK_RESOURCES'
        BY <1>2, <2>4 DEF foreignVars
      <3>4. CASE o.backend = "dpdk"
        <4>1. held = Upto(1) /\ \A c \in Binders \ {b} : binder[c].backend # "dpdk"
          BY <3>4 DEF SetupInv, HeldOK
        <4>2. held' = Upto(0)
          BY <2>1, <3>4, <4>1, Reached, Zenon
        <4>3. \A c \in Binders : binder'[c].backend # "dpdk"
          BY <2>2, <2>3, <4>1, Zenon
        <4> QED  BY <3>1, <3>2, <3>3, <4>2, <4>3, Zenon DEF HeldOK
      <3>5. CASE o.backend # "dpdk"
        <4>1. held' = held
          BY <2>1, <3>5, Zenon
        <4>2. \A c \in Binders : binder'[c].backend = "dpdk" <=> binder[c].backend = "dpdk"
          BY <2>2, <2>3, <3>5, Zenon
        <4>3. \A c \in Binders : binder'[c].backend = "dpdk" => binder'[c] = binder[c]
          BY <2>2, <2>3, Zenon
        <4>4. \A c \in Binders : binder[c].stage = 0
          BY <1>4, <2>4, Zenon
        <4>5. ~(\E c \in Binders : binder'[c].stage > 0)
          BY <3>1
        <4> HIDE DEF Upto
        <4> QED  BY <2>4, <3>1, <3>2, <3>3, <4>1, <4>2, <4>3, <4>4, <4>5, Zenon DEF SetupInv, HeldOK
      <3> QED  BY <3>4, <3>5
    <2>7. ReasonOK'
      <3>1. faulted \/ foreign
        BY <1>1, Zenon DEF SetupInv, ReasonOK
      <3> QED  BY <1>2, <2>2, <2>3, <3>1, Zenon DEF SetupInv, ReasonOK, faultVars, foreignVars
    <2>8. PortsOK'
      BY <1>1, <1>2, <2>2, PortsKept, Zenon DEF SetupInv
    <2>9. PlanFits'
      BY <1>2 DEF SetupInv, PlanFits
    <2> QED  BY <2>3, <2>5, <2>6, <2>7, <2>8, <2>9 DEF SetupInv
  <1> QED  BY <1>1, <1>3, <1>4

(* The resources are there.                                                *)
LEMMA PublishInv ==
  ASSUME SetupInv, NEW b \in Binders, Publish(b)
  PROVE  SetupInv'
  <1> DEFINE o == binder[b]
             next == AfterGet(b)
             r == [o EXCEPT !.pc = next, !.pre = FALSE, !.stage = 0]
  <1>1. o \in BinderRegs /\ RegsOK(o) /\ Regs /\ o.call # None /\ o.call[1] \in BindCalls /\ o.pc = "init" /\ o.stage = 4
    BY Called1, Reached DEF SetupInv, Publish, BinderAt
  <1>2. /\ UNCHANGED <<held, portVars, sockets, failed, faultVars, foreignVars>>
        /\ DPDK_RESOURCES' = TRUE /\ resourcesLock' = None
    BY ZenonT(30) DEF Publish
  <1>3. /\ next \in {"get", "finish", "port"} /\ (next = "finish" => ApiOf(o) \in {"bind_v6", "backend"})
        /\ (next = "get" => ApiOf(o) = "builder") /\ (next = "port" => ApiOf(o) \notin {"bind_v6", "backend"})
    BY <1>1 DEF AfterGet, Api, ApiOf, RegsOK
  <1>4. binder' = [binder EXCEPT ![b] = r]
    BY <1>1, Zenon DEF Publish, Regs, BinderRegs
  <1> HIDE DEF next
  <1>5. /\ r \in BinderRegs /\ r.pc = next /\ r.call = o.call /\ r.port = o.port /\ r.backend = o.backend
        /\ r.stage = 0 /\ ~r.pre
    <2>1. next \in BinderPcs /\ 0 \in 0 .. 4 /\ FALSE \in BOOLEAN
      BY <1>3 DEF BinderPcs
    <2>2. r \in BinderRegs
      BY <1>1, <2>1, Zenon DEF BinderRegs
    <2>3. r.pc = next /\ r.call = o.call /\ r.port = o.port /\ r.backend = o.backend /\ r.stage = 0 /\ ~r.pre
      BY <1>1, Zenon DEF BinderRegs
    <2> QED  BY <2>2, <2>3
  <1> HIDE DEF r
  <1>6. HasPort(r) <=> HasPort(o)
    BY <1>1, <1>3, <1>5, ZenonT(30) DEF HasPort, ApiOf
  <1>7. RegsOK(r)
    BY <1>1, <1>3, <1>5, <1>6 DEF RegsOK, ApiOf
  <1>8. Moves(b, r)
    BY <1>4, <1>5, <1>7, Zenon DEF Moves
  <1>9. Regs' /\ binder'[b] = r /\ \A c \in Binders \ {b} : binder'[c] = binder[c]
    BY <1>1, <1>8, MovesRegs, ZenonT(30)
  <1>10. /\ \A c \in Binders \ {b} : binder[c].stage = 0 /\ binder[c].pc \notin {"init", "undo"}
         /\ held = Upto(4) /\ \A c \in Binders : binder[c].backend # "dpdk"
    BY <1>1, AloneInInit
  <1>11. LockOK'
    <2>1. \A c \in Binders : binder'[c].pc \notin {"init", "undo"}
      BY <1>3, <1>5, <1>9, <1>10
    <2> QED  BY <1>2, <2>1, SomeIsOne, Zenon DEF LockOK
  <1>12. HeldOK'
    <2>1. \A c \in Binders : binder'[c].stage = 0 /\ binder'[c].backend # "dpdk"
      BY <1>5, <1>9, <1>10
    <2>2. held' = Upto(4)'
      BY <1>2, <1>10 DEF Upto
    <2>3. ~ \E c \in Binders : binder'[c].stage > 0
      BY <2>1
    <2> QED  BY <1>2, <2>1, <2>2, <2>3, Zenon DEF HeldOK
  <1>13. ReasonOK'
    BY <1>1, <1>2, <1>3, <1>5, <1>8, ReasonKept, Zenon DEF SetupInv
  <1>14. PortsOK'
    BY <1>1, <1>2, <1>3, <1>5, <1>6, <1>8, PortsKept, Zenon DEF SetupInv
  <1>15. PlanFits'
    BY <1>2, Zenon DEF SetupInv, PlanFits
  <1> QED  BY <1>9, <1>11, <1>12, <1>13, <1>14, <1>15 DEF SetupInv

(* A thread that leaves the choice of its port.                            *)
LEMMA LeavesPort ==
  ASSUME SetupInv, NEW b \in Binders, binder[b].pc \in {"port", "wrap"}, NEW p \in Nat,
         \/ p \in FirstPort .. LastPort /\ binder[b].call[1].port = 0
         \/ p = binder[b].call[1].port /\ p # 0,
         binder' = [binder EXCEPT ![b].pc = AfterPort(b), ![b].port = p],
         UNCHANGED <<DPDK_RESOURCES, resourcesLock, held, sockets, failed, faultVars, foreignVars>>
  PROVE  /\ Regs' /\ LockOK' /\ HeldOK' /\ ReasonOK' /\ PlanFits'
         /\ \E r : /\ Moves(b, r) /\ r.port = p /\ r.pc \in {"get", "finish"}
                   /\ HasPort(r) <=> binder[b].call[1].port = 0
  <1> DEFINE o == binder[b]
             next == AfterPort(b)
             r == [o EXCEPT !.pc = next, !.port = p]
  <1>1. o \in BinderRegs /\ RegsOK(o) /\ Regs /\ o.call # None /\ o.call[1] \in BindCalls
    BY Called1 DEF SetupInv
  <1>2. /\ next \in {"get", "finish"} /\ (next = "get" => ApiOf(o) \in {"bind_v6", "backend"})
        /\ (next = "finish" => ApiOf(o) \notin {"bind_v6", "backend"})
    BY DEF AfterPort, Api, ApiOf
  <1>3. binder' = [binder EXCEPT ![b] = r]
    BY <1>1, Zenon DEF Regs, BinderRegs
  <1> HIDE DEF next
  <1>4. /\ r \in BinderRegs /\ r.pc = next /\ r.call = o.call /\ r.port = p /\ r.backend = o.backend
        /\ r.stage = o.stage /\ r.pre = o.pre
    BY <1>1, <1>2, Zenon DEF BinderRegs, BinderPcs
  <1> HIDE DEF r
  <1>5. ~o.pre /\ o.stage = 0 /\ (o.backend # "none" => ApiOf(o) = "backend")
    BY <1>1 DEF RegsOK, BinderRegs
  <1>6. HasPort(r) <=> o.call[1].port = 0
    BY <1>1, <1>2, <1>4 DEF HasPort, ApiOf
  <1>7. RegsOK(r)
    BY <1>1, <1>2, <1>4, <1>5, <1>6 DEF RegsOK, ApiOf
  <1>8. Moves(b, r)
    BY <1>3, <1>4, <1>7, Zenon DEF Moves
  <1>9. Regs'
    BY <1>1, <1>8, MovesRegs
  <1>10. LockOK'
    BY <1>1, <1>2, <1>4, <1>8, LockKept DEF SetupInv
  <1>11. HeldOK'
    BY <1>1, <1>2, <1>4, <1>5, <1>8, HeldKept DEF SetupInv, foreignVars
  <1>12. ReasonOK'
    BY <1>1, <1>2, <1>4, <1>8, ReasonKept DEF SetupInv
  <1>13. PlanFits'
    BY DEF SetupInv, PlanFits
  <1> QED  BY <1>2, <1>4, <1>6, <1>8, <1>9, <1>10, <1>11, <1>12, <1>13

(* A thread keeps the port it asked for.                                   *)
LEMMA FixedPortInv ==
  ASSUME SetupInv, NEW b \in Binders, FixedPort(b)
  PROVE  SetupInv'
  <1> DEFINE p == binder[b].port
  <1>1. binder[b] \in BinderRegs /\ RegsOK(binder[b]) /\ Regs /\ binder[b].pc = "port"
    BY Called1, Zenon DEF SetupInv, FixedPort, BinderAt
  <1>2. p \in Nat /\ p # 0 /\ p = binder[b].call[1].port
    BY <1>1, Zenon DEF RegsOK, HasPort, BinderRegs, FixedPort
  <1>3. binder' = [binder EXCEPT ![b].pc = AfterPort(b), ![b].port = p]
    BY <1>1, Zenon DEF FixedPort, BinderGoto, Regs, BinderRegs
  <1>4. UNCHANGED <<DPDK_RESOURCES, resourcesLock, held, portVars, sockets, failed, faultVars, foreignVars>>
    BY DEF FixedPort
  <1> HIDE DEF p
  <1>5. /\ Regs' /\ LockOK' /\ HeldOK' /\ ReasonOK' /\ PlanFits'
        /\ \E r : /\ Moves(b, r) /\ r.port = p /\ r.pc \in {"get", "finish"}
                  /\ HasPort(r) <=> binder[b].call[1].port = 0
    <2>1. p = binder[b].port
      BY Zenon DEF p
    <2> QED  BY <1>1, <1>2, <1>3, <1>4, <2>1, LeavesPort, Zenon
  <1>6. PortsOK'
    <2>1. PICK r : /\ Moves(b, r) /\ r.port = p /\ r.pc \in {"get", "finish"}
                   /\ HasPort(r) <=> binder[b].call[1].port = 0
      BY <1>5, Zenon
    <2> QED  BY <1>1, <1>2, <1>4, <2>1, PortsKept, Zenon DEF SetupInv
  <1> QED  BY <1>5, <1>6, Zenon DEF SetupInv

(* The range starts again.                                                 *)
LEMMA WrapPortInv ==
  ASSUME SetupInv, NEW b \in Binders, WrapPort(b)
  PROVE  SetupInv'
  <1>1. binder[b] \in BinderRegs /\ RegsOK(binder[b]) /\ Regs /\ binder[b].pc = "wrap"
    BY Called1, Zenon DEF SetupInv, WrapPort, BinderAt
  <1>2. binder[b].call[1].port = 0 /\ wrapped
    BY <1>1, Zenon DEF RegsOK, SetupInv, PortsOK
  <1>3. FirstPort \in FirstPort .. LastPort /\ FirstPort \in Nat
    BY SetupAssumption
  <1>4. /\ NEXT_EPHEMERAL_PORT' = FirstPort + 1
        /\ UNCHANGED <<DPDK_RESOURCES, resourcesLock, held, sockets, failed, faultVars, foreignVars, wrapped>>
    BY DEF WrapPort
  <1>5. binder' = [binder EXCEPT ![b].pc = AfterPort(b), ![b].port = FirstPort]
    BY <1>1, Zenon DEF WrapPort, Regs, BinderRegs
  <1>6. /\ Regs' /\ LockOK' /\ HeldOK' /\ ReasonOK' /\ PlanFits'
        /\ \E r : /\ Moves(b, r) /\ r.port = FirstPort /\ r.pc \in {"get", "finish"}
                  /\ HasPort(r) <=> binder[b].call[1].port = 0
    <2> DEFINE p == FirstPort
    <2>1. p \in Nat /\ p \in FirstPort .. LastPort /\ binder' = [binder EXCEPT ![b].pc = AfterPort(b), ![b].port = p]
      BY <1>3, <1>5, ZenonT(30)
    <2> QED  BY <1>1, <1>2, <1>4, <2>1, LeavesPort, Zenon
  <1>7. PortsOK'
    BY <1>2, <1>3, <1>4 DEF SetupInv, PortsOK
  <1> QED  BY <1>6, <1>7 DEF SetupInv

(* A thread is given the next port of the range, or is past its end.       *)
LEMMA EphemeralPortInv ==
  ASSUME SetupInv, NEW b \in Binders, EphemeralPort(b)
  PROVE  SetupInv'
  <1> DEFINE o == binder[b]
             p == NEXT_EPHEMERAL_PORT
  <1>1. o \in BinderRegs /\ RegsOK(o) /\ Regs /\ o.pc = "port" /\ o.port = 0 /\ o.call # None
    BY Called1, ZenonT(30) DEF SetupInv, EphemeralPort, BinderAt
  <1>2. o.call[1].port = 0 /\ ~HasPort(o)
    BY <1>1 DEF RegsOK, HasPort
  <1>3. /\ p' = p + 1 /\ wrapped' = (wrapped \/ ~InRange(p)) /\ p \in Nat /\ p >= FirstPort /\ wrapped \in BOOLEAN
        /\ UNCHANGED <<DPDK_RESOURCES, resourcesLock, held, sockets, failed, faultVars, foreignVars>>
    BY Zenon DEF EphemeralPort, SetupInv, PortsOK
  <1>4. CASE InRange(p)
    <2>1. binder' = [binder EXCEPT ![b].pc = AfterPort(b), ![b].port = p]
      BY <1>4 DEF EphemeralPort
    <2>2. p \in FirstPort .. LastPort /\ wrapped' = wrapped
      BY <1>3, <1>4 DEF InRange
    <2>3. /\ Regs' /\ LockOK' /\ HeldOK' /\ ReasonOK' /\ PlanFits'
          /\ \E r : /\ Moves(b, r) /\ r.port = p /\ r.pc \in {"get", "finish"}
                    /\ HasPort(r) <=> binder[b].call[1].port = 0
      BY <1>1, <1>2, <1>3, <2>1, <2>2, LeavesPort, Zenon
    <2>4. PICK r : Moves(b, r) /\ r.port = p /\ r.pc \in {"get", "finish"} /\ HasPort(r)
      BY <1>2, <2>3, Zenon
    <2>5. binder'[b] = r /\ \A c \in Binders \ {b} : binder'[c] = binder[c]
      BY <1>1, <2>4, MovesRegs, Zenon
    <2>6. PortsOK
      BY DEF SetupInv
    <2>7. PortsOK'
      <3> DEFINE eph(i) == sockets[i].ephemeral
      <3>1. \A c \in Binders : HasPort(binder[c])' <=> HasPort(binder'[c])
        BY DEF HasPort, ApiOf
      <3>2. \A c \in Binders : binder[c] \in BinderRegs
        BY <1>1, ZenonT(30) DEF Regs
      <3>3. /\ sockets' \in Seq(SocketRecs) /\ p' \in Nat /\ wrapped' \in BOOLEAN /\ p' >= FirstPort
            /\ \A c \in Binders : binder'[c].pc = "wrap" => wrapped'
            /\ \A i \in 1 .. Len(sockets') : sockets'[i].ephemeral => sockets'[i].port \in FirstPort .. LastPort
            /\ ~wrapped' => p' <= LastPort + 1
        <4>1. p' \in Nat /\ p' >= FirstPort /\ p' <= LastPort + 1
          BY <1>3, <2>2, SetupAssumption
        <4>2. \A c \in Binders : binder'[c].pc = "wrap" => wrapped'
          BY <2>2, <2>4, <2>5, <2>6, Zenon DEF PortsOK
        <4> QED  BY <1>3, <2>2, <2>6, <4>1, <4>2 DEF PortsOK
      <3>4. ASSUME ~wrapped', NEW c \in Binders, HasPort(binder'[c]) PROVE binder'[c].port < p'
        <4>1. CASE c = b
          BY <1>3, <2>4, <2>5, <4>1
        <4>2. CASE c # b
          <5>1. binder[c].port < p /\ binder'[c].port = binder[c].port
            BY <2>2, <2>5, <2>6, <3>4, <4>2, Zenon DEF PortsOK
          <5>2. binder[c].port \in Nat
            BY <3>2 DEF BinderRegs
          <5>3. \A n \in Nat : n < p => n < p + 1
            BY <1>3
          <5> QED  BY <1>3, <5>1, <5>2, <5>3, Zenon
        <4> QED  BY <4>1, <4>2, Zenon
      <3>5. ASSUME ~wrapped', NEW c \in Binders, NEW d \in Binders, HasPort(binder'[c]), HasPort(binder'[d]),
                   binder'[c].port = binder'[d].port
            PROVE  c = d
        <4>1. \A e \in Binders : e # b /\ HasPort(binder'[e]) => HasPort(binder[e]) /\ binder[e].port < p
          <5>1. ~wrapped
            BY <2>2, <3>5, Zenon
          <5>2. \A e \in Binders : HasPort(binder[e]) => binder[e].port < p
            BY <2>6, <5>1, Zenon DEF PortsOK
          <5> QED  BY <2>5, <5>2, Zenon
        <4>2. \A e \in Binders : binder[e].port \in Nat
          BY <3>2, Zenon DEF BinderRegs
        <4>3. CASE c = b \/ d = b
          <5>1. \A n \in Nat : n < p => n # p
            BY <1>3
          <5>2. \A e \in Binders : e # b /\ HasPort(binder'[e]) => binder'[e].port # binder'[b].port
            BY <2>4, <2>5, <4>1, <4>2, <5>1, ZenonT(30)
          <5> QED  BY <3>5, <4>3, <5>2, Zenon
        <4>4. CASE c # b /\ d # b
          BY <2>2, <2>5, <2>6, <3>5, <4>4 DEF PortsOK
        <4> QED  BY <4>3, <4>4
      <3>6. \A i \in 1 .. Len(sockets) : sockets[i].port \in Nat
        <4>1. sockets \in Seq(SocketRecs) /\ \A x \in SocketRecs : x.port \in Nat
          BY <2>6, Zenon DEF PortsOK, SocketRecs
        <4> QED  BY <4>1
      <3>7. ASSUME ~wrapped', NEW i \in 1 .. Len(sockets), sockets[i].ephemeral PROVE sockets[i].port < p'
        BY <1>3, <2>2, <2>6, <3>6, <3>7 DEF PortsOK
      <3>8. ASSUME ~wrapped', NEW c \in Binders, NEW i \in 1 .. Len(sockets), HasPort(binder'[c]), sockets[i].ephemeral
            PROVE  binder'[c].port # sockets[i].port
        <4>1. sockets[i].port < p
          BY <2>2, <2>6, <3>8, ZenonT(30) DEF PortsOK
        <4>2. CASE c = b
          BY <1>3, <2>4, <2>5, <3>6, <4>1, <4>2
        <4>3. CASE c # b
          BY <2>2, <2>5, <2>6, <3>8, <4>3, ZenonT(30) DEF PortsOK
        <4> QED  BY <4>2, <4>3, Zenon
      <3>9. ~wrapped' => \A i, j \in 1 .. Len(sockets') :
              sockets'[i].ephemeral /\ sockets'[j].ephemeral /\ sockets'[i].port = sockets'[j].port => i = j
        BY <1>3, <2>2, <2>6 DEF PortsOK
      <3> HIDE DEF HasPort
      <3> QED  BY <1>3, <3>1, <3>3, <3>4, <3>5, <3>7, <3>8, <3>9, ZenonT(30) DEF PortsOK
    <2> QED  BY <2>3, <2>7, Zenon DEF SetupInv
  <1>5. CASE ~InRange(p)
    <2> DEFINE r == [o EXCEPT !.pc = "wrap"]
    <2>1. binder' = [binder EXCEPT ![b] = r]
      BY <1>1, <1>5, Zenon DEF EphemeralPort, Regs, BinderRegs
    <2>2. /\ r \in BinderRegs /\ r.pc = "wrap" /\ r.call = o.call /\ r.port = o.port /\ r.backend = o.backend
          /\ r.stage = o.stage /\ r.pre = o.pre
      BY <1>1, SMTT(30) DEF BinderRegs, BinderPcs
    <2> HIDE DEF r
    <2>3. ~HasPort(r)
      BY <2>2, Zenon DEF HasPort
    <2>4. RegsOK(r)
      BY <1>1, <1>2, <2>2, <2>3 DEF RegsOK, ApiOf
    <2>5. Moves(b, r)
      BY <2>1, <2>2, <2>4, Zenon DEF Moves
    <2>6. Regs'
      BY <1>1, <2>5, MovesRegs, Zenon
    <2>7. LockOK'
      BY <1>1, <1>3, <2>2, <2>5, LockKept, Zenon DEF SetupInv
    <2>8. HeldOK'
      BY <1>1, <1>3, <2>2, <2>5, HeldKept, Zenon DEF SetupInv, foreignVars
    <2>9. ReasonOK'
      BY <1>1, <1>3, <2>2, <2>5, ReasonKept, Zenon DEF SetupInv
    <2>10. PortsOK'
      <3>1. wrapped' = TRUE /\ p' \in Nat /\ p' >= FirstPort
        <4>1. wrapped' = TRUE
          BY <1>3, <1>5, Zenon
        <4> QED  BY <1>3, <4>1, SetupAssumption
      <3>2. sockets' = sockets
        BY <1>3
      <3> QED  BY <3>1, <3>2, Zenon DEF SetupInv, PortsOK
    <2>11. PlanFits'
      BY <1>3 DEF SetupInv, PlanFits
    <2> QED  BY <2>6, <2>7, <2>8, <2>9, <2>10, <2>11 DEF SetupInv
  <1> QED  BY <1>4, <1>5

(* A thread whose call is over.                                            *)
LEMMA CallOver ==
  ASSUME SetupInv, NEW b \in Binders, binder[b].pc \in {"finish", "kernel"},
         binder' = [binder EXCEPT ![b] = Unbound(@.calls)],
         UNCHANGED <<DPDK_RESOURCES, resourcesLock, held, foreignVars>>
  PROVE  /\ Regs' /\ LockOK' /\ HeldOK'
         /\ binder'[b].pc = "idle" /\ ~HasPort(binder'[b]) /\ \A c \in Binders \ {b} : binder'[c] = binder[c]
  <1> DEFINE o == binder[b]
             r == Unbound(o.calls)
  <1>1. o \in BinderRegs /\ RegsOK(o) /\ Regs
    BY Called1, ZenonT(30) DEF SetupInv
  <1>2. r \in BinderRegs /\ RegsOK(r)
    BY <1>1, UnboundOK DEF BinderRegs
  <1>3. r.pc = "idle" /\ r.stage = 0 /\ r.backend = "none"
    BY Zenon DEF Unbound
  <1>4. o.stage = 0 /\ o.backend # "dpdk"
    <2>1. ~(o.stage > 0) /\ o.stage \in 0 .. 4
      BY <1>1 DEF RegsOK, BinderRegs
    <2>2. o.backend # "none" => o.pc = "finish"
      BY <1>1, Zenon DEF RegsOK
    <2>3. o.backend = "dpdk" => o.pc # "finish"
      BY Zenon DEF SetupInv, HeldOK
    <2>4. o.stage = 0
      BY <2>1
    <2> QED  BY <2>2, <2>3, <2>4, SMTT(30)
  <1>5. binder' = [binder EXCEPT ![b] = r]
    OBVIOUS
  <1> HIDE DEF r
  <1>6. Moves(b, r)
    BY <1>2, <1>5, Zenon DEF Moves
  <1>7. Regs' /\ binder'[b] = r /\ \A c \in Binders \ {b} : binder'[c] = binder[c]
    BY <1>1, <1>6, MovesRegs
  <1>8. LockOK'
    BY <1>1, <1>3, <1>6, LockKept DEF SetupInv
  <1>9. HeldOK'
    BY <1>1, <1>3, <1>4, <1>6, HeldKept DEF SetupInv, foreignVars
  <1>10. ~HasPort(r)
    BY <1>3, Zenon DEF HasPort
  <1> QED  BY <1>3, <1>7, <1>8, <1>9, <1>10, Zenon

(* A socket is added to the others.                                        *)
LEMMA SocketAdded ==
  ASSUME PortsOK, PlanFits, NEW b \in Binders, NEW x \in SocketRecs, sockets' = Append(sockets, x), UNCHANGED portVars,
         binder'[b].pc = "idle", ~HasPort(binder'[b]), \A c \in Binders \ {b} : binder'[c] = binder[c],
         x.ephemeral => HasPort(binder[b]) /\ x.port = binder[b].port /\ x.port \in FirstPort .. LastPort,
         x.topology.rx \in 1 .. (IF NicMaxRx = 0 THEN 1 ELSE NicMaxRx),
         x.pipeline => x.topology.tx = 2 \/ NicMaxTx = 1
  PROVE  PortsOK' /\ PlanFits'
  <1> DEFINE n == Len(sockets)
             p == NEXT_EPHEMERAL_PORT
  <1>1. /\ n \in Nat /\ sockets' \in Seq(SocketRecs) /\ Len(sockets') = n + 1 /\ sockets'[n + 1] = x
        /\ \A i \in 1 .. n : sockets'[i] = sockets[i]
    BY SMTT(30) DEF PortsOK
  <1>2. UNCHANGED <<NEXT_EPHEMERAL_PORT, wrapped>>
    BY DEF portVars
  <1>3. \A i \in 1 .. n + 1 : i \in 1 .. n \/ i = n + 1
    BY <1>1
  <1>4. \A c \in Binders : HasPort(binder'[c]) => c # b /\ HasPort(binder[c]) /\ binder'[c] = binder[c]
    BY Zenon
  <1>5. \A c \in Binders : HasPort(binder[c])' <=> HasPort(binder'[c])
    BY Zenon DEF HasPort, ApiOf
  <1>6. /\ sockets' \in Seq(SocketRecs) /\ p' \in Nat /\ wrapped' \in BOOLEAN /\ p' >= FirstPort
        /\ ~wrapped' => p' <= LastPort + 1
    BY <1>1, <1>2, Zenon DEF PortsOK
  <1>7. \A c \in Binders : binder'[c].pc = "wrap" => wrapped'
    BY <1>2, ZenonT(30) DEF PortsOK
  <1> DEFINE s == sockets'
             y == binder'
  <1>8. \A i \in 1 .. n + 1 : s[i].ephemeral => s[i].port \in FirstPort .. LastPort
    BY <1>1, <1>3 DEF PortsOK
  <1>9. ASSUME ~wrapped'
        PROVE  /\ \A c \in Binders : HasPort(y[c]) => y[c].port < p'
               /\ \A c, d \in Binders : HasPort(y[c]) /\ HasPort(y[d]) /\ y[c].port = y[d].port => c = d
               /\ \A i \in 1 .. n + 1 : s[i].ephemeral => s[i].port < p'
               /\ \A i, j \in 1 .. n + 1 : s[i].ephemeral /\ s[j].ephemeral /\ s[i].port = s[j].port => i = j
               /\ \A c \in Binders : \A i \in 1 .. n + 1 : HasPort(y[c]) /\ s[i].ephemeral => y[c].port # s[i].port
    <2>1. ~wrapped
      BY <1>2, <1>9, Zenon
    <2>2. \A c \in Binders : HasPort(binder[c]) => binder[c].port < p
      BY <2>1, Zenon DEF PortsOK
    <2>3. \A c, d \in Binders : HasPort(binder[c]) /\ HasPort(binder[d]) /\ binder[c].port = binder[d].port => c = d
      BY <2>1, Zenon DEF PortsOK
    <2>4. \A i \in 1 .. n : sockets[i].ephemeral => sockets[i].port < p
      BY <2>1, Zenon DEF PortsOK
    <2>5. \A i, j \in 1 .. n : sockets[i].ephemeral /\ sockets[j].ephemeral /\ sockets[i].port = sockets[j].port => i = j
      BY <2>1, Zenon DEF PortsOK
    <2>6. \A c \in Binders : \A i \in 1 .. n : HasPort(binder[c]) /\ sockets[i].ephemeral => binder[c].port # sockets[i].port
      BY <2>1, ZenonT(30) DEF PortsOK
    <2>7. p' = p
      BY <1>2
    <2> HIDE DEF n, p, s, y
    <2>8. \A c \in Binders : HasPort(y[c]) => y[c].port < p'
      BY <1>4, <2>2, <2>7, Zenon DEF y
    <2>9. \A c, d \in Binders : HasPort(y[c]) /\ HasPort(y[d]) /\ y[c].port = y[d].port => c = d
      BY <1>4, <2>3, Zenon DEF y
    <2>10. \A i \in 1 .. n + 1 : s[i].ephemeral => s[i].port < p'
      <3>1. \A i \in 1 .. n : s[i].ephemeral => s[i].port < p'
        BY <1>1, <2>4, <2>7, Zenon DEF s
      <3>2. s[n + 1].ephemeral => s[n + 1].port < p'
        BY <1>1, <2>2, <2>7, Zenon DEF s
      <3> QED  BY <1>3, <3>1, <3>2, Zenon
    <2>11. \A i, j \in 1 .. n + 1 : s[i].ephemeral /\ s[j].ephemeral /\ s[i].port = s[j].port => i = j
      <3>1. \A i, j \in 1 .. n : s[i].ephemeral /\ s[j].ephemeral /\ s[i].port = s[j].port => i = j
        BY <1>1, <2>5, ZenonT(30) DEF s
      <3>2. ASSUME NEW i \in 1 .. n, s[i].ephemeral, s[n + 1].ephemeral PROVE s[i].port # s[n + 1].port
        <4>1. s[i] = sockets[i] /\ s[n + 1] = x
          BY <1>1, Zenon DEF s
        <4>2. HasPort(binder[b]) => binder[b].port # sockets[i].port
          BY <2>6, <3>2, <4>1
        <4> QED  BY <3>2, <4>1, <4>2, Zenon
      <3> QED  BY <1>3, <3>1, <3>2, Zenon
    <2>12. ASSUME NEW c \in Binders, NEW i \in 1 .. n + 1, HasPort(y[c]), s[i].ephemeral PROVE y[c].port # s[i].port
      <3>1. c # b /\ HasPort(binder[c]) /\ y[c] = binder[c]
        BY <1>4, <2>12, Zenon DEF y
      <3>2. CASE i \in 1 .. n
        <4>1. s[i] = sockets[i]
          BY <1>1, <3>2, Zenon DEF s
        <4> QED  BY <2>6, <2>12, <3>1, <3>2, <4>1
      <3>3. CASE i = n + 1
        BY <1>1, <2>3, <2>12, <3>1, <3>3, ZenonT(30) DEF s
      <3> QED  BY <1>3, <3>2, <3>3, Zenon
    <2> QED  BY <2>8, <2>9, <2>10, <2>11, <2>12, Zenon
  <1>10. PortsOK'
    <2> HIDE DEF HasPort, n, p, s, y
    <2>1. Len(sockets') = n + 1
      BY <1>1, Zenon
    <2> QED  BY <1>5, <1>6, <1>7, <1>8, <1>9, <2>1, Zenon DEF PortsOK, p, s, y
  <1>11. PlanFits'
    <2>1. DOMAIN sockets = 1 .. n /\ DOMAIN sockets' = 1 .. n + 1
      BY <1>1 DEF PortsOK
    <2>2. ASSUME NEW i \in 1 .. n + 1
          PROVE  /\ s[i].topology.rx \in 1 .. (IF NicMaxRx = 0 THEN 1 ELSE NicMaxRx)
                 /\ s[i].pipeline => s[i].topology.tx = 2 \/ NicMaxTx = 1
      <3>1. CASE i = n + 1
        BY <1>1, <3>1, Zenon
      <3>2. CASE i \in 1 .. n
        BY <1>1, <2>1, <3>2, Zenon DEF PlanFits
      <3> QED  BY <1>3, <3>1, <3>2, Zenon
    <2> QED  BY <2>1, <2>2, ZenonT(30) DEF PlanFits
  <1> QED  BY <1>10, <1>11, Zenon

(* A socket is there.                                                      *)
LEMMA NewSocketInv ==
  ASSUME SetupInv, NEW b \in Binders, binder[b].pc = "finish", NEW kind \in SocketKinds, NEW t \in [rx : Nat, tx : Nat],
         t.rx \in 1 .. (IF NicMaxRx = 0 THEN 1 ELSE NicMaxRx), t.rx > 1 => t.tx = 2 \/ NicMaxTx = 1, NewSocket(b, kind, t)
  PROVE  SetupInv'
  <1> DEFINE o == binder[b]
             x == [kind |-> kind, by |-> b, port |-> o.port, ephemeral |-> o.call[1].port = 0,
                   topology |-> t, pipeline |-> t.rx > 1]
  <1>1. o \in BinderRegs /\ RegsOK(o) /\ Regs /\ o.call # None
    BY Called1 DEF SetupInv
  <1>2. /\ sockets' = Append(sockets, x) /\ binder' = [binder EXCEPT ![b] = Unbound(@.calls)]
        /\ UNCHANGED <<DPDK_RESOURCES, resourcesLock, held, portVars, failed, faultVars, foreignVars>>
    BY Zenon DEF NewSocket
  <1>3. /\ Regs' /\ LockOK' /\ HeldOK'
        /\ binder'[b].pc = "idle" /\ ~HasPort(binder'[b]) /\ \A c \in Binders \ {b} : binder'[c] = binder[c]
    BY <1>2, CallOver, Zenon
  <1>4. ReasonOK'
    BY <1>2, <1>3, Zenon DEF SetupInv, ReasonOK, faultVars, foreignVars
  <1>5. x \in SocketRecs
    <2>1. o.port \in Nat /\ (o.call[1].port = 0) \in BOOLEAN /\ (t.rx > 1) \in BOOLEAN
      <3>1. o.port \in Nat /\ t.rx \in Nat
        BY <1>1, Zenon DEF BinderRegs
      <3>2. \A n \in Nat : (n > 1) \in BOOLEAN
        OBVIOUS
      <3>3. \A n : (n = 0) \in BOOLEAN
        OBVIOUS
      <3> QED  BY <3>1, <3>2, <3>3, Zenon
    <2> QED  BY <2>1, Zenon DEF SocketRecs
  <1>6. x.ephemeral => HasPort(o) /\ x.port = o.port /\ x.port \in FirstPort .. LastPort
    BY <1>1, Zenon DEF HasPort, RegsOK
  <1>7. x.topology = t /\ (x.pipeline <=> t.rx > 1)
    BY Zenon
  <1> HIDE DEF x
  <1>8. PortsOK' /\ PlanFits'
    BY <1>2, <1>3, <1>5, <1>6, <1>7, SocketAdded, Zenon DEF SetupInv
  <1> QED  BY <1>3, <1>4, <1>8, Zenon DEF SetupInv

(* The plan of the builder fits the NIC.                                   *)
LEMMA TopologyFits ==
  ASSUME NEW q \in Option(Nat)
  PROVE  /\ detect_topology(q) \in [rx : Nat, tx : Nat]
         /\ detect_topology(q).rx \in 1 .. (IF NicMaxRx = 0 THEN 1 ELSE NicMaxRx)
         /\ detect_topology(q).rx > 1 => detect_topology(q).tx = 2 \/ NicMaxTx = 1
  <1> DEFINE rx == CASE IsStub -> 1
                     [] ~IsStub /\ q # None -> clamp_rx_queues(q[1], NicMaxRx)
                     [] ~IsStub /\ q = None /\ EnvQueues # None -> clamp_rx_queues(EnvQueues[1], NicMaxRx)
                     [] OTHER -> auto_detect_queues(Lcores, NicMaxRx)
             most == IF NicMaxRx = 0 THEN 1 ELSE NicMaxRx
             t == detect_topology(q)
  <1>1. NicMaxRx \in Nat /\ NicMaxTx \in Nat /\ Lcores \in Nat /\ IsStub \in BOOLEAN
    BY SetupAssumption
  <1>2. (q # None => q[1] \in Nat) /\ (EnvQueues # None => EnvQueues[1] \in Nat)
    BY OptionFacts, SetupAssumption
  <1>3. \A k \in Nat : clamp_rx_queues(k, NicMaxRx) \in 1 .. most
    BY <1>1 DEF clamp_rx_queues
  <1>4. auto_detect_queues(Lcores, NicMaxRx) \in 1 .. most
    BY <1>1 DEF auto_detect_queues, clamp_rx_queues
  <1>5. 1 \in 1 .. most /\ most \in Nat
    BY <1>1
  <1>6. rx \in 1 .. most
    BY <1>1, <1>2, <1>3, <1>4, <1>5, Zenon
  <1>7. t = [rx |-> rx, tx |-> compute_tx_queues(rx, NicMaxTx)]
    BY Zenon DEF detect_topology
  <1> HIDE DEF rx, t
  <1>8. t.rx = rx /\ t.tx = compute_tx_queues(rx, NicMaxTx)
    BY <1>7
  <1>9. compute_tx_queues(rx, NicMaxTx) \in Nat /\ (rx > 1 => compute_tx_queues(rx, NicMaxTx) = 2 \/ NicMaxTx = 1)
    BY <1>1, <1>5, <1>6 DEF compute_tx_queues
  <1>10. rx \in Nat
    BY <1>5, <1>6
  <1>11. t \in [rx : Nat, tx : Nat]
    BY <1>7, <1>9, <1>10
  <1> QED  BY <1>6, <1>8, <1>9, <1>11 DEF t

(* A plan of one thread fits every NIC.                                    *)
LEMMA OneThreadFits ==
  /\ OneThread \in [rx : Nat, tx : Nat] /\ OneThread.rx = 1
  /\ OneThread.rx \in 1 .. (IF NicMaxRx = 0 THEN 1 ELSE NicMaxRx)
  BY SetupAssumption DEF OneThread

(* The facades fall back to the kernel.                                    *)
LEMMA KernelBindInv ==
  ASSUME SetupInv, NEW b \in Binders, KernelBind(b)
  PROVE  SetupInv'
  <1> DEFINE x == [kind |-> "kernel", by |-> b, port |-> 0, ephemeral |-> FALSE, topology |-> OneThread, pipeline |-> FALSE]
  <1>1. /\ binder[b].pc = "kernel" /\ binder' = [binder EXCEPT ![b] = Unbound(@.calls)]
        /\ UNCHANGED <<DPDK_RESOURCES, resourcesLock, held, portVars, foreignVars>>
    BY DEF KernelBind, BinderAt
  <1>2. /\ Regs' /\ LockOK' /\ HeldOK'
        /\ binder'[b].pc = "idle" /\ ~HasPort(binder'[b]) /\ \A c \in Binders \ {b} : binder'[c] = binder[c]
    BY <1>1, CallOver, Zenon
  <1>3. CASE Fault /\ failed' = TRUE /\ UNCHANGED sockets
    <2>1. faults' \in Nat /\ faulted' = TRUE
      BY <1>3 DEF Fault, SetupInv, ReasonOK
    <2>2. ReasonOK'
      BY <1>1, <1>2, <1>3, <2>1, Zenon DEF SetupInv, ReasonOK, foreignVars
    <2>3. PortsOK' /\ PlanFits'
      <3>1. \A c \in Binders : HasPort(binder[c])' <=> HasPort(binder'[c])
        BY DEF HasPort, ApiOf
      <3>2. sockets' = sockets /\ NEXT_EPHEMERAL_PORT' = NEXT_EPHEMERAL_PORT /\ wrapped' = wrapped
        BY <1>1, <1>3, Zenon DEF portVars
      <3> HIDE DEF HasPort
      <3>3. PortsOK'
        <4>1. \A c \in Binders : /\ HasPort(binder'[c]) => HasPort(binder[c]) /\ binder'[c].port = binder[c].port
                                 /\ binder'[c].pc = "wrap" => binder[c].pc = "wrap"
          BY <1>2, Zenon
        <4>2. PortsOK
          BY Zenon DEF SetupInv
        <4>3. ~wrapped' => \A c \in Binders : HasPort(binder'[c]) => binder'[c].port < NEXT_EPHEMERAL_PORT'
          BY <3>2, <4>1, <4>2, Zenon DEF PortsOK
        <4>4. ~wrapped' => \A c, d \in Binders :
                HasPort(binder'[c]) /\ HasPort(binder'[d]) /\ binder'[c].port = binder'[d].port => c = d
          BY <3>2, <4>1, <4>2, Zenon DEF PortsOK
        <4>5. ASSUME ~wrapped', NEW c \in Binders, NEW i \in 1 .. Len(sockets'), HasPort(binder'[c]), sockets'[i].ephemeral
              PROVE  binder'[c].port # sockets'[i].port
          <5>1. ~wrapped /\ i \in 1 .. Len(sockets) /\ HasPort(binder[c]) /\ sockets[i].ephemeral
            BY <3>2, <4>1, <4>5, Zenon
          <5>2. binder[c].port # sockets[i].port
            BY <4>2, <5>1, Zenon DEF PortsOK
          <5> QED  BY <3>2, <4>1, <4>5, <5>2, Zenon
        <4>6. \A c \in Binders : binder'[c].pc = "wrap" => wrapped'
          BY <3>2, <4>1, <4>2, Zenon DEF PortsOK
        <4> QED  BY <3>1, <3>2, <4>2, <4>3, <4>4, <4>5, <4>6, Zenon DEF PortsOK
      <3> QED  BY <3>2, <3>3, Zenon DEF SetupInv, PlanFits
    <2> QED  BY <1>2, <2>2, <2>3, Zenon DEF SetupInv
  <1>4. CASE UNCHANGED <<faultVars, failed>> /\ sockets' = Append(sockets, x)
    <2>1. ReasonOK'
      BY <1>1, <1>2, <1>4, Zenon DEF SetupInv, ReasonOK, faultVars, foreignVars
    <2>2. x \in SocketRecs /\ ~x.ephemeral /\ ~x.pipeline /\ x.topology = OneThread
      BY OneThreadFits, SMTT(30) DEF SocketRecs, SocketKinds
    <2> HIDE DEF x
    <2>3. PortsOK' /\ PlanFits'
      BY <1>1, <1>2, <1>4, <2>2, OneThreadFits, SocketAdded DEF SetupInv
    <2> QED  BY <1>2, <2>1, <2>3, Zenon DEF SetupInv
  <1> QED  BY <1>3, <1>4, Zenon DEF KernelBind

(* A step of a thread that binds.                                          *)
LEMMA SetupStepInv ==
  ASSUME SetupInv, NEW b \in Binders, SetupStep(b)
  PROVE  SetupInv'
  <1>1. CASE bind_v4_on(b) \/ bind_v6(b) \/ bind_with_backend(b)
    <2>1. binder[b].pc = "finish" /\ binder[b].backend \in SocketKinds
      BY <1>1, Called1, Zenon DEF bind_v4_on, bind_v6, bind_with_backend, BinderAt, SetupInv, BinderRegs, SocketKinds
    <2>2. PICK kind \in SocketKinds : NewSocket(b, kind, OneThread)
      BY <1>1, <2>1, Zenon DEF bind_v4_on, bind_v6, bind_with_backend, SocketKinds
    <2>3. /\ OneThread \in [rx : Nat, tx : Nat] /\ OneThread.rx \in 1 .. (IF NicMaxRx = 0 THEN 1 ELSE NicMaxRx)
          /\ OneThread.rx > 1 => OneThread.tx = 2 \/ NicMaxTx = 1
      BY OneThreadFits
    <2> HIDE DEF OneThread
    <2> QED  BY <2>1, <2>2, <2>3, NewSocketInv, Zenon
  <1> QED  BY <1>1, BindInv, BackendInv, GetInv, InitStageInv, InitFailsInv, UndoInv, PublishInv, FixedPortInv,
              EphemeralPortInv, WrapPortInv, KernelBindInv, Zenon DEF SetupStep

(* The builder's socket is there.                                          *)
LEMMA BuilderBindInv ==
  ASSUME SetupInv, NEW b \in Binders, BuilderBind(b)
  PROVE  SetupInv'
  <1> DEFINE t == detect_topology(binder[b].call[1].rx_queues)
  <1>1. binder[b].pc = "finish" /\ Api(b) = "builder" /\ NewSocket(b, "ipv4", t) /\ "ipv4" \in SocketKinds
    BY Zenon DEF BuilderBind, BinderAt, SocketKinds
  <1>2. binder[b].call[1].rx_queues \in Option(Nat)
    BY <1>1, Called1, CallHas, Zenon DEF SetupInv, Api
  <1>3. /\ t \in [rx : Nat, tx : Nat] /\ t.rx \in 1 .. (IF NicMaxRx = 0 THEN 1 ELSE NicMaxRx)
        /\ t.rx > 1 => t.tx = 2 \/ NicMaxTx = 1
    BY <1>2, TopologyFits, ZenonT(30)
  <1> HIDE DEF t
  <1> QED  BY <1>1, <1>3, NewSocketInv, Zenon

-----------------------------------------------------------------------------
(* The counters and the reporter.                                          *)

Snapped == {"reset_max", "reset_count", "reset_idx", "again"}
LoopPcs == {"start", "baseline", "top", "sleep", "snapshot", "report", "final", "done"} \cup Snapped
LoopRegs ==
  [pc : LoopPcs, shutdown : BOOLEAN, prev : Nat, cur : Nat, nic : Option(Nat), nicCur : Option(Nat), first : Nat,
   reported : Int, baseline : Option(Nat), deltas : Int, gap : BOOLEAN, final : Option(Nat)]
RecvRegs ==
  [pc : {"idle", "record", "store", "count", "store_count", "max", "cas"}, ns : Latencies \cup {0},
   idx : 0 .. Capacity - 1, seen : Nat]
Samplers ==
  [samples : [0 .. Capacity - 1 -> Latencies \cup {0}], count : Nat, write_idx : Nat, packet_count : 0 .. SampleRate - 1]
UserRegs ==
  [pc : {"idle", "join", "count", "load"}, count : Nat, loaded : Seq(Nat),
   percentiles : Option({percentiles(s) : s \in Seq(Nat)})]

\* What a reporter has added up, against the n packets that were counted.
LoopOK(l, n) ==
  /\ l.pc # "start" => l.prev <= n
  /\ l.pc \in Snapped \cup {"report"} => l.prev <= l.cur /\ l.cur <= n
  /\ l.pc = "start" => l.reported = 0
  /\ l.pc # "start" => l.first + l.reported <= (IF l.pc \in Snapped THEN l.cur ELSE l.prev)
  /\ l.pc \in {"start", "baseline"} => l.baseline = None /\ l.deltas = 0
  /\ l.baseline # None /\ ~l.gap => l.nic # None /\ l.baseline[1] + l.deltas = l.nic[1]

LoopsOK ==
  /\ rx_packets \in Nat /\ imissed \in Nat
  /\ loops \in Seq(LoopRegs) /\ \A i \in 1 .. Len(loops) : LoopOK(loops[i], rx_packets)

\* The receiving thread stores what it has loaded, although a reset may come between.
SamplerOK ==
  /\ latency_max \in Latencies \cup {0} /\ sampler \in Samplers /\ recv \in RecvRegs /\ latest \subseteq Nat
  /\ recv.pc = "store_count" => recv.seen < Capacity
  /\ recv.pc = "cas" => recv.ns > recv.seen
  /\ sampler.count <= Capacity
  /\ \A ns \in latest : ns <= latency_max

UsersOK ==
  /\ user \in [Users -> UserRegs] /\ plan \in PerfPlans
  /\ \A u \in Users : user[u].pc = "count" => user[u].loaded = << >>
  /\ \A u \in Users : user[u].pc = "load" => Len(user[u].loaded) < user[u].count /\ user[u].count <= Capacity

\* One reporter runs, registered or joined by the thread that holds the lock.
JoinOK ==
  /\ reporter = None \/ \E i \in 1 .. Len(loops) : reporter = Some(i)
  /\ guard = None \/ \E u \in Users : guard = Some(u)
  /\ \A u \in Users : user[u].pc = "join" => guard = Some(u)
  /\ guard # None => reporter = None
  /\ guard = None => \A i \in 1 .. Len(loops) : loops[i].pc = "done" \/ reporter = Some(i)
  /\ \A i, j \in 1 .. Len(loops) : loops[i].pc # "done" /\ loops[j].pc # "done" => i = j
  /\ sockets = << >> => loops = << >> /\ guard = None

PerfInv == LoopsOK /\ SamplerOK /\ UsersOK /\ JoinOK
(* A step that counts nothing and leaves the reporters alone.              *)
LEMMA LoopsKept == LoopsOK /\ UNCHANGED <<rx_packets, imissed, loops>> => LoopsOK'
  BY DEF LoopsOK, LoopOK

(* A step that leaves the sampler and the receiving thread alone.          *)
LEMMA SamplerKept == SamplerOK /\ UNCHANGED <<countVars, recv>> => SamplerOK'
  BY DEF SamplerOK, countVars

(* A step of none of the application's threads.                            *)
LEMMA UsersKept == UsersOK /\ UNCHANGED <<user, plan>> => UsersOK'
  BY Zenon DEF UsersOK

(* A step that neither starts nor stops a reporter.                        *)
LEMMA JoinKept == JoinOK /\ UNCHANGED <<reporter, guard, loops, user, sockets>> => JoinOK'
  BY DEF JoinOK

(* A step of the receiving thread.                                         *)
LEMMA ReceiverInv ==
  ASSUME PerfInv, Receiver, UNCHANGED sockets
  PROVE  PerfInv'
  <1>1. /\ Capacity \in Nat \ {0} /\ SampleRate \in Nat \ {0} /\ Latencies \subseteq Nat
        /\ LoopsOK /\ SamplerOK /\ UsersOK /\ JoinOK
    BY SamplerAssumption DEF PerfInv
  <1>2. /\ latency_max \in Latencies \cup {0} /\ latency_max \in Nat /\ sampler \in Samplers /\ recv \in RecvRegs
        /\ latest \subseteq Nat /\ sampler.count <= Capacity /\ \A ns \in latest : ns <= latency_max
    BY <1>1 DEF SamplerOK
  <1>3. recv.ns \in Latencies \cup {0} /\ recv.ns \in Nat /\ recv.seen \in Nat /\ recv.idx \in 0 .. Capacity - 1
    <2>1. recv.ns \in Latencies \cup {0} /\ recv.seen \in Nat /\ recv.idx \in 0 .. Capacity - 1
      BY <1>2, Zenon DEF RecvRegs
    <2>2. \A n \in Latencies \cup {0} : n \in Nat
      BY <1>1
    <2> QED  BY <2>1, <2>2, Zenon
  <1>4. UNCHANGED <<imissed, reporter, guard, loops, user>>
    BY Zenon DEF Receiver, Burst, RecordSlot, RecordStore, RecordCount, RecordCounted, MaxLoad, MaxExchange, countVars
  <1>5. JoinOK'
    BY <1>1, <1>4, JoinKept
  <1>6. CASE Burst
    <2>1. plan \in PerfPlans /\ plan.bursts > 0 /\ plan' = [plan EXCEPT !.bursts = @ - 1]
      BY <1>1, <1>6, Zenon DEF Burst, UsersOK
    <2>2. plan' \in PerfPlans
      BY <2>1, SMTT(30) DEF PerfPlans
    <2>3. UsersOK'
      BY <1>1, <1>4, <2>2, Zenon DEF UsersOK
    <2>4. LoopsOK'
      <3>1. rx_packets' = rx_packets + 1 /\ rx_packets \in Nat
        BY <1>1, <1>6, ZenonT(30) DEF Burst, LoopsOK
      <3>2. ASSUME NEW i \in 1 .. Len(loops) PROVE LoopOK(loops[i], rx_packets + 1)
        <4>1. loops[i] \in LoopRegs /\ LoopOK(loops[i], rx_packets)
          BY <1>1 DEF LoopsOK
        <4>2. loops[i].prev \in Nat /\ loops[i].cur \in Nat
          BY <4>1 DEF LoopRegs
        <4> QED  BY <3>1, <4>1, <4>2, SMTT(30) DEF LoopOK
      <3> QED  BY <1>1, <1>4, <3>1, <3>2, SMTT(30) DEF LoopsOK, LoopOK
    <2>5. SamplerOK'
      <3>1. UNCHANGED <<latency_max, latest>> /\ sampler' = [sampler EXCEPT !.packet_count = (@ + 1) % SampleRate]
        BY <1>6, Zenon DEF Burst
      <3>2. sampler.packet_count \in Nat
        BY <1>1, <1>2 DEF Samplers
      <3>3. (sampler.packet_count + 1) % SampleRate \in 0 .. SampleRate - 1
        BY <1>1, <3>2
      <3>4. sampler' \in Samplers /\ sampler'.count = sampler.count
        BY <1>2, <3>1, <3>3 DEF Samplers
      <3>5. recv' = recv \/ \E ns \in Latencies : recv' = [recv EXCEPT !.pc = "record", !.ns = ns]
        BY <1>6, Zenon DEF Burst
      <3>6. recv' \in RecvRegs /\ (recv' = recv \/ recv'.pc = "record")
        BY <1>2, <3>5, Zenon DEF RecvRegs
      <3> QED  BY <1>1, <3>1, <3>4, <3>6 DEF SamplerOK
    <2> QED  BY <1>5, <2>3, <2>4, <2>5 DEF PerfInv
  <1>7. CASE ~Burst
    <2>1. UNCHANGED <<rx_packets, plan>>
      BY <1>7 DEF Receiver, RecordSlot, RecordStore, RecordCount, RecordCounted, MaxLoad, MaxExchange, countVars
    <2>2. LoopsOK' /\ UsersOK'
      BY <1>1, <1>4, <2>1, LoopsKept, UsersKept
    <2>3. SamplerOK'
      <3>1. CASE RecordSlot
        <4>1. /\ UNCHANGED <<latency_max, latest>> /\ sampler' = [sampler EXCEPT !.write_idx = @ + 1]
              /\ recv' = [recv EXCEPT !.pc = "store", !.idx = sampler.write_idx % Capacity]
          BY <3>1 DEF RecordSlot
        <4>2. sampler.write_idx \in Nat
          BY <1>2 DEF Samplers
        <4>3. sampler.write_idx % Capacity \in 0 .. Capacity - 1 /\ sampler.write_idx + 1 \in Nat
          BY <1>1, <4>2
        <4>4. sampler' \in Samplers /\ sampler'.count = sampler.count
          BY <1>2, <4>1, <4>3, Zenon DEF Samplers
        <4>5. recv' \in RecvRegs /\ recv'.pc = "store"
          BY <1>2, <4>1, <4>3, Zenon DEF RecvRegs
        <4> QED  BY <1>1, <4>1, <4>4, <4>5 DEF SamplerOK
      <3>2. CASE RecordStore
        <4>1. /\ UNCHANGED <<latency_max, latest>> /\ sampler' = [sampler EXCEPT !.samples[recv.idx] = recv.ns]
              /\ recv' = [recv EXCEPT !.pc = "count"]
          BY <3>2 DEF RecordStore
        <4>2. sampler' \in Samplers /\ sampler'.count = sampler.count
          BY <1>2, <1>3, <4>1, Zenon DEF Samplers
        <4>3. recv' \in RecvRegs /\ recv'.pc = "count"
          BY <1>2, <4>1 DEF RecvRegs
        <4> QED  BY <1>1, <4>1, <4>2, <4>3 DEF SamplerOK
      <3>3. CASE RecordCount
        <4>1. /\ UNCHANGED <<latency_max, latest, sampler>>
              /\ recv' = [recv EXCEPT !.pc = IF SamplerHasRoom(sampler.count) THEN "store_count" ELSE "max",
                                      !.seen = sampler.count]
          BY <3>3 DEF RecordCount, countVars
        <4>2. sampler.count \in Nat
          BY <1>2 DEF Samplers
        <4>3. recv' \in RecvRegs /\ (recv'.pc = "max" \/ (recv'.pc = "store_count" /\ recv'.seen < Capacity))
          BY <1>2, <4>1, <4>2, Zenon DEF RecvRegs, SamplerHasRoom
        <4> QED  BY <1>1, <4>1, <4>3 DEF SamplerOK
      <3>4. CASE RecordCounted
        <4>1. /\ UNCHANGED <<latency_max, latest>> /\ sampler' = [sampler EXCEPT !.count = recv.seen + 1]
              /\ recv' = [recv EXCEPT !.pc = "max"]
          BY <3>4 DEF RecordCounted
        <4>2. recv.seen + 1 <= Capacity /\ recv.seen + 1 \in Nat
          BY <1>1, <1>3, <3>4 DEF SamplerOK, RecordCounted
        <4>3. sampler' \in Samplers /\ sampler'.count = recv.seen + 1
          BY <1>2, <4>1, <4>2, Zenon DEF Samplers
        <4>4. recv' \in RecvRegs /\ recv'.pc = "max"
          BY <1>2, <4>1 DEF RecvRegs
        <4> QED  BY <1>1, <4>1, <4>2, <4>3, <4>4 DEF SamplerOK
      <3>5. CASE MaxLoad \/ MaxExchange
        <4>1. Receiving \in RecvRegs /\ Receiving.pc = "idle"
          BY <1>1 DEF Receiving, RecvRegs
        <4>2. UNCHANGED sampler
          BY <3>5 DEF MaxLoad, MaxExchange
        <4>3. CASE UNCHANGED <<latency_max, latest>> /\ recv.ns > latency_max
                   /\ recv' = [recv EXCEPT !.pc = "cas", !.seen = latency_max]
          <5>1. recv' \in RecvRegs /\ recv'.pc = "cas" /\ recv'.seen = latency_max /\ recv'.ns = recv.ns
            BY <1>2, <4>3, Zenon DEF RecvRegs
          <5> QED  BY <1>1, <4>2, <4>3, <5>1 DEF SamplerOK
        <4>4. CASE UNCHANGED latency_max /\ recv.ns <= latency_max /\ recv' = Receiving /\ latest' = latest \cup {recv.ns}
          BY <1>1, <1>3, <4>1, <4>2, <4>4, Zenon DEF SamplerOK
        <4>5. CASE latency_max = recv.seen /\ recv.ns > recv.seen /\ latency_max' = recv.ns
                   /\ latest' = latest \cup {recv.ns} /\ recv' = Receiving
          <5>1. ASSUME NEW ns \in latest' PROVE ns <= latency_max'
            BY <1>2, <1>3, <4>5, <5>1
          <5> QED  BY <1>1, <1>2, <1>3, <4>1, <4>2, <4>5, <5>1, Zenon DEF SamplerOK
        <4>6. recv.pc = "cas" => [recv EXCEPT !.seen = latency_max] = [recv EXCEPT !.pc = "cas", !.seen = latency_max]
          BY <1>2, Zenon DEF RecvRegs
        <4>7. recv.pc = "cas" => recv.ns > recv.seen
          BY <1>1 DEF SamplerOK
        <4>8. recv.ns > latency_max \/ recv.ns <= latency_max
          BY <1>2, <1>3
        <4> QED  BY <3>5, <4>3, <4>4, <4>5, <4>6, <4>7, <4>8, Zenon DEF MaxLoad, MaxExchange
      <3> QED  BY <1>7, <3>1, <3>2, <3>3, <3>4, <3>5 DEF Receiver
    <2> QED  BY <1>5, <2>2, <2>3 DEF PerfInv
  <1> QED  BY <1>6, <1>7

(* A reporter takes a step.                                                *)
LEMMA LoopMoves ==
  ASSUME LoopsOK, JoinOK, NEW i \in 1 .. Len(loops), NEW r \in LoopRegs, LoopOK(r, rx_packets), loops[i].pc # "done",
         loops' = [loops EXCEPT ![i] = r], UNCHANGED <<rx_packets, imissed, reporter, guard, user, sockets>>
  PROVE  LoopsOK' /\ JoinOK'
  <1>1. /\ loops' \in Seq(LoopRegs) /\ Len(loops') = Len(loops) /\ loops'[i] = r
        /\ \A j \in 1 .. Len(loops) : j # i => loops'[j] = loops[j]
    BY DEF LoopsOK
  <1>2. ASSUME NEW j \in 1 .. Len(loops) PROVE LoopOK(loops'[j], rx_packets)
    <2>1. CASE j = i
      BY <1>1, <2>1, Zenon
    <2>2. CASE j # i
      BY <1>1, <2>2, ZenonT(30) DEF LoopsOK
    <2> QED  BY <2>1, <2>2
  <1>3. \A j \in 1 .. Len(loops) : LoopOK(loops[j], rx_packets)' <=> LoopOK(loops'[j], rx_packets)
    BY DEF LoopOK
  <1>4. LoopsOK'
    BY <1>1, <1>2, <1>3, Zenon DEF LoopsOK
  <1>5. \A j \in 1 .. Len(loops) : loops'[j].pc # "done" => loops[j].pc # "done"
    BY <1>1, Zenon
  <1>6. loops = << >> => loops' = << >>
    BY <1>1 DEF LoopsOK
  <1>7. JoinOK'
    BY <1>1, <1>5, <1>6, ZenonT(30) DEF JoinOK
  <1> QED  BY <1>4, <1>7

(* The NIC is read: what the application plans stays as it is.             *)
LEMMA NicRead ==
  ASSUME UsersOK, NEW n, ReadNic(n), UNCHANGED user
  PROVE  UsersOK'
  <1>1. plan \in PerfPlans
    BY DEF UsersOK
  <1>2. plan' \in PerfPlans
    <2>1. CASE plan' = plan
      BY <1>1, <2>1
    <2>2. CASE plan.failures > 0 /\ plan' = [plan EXCEPT !.failures = @ - 1]
      BY <1>1, <2>2 DEF PerfPlans
    <2> QED  BY <2>1, <2>2 DEF ReadNic
  <1> QED  BY <1>2, Zenon DEF UsersOK

(* A value that was read, or none.                                         *)
LEMMA ReadValue ==
  ASSUME imissed \in Nat, NEW n \in {None, Some(imissed)}
  PROVE  n \in Option(Nat) /\ (n # None => n[1] \in Nat)
  BY OptionFacts

(* A step of a reporter, as it reads the counters and the NIC.             *)
LEMMA LoopReads ==
  ASSUME PerfInv, NEW i \in 1 .. Len(loops), UNCHANGED sockets,
         LoopStart(i) \/ Baseline(i) \/ Snapshot(i) \/ Report(i) \/ Again(i) \/ Final(i)
  PROVE  PerfInv'
  <1> DEFINE l == loops[i]
             n == rx_packets
  <1>1. LoopsOK /\ SamplerOK /\ UsersOK /\ JoinOK /\ n \in Nat /\ imissed \in Nat /\ l \in LoopRegs /\ LoopOK(l, n)
    BY DEF PerfInv, LoopsOK
  <1>2. UNCHANGED <<countVars, reporter, guard, recv, user>>
    BY DEF LoopStart, Baseline, Snapshot, Report, Again, Final
  <1>3. UNCHANGED <<rx_packets, imissed>> /\ SamplerOK'
    BY <1>1, <1>2, SamplerKept DEF countVars
  <1>4. UsersOK'
    BY <1>1, <1>2, UsersKept, NicRead, Zenon DEF LoopStart, Baseline, Snapshot, Report, Again, Final
  <1>5. /\ l.prev \in Nat /\ l.cur \in Nat /\ l.first \in Nat /\ l.reported \in Int /\ l.deltas \in Int
        /\ l.nic \in Option(Nat) /\ l.baseline \in Option(Nat)
    BY <1>1, Zenon DEF LoopRegs
  <1> HIDE DEF n, l
  <1>6. ASSUME NEW r \in LoopRegs, LoopOK(r, n), l.pc # "done", loops' = [loops EXCEPT ![i] = r]
        PROVE  PerfInv'
    <2>1. LoopsOK' /\ JoinOK'
      BY <1>1, <1>2, <1>3, <1>6, LoopMoves, Zenon DEF l, n
    <2> QED  BY <1>3, <1>4, <2>1 DEF PerfInv
  <1>7. CASE LoopStart(i)
    <2> DEFINE r == [l EXCEPT !.pc = "baseline", !.prev = n, !.first = n]
    <2>1. l.pc = "start" /\ loops' = [loops EXCEPT ![i] = r]
      BY <1>7 DEF LoopStart, LoopAt, LoopSet, l, n
    <2>2. /\ r \in LoopRegs /\ r.pc = "baseline" /\ r.prev = n /\ r.first = n /\ r.reported = l.reported
          /\ r.baseline = l.baseline /\ r.deltas = l.deltas /\ r.nic = l.nic /\ r.gap = l.gap
      BY <1>1, Zenon DEF LoopRegs, LoopPcs
    <2> HIDE DEF r
    <2>3. LoopOK(r, n)
      <3>1. l.reported = 0 /\ l.baseline = None /\ l.deltas = 0
        BY <1>1, <2>1, Zenon DEF LoopOK
      <3>2. "baseline" # "start" /\ "baseline" \notin Snapped /\ "baseline" # "report"
        BY DEF Snapped
      <3>3. n \in Nat => n <= n /\ n + 0 <= n
        OBVIOUS
      <3> QED  BY <1>1, <2>2, <3>1, <3>2, <3>3, Zenon DEF LoopOK
    <2> QED  BY <1>6, <2>1, <2>2, <2>3, Zenon
  <1>8. CASE Baseline(i)
    <2>1. PICK v \in {None, Some(imissed)} :
            LoopSet(i, [loops[i] EXCEPT !.pc = "top", !.nic = v, !.baseline = v, !.gap = (v = None)])
      BY <1>8, Zenon DEF Baseline
    <2> DEFINE r == [l EXCEPT !.pc = "top", !.nic = v, !.baseline = v, !.gap = (v = None)]
    <2>2. l.pc = "baseline" /\ loops' = [loops EXCEPT ![i] = r]
      BY <1>8, <2>1, Zenon DEF Baseline, LoopAt, LoopSet, l
    <2>3. v \in Option(Nat) /\ (v # None => v[1] \in Nat) /\ (v = None) \in BOOLEAN
      BY <1>1, ReadValue
    <2>4. /\ r \in LoopRegs /\ r.pc = "top" /\ r.prev = l.prev /\ r.first = l.first /\ r.reported = l.reported
          /\ r.baseline = v /\ r.deltas = l.deltas /\ r.nic = v /\ r.gap = (v = None)
      BY <1>1, <2>3, Zenon DEF LoopRegs, LoopPcs
    <2> HIDE DEF r
    <2>5. LoopOK(r, n)
      <3>1. "baseline" # "start" /\ "baseline" \notin Snapped
        BY DEF Snapped
      <3>2. l.prev <= n /\ l.first + l.reported <= l.prev /\ l.deltas = 0
        BY <1>1, <2>2, <3>1, Zenon DEF LoopOK
      <3>3. "top" \notin Snapped /\ "top" \notin {"start", "baseline", "report"}
        BY DEF Snapped
      <3>4. v # None => v[1] + 0 = v[1]
        BY <2>3
      <3> QED  BY <2>3, <2>4, <3>2, <3>3, <3>4, Zenon DEF LoopOK
    <2> QED  BY <1>6, <2>2, <2>4, <2>5, Zenon
  <1>9. CASE Snapshot(i)
    <2> DEFINE r == [l EXCEPT !.pc = "report", !.cur = n]
    <2>1. l.pc = "snapshot" /\ loops' = [loops EXCEPT ![i] = r]
      BY <1>9 DEF Snapshot, LoopAt, LoopSet, l, n
    <2>2. /\ r \in LoopRegs /\ r.pc = "report" /\ r.prev = l.prev /\ r.cur = n /\ r.first = l.first
          /\ r.reported = l.reported /\ r.baseline = l.baseline /\ r.deltas = l.deltas /\ r.nic = l.nic /\ r.gap = l.gap
      BY <1>1, Zenon DEF LoopRegs, LoopPcs
    <2> HIDE DEF r
    <2>3. LoopOK(r, n)
      <3>1. "snapshot" # "start" /\ "snapshot" \notin Snapped
        BY DEF Snapped
      <3>2. /\ l.prev <= n /\ l.first + l.reported <= l.prev
            /\ (l.baseline # None /\ ~l.gap => l.nic # None /\ l.baseline[1] + l.deltas = l.nic[1])
        BY <1>1, <2>1, <3>1, Zenon DEF LoopOK
      <3>3. "report" \notin Snapped /\ "report" \notin {"start", "baseline"}
        BY DEF Snapped
      <3>4. n \in Nat => n <= n
        OBVIOUS
      <3> QED  BY <1>1, <2>2, <3>2, <3>3, <3>4, Zenon DEF LoopOK
    <2> QED  BY <1>6, <2>1, <2>2, <2>3, Zenon
  <1>10. CASE Report(i)
    <2>1. PICK v \in {None, Some(imissed)} :
            LoopSet(i, [NicDelta(loops[i], v) EXCEPT !.pc = "reset_max", !.reported = @ + loops[i].cur - loops[i].prev])
      BY <1>10, Zenon DEF Report
    <2> DEFINE d == NicDelta(l, v)
               r == [d EXCEPT !.pc = "reset_max", !.reported = @ + l.cur - l.prev]
    <2>2. l.pc = "report" /\ loops' = [loops EXCEPT ![i] = r]
      BY <1>10, <2>1, Zenon DEF Report, LoopAt, LoopSet, l
    <2>3. v \in Option(Nat) /\ (v # None => v[1] \in Nat) /\ (l.nic # None => l.nic[1] \in Nat)
          /\ (l.baseline # None => l.baseline[1] \in Nat)
      BY <1>1, <1>5, ReadValue, OptionFacts, Zenon
    <2>4. /\ d \in LoopRegs /\ d.pc = l.pc /\ d.prev = l.prev /\ d.cur = l.cur /\ d.first = l.first
          /\ d.reported = l.reported /\ d.baseline = l.baseline /\ d.nic = v
          /\ IF l.nic # None /\ v # None THEN d.deltas = l.deltas + v[1] - l.nic[1] /\ d.gap = l.gap ELSE d.gap
      <3>1. CASE l.nic # None /\ v # None
        <4>1. l.deltas + v[1] - l.nic[1] \in Int
          BY <1>5, <2>3, <3>1
        <4>2. d = [l EXCEPT !.deltas = l.deltas + v[1] - l.nic[1], !.nic = v]
          BY <1>1, <3>1 DEF NicDelta, LoopRegs
        <4> HIDE DEF d
        <4> QED  BY <1>1, <2>3, <3>1, <4>1, <4>2, Zenon DEF LoopRegs
      <3>2. CASE ~(l.nic # None /\ v # None)
        <4>1. d = [l EXCEPT !.gap = TRUE, !.nic = v]
          BY <3>2, Zenon DEF NicDelta
        <4> HIDE DEF d
        <4> QED  BY <1>1, <2>3, <3>2, <4>1, Zenon DEF LoopRegs
      <3> QED  BY <3>1, <3>2, Zenon
    <2> HIDE DEF d
    <2>5. l.reported + l.cur - l.prev \in Int
      BY <1>5
    <2>6. r = [d EXCEPT !.pc = "reset_max", !.reported = l.reported + l.cur - l.prev]
      BY <2>4 DEF LoopRegs
    <2> HIDE DEF r
    <2>7. /\ r \in LoopRegs /\ r.pc = "reset_max" /\ r.prev = l.prev /\ r.cur = l.cur /\ r.first = l.first
          /\ r.reported = l.reported + l.cur - l.prev /\ r.baseline = l.baseline /\ r.deltas = d.deltas /\ r.nic = v
          /\ r.gap = d.gap
      BY <2>4, <2>5, <2>6, ZenonT(30) DEF LoopRegs, LoopPcs, Snapped
    <2>8. ASSUME r.baseline # None, ~r.gap PROVE r.nic # None /\ r.baseline[1] + r.deltas = r.nic[1]
      <3>1. l.nic # None /\ v # None /\ d.deltas = l.deltas + v[1] - l.nic[1] /\ ~l.gap /\ l.baseline # None
        BY <2>4, <2>7, <2>8, Zenon
      <3>2. l.baseline[1] + l.deltas = l.nic[1]
        BY <1>1, <3>1 DEF LoopOK
      <3>3. r.nic = v /\ r.baseline[1] = l.baseline[1] /\ r.deltas = l.deltas + v[1] - l.nic[1]
        BY <2>7, <3>1, ZenonT(30)
      <3>4. v[1] \in Nat /\ l.nic[1] \in Nat /\ l.baseline[1] \in Nat /\ l.deltas \in Int
        BY <1>5, <2>3, <3>1, OptionFacts, Zenon
      <3>5. l.baseline[1] + (l.deltas + v[1] - l.nic[1]) = v[1]
        BY <3>2, <3>4, SMTT(30)
      <3> QED  BY <3>1, <3>3, <3>5, Zenon
    <2>9. LoopOK(r, n)
      BY <1>1, <1>5, <2>2, <2>7, <2>8, SMTT(30) DEF LoopOK, Snapped
    <2> QED  BY <1>6, <2>2, <2>7, <2>9, Zenon
  <1>11. CASE Again(i)
    <2> DEFINE r == [l EXCEPT !.pc = "top", !.prev = n]
    <2>1. l.pc = "again" /\ loops' = [loops EXCEPT ![i] = r]
      BY <1>11 DEF Again, LoopAt, LoopSet, l, n
    <2>2. /\ r \in LoopRegs /\ r.pc = "top" /\ r.prev = n /\ r.first = l.first
          /\ r.reported = l.reported /\ r.baseline = l.baseline /\ r.deltas = l.deltas /\ r.nic = l.nic /\ r.gap = l.gap
      BY <1>1, ZenonT(30) DEF LoopRegs, LoopPcs
    <2> HIDE DEF r
    <2>3. LoopOK(r, n)
      BY <1>1, <1>5, <2>1, <2>2 DEF LoopOK, Snapped
    <2> QED  BY <1>6, <2>1, <2>2, <2>3, Zenon
  <1>12. CASE Final(i)
    <2>1. PICK v \in {None, Some(imissed)} : LoopSet(i, [loops[i] EXCEPT !.pc = "done", !.final = v])
      BY <1>12, Zenon DEF Final
    <2> DEFINE r == [l EXCEPT !.pc = "done", !.final = v]
    <2>2. l.pc = "final" /\ loops' = [loops EXCEPT ![i] = r]
      BY <1>12, <2>1, Zenon DEF Final, LoopAt, LoopSet, l
    <2>3. v \in Option(Nat)
      BY <1>1, ReadValue
    <2>4. /\ r \in LoopRegs /\ r.pc = "done" /\ r.prev = l.prev /\ r.first = l.first
          /\ r.reported = l.reported /\ r.baseline = l.baseline /\ r.deltas = l.deltas /\ r.nic = l.nic /\ r.gap = l.gap
      BY <1>1, <2>3, ZenonT(30) DEF LoopRegs, LoopPcs
    <2> HIDE DEF r
    <2>5. LoopOK(r, n)
      BY <1>1, <1>5, <2>2, <2>4 DEF LoopOK, Snapped
    <2> QED  BY <1>6, <2>2, <2>4, <2>5, Zenon
  <1> QED  BY <1>7, <1>8, <1>9, <1>10, <1>11, <1>12

(* A step of a reporter that only goes on, or resets the sampler.          *)
LEMMA LoopGoesOn ==
  ASSUME PerfInv, NEW i \in 1 .. Len(loops), UNCHANGED sockets,
         LoopTop(i) \/ LoopWakes(i) \/ ResetMax(i) \/ ResetSampler(i)
  PROVE  PerfInv'
  <1> DEFINE l == loops[i]
             n == rx_packets
  <1>1. LoopsOK /\ SamplerOK /\ UsersOK /\ JoinOK /\ n \in Nat /\ l \in LoopRegs /\ LoopOK(l, n)
    BY DEF PerfInv, LoopsOK
  <1>2. UNCHANGED <<rx_packets, imissed, reporter, guard, recv, user, plan>>
    BY DEF LoopTop, LoopWakes, ResetMax, ResetSampler, countVars
  <1>3. UsersOK'
    BY <1>1, <1>2, UsersKept
  <1>4. SamplerOK'
    <2>1. CASE LoopTop(i) \/ LoopWakes(i)
      BY <1>1, <2>1, SamplerKept DEF LoopTop, LoopWakes
    <2>2. CASE ResetMax(i)
      BY <1>1, <2>2 DEF SamplerOK, ResetMax
    <2>3. CASE ResetSampler(i)
      <3>1. UNCHANGED <<latency_max, latest, recv>> /\ sampler \in Samplers /\ Capacity \in Nat \ {0}
        BY <1>1, <2>3, SamplerAssumption DEF ResetSampler, SamplerOK
      <3>2. sampler' = [sampler EXCEPT !.count = 0] \/ sampler' = [sampler EXCEPT !.write_idx = 0]
        BY <2>3 DEF ResetSampler
      <3>3. sampler' \in Samplers /\ sampler'.count \in {0, sampler.count}
        BY <3>1, <3>2 DEF Samplers
      <3>4. sampler'.count <= Capacity
        BY <1>1, <3>1, <3>3 DEF SamplerOK
      <3> QED  BY <1>1, <3>1, <3>3, <3>4 DEF SamplerOK
    <2> QED  BY <2>1, <2>2, <2>3
  <1> DEFINE to(pc) ==
        /\ loops' = [loops EXCEPT ![i] = [l EXCEPT !.pc = pc]] /\ pc # "start" /\ pc # "baseline" /\ pc # "report"
        /\ l.pc \notin {"start", "baseline", "report", "done"} /\ (pc \in Snapped <=> l.pc \in Snapped)
  <1>5. PICK pc \in LoopPcs : to(pc)
    <2>1. LoopTop(i) => to("final") \/ to("sleep")
      BY Zenon DEF LoopTop, LoopAt, LoopSet, Snapped
    <2>2. LoopWakes(i) => to("final") \/ to("snapshot") \/ to("top")
      BY Zenon DEF LoopWakes, LoopAt, LoopSet, Snapped
    <2>3. ResetMax(i) => to("reset_count")
      BY Zenon DEF ResetMax, LoopAt, LoopSet, Snapped
    <2>4. ResetSampler(i) => to("reset_idx") \/ to("again")
      BY Zenon DEF ResetSampler, LoopAt, LoopSet, Snapped
    <2>5. {"final", "sleep", "snapshot", "top", "reset_count", "reset_idx", "again"} \subseteq LoopPcs
      BY DEF LoopPcs, Snapped
    <2> HIDE DEF to
    <2> QED  BY <2>1, <2>2, <2>3, <2>4, <2>5
  <1> DEFINE r == [l EXCEPT !.pc = pc]
  <1>6. /\ r \in LoopRegs /\ r.pc = pc /\ r.prev = l.prev /\ r.cur = l.cur /\ r.first = l.first
        /\ r.reported = l.reported /\ r.baseline = l.baseline /\ r.deltas = l.deltas /\ r.nic = l.nic /\ r.gap = l.gap
    BY <1>1, Zenon DEF LoopRegs
  <1>7. loops' = [loops EXCEPT ![i] = r] /\ l.pc # "done"
    BY <1>5
  <1> HIDE DEF r, l, n
  <1>8. LoopOK(r, n)
    BY <1>1, <1>5, <1>6 DEF LoopOK
  <1>9. LoopsOK' /\ JoinOK'
    BY <1>1, <1>2, <1>6, <1>7, <1>8, LoopMoves, Zenon DEF l, n
  <1> QED  BY <1>3, <1>4, <1>9 DEF PerfInv

(* A reporter is started when none runs.                                   *)
LEMMA StartInv ==
  ASSUME LoopsOK, JoinOK, reporter = None, guard = None, StartReporter, sockets' # << >>,
         UNCHANGED <<rx_packets, imissed, guard, user>>
  PROVE  LoopsOK' /\ JoinOK'
  <1> DEFINE k == Len(loops) + 1
  <1>1. NewLoop \in LoopRegs /\ LoopOK(NewLoop, rx_packets) /\ NewLoop.pc # "done"
    <2>1. None \in Option(Nat)
      BY OptionFacts, Zenon
    <2>2. NewLoop \in LoopRegs
      <3>1. 0 \in Nat /\ 0 \in Int
        OBVIOUS
      <3> QED  BY <2>1, <3>1, Zenon DEF NewLoop, LoopRegs, LoopPcs
    <2>3. LoopOK(NewLoop, rx_packets) /\ NewLoop.pc # "done"
      BY Zenon DEF NewLoop, LoopOK, Snapped
    <2> QED  BY <2>2, <2>3
  <1> HIDE DEF NewLoop
  <1>2. /\ loops' \in Seq(LoopRegs) /\ Len(loops') = k /\ loops'[k] = NewLoop /\ Len(loops) \in Nat
        /\ \A j \in 1 .. Len(loops) : loops'[j] = loops[j]
    <2>1. loops' = Append(loops, NewLoop) /\ loops \in Seq(LoopRegs)
      BY Zenon DEF StartReporter, LoopsOK
    <2>2. ASSUME NEW S, NEW q \in Seq(S), NEW x \in S
          PROVE  /\ Append(q, x) \in Seq(S) /\ Len(Append(q, x)) = Len(q) + 1 /\ Append(q, x)[Len(q) + 1] = x
                 /\ Len(q) \in Nat /\ \A j \in 1 .. Len(q) : Append(q, x)[j] = q[j]
      OBVIOUS
    <2> QED  BY <1>1, <2>1, <2>2, ZenonT(30)
  <1>3. \A j \in 1 .. k : j \in 1 .. Len(loops) \/ j = k
    BY <1>2
  <1>4. k \in 1 .. k
    BY <1>2
  <1> HIDE DEF k
  <1>5. \A j \in 1 .. k : LoopOK(loops'[j], rx_packets)
    <2>1. \A j \in 1 .. Len(loops) : LoopOK(loops'[j], rx_packets)
      BY <1>2, Zenon DEF LoopsOK
    <2>2. LoopOK(loops'[k], rx_packets)
      BY <1>1, <1>2, Zenon
    <2> QED  BY <1>3, <2>1, <2>2, Zenon
  <1>6. LoopsOK'
    <2>1. \A j \in 1 .. k : LoopOK(loops[j], rx_packets)' <=> LoopOK(loops'[j], rx_packets)
      BY Zenon DEF LoopOK
    <2> QED  BY <1>2, <1>5, <2>1, Zenon DEF LoopsOK
  <1>7. \A j \in 1 .. Len(loops) : loops[j].pc = "done"
    BY SomeIsOne DEF JoinOK
  <1>8. \A j \in 1 .. k : loops'[j].pc # "done" => j = k
    BY <1>2, <1>3, <1>7, Zenon
  <1>9. reporter' = Some(k)
    BY DEF StartReporter, k
  <1>10. /\ reporter' = None \/ \E j \in 1 .. Len(loops') : reporter' = Some(j)
         /\ \A j \in 1 .. Len(loops') : loops'[j].pc = "done" \/ reporter' = Some(j)
         /\ \A a, b \in 1 .. Len(loops') : loops'[a].pc # "done" /\ loops'[b].pc # "done" => a = b
    BY <1>2, <1>4, <1>8, <1>9, Zenon
  <1>11. JoinOK'
    BY <1>10, Zenon DEF JoinOK
  <1> QED  BY <1>6, <1>11

(* A call of the application begins.                                       *)
LEMMA CalledInv ==
  ASSUME UsersOK, NEW u \in Users, Called(u), plan.calls[u] # << >>
  PROVE  plan' \in PerfPlans
  <1> DEFINE Ops == {"enable", "disable", "snapshot"}
             calls == [plan.calls EXCEPT ![u] = Tail(plan.calls[u])]
  <1>1. plan \in PerfPlans /\ plan.calls \in [Users -> Seq(Ops)]
    BY Zenon DEF UsersOK, PerfPlans
  <1>2. Tail(plan.calls[u]) \in Seq(Ops)
    <2>1. \A q \in Seq(Ops) : q # << >> => Tail(q) \in Seq(Ops)
      OBVIOUS
    <2>2. plan.calls[u] \in Seq(Ops)
      BY <1>1, Zenon
    <2> QED  BY <2>1, <2>2, Zenon
  <1>3. calls \in [Users -> Seq(Ops)]
    BY <1>1, <1>2
  <1>4. plan' = [plan EXCEPT !.calls = calls]
    BY <1>1 DEF Called
  <1> HIDE DEF calls
  <1> QED  BY <1>1, <1>3, <1>4, Zenon DEF PerfPlans

(* A call that starts or stops the reporter.                               *)
LEMMA ReporterCallInv ==
  ASSUME PerfInv, NEW u \in Users, sockets # << >>, UNCHANGED sockets,
         enable_perf_reporting(u) \/ DisableTake(u) \/ DisableJoined(u)
  PROVE  PerfInv'
  <1>1. /\ LoopsOK /\ SamplerOK /\ UsersOK /\ JoinOK /\ user \in [Users -> UserRegs] /\ user[u] \in UserRegs
        /\ plan \in PerfPlans
    BY DEF PerfInv, UsersOK
  <1>2. UNCHANGED <<countVars, recv>>
    BY DEF enable_perf_reporting, DisableTake, DisableJoined
  <1>3. SamplerOK' /\ UNCHANGED <<rx_packets, imissed>>
    BY <1>1, <1>2, SamplerKept, ZenonT(30) DEF countVars
  <1>4. ASSUME NEW pc \in {"idle", "join"}, UserAt(u, pc), plan' \in PerfPlans PROVE UsersOK'
    <2>1. user' = [user EXCEPT ![u] = [user[u] EXCEPT !.pc = pc]]
      BY <1>4 DEF UserAt
    <2>2. [user[u] EXCEPT !.pc = pc] \in UserRegs /\ [user[u] EXCEPT !.pc = pc].pc = pc
      BY <1>1, <1>4 DEF UserRegs
    <2>3. /\ user' \in [Users -> UserRegs] /\ user'[u].pc = pc
          /\ \A v \in Users : v # u => user'[v] = user[v]
      BY <1>1, <2>1, <2>2
    <2> QED  BY <1>1, <1>4, <2>3 DEF UsersOK
  <1>5. CASE enable_perf_reporting(u)
    <2>1. UNCHANGED <<guard, user>> /\ guard = None /\ plan' \in PerfPlans
      BY <1>1, <1>5, CalledInv, ZenonT(30) DEF enable_perf_reporting, PerfCall
    <2>2. UsersOK'
      BY <1>1, <2>1 DEF UsersOK
    <2>3. CASE reporter = None
      <3>1. StartReporter
        BY <1>5, <2>3 DEF enable_perf_reporting
      <3>2. LoopsOK' /\ JoinOK'
        BY <1>1, <1>3, <2>1, <2>3, <3>1, StartInv, Zenon
      <3> QED  BY <1>3, <2>2, <3>2 DEF PerfInv
    <2>4. CASE reporter # None
      <3>1. UNCHANGED <<loops, reporter>>
        BY <1>5, <2>4 DEF enable_perf_reporting
      <3>2. LoopsOK' /\ JoinOK'
        BY <1>1, <1>3, <2>1, <3>1, LoopsKept, JoinKept
      <3> QED  BY <1>3, <2>2, <3>2 DEF PerfInv
    <2> QED  BY <2>3, <2>4, Zenon
  <1>6. CASE DisableTake(u) /\ reporter = None
    <2>1. UNCHANGED <<loops, reporter, guard, user>> /\ plan' \in PerfPlans
      BY <1>1, <1>6, CalledInv, ZenonT(30) DEF DisableTake, PerfCall
    <2>2. UsersOK'
      BY <1>1, <2>1 DEF UsersOK
    <2>3. LoopsOK' /\ JoinOK'
      BY <1>1, <1>3, <2>1, LoopsKept, JoinKept
    <2> QED  BY <1>3, <2>2, <2>3 DEF PerfInv
  <1>7. CASE DisableTake(u) /\ reporter # None
    <2>1. plan' \in PerfPlans /\ guard = None /\ user[u].pc = "idle"
      BY <1>1, <1>7, CalledInv DEF DisableTake, PerfCall
    <2>2. /\ loops' = [loops EXCEPT ![reporter[1]].shutdown = TRUE] /\ reporter' = None
          /\ guard' = Some(u) /\ UserAt(u, "join")
      BY <1>7 DEF DisableTake
    <2>3. PICK i \in 1 .. Len(loops) : reporter = Some(i)
      BY <1>1, <1>7 DEF JoinOK
    <2>4. reporter[1] = i /\ Some(u) # None
      BY <2>3, SomeIsOne DEF Some
    <2> DEFINE l == loops[i]
               r == [l EXCEPT !.shutdown = TRUE]
    <2>5. l \in LoopRegs /\ LoopOK(l, rx_packets)
      BY <1>1 DEF LoopsOK
    <2>6. loops' = [loops EXCEPT ![i] = r]
      BY <2>2, <2>4, Zenon
    <2>7. /\ r \in LoopRegs /\ r.pc = l.pc /\ r.prev = l.prev /\ r.cur = l.cur /\ r.first = l.first
          /\ r.reported = l.reported /\ r.baseline = l.baseline /\ r.deltas = l.deltas /\ r.nic = l.nic /\ r.gap = l.gap
      BY <2>5, Zenon DEF LoopRegs
    <2> HIDE DEF r, l
    <2>8. LoopOK(r, rx_packets)
      BY <2>5, <2>7, ZenonT(30) DEF LoopOK
    <2>9. /\ loops' \in Seq(LoopRegs) /\ Len(loops') = Len(loops) /\ loops'[i] = r
          /\ \A j \in 1 .. Len(loops) : j # i => loops'[j] = loops[j]
      BY <1>1, <2>6, <2>7 DEF LoopsOK
    <2>10. LoopsOK'
      <3>1. \A j \in 1 .. Len(loops) : LoopOK(loops'[j], rx_packets)
        BY <1>1, <2>8, <2>9, Zenon DEF LoopsOK
      <3>2. \A j \in 1 .. Len(loops) : LoopOK(loops[j], rx_packets)' <=> LoopOK(loops'[j], rx_packets)
        BY <1>3, Zenon DEF LoopOK
      <3> QED  BY <1>1, <1>3, <2>9, <3>1, <3>2, Zenon DEF LoopsOK
    <2>11. UsersOK'
      BY <1>4, <2>1, <2>2, ZenonT(30)
    <2>12. user'[u].pc = "join" /\ \A v \in Users : v # u => user'[v].pc # "join"
      <3>1. \A v \in Users : v # u => user'[v] = user[v]
        BY <1>1, <2>2 DEF UserAt
      <3>2. user'[u].pc = "join"
        BY <1>1, <2>2 DEF UserAt, UserRegs
      <3> QED  BY <1>1, <2>1, <3>1, <3>2, SomeIsOne DEF JoinOK
    <2>13. \A j \in 1 .. Len(loops) : loops'[j].pc = loops[j].pc
      BY <2>7, <2>9, Zenon DEF l
    <2>14. JoinOK'
      BY <1>1, <2>2, <2>4, <2>9, <2>12, <2>13, ZenonT(30) DEF JoinOK
    <2> QED  BY <1>3, <2>10, <2>11, <2>14 DEF PerfInv
  <1>8. CASE DisableJoined(u)
    <2>1. /\ UNCHANGED <<reporter, loops, plan>> /\ guard' = None /\ UserAt(u, "idle") /\ user[u].pc = "join"
          /\ \A i \in DOMAIN loops : reporter # Some(i) => loops[i].pc = "done"
      BY <1>8, Zenon DEF DisableJoined, LoopAt
    <2>2. LoopsOK' /\ UsersOK'
      BY <1>1, <1>3, <1>4, <2>1, LoopsKept, Zenon
    <2>3. guard = Some(u) /\ reporter = None
      BY <1>1, <2>1, SomeIsOne, Zenon DEF JoinOK
    <2>4. \A v \in Users : user'[v].pc # "join"
      <3>1. \A v \in Users : v # u => user'[v] = user[v]
        BY <1>1, <2>1 DEF UserAt
      <3>2. user'[u].pc = "idle"
        BY <1>1, <2>1 DEF UserAt, UserRegs
      <3> QED  BY <1>1, <2>3, <3>1, <3>2, SomeIsOne, Zenon DEF JoinOK
    <2>5. DOMAIN loops = 1 .. Len(loops)
      BY <1>1 DEF LoopsOK
    <2>6. JoinOK'
      BY <1>1, <2>1, <2>4, <2>5, Zenon DEF JoinOK
    <2> QED  BY <1>3, <2>2, <2>6 DEF PerfInv
  <1> QED  BY <1>5, <1>6, <1>7, <1>8, ZenonT(30)

(* A step of a snapshot.                                                   *)
LEMMA SnapshotInv ==
  ASSUME PerfInv, NEW u \in Users, UNCHANGED sockets, perf_snapshot(u) \/ SnapshotCount(u) \/ SnapshotLoad(u)
  PROVE  PerfInv'
  <1> DEFINE o == user[u]
             P == {percentiles(s) : s \in Seq(Nat)}
  <1>1. /\ LoopsOK /\ SamplerOK /\ UsersOK /\ JoinOK /\ user \in [Users -> UserRegs] /\ o \in UserRegs
        /\ plan \in PerfPlans
    BY Zenon DEF PerfInv, UsersOK
  <1>2. UNCHANGED <<countVars, reporter, guard, loops, recv>>
    BY DEF perf_snapshot, SnapshotCount, SnapshotLoad
  <1>3. LoopsOK' /\ SamplerOK'
    BY <1>1, <1>2, LoopsKept, SamplerKept DEF countVars
  <1>4. sampler \in Samplers /\ sampler.count \in Nat /\ sampler.count <= Capacity
    BY <1>1, ZenonT(30) DEF SamplerOK, Samplers
  <1>5. NoSnapshot \in UserRegs /\ NoSnapshot.loaded = << >>
    BY OptionFacts DEF NoSnapshot, UserRegs
  <1>6. ASSUME NEW r \in UserRegs, user' = [user EXCEPT ![u] = r], r.pc # "join", plan' \in PerfPlans,
               r.pc = "count" => r.loaded = << >>,
               r.pc = "load" => Len(r.loaded) < r.count /\ r.count <= Capacity
        PROVE  PerfInv'
    <2>1. user' \in [Users -> UserRegs] /\ user'[u] = r /\ \A v \in Users : v # u => user'[v] = user[v]
      BY <1>1, <1>6
    <2>2. UsersOK'
      BY <1>1, <1>6, <2>1, Zenon DEF UsersOK
    <2>3. JoinOK'
      BY <1>1, <1>2, <1>6, <2>1, Zenon DEF JoinOK
    <2> QED  BY <1>3, <2>2, <2>3, ZenonT(30) DEF PerfInv
  <1>7. CASE perf_snapshot(u)
    <2> DEFINE r == [NoSnapshot EXCEPT !.pc = "count"]
    <2>1. plan' \in PerfPlans /\ user' = [user EXCEPT ![u] = r]
      BY <1>1, <1>7, CalledInv DEF perf_snapshot, PerfCall
    <2> HIDE DEF NoSnapshot
    <2>2. r \in UserRegs /\ r.pc = "count" /\ r.loaded = << >>
      BY <1>5 DEF UserRegs
    <2> HIDE DEF r
    <2> QED  BY <1>6, <2>1, <2>2, Zenon
  <1>8. CASE SnapshotCount(u)
    <2> DEFINE next == IF sampler.count = 0 THEN "idle" ELSE "load"
               r == [o EXCEPT !.count = sampler.count, !.pc = next]
    <2>1. o.pc = "count" /\ plan' = plan /\ user' = [user EXCEPT ![u] = r]
      BY <1>1, <1>8, Zenon DEF SnapshotCount, UserRegs
    <2>2. next \in {"idle", "load"} /\ (next = "load" => sampler.count # 0)
      OBVIOUS
    <2> HIDE DEF next
    <2>3. r \in UserRegs /\ r.pc = next /\ r.count = sampler.count /\ r.loaded = o.loaded
      BY <1>1, <1>4, <2>2, Zenon DEF UserRegs
    <2>4. o.loaded = << >> /\ Len(o.loaded) = 0
      BY <1>1, <2>1, SMTT(30) DEF UsersOK
    <2> HIDE DEF r
    <2>5. r.pc = "load" => Len(r.loaded) < r.count /\ r.count <= Capacity
      BY <1>4, <2>2, <2>3, <2>4, SMTT(30)
    <2> QED  BY <1>1, <1>6, <2>1, <2>2, <2>3, <2>5, Zenon
  <1>9. CASE SnapshotLoad(u)
    <2> DEFINE loaded == Append(o.loaded, sampler.samples[Len(o.loaded)])
    <2>1. /\ o.pc = "load" /\ plan' = plan
          /\ user' = [user EXCEPT ![u] = IF Len(loaded) < o.count THEN [o EXCEPT !.loaded = loaded]
                                         ELSE [NoSnapshot EXCEPT !.percentiles = Some(percentiles(loaded))]]
      BY <1>9, Zenon DEF SnapshotLoad
    <2>2. o.loaded \in Seq(Nat) /\ o.count \in Nat /\ Len(o.loaded) < o.count /\ o.count <= Capacity
      BY <1>1, <2>1, Zenon DEF UsersOK, UserRegs
    <2>3. loaded \in Seq(Nat)
      <3>1. Len(o.loaded) \in 0 .. Capacity - 1
        BY <2>2, SamplerAssumption, SMTT(30)
      <3>2. sampler.samples[Len(o.loaded)] \in Nat
        <4>1. sampler.samples \in [0 .. Capacity - 1 -> Latencies \cup {0}]
          BY <1>4, Zenon DEF Samplers
        <4>2. sampler.samples[Len(o.loaded)] \in Latencies \cup {0}
          BY <3>1, <4>1, Zenon
        <4>3. Latencies \cup {0} \subseteq Nat
          BY SamplerAssumption
        <4> QED  BY <4>2, <4>3, Zenon
      <3> QED  BY <2>2, <3>2, SMTT(30)
    <2> HIDE DEF loaded
    <2>4. CASE Len(loaded) < o.count
      <3> DEFINE r == [o EXCEPT !.loaded = loaded]
      <3>1. r \in UserRegs /\ r.pc = "load" /\ r.count = o.count /\ r.loaded = loaded
        BY <1>1, <2>1, <2>3, Zenon DEF UserRegs
      <3>2. user' = [user EXCEPT ![u] = r]
        BY <2>1, <2>4
      <3> HIDE DEF r
      <3> QED  BY <1>1, <1>6, <2>1, <2>2, <2>4, <3>1, <3>2, Zenon
    <2>5. CASE ~(Len(loaded) < o.count)
      <3> DEFINE r == [NoSnapshot EXCEPT !.percentiles = Some(percentiles(loaded))]
      <3>1. Some(percentiles(loaded)) \in Option(P)
        <4>1. percentiles(loaded) \in P
          BY <2>3
        <4> HIDE DEF P
        <4> QED  BY <4>1, OptionFacts
      <3>2. user' = [user EXCEPT ![u] = r]
        BY <2>1, <2>5
      <3>3. NoSnapshot.pc = "idle"
        BY DEF NoSnapshot
      <3> HIDE DEF NoSnapshot
      <3>4. r \in UserRegs /\ r.pc = "idle"
        BY <1>5, <3>1, <3>3, Zenon DEF UserRegs
      <3> HIDE DEF r
      <3> QED  BY <1>1, <1>6, <2>1, <3>2, <3>4, Zenon
    <2> QED  BY <2>4, <2>5
  <1> QED  BY <1>7, <1>8, <1>9, Zenon

(* A step of the socket's threads.                                         *)
LEMMA PerfStepInv ==
  ASSUME PerfInv, sockets # << >>, PerfNext, UNCHANGED sockets
  PROVE  PerfInv'
  <1>1. CASE NicDrops
    <2>1. LoopsOK /\ SamplerOK /\ UsersOK /\ JoinOK /\ plan \in PerfPlans /\ imissed \in Nat
      BY Zenon DEF PerfInv, LoopsOK, UsersOK
    <2>2. /\ plan.drops > 0 /\ plan' = [plan EXCEPT !.drops = @ - 1] /\ imissed' = imissed + 1
          /\ UNCHANGED <<rx_packets, latency_max, sampler, latest, reporter, guard, loops, recv, user>>
      BY <1>1 DEF NicDrops
    <2>3. plan' \in PerfPlans /\ imissed' \in Nat
      BY <2>1, <2>2 DEF PerfPlans
    <2>4. UsersOK' /\ JoinOK'
      BY <2>1, <2>2, <2>3, JoinKept DEF UsersOK
    <2>5. SamplerOK'
      BY <2>1, <2>2 DEF SamplerOK
    <2>6. LoopsOK'
      BY <2>1, <2>2, <2>3 DEF LoopsOK, LoopOK
    <2> QED  BY <2>4, <2>5, <2>6, Zenon DEF PerfInv
  <1>2. CASE \E i \in DOMAIN loops : Loop(i)
    <2>1. PICK i \in 1 .. Len(loops) : Loop(i)
      BY <1>2 DEF PerfInv, LoopsOK
    <2> QED  BY <2>1, LoopReads, LoopGoesOn, Zenon DEF Loop
  <1>3. CASE \E u \in Users : User(u)
    BY <1>3, ReporterCallInv, SnapshotInv, Zenon DEF User
  <1> QED  BY <1>1, <1>2, <1>3, ReceiverInv, Zenon DEF PerfNext

(* Sockets are only added.                                                 *)
LEMMA SocketsGrow ==
  ASSUME PortsOK, NEW b \in Binders, SetupStep(b) \/ BuilderBind(b)
  PROVE  sockets' # << >> \/ (sockets' = << >> /\ sockets = << >>)
  <1>1. \A x : Append(sockets, x) # << >>
    BY DEF PortsOK
  <1>2. UNCHANGED sockets \/ \E x : sockets' = Append(sockets, x)
    BY Zenon DEF SetupStep, Bind, create_backend, GetResources, InitStage, InitFails, UndoInit, Publish, FixedPort,
       EphemeralPort, WrapPort, bind_v4_on, bind_v6, bind_with_backend, KernelBind, BuilderBind, NewSocket
  <1> QED  BY <1>1, <1>2, ZenonT(30)

(* A thread that binds leaves the counters alone, and starts a reporter at *)
(* most with the first socket.                                             *)
LEMMA BindsBeside ==
  ASSUME PerfInv, PortsOK, NEW b \in Binders, (SetupStep(b) /\ UNCHANGED perfVars) \/ BuilderBind(b)
  PROVE  PerfInv'
  <1>1. LoopsOK /\ SamplerOK /\ UsersOK /\ JoinOK
    BY DEF PerfInv
  <1>2. sockets' # << >> \/ (sockets' = << >> /\ sockets = << >>)
    BY SocketsGrow
  <1>3. CASE UNCHANGED perfVars
    <2>1. UNCHANGED <<countVars, rx_packets, imissed, reporter, guard, loops, recv, user, plan>>
      BY <1>3 DEF perfVars, countVars
    <2>2. LoopsOK' /\ SamplerOK' /\ UsersOK'
      BY <1>1, <2>1, LoopsKept, SamplerKept, UsersKept, ZenonT(30)
    <2>3. JoinOK'
      BY <1>1, <1>2, <2>1 DEF JoinOK
    <2> QED  BY <2>2, <2>3 DEF PerfInv
  <1>4. CASE BuilderBind(b) /\ sockets = << >> /\ StartReporter /\ UNCHANGED <<countVars, guard, recv, user, plan>>
    <2>1. \E x : sockets' = Append(sockets, x)
      BY <1>4, Zenon DEF BuilderBind, NewSocket
    <2>2. sockets' # << >>
      <3>1. \A q \in Seq(SocketRecs) : \A x : Append(q, x) # << >>
        OBVIOUS
      <3>2. sockets \in Seq(SocketRecs)
        BY Zenon DEF PortsOK
      <3> QED  BY <2>1, <3>1, <3>2, Zenon
    <2>3. loops = << >> /\ guard = None /\ reporter = None
      <3>1. loops = << >> /\ guard = None
        BY <1>1, <1>4, Zenon DEF JoinOK
      <3>2. ~ \E i \in 1 .. Len(loops) : reporter = Some(i)
        BY <3>1
      <3> QED  BY <1>1, <3>1, <3>2, Zenon DEF JoinOK
    <2>4. UNCHANGED <<rx_packets, imissed>>
      BY <1>4 DEF countVars
    <2>5. LoopsOK' /\ JoinOK'
      BY <1>1, <1>4, <2>2, <2>3, <2>4, StartInv
    <2>6. SamplerOK' /\ UsersOK'
      BY <1>1, <1>4, SamplerKept, UsersKept
    <2> QED  BY <2>5, <2>6, Zenon DEF PerfInv
  <1> QED  BY <1>3, <1>4, Zenon DEF BuilderBind

-----------------------------------------------------------------------------
(* The process.                                                            *)

(* What a process starts with.                                             *)
LEMMA ProcessStarts ==
  ASSUME ProcessInit
  PROVE  SetupInv /\ PerfInv /\ ContextInv /\ NEXT_EPHEMERAL_PORT = FirstPort
  <1>1. SetupInv /\ NEXT_EPHEMERAL_PORT = FirstPort /\ sockets = << >>
    <2>1. PICK calls \in [Binders -> Seq(BindCalls)], n \in Nat : SetupInit(calls, n)
      BY Zenon DEF ProcessInit
    <2>2. ASSUME NEW b \in Binders
          PROVE  /\ binder[b] \in BinderRegs /\ RegsOK(binder[b]) /\ binder[b].pc = "idle" /\ binder[b].stage = 0
                 /\ binder[b].backend = "none"
      <3>1. binder[b] = Unbound(calls[b]) /\ calls[b] \in Seq(BindCalls)
        BY <2>1, Zenon DEF SetupInit
      <3>2. Unbound(calls[b]).pc = "idle" /\ Unbound(calls[b]).stage = 0 /\ Unbound(calls[b]).backend = "none"
        BY DEF Unbound
      <3> QED  BY <3>1, <3>2, UnboundOK
    <2>3. Regs
      <3>1. binder \in [Binders -> BinderRegs]
        BY <2>1, <2>2 DEF SetupInit
      <3> QED  BY <2>2, <3>1 DEF Regs
    <2>4. LockOK
      BY <2>1, <2>2, SomeIsOne, Zenon DEF LockOK, SetupInit
    <2>5. HeldOK
      BY <2>1, <2>2, Reached DEF HeldOK, SetupInit
    <2>6. ReasonOK
      BY <2>1, <2>2, Zenon DEF ReasonOK, SetupInit
    <2>7. PortsOK /\ PlanFits
      <3>1. \A b \in Binders : ~HasPort(binder[b]) /\ binder[b].pc # "wrap"
        BY <2>2 DEF HasPort
      <3>2. /\ sockets = << >> /\ NEXT_EPHEMERAL_PORT = FirstPort /\ wrapped = FALSE /\ Len(sockets) = 0
            /\ sockets \in Seq(SocketRecs)
        BY <2>1 DEF SetupInit
      <3> HIDE DEF HasPort
      <3>3. \A i \in 1 .. Len(sockets) : FALSE
        BY <3>2
      <3>4. NEXT_EPHEMERAL_PORT \in Nat /\ NEXT_EPHEMERAL_PORT >= FirstPort /\ NEXT_EPHEMERAL_PORT <= LastPort + 1
        BY <3>2, SetupAssumption
      <3>5. PlanFits
        BY <3>2 DEF PlanFits
      <3>6. PortsOK
        BY <3>1, <3>2, <3>3, <3>4, Zenon DEF PortsOK
      <3> QED  BY <3>5, <3>6, ZenonT(30)
    <2>8. sockets = << >> /\ NEXT_EPHEMERAL_PORT = FirstPort
      BY <2>1 DEF SetupInit
    <2> QED  BY <2>3, <2>4, <2>5, <2>6, <2>7, <2>8 DEF SetupInv
  <1>2. PerfInv
    <2>1. PICK p \in PerfPlans : PerfInit(p)
      BY Zenon DEF ProcessInit
    <2>2. LoopsOK
      BY <2>1 DEF LoopsOK, PerfInit
    <2>3. SamplerOK
      <3>1. /\ latency_max = 0 /\ latest = {} /\ recv = Receiving
            /\ sampler = [samples |-> [i \in 0 .. Capacity - 1 |-> 0], count |-> 0, write_idx |-> 0, packet_count |-> 0]
        BY <2>1 DEF PerfInit
      <3>2. sampler \in Samplers /\ sampler.count = 0
        BY <3>1, SamplerAssumption DEF Samplers
      <3>3. recv \in RecvRegs /\ recv.pc = "idle"
        <4>1. 0 \in Nat /\ 0 \in 0 .. Capacity - 1
          BY SamplerAssumption, SMTT(30)
        <4> QED  BY <3>1, <4>1, Zenon DEF RecvRegs, Receiving
      <3> QED  BY <3>1, <3>2, <3>3, SamplerAssumption, SMTT(30) DEF SamplerOK
    <2>4. NoSnapshot \in UserRegs /\ NoSnapshot.pc = "idle"
      BY OptionFacts DEF NoSnapshot, UserRegs
    <2>5. UsersOK
      BY <2>1, <2>4, Zenon DEF UsersOK, PerfInit
    <2>6. JoinOK
      BY <2>1, <2>4, SomeIsOne DEF JoinOK, PerfInit
    <2> QED  BY <2>2, <2>3, <2>5, <2>6 DEF PerfInv
  <1>3. ContextInv
    <2>1. PICK calls \in [Callers -> Seq(TcpCalls)], n \in Nat : ContextInit(calls, n)
      BY Zenon DEF ProcessInit
    <2>2. /\ TCP_CONTEXT = << >> /\ engines = {} /\ ports = << >> /\ next_port \in RANGE_START .. PortModulus - 1
          /\ caller = [t \in Callers |-> [pc |-> "idle", calls |-> calls[t], call |-> << >>]]
      BY <2>1, ZenonT(30) DEF ContextInit
    <2>3. \A t \in Callers : [pc |-> "idle", calls |-> calls[t], call |-> << >>] \in CallerRegs
      BY DEF CallerRegs, CallerPcs
    <2>4. caller \in [Callers -> CallerRegs] /\ \A t \in Callers : caller[t].pc = "idle"
      BY <2>2, <2>3, Zenon
    <2>5. EngineInv
      BY <2>2, <2>4, Zenon DEF EngineInv
    <2>6. SpreadInv
      <3>1. 1 .. Len(ports) = {} /\ ports \in Seq(Nat) /\ next_port \in 0 .. PortModulus - 1
        <4>1. 1 .. 0 = {} /\ << >> \in Seq(Nat) /\ Len(<< >>) = 0 /\ ports = << >>
          BY <2>2
        <4>2. next_port \in 0 .. PortModulus - 1
          BY <2>2, PortAssumption, SMTT(30)
        <4> QED  BY <4>1, <4>2, Zenon
      <3> QED  BY <3>1, Zenon DEF SpreadInv
    <2> QED  BY <2>4, <2>5, <2>6 DEF ContextInv
  <1> QED  BY <1>1, <1>2, <1>3

\* What Cardinality computes. The prover takes the Cardinality of the library's theorems
\* for another operator than the one of the invariants: both are this one.
Count(S) ==
  LET CS[T \in SUBSET S] == IF T = {} THEN 0 ELSE 1 + CS[T \ {CHOOSE x : x \in T}]
  IN  CS[S]
Counting ==
  \A S \in SUBSET Binders : /\ Count(S) \in Nat /\ Count(S) <= Count(Binders)
                            /\ \A b \in Binders \ S : Count(S \cup {b}) = Count(S) + 1

\* Past the end of the range the counter is ahead by at most the threads that are about to
\* start the range again.
Wrapping == {b \in Binders : binder[b].pc = "wrap"}
CounterOK == NEXT_EPHEMERAL_PORT <= LastPort + 1 + Count(Wrapping)

ProcessInv == SetupInv /\ CounterOK /\ PerfInv /\ ContextInv

(* Only a thread that is given a port comes to the end of the range or     *)
(* leaves it.                                                              *)
LEMMA WrappingKept ==
  ASSUME SetupInv, NEW b \in Binders, SetupStep(b) \/ BuilderBind(b), ~EphemeralPort(b), ~WrapPort(b)
  PROVE  NEXT_EPHEMERAL_PORT' = NEXT_EPHEMERAL_PORT /\ Wrapping' = Wrapping
  <1>1. NEXT_EPHEMERAL_PORT' = NEXT_EPHEMERAL_PORT
    BY Zenon DEF SetupStep, Bind, create_backend, GetResources, InitStage, InitFails, UndoInit, Publish, FixedPort,
       bind_v4_on, bind_v6, bind_with_backend, KernelBind, BuilderBind, NewSocket, portVars
  <1>2. binder \in [Binders -> BinderRegs] /\ binder[b] \in BinderRegs
    BY DEF SetupInv, Regs
  <1>3. binder[b].pc # "wrap"
    BY Zenon DEF SetupStep, Bind, create_backend, GetResources, InitStage, InitFails, UndoInit, Publish, FixedPort,
       bind_v4_on, bind_v6, bind_with_backend, KernelBind, BuilderBind, BinderAt
  <1> DEFINE to(pc) == \E r : r.pc = pc /\ binder' = [binder EXCEPT ![b] = r]
  <1>4. \E pc : pc # "wrap" /\ to(pc)
    <2>1. \A pc : binder' = [binder EXCEPT ![b].pc = pc] => to(pc)
      BY <1>2, Zenon DEF BinderRegs
    <2>2. ASSUME NEW pc, NEW v, binder' = [binder EXCEPT ![b].pc = pc, ![b].pre = v] PROVE to(pc)
      <3> DEFINE r == [binder[b] EXCEPT !.pc = pc, !.pre = v]
      <3>1. binder' = [binder EXCEPT ![b] = r]
        BY <1>2, <2>2, Zenon DEF BinderRegs
      <3>2. r.pc = pc
        BY <1>2 DEF BinderRegs
      <3> HIDE DEF r
      <3> QED  BY <3>1, <3>2, Zenon
    <2>3. \A n : binder' = [binder EXCEPT ![b].stage = n] => to(binder[b].pc)
      BY <1>2, Zenon DEF BinderRegs
    <2>4. \A c : binder' = [binder EXCEPT ![b] = Unbound(c)] => to("idle")
      BY Zenon DEF Unbound
    <2>5. BindFails(b) => to("get") \/ to("kernel") \/ to("idle")
      BY <2>1, <2>2, <2>4, Zenon DEF BindFails, BinderGoto
    <2>6. Bind(b) => to("open") \/ to("port") \/ to("kernel") \/ to("get")
      <3> DEFINE o == binder[b]
                 c == Head(o.calls)
                 next == CASE c.api = "backend" -> "open" [] c.api = "bind_v6" -> "port"
                           [] c.api = "compat" /\ IsStub -> "kernel" [] OTHER -> "get"
                 r == [o EXCEPT !.calls = Tail(o.calls), !.call = Some(c), !.port = c.port,
                                !.tries = IF c.api = "backend" THEN Tries(c) ELSE << >>,
                                !.pre = (c.api = "builder"), !.pc = next]
      <3>1. Bind(b) => binder' = [binder EXCEPT ![b] = r]
        BY Zenon DEF Bind
      <3>2. next \in {"open", "port", "kernel", "get"}
        OBVIOUS
      <3> HIDE DEF next, c
      <3>3. r.pc = next
        BY <1>2 DEF BinderRegs
      <3> HIDE DEF r
      <3>4. Bind(b) => to(next)
        BY <3>1, <3>3
      <3> HIDE DEF to
      <3> QED  BY <3>2, <3>4, Zenon
    <2>7. create_backend(b) => to("get") \/ to("kernel") \/ to("idle") \/ to("open") \/ to("port")
      <3>1. binder[b].pc = "open" => \A t : binder' = [binder EXCEPT ![b].tries = t] => to("open")
        BY <1>2, Zenon DEF BinderRegs
      <3>2. \A k : binder' = [binder EXCEPT ![b].backend = k, ![b].pc = "port"] => to("port")
        <4>1. \A k : [binder EXCEPT ![b].backend = k, ![b].pc = "port"]
                       = [binder EXCEPT ![b] = [binder[b] EXCEPT !.backend = k, !.pc = "port"]]
          BY <1>2, Zenon DEF BinderRegs
        <4>2. \A k : [binder[b] EXCEPT !.backend = k, !.pc = "port"].pc = "port"
          BY <1>2 DEF BinderRegs
        <4> QED  BY <4>1, <4>2, Zenon
      <3> HIDE DEF to
      <3> QED  BY <2>5, <3>1, <3>2, Zenon DEF create_backend, BinderAt
    <2>8. AfterGet(b) # "wrap" /\ AfterPort(b) # "wrap"
      BY DEF AfterGet, AfterPort
    <2>9. Publish(b) => to(AfterGet(b))
      <3> DEFINE pc == AfterGet(b)
                 r == [binder[b] EXCEPT !.pc = pc, !.pre = FALSE, !.stage = 0]
      <3>1. Publish(b) => binder' = [binder EXCEPT ![b] = r]
        BY <1>2, Zenon DEF Publish, BinderRegs
      <3> HIDE DEF pc
      <3>2. r.pc = pc
        BY <1>2 DEF BinderRegs
      <3> HIDE DEF r
      <3> QED  BY <3>1, <3>2 DEF pc
    <2> HIDE DEF to, AfterGet, AfterPort
    <2>10. CASE GetResources(b) \/ FixedPort(b)
      BY <2>1, <2>2, <2>8, <2>10, Zenon DEF GetResources, FixedPort, BinderGoto
    <2>11. CASE InitStage(b) \/ InitFails(b) \/ UndoInit(b)
      BY <1>3, <2>1, <2>3, <2>5, <2>11, Zenon DEF InitStage, InitFails, UndoInit, BinderGoto
    <2>12. CASE bind_v4_on(b) \/ bind_v6(b) \/ bind_with_backend(b) \/ KernelBind(b) \/ BuilderBind(b)
      BY <2>4, <2>12, Zenon DEF bind_v4_on, bind_v6, bind_with_backend, KernelBind, BuilderBind, NewSocket
    <2> QED  BY <2>6, <2>7, <2>8, <2>9, <2>10, <2>11, <2>12, Zenon DEF SetupStep
  <1>5. \A c \in Binders : binder'[c].pc = "wrap" <=> binder[c].pc = "wrap"
    BY <1>2, <1>3, <1>4
  <1> QED  BY <1>1, <1>5 DEF Wrapping

(* The counter past the end of the range.                                  *)
LEMMA CounterInv ==
  ASSUME Counting, SetupInv, CounterOK, NEW b \in Binders, SetupStep(b) \/ BuilderBind(b), SetupInv'
  PROVE  CounterOK'
  <1> DEFINE p == NEXT_EPHEMERAL_PORT
  <1>1. /\ p \in Nat /\ binder \in [Binders -> BinderRegs] /\ binder[b] \in BinderRegs
        /\ FirstPort \in Nat /\ LastPort \in Nat /\ FirstPort <= LastPort
    BY SetupAssumption, Zenon DEF SetupInv, PortsOK, Regs
  <1>2. Count(Wrapping) \in Nat /\ Count(Wrapping') \in Nat
    <2>1. Wrapping \in SUBSET Binders /\ Wrapping' \in SUBSET Binders
      BY DEF Wrapping
    <2> QED  BY <2>1, Zenon DEF Counting
  <1>3. CounterOK' <=> p' <= LastPort + 1 + Count(Wrapping')
    BY DEF CounterOK, Count
  <1> HIDE DEF Wrapping, Count
  <1>4. CASE EphemeralPort(b) /\ InRange(p)
    <2>1. p' = p + 1 /\ p <= LastPort
      BY <1>1, <1>4 DEF EphemeralPort, InRange
    <2> QED  BY <1>1, <1>2, <1>3, <2>1
  <1>5. CASE EphemeralPort(b) /\ ~InRange(p)
    <2>1. p' = p + 1 /\ binder[b].pc = "port"
      BY <1>5 DEF EphemeralPort, BinderAt
    <2>2. binder' = [binder EXCEPT ![b] = [binder[b] EXCEPT !.pc = "wrap"]]
      BY <1>1, <1>5, Zenon DEF EphemeralPort, BinderRegs
    <2>3. binder'[b].pc = "wrap" /\ \A c \in Binders : c # b => binder'[c] = binder[c]
      BY <1>1, <2>2, Zenon DEF BinderRegs
    <2>4. Wrapping' = Wrapping \cup {b} /\ b \in Binders \ Wrapping /\ Wrapping \in SUBSET Binders
      BY <2>1, <2>3 DEF Wrapping
    <2>5. Count(Wrapping') = Count(Wrapping) + 1
      BY <2>4, Zenon DEF Counting
    <2> QED  BY <1>1, <1>2, <1>3, <2>1, <2>5 DEF CounterOK
  <1>6. CASE WrapPort(b)
    <2>1. p' = FirstPort + 1
      BY <1>6 DEF WrapPort
    <2> QED  BY <1>1, <1>2, <1>3, <2>1
  <1>7. CASE ~EphemeralPort(b) /\ ~WrapPort(b)
    <2>1. p' = p /\ Wrapping' = Wrapping
      BY <1>7, WrappingKept, Zenon
    <2> QED  BY <1>3, <2>1 DEF CounterOK
  <1> QED  BY <1>4, <1>5, <1>6, <1>7, Zenon

(* Every step of the process keeps the invariant.                          *)
LEMMA ProcessStepInv ==
  ASSUME Counting, ProcessInv, [ProcessNext]_Everything
  PROVE  ProcessInv'
  <1>1. SetupInv /\ CounterOK /\ PerfInv /\ ContextInv /\ PortsOK
    BY Zenon DEF ProcessInv, SetupInv
  <1>2. UNCHANGED tcpVars => ContextInv'
    BY <1>1 DEF ContextInv, EngineInv, SpreadInv, NextGiven, tcpVars, contextVars, portState, callVars
  <1>3. UNCHANGED setupVars => SetupInv' /\ CounterOK' /\ UNCHANGED sockets
    <2>1. ASSUME UNCHANGED setupVars
          PROVE  UNCHANGED <<DPDK_RESOURCES, resourcesLock, held, NEXT_EPHEMERAL_PORT, wrapped, binder, sockets, failed,
                             faults, faulted, foreign, refused>>
      BY <2>1 DEF setupVars, portVars, faultVars, foreignVars
    <2>2. ASSUME UNCHANGED setupVars PROVE SetupInv'
      <3>0. /\ \A b \in Binders : RegsOK(binder[b])' <=> RegsOK(binder'[b])
            /\ \A b \in Binders : HasPort(binder[b])' <=> HasPort(binder'[b])
        BY ZenonT(30) DEF RegsOK, HasPort, ApiOf
      <3> HIDE DEF RegsOK, HasPort
      <3>1. Regs' /\ LockOK' /\ HeldOK'
        <4>1. Regs'
          BY <1>1, <2>1, <2>2, <3>0, Zenon DEF SetupInv, Regs
        <4>2. LockOK'
          BY <1>1, <2>1, <2>2, Zenon DEF SetupInv, LockOK
        <4>3. HeldOK'
          BY <1>1, <2>1, <2>2, HeldStill, ZenonT(30) DEF SetupInv
        <4> QED  BY <4>1, <4>2, <4>3, Zenon
      <3>2. ReasonOK' /\ PlanFits'
        <4>1. ReasonOK /\ PlanFits
          BY <1>1, Zenon DEF SetupInv
        <4>2. ReasonOK'
          BY <2>1, <2>2, <4>1 DEF ReasonOK
        <4>3. PlanFits'
          BY <2>1, <2>2, <4>1, Zenon DEF PlanFits
        <4> QED  BY <4>2, <4>3, Zenon
      <3>3. PortsOK'
        BY <1>1, <2>1, <2>2, <3>0, Zenon DEF PortsOK
      <3> QED  BY <3>1, <3>2, <3>3, ZenonT(30) DEF SetupInv
    <2>3. ASSUME UNCHANGED setupVars PROVE CounterOK'
      <3>1. CounterOK' <=> NEXT_EPHEMERAL_PORT' <= LastPort + 1 + Count(Wrapping')
        BY DEF CounterOK, Count
      <3> HIDE DEF Count
      <3>2. Wrapping' = Wrapping
        BY <2>1, <2>3, Zenon DEF Wrapping
      <3> QED  BY <1>1, <2>1, <2>3, <3>1, <3>2, ZenonT(30) DEF CounterOK
    <2> QED  BY <2>1, <2>2, <2>3
  <1>4. UNCHANGED perfVars /\ UNCHANGED sockets => PerfInv'
    BY <1>1, LoopsKept, SamplerKept, UsersKept, JoinKept DEF PerfInv, perfVars, countVars
  <1>5. CASE ContextStep
    <2>1. ContextInv'
      BY <1>1, <1>5, ContextStepInv DEF ContextStep
    <2> QED  BY <1>3, <1>4, <1>5, <2>1 DEF ContextStep, ProcessInv
  <1>6. CASE SocketStep
    <2>1. ContextInv'
      BY <1>2, <1>6 DEF SocketStep
    <2>2. ASSUME NEW b \in Binders, (SetupStep(b) /\ UNCHANGED perfVars) \/ BuilderBind(b)
          PROVE  SetupInv' /\ CounterOK' /\ PerfInv'
      <3>1. SetupInv'
        BY <1>1, <2>2, SetupStepInv, BuilderBindInv
      <3>2. CounterOK'
        BY <1>1, <2>2, <3>1, CounterInv
      <3>3. PerfInv'
        BY <1>1, <2>2, BindsBeside
      <3> QED  BY <3>1, <3>2, <3>3
    <2>3. CASE sockets # << >> /\ PerfNext /\ UNCHANGED setupVars
      BY <1>1, <1>3, <2>1, <2>3, PerfStepInv DEF ProcessInv
    <2> QED  BY <1>6, <2>1, <2>2, <2>3, Zenon DEF SocketStep, SetupNext, ProcessInv
  <1>7. CASE UNCHANGED Everything
    BY <1>2, <1>3, <1>4, <1>7 DEF Everything, ProcessInv
  <1> QED  BY <1>5, <1>6, <1>7 DEF ProcessNext

(* The Cardinality in the invariants.                                      *)
LEMMA SizeIsCount == \A S : Cardinality(S) = Count(S)
  BY DEF Cardinality, Count

(* The threads that bind can be listed.                                    *)
LEMMA BindersListed == \E s \in Seq(Binders) : \A b \in Binders : \E n \in 1 .. Len(s) : s[n] = b
  BY SetupAssumption DEF IsFiniteSet

(* What the invariant says of the state, but for the number of threads.    *)
LEMMA InvMeans ==
  ASSUME Counting, ProcessInv
  PROVE  /\ SetupTypeOK /\ BindFailsOnlyByFault /\ InitUndone /\ PlanFits
         /\ EphemeralPortsDistinct /\ PortsSpread
         /\ ReportedOnce /\ NicDeltasTelescope /\ SamplerInBounds /\ LatencyMaxCovers
         /\ \A e \in engines : TCP_CONTEXT = <<e>>
         /\ \A i \in DOMAIN loops : LoopAt(i, "done") \/ reporter = Some(i) \/ guard # None
         /\ \A i, j \in DOMAIN loops : ~LoopAt(i, "done") /\ ~LoopAt(j, "done") => i = j
  <1>1. /\ Regs /\ LockOK /\ HeldOK /\ ReasonOK /\ PortsOK /\ PlanFits /\ CounterOK
        /\ LoopsOK /\ SamplerOK /\ UsersOK /\ JoinOK /\ EngineInv /\ SpreadInv
    BY Zenon DEF ProcessInv, SetupInv, PerfInv, ContextInv
  <1>2. DOMAIN loops = 1 .. Len(loops) /\ DOMAIN sockets = 1 .. Len(sockets) /\ DOMAIN ports = 1 .. Len(ports)
    <2>1. \A S : \A q \in Seq(S) : DOMAIN q = 1 .. Len(q)
      OBVIOUS
    <2>2. loops \in Seq(LoopRegs) /\ sockets \in Seq(SocketRecs) /\ ports \in Seq(Nat)
      BY <1>1, Zenon DEF LoopsOK, PortsOK, SpreadInv
    <2> QED  BY <2>1, <2>2, Zenon
  <1>3. AllStages = Upto(4) /\ DOMAIN Stages = 1 .. 4
    <2>1. DOMAIN Stages = 1 .. 4
      BY SMTT(30) DEF Stages
    <2> QED  BY <2>1, Zenon DEF AllStages, Upto
  <1>4. held \in {Upto(0), Upto(1), Upto(2), Upto(3), Upto(4)}
    <2>1. CASE \E b \in Binders : binder[b].stage > 0
      <3>1. PICK b \in Binders : binder[b].stage > 0
        BY <2>1, Zenon
      <3>2. held = Upto(binder[b].stage) /\ binder[b].stage \in 0 .. 4
        BY <1>1, <3>1, Zenon DEF HeldOK, Regs, BinderRegs
      <3>3. binder[b].stage \in {0, 1, 2, 3, 4}
        BY <3>2
      <3> QED  BY <3>2, <3>3, Zenon
    <2>2. CASE \A b \in Binders : ~(binder[b].stage > 0)
      <3>1. \A b \in Binders : binder[b].stage = 0
        <4>1. \A b \in Binders : binder[b].stage \in 0 .. 4
          BY <1>1, Zenon DEF Regs, BinderRegs
        <4> QED  BY <2>2, <4>1
      <3> QED  BY <1>1, <3>1, Zenon DEF HeldOK, LockOK
    <2> QED  BY <2>1, <2>2
  <1>5. held \subseteq AllStages
    BY <1>3, <1>4 DEF Upto
  <1>6. SetupTypeOK
    <2>1. DPDK_RESOURCES \in BOOLEAN /\ resourcesLock \in {None} \cup {Some(b) : b \in Binders}
      BY <1>1 DEF LockOK
    <2>2. NEXT_EPHEMERAL_PORT \in FirstPort .. LastPort + Cardinality(Binders) + 1
      <3>1. Wrapping \in SUBSET Binders /\ Binders \in SUBSET Binders
        BY DEF Wrapping
      <3>2. Count(Wrapping) \in Nat /\ Count(Wrapping) <= Count(Binders) /\ Count(Binders) \in Nat
        BY <3>1, ZenonT(30) DEF Counting
      <3>3. /\ NEXT_EPHEMERAL_PORT \in Nat /\ NEXT_EPHEMERAL_PORT >= FirstPort
            /\ NEXT_EPHEMERAL_PORT <= LastPort + 1 + Count(Wrapping)
        BY <1>1 DEF PortsOK, CounterOK
      <3>4. Cardinality(Binders) = Count(Binders)
        BY SizeIsCount, Zenon
      <3> HIDE DEF Count, Wrapping
      <3> QED  BY <3>2, <3>3, <3>4, SetupAssumption
    <2>3. \A b \in Binders : binder[b].pc \in BinderPcs /\ binder[b].stage \in 0 .. Len(Stages)
      BY <1>1, Reached, Zenon DEF Regs, BinderRegs
    <2>4. failed \in BOOLEAN /\ faults \in Nat /\ faulted \in BOOLEAN /\ foreign \in BOOLEAN /\ refused \in BOOLEAN
      BY <1>1 DEF ReasonOK
    <2>5. rx_packets \in Nat /\ imissed \in Nat /\ latency_max \in Latencies \cup {0} /\ sampler \in Samplers
      BY <1>1 DEF LoopsOK, SamplerOK
    <2>6. reporter \in {None} \cup {Some(i) : i \in DOMAIN loops} /\ guard \in {None} \cup {Some(u) : u \in Users}
      BY <1>1, <1>2 DEF JoinOK
    <2>7. \A u \in Users : user[u].pc \in {"idle", "join", "count", "load"}
      BY <1>1, Zenon DEF UsersOK, UserRegs
    <2> QED  BY <1>5, <2>1, <2>2, <2>3, <2>4, <2>5, <2>6, <2>7, Zenon DEF SetupTypeOK, BinderPcs, Samplers
  <1>7. BindFailsOnlyByFault
    BY <1>1 DEF ReasonOK, BindFailsOnlyByFault
  <1>8. InitUndone
    <2>1. \A i \in 2 .. Len(Stages) : Stages[i] \in held => Stages[i - 1] \in held
      <3>1. Len(Stages) = 4 /\ Stages[1] = "eal" /\ Stages[2] = "pool" /\ Stages[3] = "port" /\ Stages[4] = "started"
        BY DEF Stages
      <3>2. /\ "pool" \in held => "eal" \in held
            /\ "port" \in held => "pool" \in held
            /\ "started" \in held => "port" \in held
        <4>1. /\ Upto(0) = {} /\ Upto(1) = {"eal"} /\ Upto(2) = {"eal", "pool"}
              /\ Upto(3) = {"eal", "pool", "port"} /\ Upto(4) = {"eal", "pool", "port", "started"}
          <5>1. 1 .. 0 = {} /\ 1 .. 1 = {1} /\ 1 .. 2 = {1, 2} /\ 1 .. 3 = {1, 2, 3} /\ 1 .. 4 = {1, 2, 3, 4}
            OBVIOUS
          <5> QED  BY <3>1, <5>1, ZenonT(30) DEF Upto
        <4> HIDE DEF Upto
        <4> QED  BY <1>4, <4>1, Zenon
      <3>3. \A i \in 2 .. 4 : (i = 2 /\ i - 1 = 1) \/ (i = 3 /\ i - 1 = 2) \/ (i = 4 /\ i - 1 = 3)
        OBVIOUS
      <3> QED  BY <3>1, <3>2, <3>3, Zenon
    <2>2. DPDK_RESOURCES => held = AllStages
      BY <1>1, <1>3 DEF HeldOK
    <2>3. ASSUME ~DPDK_RESOURCES, resourcesLock = None PROVE held = {} \/ (foreign /\ held = {"eal"})
      <3>1. \A b \in Binders : binder[b].stage = 0
        <4>1. \A b \in Binders : binder[b].pc \notin {"init", "undo"}
          BY <1>1, <2>3, SomeIsOne DEF LockOK
        <4>2. \A b \in Binders : ~(binder[b].stage > 0) /\ binder[b].stage \in 0 .. 4
          BY <1>1, <4>1, Zenon DEF Regs, RegsOK, BinderRegs
        <4>3. \A n \in 0 .. 4 : n > 0 \/ n = 0
          OBVIOUS
        <4> QED  BY <4>2, <4>3, ZenonT(30)
      <3> QED  BY <1>1, <2>3, <3>1, Reached, Zenon DEF HeldOK
    <2> QED  BY <2>1, <2>2, <2>3 DEF InitUndone
  <1>9. EphemeralPortsDistinct
    BY <1>1, <1>2, Zenon DEF EphemeralPortsDistinct, PortsOK
  <1>10. PortsSpread
    BY <1>1, <1>2 DEF PortsSpread, SpreadInv, PortCount
  <1>11. ReportedOnce /\ NicDeltasTelescope
    <2>1. ASSUME NEW i \in 1 .. Len(loops)
          PROVE  /\ loops[i].pc = "start" \/ (loops[i].first + loops[i].reported <=
                      (IF loops[i].pc \in Snapped THEN loops[i].cur ELSE loops[i].prev))
                 /\ loops[i].baseline # None /\ ~loops[i].gap => loops[i].baseline[1] + loops[i].deltas = loops[i].nic[1]
      BY <1>1, Zenon DEF LoopsOK, LoopOK
    <2> QED  BY <1>2, <2>1, Zenon DEF ReportedOnce, NicDeltasTelescope, LoopAt, Snapped
  <1>12. SamplerInBounds /\ LatencyMaxCovers
    <2>1. recv.idx \in 0 .. Capacity - 1
      BY <1>1, Zenon DEF SamplerOK, RecvRegs
    <2>2. recv.idx < Capacity
      BY <2>1, SamplerAssumption
    <2> QED  BY <1>1, <2>2 DEF SamplerOK, SamplerInBounds, LatencyMaxCovers
  <1>13. \A e \in engines : TCP_CONTEXT = <<e>>
    BY <1>1 DEF EngineInv
  <1>14. /\ \A i \in DOMAIN loops : LoopAt(i, "done") \/ reporter = Some(i) \/ guard # None
         /\ \A i, j \in DOMAIN loops : ~LoopAt(i, "done") /\ ~LoopAt(j, "done") => i = j
    BY <1>1, <1>2, Zenon DEF JoinOK, LoopAt
  <1> QED  BY <1>1, <1>6, <1>7, <1>8, <1>9, <1>10, <1>11, <1>12, <1>13, <1>14, Zenon

LOCAL INSTANCE FiniteSetTheorems

(* The Cardinality in the library's theorems.                              *)
LEMMA CardinalityIsCount == \A S : Cardinality(S) = Count(S)
  BY DEF Cardinality, Count

(* The threads that bind can be counted.                                   *)
LEMMA BindersCounted == Counting
  <1>1. IsFiniteSet(Binders)
    BY BindersListed DEF IsFiniteSet
  <1> SUFFICES ASSUME NEW S \in SUBSET Binders
               PROVE  /\ Cardinality(S) \in Nat /\ Cardinality(S) <= Cardinality(Binders)
                      /\ \A b \in Binders \ S : Cardinality(S \cup {b}) = Cardinality(S) + 1
    BY CardinalityIsCount DEF Counting
  <1>2. IsFiniteSet(S) /\ Cardinality(S) <= Cardinality(Binders)
    BY <1>1, FS_Subset
  <1>3. Cardinality(S) \in Nat
    BY <1>2, FS_CardinalityType, Zenon
  <1>4. ASSUME NEW b \in Binders \ S PROVE Cardinality(S \cup {b}) = Cardinality(S) + 1
    BY <1>2, FS_AddElement
  <1> QED  BY <1>2, <1>3, <1>4, Zenon

(* A set whose elements are all the same has one at most.                  *)
LEMMA OneAtMost ==
  ASSUME NEW S, \A x, y \in S : x = y
  PROVE  Count(S) <= 1
  <1>1. CASE S = {}
    <2>1. Cardinality(S) = 0
      BY <1>1, FS_EmptySet
    <2> QED  BY <2>1, CardinalityIsCount
  <1>2. CASE S # {}
    <2>1. PICK x : S = {x}
      BY <1>2
    <2>2. Cardinality(S) = 1
      BY <2>1, FS_Singleton
    <2> QED  BY <2>2, CardinalityIsCount
  <1> QED  BY <1>1, <1>2

(* The process is always in its invariant.                                 *)
LEMMA ProcessIsInv == ProcessSpec => []ProcessInv
  <1>1. ProcessInit => ProcessInv
    <2> SUFFICES ASSUME ProcessInit PROVE ProcessInv
      OBVIOUS
    <2>1. SetupInv /\ PerfInv /\ ContextInv /\ NEXT_EPHEMERAL_PORT = FirstPort
      BY ProcessStarts
    <2>2. CounterOK
      <3>1. Count(Wrapping) \in Nat
        BY BindersCounted DEF Counting, Wrapping
      <3> HIDE DEF Count, Wrapping
      <3> QED  BY <2>1, <3>1, SetupAssumption, SMTT(30) DEF CounterOK
    <2> QED  BY <2>1, <2>2 DEF ProcessInv
  <1>2. ProcessInv /\ [ProcessNext]_Everything => ProcessInv'
    BY BindersCounted, ProcessStepInv
  <1> QED  BY <1>1, <1>2, PTL DEF ProcessSpec

(* A bind fails only when something failed below it or a DpdkBackend was   *)
(* asked for, an initialisation that fails leaves nothing behind, and the  *)
(* plan of the builder fits the NIC.                                       *)
THEOREM BindsAreSound == ProcessSpec => []BindSound
  <1>1. ProcessInv => BindSound
    BY BindersCounted, InvMeans, Zenon DEF BindSound
  <1> QED  BY <1>1, ProcessIsInv, PTL, Zenon

(* Ephemeral ports of UDP sockets and of TCP connects are in their ranges  *)
(* and differ until the range is used up, however many threads ask.        *)
THEOREM EphemeralPortsAreDifferent == ProcessSpec => []EphemeralPortsDiffer
  <1>1. ProcessInv => EphemeralPortsDiffer
    BY BindersCounted, InvMeans, ZenonT(30) DEF EphemeralPortsDiffer
  <1> QED  BY <1>1, ProcessIsInv, PTL

(* A process has one TCP engine, and its socket one reporter thread, which *)
(* is joined before disable_perf_reporting returns.                        *)
THEOREM ThreadsAreSingle == ProcessSpec => []OneThreadEach
  <1>1. ProcessInv => OneThreadEach
    <2> SUFFICES ASSUME ProcessInv PROVE OneThreadEach
      OBVIOUS
    <2> DEFINE running == {i \in DOMAIN loops : ~LoopAt(i, "done")}
    <2>1. /\ \A e \in engines : TCP_CONTEXT = <<e>>
          /\ \A i \in DOMAIN loops : LoopAt(i, "done") \/ reporter = Some(i) \/ guard # None
          /\ \A i, j \in running : i = j
      BY BindersCounted, InvMeans
    <2>2. \A d, e \in engines : d = e
      BY <2>1
    <2>3. Count(engines) <= 1 /\ Count(running) <= 1
      BY <2>1, <2>2, OneAtMost
    <2> QED  BY <2>1, <2>3, SizeIsCount DEF OneThreadEach, OneEngine, ReporterJoined
  <1> QED  BY <1>1, ProcessIsInv, PTL

(* What the reporter prints counts every packet and every drop of the NIC  *)
(* once, its maximum covers the samples since the reset, and the sampler   *)
(* stays in bounds, whatever the receiving thread does between its steps.  *)
THEOREM ReportsCountOnce ==
  ProcessSpec => [](ReportedOnce /\ NicDeltasTelescope /\ SamplerInBounds /\ LatencyMaxCovers)
  <1>1. ProcessInv => ReportedOnce /\ NicDeltasTelescope /\ SamplerInBounds /\ LatencyMaxCovers
    BY BindersCounted, InvMeans
  <1> QED  BY <1>1, ProcessIsInv, PTL, Zenon

=============================================================================
