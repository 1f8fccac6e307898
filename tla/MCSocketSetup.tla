--------------------------- MODULE MCSocketSetup ---------------------------
(***************************************************************************)
(* ProcessSetup on small scenes: threads that bind at once while DPDK and  *)
(* the kernel may fail, and a socket whose reporter is started and stopped *)
(* while packets arrive; and TcpContext, with threads that initialise it   *)
(* at once and others that connect and bind.                               *)
(***************************************************************************)
EXTENDS ProcessSetup

v4 == [api |-> "bind_v4", port |-> 0]
v4Fixed == [api |-> "bind_v4", port |-> 9]
v6 == [api |-> "bind_v6", port |-> 0]
compat == [api |-> "compat", port |-> 0]
backend(type, iface) == [api |-> "backend", port |-> 0, type |-> type, iface |-> iface]
builder(rx_queues) == [api |-> "builder", port |-> 0, rx_queues |-> rx_queues]

Quiet == [calls |-> [u \in Users |-> << >>], bursts |-> 0, drops |-> 0, failures |-> 0, stats |-> TRUE]
Scene(binds, faultsLeft, perf) == [binds |-> binds, faults |-> faultsLeft, perf |-> perf]

Binding == {
  Scene([a |-> <<v4, compat>>, b |-> <<v6>>, c |-> <<backend("RawSocket", TRUE)>>], 1, Quiet),
  Scene([a |-> <<v4, v4Fixed>>, b |-> <<compat, v4>>, c |-> <<builder(Some(0))>>], 2, Quiet),
  Scene([a |-> <<backend("Auto", TRUE)>>, b |-> <<compat>>, c |-> <<backend("RawSocketMmap", TRUE)>>], 2, Quiet),
  Scene([a |-> <<backend("Auto", FALSE), v4>>, b |-> <<backend("Dpdk", TRUE)>>, c |-> << >>], 1, Quiet)}

Reporting == {
  Scene([a |-> <<builder(None)>>, b |-> << >>, c |-> << >>], 0,
        [Quiet EXCEPT !.calls = [u |-> <<"disable">>, v |-> << >>], !.bursts = 3, !.stats = FALSE]),
  Scene([a |-> <<v4>>, b |-> << >>, c |-> << >>], 0,
        [Quiet EXCEPT !.calls = [u |-> <<"snapshot", "snapshot">>, v |-> << >>], !.bursts = 4]),
  Scene([a |-> <<builder(Some(9))>>, b |-> << >>, c |-> << >>], 0,
        [Quiet EXCEPT !.calls = [u |-> <<"enable", "disable">>, v |-> <<"disable", "enable">>],
                      !.drops = 2, !.failures = 1]),
  Scene([a |-> <<v4>>, b |-> << >>, c |-> << >>], 0,
        [Quiet EXCEPT !.calls = [u |-> <<"enable", "disable">>, v |-> <<"enable", "snapshot">>], !.bursts = 1, !.drops = 1])}

NoCalls == [t \in Callers |-> << >>]

initTcp(mac) == [op |-> "init", gateway_mac |-> mac]
connect(family, timeout) == [op |-> "connect", family |-> family, timeout |-> timeout]
listen == [op |-> "listen", family |-> "v4"]
Contexts == {
  [p |-> <<initTcp(TRUE), connect("v4", FALSE)>>, q |-> <<initTcp(TRUE), connect("v4", TRUE), listen>>,
   r |-> <<connect("v4", FALSE), connect("v4", FALSE)>>],
  [p |-> <<initTcp(FALSE), connect("v4", FALSE)>>, q |-> <<initTcp(TRUE), listen>>,
   r |-> <<connect("v6", FALSE), initTcp(TRUE), connect("v4", FALSE)>>]}

Idle == Scene([b \in Binders |-> << >>], 0, Quiet)
Init ==
  \/ \E s \in Binding \cup Reporting :
       SetupInit(s.binds, s.faults) /\ PerfInit(s.perf) /\ ContextInit(NoCalls, 0) /\ next_port = RANGE_START
  \/ \E c \in Contexts :
       SetupInit(Idle.binds, 0) /\ PerfInit(Idle.perf) /\ ContextInit(c, 1)
Spec == Init /\ [][ProcessNext]_Everything /\ SetupFairness /\ ContextFairness

\* The scenes are among the ones that ProcessSpec allows.
ASSUME ScenesAssumption ==
  /\ \A s \in Binding \cup Reporting : s.binds \in [Binders -> Seq(BindCalls)] /\ s.perf \in PerfPlans
  /\ \A c \in Contexts : c \in [Callers -> Seq(TcpCalls)]

Ab == {"a", "b", "c"}
Uv == {"u", "v"}
Pqr == {"p", "q", "r"}
NoQueues == None
=============================================================================
