--------------------------- MODULE StreamIoSteps ---------------------------
(***************************************************************************)
(* The inductive invariant of StreamIo and the steps of the application's  *)
(* threads, for any number of threads, any scene that StreamAssumption     *)
(* allows and rings of any capacity.  StreamIoProofs adds the steps of the *)
(* engine's thread and states the theorems.                                *)
(***************************************************************************)
EXTENDS StreamIo, TLAPS

\* The values of the state's variables, as sets that name every case.
States == {"Absent", "SynSent", "SynReceived", "Established", "CloseWait", "FinWait1", "FinWait2",
           "Closing", "TimeWait", "LastAck"}
EnginePcs == {"top", "asleep", "notified", "try_again", "frames", "commands", "tick", "finish"}
OpNames == {"write_rx", "set_eof", "latch_error", "notify_all", "wake_read", "wake_write", "respond",
            "deliver_accept", "ack", "drain", "fin_if_flushed", "transmit"}
Results == {"Ok", "ConnectionRefused", "ConnectionReset", "ConnectionAborted", "TimedOut"}
Ops == [op : OpNames, arg : Results \cup {None}]
Kinds == {"Shutdown", "SetOption", "Close", "connect", "accept"}
Commands == [kind : {"Shutdown"}, how : {"Read", "Write"}] \cup [kind : {"SetOption"}]
              \cup [kind : {"Close"}, linger : Seq(STRING)] \cup [kind : {"connect", "accept"}]
Ring == [head : Nat, tail : Nat]
Regs == [pc : Steps, call : AllCalls \cup {None}, base : Nat, n : Nat, resched : BOOLEAN,
         then : {"idle", "drop_ref", "await"}]

\* Every variable has its type.
TypeInv ==
  /\ rx_ring \in Ring /\ tx_ring \in Ring
  /\ eof \in BOOLEAN /\ flag \in BOOLEAN /\ owed \in BOOLEAN
  /\ lock \in [Mutexes -> Threads \cup {Nobody}]
  /\ parked \in SUBSET Threads
  /\ waker \in [{"read", "write"} -> Threads \cup {Nobody}]
  /\ app_refcount \in Int /\ linger \in Seq(STRING)
  /\ cmds \in Seq(Commands) /\ sent \in Seq(Kinds)
  /\ tcb \in [state : States, fin_pending : BOOLEAN, unsent : Nat, flight : Nat,
              accept : {"none", "waiting", "queued"}]
  /\ eng \in [pc : EnginePcs, ops : Seq(Ops)]
  /\ scene \in Scenes /\ todo \in [Threads -> Seq(AllCalls)] /\ th \in [Threads -> Regs]
  /\ consumed \in Seq(Nat) /\ accepted \in Nat

\* What a thread's step says about the call it is in.  Moving: the steps of a
\* transfer, which hold the direction's mutex.
Moving == {"error", "ring", "publish", "eof", "wait", "recheck", "parked", "pending"}
RegOK(r) ==
  /\ r.pc # "idle" => r.call \in AllCalls
  /\ r.pc \in Calls => r.pc = r.call.op
  /\ r.pc \in Moving => (Reads(r.call) \/ Writes(r.call)) /\ r.then = "idle"
  /\ r.pc = "eof" => Reads(r.call)
  /\ r.pc \in {"recheck", "parked"} => r.call.op \in {"read", "write"}
  /\ r.pc = "pending" => Polls(r.call) /\ r.resched = FALSE
  /\ r.pc \in {"drop_ref", "close"} => r.call.op = "drop"
  /\ r.pc = "await" => IsRequest(r.call)
  /\ r.pc \in {"signal", "notify_one"} =>
       /\ ~Reads(r.call) /\ r.call.op # "into_split"
       /\ IsRequest(r.call) => r.then = "await"
       /\ r.then = "await" => IsRequest(r.call)
       /\ r.then = "drop_ref" => r.call.op = "drop"
  /\ r.pc \notin {"signal", "notify_one", "drop_ref", "await", "close"} => r.then = "idle"

\* A thread inside a call; the thread whose drop found the last reference and
\* sends Close; and the mutexes a thread holds at its step.
Busy(r) == r.pc # "idle"
ClosingRec(r) ==
  r.call.op = "drop" /\ (r.pc = "close" \/ (r.pc \in {"signal", "notify_one"} /\ r.then = "idle"))
Holds(r, m) == IF m = "notify" THEN r.pc = "recheck" ELSE r.pc \notin {"idle", m} /\ r.call.op = m

\* Each mutex is held by exactly the thread whose step is inside it.
LockInv ==
  \A t \in Threads :
    /\ RegOK(th[t])
    /\ \A m \in Mutexes : lock[m] = t <=> Holds(th[t], m)

\* The handles that can be alive together: a stream, or the halves it was split into.
Lives == {{}, {"stream"}, {"read_half"}, {"write_half"}, {"read_half", "write_half"}}

\* Every call is one the scene plans, on a live handle; nobody else uses, or will
\* use, a handle that a thread is dropping or splitting.
CallInv ==
  /\ live \in Lives
  /\ \A t \in Threads : Busy(th[t]) => th[t].call \in Planned(scene, t)
  /\ \A t \in Threads : \A i \in DOMAIN todo[t] : todo[t][i] \in Planned(scene, t)
  /\ \A t \in Threads : Busy(th[t]) /\ th[t].call.on \in Objects /\ ~ClosingRec(th[t]) => th[t].call.on \in live
  /\ \A t, u \in Threads :
       t # u /\ Busy(th[t]) /\ th[t].call.op \in {"drop", "into_split"} /\ ~ClosingRec(th[t]) =>
         /\ Busy(th[u]) => th[u].call.on # th[t].call.on
         /\ \A i \in DOMAIN todo[u] : todo[u][i].on # th[t].call.on

\* At most one connect or accept is outstanding, and no handle exists before it ends.
RequestInv ==
  /\ \A t, u \in Threads : \A i \in DOMAIN todo[t], j \in DOMAIN todo[u] :
       IsRequest(todo[t][i]) /\ IsRequest(todo[u][j]) => t = u /\ i = j
  /\ \A t, u \in Threads : Busy(th[t]) /\ IsRequest(th[t].call) =>
       /\ \A i \in DOMAIN todo[u] : ~IsRequest(todo[u][i])
       /\ Busy(th[u]) /\ IsRequest(th[u].call) => t = u
  /\ \A t \in Threads : (Busy(th[t]) /\ IsRequest(th[t].call)) \/ (\E i \in DOMAIN todo[t] : IsRequest(todo[t][i]))
       => live = {} /\ app_refcount = 1

\* app_refcount counts the handles and the reference that an answered request
\* owes; Close is sent once, last, by the thread that took the count to 0.
CountInv ==
  /\ app_refcount \in 0..2
  /\ owed => live = {} /\ app_refcount = 1
  /\ live # {} => app_refcount = IF live = {"read_half", "write_half"} THEN 2 ELSE 1
  /\ \A t \in Threads : Busy(th[t]) /\ ClosingRec(th[t]) => live = {} /\ app_refcount = 0
  /\ \A t, u \in Threads : th[t].pc = "close" /\ Busy(th[u]) /\ ClosingRec(th[u]) => t = u
  /\ \A t \in Threads, i \in DOMAIN sent : sent[i] = "Close" => th[t].pc # "close"
  /\ \A i \in DOMAIN sent : sent[i] = "Close" => i = Len(sent) /\ live = {} /\ app_refcount = 0

\* A ring holds at most Capacity bytes; a thread about to publish read the index
\* that only it moves; the bytes consumed are the stream's, in order.
RingOK(r) == r.tail <= r.head /\ r.head - r.tail <= Capacity
PublishOK(r) ==
  r.pc = "publish" => IF Reads(r.call) THEN r.base = rx_ring.tail /\ r.n <= Filled(rx_ring)
                      ELSE r.base = tx_ring.head /\ r.n <= Space(tx_ring)
RingInv ==
  /\ RingOK(rx_ring) /\ RingOK(tx_ring)
  /\ Len(consumed) = rx_ring.tail /\ \A i \in DOMAIN consumed : consumed[i] = i
  /\ accepted = tx_ring.head
  /\ \A t \in Threads : PublishOK(th[t])

\* The engine's calls still to make: whatever makes a thread's wait end is
\* followed by all three ways of waking it, and some calls only come last.
Signals == {"write_rx", "set_eof", "latch_error"}
Lasts == {"deliver_accept", "ack", "transmit"}
OpsOK(ops) ==
  \A i \in DOMAIN ops :
    /\ ops[i].op \in Signals => \A w \in {"notify_all", "wake_read", "wake_write"} :
                                  \E j \in DOMAIN ops : j > i /\ ops[j].op = w
    /\ ops[i].op \in Lasts => i = Len(ops)

\* Nobody sleeps on what has already come: a parked thread whose wait is over is
\* about to be notified, and a poll that has stored its waker, and will not be
\* polled again, is about to be woken for what came after it looked.
WakeOf(c) == IF Reads(c) THEN "wake_read" ELSE "wake_write"
Due(c) == error # None \/ (Reads(c) /\ (Filled(rx_ring) > 0 \/ eof))
PollOK(t, r) ==
  r.pc \in {"error", "ring", "publish", "eof", "wait", "pending"} /\ Polls(r.call) /\ ~r.resched =>
    /\ waker[IF Reads(r.call) THEN "read" ELSE "write"] = t
    /\ r.pc # "error" /\ error # None => Coming(WakeOf(r.call))
    /\ r.pc \in {"eof", "wait", "pending"} /\ Reads(r.call) /\ Filled(rx_ring) > 0 => Coming("wake_read")
    /\ r.pc \in {"wait", "pending"} /\ Reads(r.call) /\ eof => Coming("wake_read")
WakeInv ==
  /\ OpsOK(eng.ops)
  /\ \A t \in parked : th[t].pc = "parked" /\ (Due(th[t].call) => Coming("notify_all"))
  /\ \A t \in Threads : PollOK(t, th[t])

\* What was sent to the engine is signalled: before it sleeps, the engine finds
\* the flag raised, or a thread about to raise it, whenever work is left.
Signalling == flag \/ \E t \in Threads : th[t].pc = "signal"
SigInv ==
  /\ eng.pc \in {"top", "asleep", "notified", "try_again", "tick"} => eng.ops = << >>
  /\ eng.pc \in {"tick", "finish", "top"} /\ cmds # << >> => Signalling
  /\ eng.pc = "top" \/ (eng.pc = "finish" /\ ~Coming("drain")) =>
       (SendsData(tcb.state) /\ Filled(tx_ring) > 0 => Signalling)
  /\ SignalNotLost

\* The inductive invariant.
HandleInv == CallInv /\ RequestInv /\ CountInv
StreamInv == TypeInv /\ LockInv /\ HandleInv /\ RingInv /\ WakeInv /\ SigInv

-----------------------------------------------------------------------------
(* What a call is, and how a step moves a thread. *)

\* The fields that a call of each kind has.
LEMMA CallTypes ==
  ASSUME NEW c \in AllCalls
  PROVE  /\ c.op \in Calls
         /\ Reads(c) => c.len \in Nat \ {0} /\ c.on \in {"stream", "read_half"}
         /\ Writes(c) => c.len \in Nat \ {0} /\ c.on \in {"stream", "write_half"}
         /\ c.op = "shutdown" => c.how \in {"Read", "Write"} /\ c.on \in Objects
         /\ c.op = "set_option" => c.linger \in Seq(STRING) /\ c.on \in Objects
         /\ c.op \in {"drop", "into_split"} => c.on \in Objects
         /\ c.op = "into_split" => c.on = "stream"
         /\ IsRequest(c) => c.on = Nobody
<1>1. CASE c \in Transfers({"read", "poll_read"}, {"stream", "read_half"})
  BY <1>1 DEF Transfers, Calls, Reads, Writes, IsRequest
<1>2. CASE c \in Transfers({"write", "poll_write"}, {"stream", "write_half"})
  BY <1>2 DEF Transfers, Calls, Reads, Writes, IsRequest
<1>3. CASE c \in [op : {"shutdown"}, on : Objects, how : {"Read", "Write"}]
  BY <1>3 DEF Calls, Reads, Writes, IsRequest
<1>4. CASE c \in [op : {"set_option"}, on : {"stream"}, linger : Seq(STRING)]
  BY <1>4 DEF Calls, Reads, Writes, IsRequest, Objects
<1>5. CASE c \in [op : {"into_split"}, on : {"stream"}]
  BY <1>5 DEF Calls, Reads, Writes, IsRequest, Objects
<1>6. CASE c \in [op : {"drop"}, on : Objects]
  BY <1>6 DEF Calls, Reads, Writes, IsRequest
<1>7. CASE c \in [op : {"connect", "accept"}, on : {Nobody}, timeout : BOOLEAN]
  BY <1>7 DEF Calls, Reads, Writes, IsRequest
<1> QED BY <1>1, <1>2, <1>3, <1>4, <1>5, <1>6, <1>7, Zenon DEF AllCalls

\* A step of thread t leaves it with the registers r.
Moves(t, r) == th' = [th EXCEPT ![t] = r]

\* What such a step changes.
LEMMA MoveFacts ==
  ASSUME TypeInv, NEW t \in Threads, NEW r \in Regs, Moves(t, r)
  PROVE  th' \in [Threads -> Regs] /\ th'[t] = r /\ \A u \in Threads \ {t} : th'[u] = th[u]
<1> USE DEF TypeInv, Moves
<1>1. th \in [Threads -> Regs] OBVIOUS
<1> QED BY <1>1

\* Idle is where a thread is between two calls.
LEMMA IdleReg == Idle \in Regs /\ Idle.pc = "idle" /\ Idle.then = "idle" /\ Idle.call = None /\ RegOK(Idle)
  BY DEF Idle, Regs, Steps, Calls, RegOK, Moving, None

\* Goto changes where a thread is.
LEMMA GotoMoves ==
  ASSUME TypeInv, NEW t \in Threads, NEW p \in Steps, Goto(t, p)
  PROVE  \E r \in Regs : /\ Moves(t, r) /\ r.pc = p /\ r.call = th[t].call /\ r.base = th[t].base
                         /\ r.n = th[t].n /\ r.resched = th[t].resched /\ r.then = th[t].then
<1>1. th \in [Threads -> Regs] BY DEF TypeInv
<1>2. th[t] \in Regs BY <1>1
<1> DEFINE r == [th[t] EXCEPT !.pc = p]
<1>3. r \in Regs BY <1>2 DEF Regs
<1>4. Moves(t, r) BY <1>1, <1>2 DEF Moves, Goto
<1>5. /\ r.pc = p /\ r.call = th[t].call /\ r.base = th[t].base
      /\ r.n = th[t].n /\ r.resched = th[t].resched /\ r.then = th[t].then
  BY <1>2 DEF Regs
<1> QED BY <1>3, <1>4, <1>5, Zenon

\* Sending a command takes a thread to EngineWakeup::signal.
LEMMA SendMoves ==
  ASSUME TypeInv, NEW t \in Threads, NEW cmd, NEW n \in {"idle", "drop_ref", "await"}, Send(t, cmd, n)
  PROVE  \E r \in Regs : /\ Moves(t, r) /\ r.pc = "signal" /\ r.call = th[t].call /\ r.then = n
                         /\ r.resched = th[t].resched
<1>1. th \in [Threads -> Regs] BY DEF TypeInv
<1>2. th[t] \in Regs BY <1>1
<1> DEFINE r == [th[t] EXCEPT !.pc = "signal", !.then = n]
<1>3. r \in Regs BY <1>2, Zenon DEF Regs, Steps
<1>4. Moves(t, r) BY <1>1, <1>2, Zenon DEF Moves, Send
<1>5. r.pc = "signal" /\ r.call = th[t].call /\ r.then = n /\ r.resched = th[t].resched
  BY <1>2 DEF Regs
<1> QED BY <1>3, <1>4, <1>5, Zenon

-----------------------------------------------------------------------------
(* The mutexes. *)

\* A step keeps the mutexes in order when the thread that takes it does.
LEMMA LockMove ==
  ASSUME TypeInv, LockInv, NEW t \in Threads, NEW r \in Regs, Moves(t, r), RegOK(r),
         \A m \in Mutexes : lock'[m] = t <=> Holds(r, m),
         \A m \in Mutexes : \A u \in Threads \ {t} : lock'[m] = u <=> lock[m] = u
  PROVE  LockInv'
<1>1. th'[t] = r /\ \A u \in Threads \ {t} : th'[u] = th[u] BY MoveFacts, Zenon
<1> SUFFICES ASSUME NEW u \in Threads
             PROVE  RegOK(th'[u]) /\ \A m \in Mutexes : lock'[m] = u <=> Holds(th'[u], m)
  BY Zenon DEF LockInv, RegOK, Holds, Reads, Writes, Polls, IsRequest
<1>2. CASE u = t BY <1>1, <1>2, Zenon
<1>3. CASE u # t BY <1>1, <1>3, Zenon DEF LockInv
<1> QED BY <1>2, <1>3, Zenon

\* A thread that takes or gives up no mutex.
LEMMA LockSame ==
  ASSUME TypeInv, LockInv, NEW t \in Threads, NEW r \in Regs, Moves(t, r), RegOK(r),
         lock' = lock, \A m \in Mutexes : Holds(r, m) <=> Holds(th[t], m)
  PROVE  LockInv'
<1>1. \A m \in Mutexes : lock'[m] = t <=> Holds(r, m) BY Zenon DEF LockInv
<1>2. \A m \in Mutexes : \A u \in Threads \ {t} : lock'[m] = u <=> lock[m] = u BY Zenon
<1> QED BY <1>1, <1>2, LockMove, Zenon

\* A thread that gives up the mutexes ms.
LEMMA LockReleased ==
  ASSUME TypeInv, LockInv, NEW t \in Threads, NEW r \in Regs, Moves(t, r), RegOK(r),
         NEW ms, Release(ms), \A m \in Mutexes : m \in ms => Holds(th[t], m),
         \A m \in Mutexes : Holds(r, m) <=> Holds(th[t], m) /\ m \notin ms
  PROVE  LockInv'
<1>1. \A m \in Mutexes : lock'[m] = IF m \in ms THEN Nobody ELSE lock[m] BY DEF Release
<1>2. Nobody \notin Threads BY StreamAssumption
<1>3. \A m \in Mutexes : lock[m] = t <=> Holds(th[t], m) BY Zenon DEF LockInv
<1>4. \A m \in Mutexes : lock'[m] = t <=> Holds(r, m) BY <1>1, <1>2, <1>3
<1>5. \A m \in Mutexes : m \in ms => lock[m] = t BY <1>3
<1>6. \A m \in Mutexes : \A u \in Threads \ {t} : lock'[m] = u <=> lock[m] = u
  BY <1>1, <1>2, <1>5
<1> QED BY <1>4, <1>6, LockMove, Zenon

\* A thread that takes the mutex m.
LEMMA LockAcquired ==
  ASSUME TypeInv, LockInv, NEW t \in Threads, NEW r \in Regs, Moves(t, r), RegOK(r),
         NEW m \in Mutexes, Free(m), Acquire(t, m),
         \A k \in Mutexes : Holds(r, k) <=> Holds(th[t], k) \/ k = m
  PROVE  LockInv'
<1>1. \A k \in Mutexes : lock'[k] = IF k = m THEN t ELSE lock[k] BY DEF Acquire, TypeInv
<1>2. Nobody \notin Threads /\ lock[m] = Nobody BY StreamAssumption DEF Free
<1>3. \A k \in Mutexes : lock[k] = t <=> Holds(th[t], k) BY Zenon DEF LockInv
<1>4. \A k \in Mutexes : lock'[k] = t <=> Holds(r, k) BY <1>1, <1>2, <1>3
<1>5. \A k \in Mutexes : \A u \in Threads \ {t} : lock'[k] = u <=> lock[k] = u
  BY <1>1, <1>2
<1> QED BY <1>4, <1>5, LockMove, Zenon

\* A step that changes no mutex and no thread.
LEMMA LockStays == ASSUME LockInv, th' = th, lock' = lock PROVE LockInv'
<1> SUFFICES ASSUME NEW u \in Threads
             PROVE  RegOK(th'[u]) /\ \A m \in Mutexes : lock'[m] = u <=> Holds(th'[u], m)
  BY Zenon DEF LockInv, RegOK, Holds, Reads, Writes, Polls, IsRequest
<1> QED BY Zenon DEF LockInv

-----------------------------------------------------------------------------
(* The handles. *)

\* Registers r continue the call of registers q.
SameCall(r, q) ==
  /\ r.call = q.call
  /\ ClosingRec(r) <=> ClosingRec(q)
  /\ r.pc = "close" => q.pc = "close"

\* Threads that are in a call as before, or have returned, use no object they did not.
LEMMA CallMove ==
  ASSUME TypeInv, CallInv, RequestInv, NEW t \in Threads, NEW r \in Regs, Moves(t, r),
         UNCHANGED <<scene, todo, live, app_refcount>>,
         r.pc = "idle" \/ (Busy(th[t]) /\ SameCall(r, th[t]))
  PROVE  /\ CallInv' /\ RequestInv'
         /\ \A u \in Threads : th'[u].pc = "idle" \/ (th[u].pc # "idle" /\ SameCall(th'[u], th[u]))
<1>1. th'[t] = r /\ \A u \in Threads \ {t} : th'[u] = th[u] BY MoveFacts, Zenon
<1> DEFINE Keeps(u) == th'[u].pc = "idle" \/ (th[u].pc # "idle" /\ SameCall(th'[u], th[u]))
<1>2. \A u \in Threads : Keeps(u)
  <2> SUFFICES ASSUME NEW u \in Threads PROVE Keeps(u) OBVIOUS
  <2>1. CASE u = t BY <1>1, <2>1 DEF Busy
  <2>2. CASE u # t BY <1>1, <2>2 DEF SameCall
  <2> QED BY <2>1, <2>2
<1>3. CallInv'
  <2>1. \A u \in Threads : Planned(scene, u)' = Planned(scene, u) BY Zenon DEF Planned
  <2>2. live' \in Lives /\ \A u \in Threads : \A i \in DOMAIN todo'[u] : todo'[u][i] \in Planned(scene, u)
    BY Zenon DEF CallInv
  <2>3. \A u \in Threads : Busy(th'[u]) => th'[u].call \in Planned(scene, u)
    BY <1>2, Zenon DEF CallInv, Busy, SameCall
  <2>4. \A u \in Threads : Busy(th'[u]) /\ th'[u].call.on \in Objects /\ ~ClosingRec(th'[u])
                             => th'[u].call.on \in live'
    BY <1>2, Zenon DEF CallInv, Busy, SameCall
  <2>5. ASSUME NEW u \in Threads, NEW v \in Threads, u # v,
               Busy(th'[u]), th'[u].call.op \in {"drop", "into_split"}, ~ClosingRec(th'[u])
        PROVE  /\ Busy(th'[v]) => th'[v].call.on # th'[u].call.on
               /\ \A i \in DOMAIN todo'[v] : todo'[v][i].on # th'[u].call.on
    <3>1. Busy(th[u]) /\ th'[u].call = th[u].call /\ ~ClosingRec(th[u])
      BY <1>2, <2>5, Zenon DEF Busy, SameCall
    <3>2. Busy(th'[v]) => Busy(th[v]) /\ th'[v].call = th[v].call BY <1>2, Zenon DEF Busy, SameCall
    <3>3. /\ Busy(th[v]) => th[v].call.on # th[u].call.on
          /\ \A i \in DOMAIN todo[v] : todo[v][i].on # th[u].call.on
      BY <3>1, <2>5, Zenon DEF CallInv
    <3> QED BY <3>1, <3>2, <3>3, Zenon
  <2> QED BY <2>1, <2>2, <2>3, <2>4, <2>5, Zenon DEF CallInv, Busy, ClosingRec
<1>4. RequestInv'
  <2>1. \A u \in Threads : Busy(th'[u]) /\ IsRequest(th'[u].call) => Busy(th[u]) /\ IsRequest(th[u].call)
    BY <1>2, Zenon DEF Busy, SameCall
  <2> QED BY <2>1 DEF RequestInv, Busy, IsRequest
<1> QED BY <1>2, <1>3, <1>4, Zenon

\* The same, when no command is sent.
LEMMA HandleMove ==
  ASSUME TypeInv, HandleInv, NEW t \in Threads, NEW r \in Regs, Moves(t, r),
         UNCHANGED <<scene, todo, live, owed, sent, app_refcount>>,
         r.pc = "idle" \/ (Busy(th[t]) /\ SameCall(r, th[t]))
  PROVE  HandleInv'
<1>1. CallInv /\ RequestInv /\ CountInv BY Zenon DEF HandleInv
<1>2. /\ CallInv' /\ RequestInv'
      /\ \A u \in Threads : th'[u].pc = "idle" \/ (th[u].pc # "idle" /\ SameCall(th'[u], th[u]))
  BY <1>1, CallMove, Zenon
<1>3. CountInv' BY <1>1, <1>2, Zenon DEF CountInv, Busy, ClosingRec, SameCall
<1> QED BY <1>2, <1>3, Zenon DEF HandleInv

\* A thread sends a command about a connection that nobody has closed, or the last one.
LEMMA HandleSend ==
  ASSUME StreamInv, NEW t \in Threads, NEW r \in Regs, Moves(t, r), r.pc = "signal", Busy(th[t]),
         NEW k, sent' = Append(sent, k), UNCHANGED <<scene, todo, live, app_refcount>>,
         SameCall(r, th[t]), k = "Close" <=> th[t].pc = "close",
         ClosingRec(th[t]) => th[t].pc = "close",
         owed' = owed \/ IsRequest(th[t].call), th[t].call.on \in Objects \/ IsRequest(th[t].call)
  PROVE  HandleInv'
<1>1. CallInv /\ RequestInv /\ CountInv /\ TypeInv BY Zenon DEF StreamInv, HandleInv
<1>2. /\ CallInv' /\ RequestInv'
      /\ \A u \in Threads : th'[u].pc = "idle" \/ (th[u].pc # "idle" /\ SameCall(th'[u], th[u]))
  BY <1>1, CallMove, Zenon
<1>3. th'[t] = r /\ \A u \in Threads \ {t} : th'[u] = th[u] BY <1>1, MoveFacts, Zenon
<1>4. th[t].pc # "close" => live # {} \/ app_refcount = 1
  <2>1. ASSUME th[t].pc # "close" PROVE live # {} \/ app_refcount = 1
    <3>1. CASE IsRequest(th[t].call) BY <1>1, <3>1, Zenon DEF RequestInv
    <3>2. CASE ~IsRequest(th[t].call)
      <4>1. th[t].call.on \in live BY <1>1, <2>1, <3>2, Zenon DEF CallInv
      <4> QED BY <4>1
    <3> QED BY <3>1, <3>2, Zenon
  <2> QED BY <2>1
<1>5. \A i \in DOMAIN sent : sent[i] # "Close" BY <1>1, <1>4 DEF CountInv
<1>6. /\ sent \in Seq(Kinds) /\ Len(sent) \in Nat
      /\ \A i \in DOMAIN sent' : sent'[i] = "Close" => k = "Close" /\ i = Len(sent')
  <2>1. sent \in Seq(Kinds) BY <1>1 DEF TypeInv
  <2>2. sent' = Append(sent, k) OBVIOUS
  <2> QED BY <2>1, <2>2, <1>5
<1>7. k = "Close" => live = {} /\ app_refcount = 0 /\ \A u \in Threads : th[u].pc = "close" => u = t
  <2>1. th[t].pc = "close" => Busy(th[t]) /\ ClosingRec(th[t])
    <3>1. RegOK(th[t]) BY DEF StreamInv, LockInv
    <3> QED BY <3>1 DEF RegOK, ClosingRec, Busy
  <2>2. \A u \in Threads : th[u].pc = "close" => Busy(th[u]) /\ ClosingRec(th[u])
    <3> TAKE u \in Threads
    <3>1. RegOK(th[u]) BY DEF StreamInv, LockInv
    <3> QED BY <3>1 DEF RegOK, ClosingRec, Busy
  <2> QED BY <1>1, <2>1, <2>2, Zenon DEF CountInv
<1>8. CountInv'
  <2>1. app_refcount' \in 0..2 /\ (live' # {} => app_refcount' = IF live' = {"read_half", "write_half"} THEN 2 ELSE 1)
    BY <1>1, Zenon DEF CountInv
  <2>2. owed' => live' = {} /\ app_refcount' = 1
    <3>1. IsRequest(th[t].call) => live = {} /\ app_refcount = 1 BY <1>1, Zenon DEF RequestInv
    <3>2. owed => live = {} /\ app_refcount = 1 BY <1>1, Zenon DEF CountInv
    <3> QED BY <3>1, <3>2, Zenon
  <2>3. \A u \in Threads : Busy(th'[u]) /\ ClosingRec(th'[u]) => live' = {} /\ app_refcount' = 0
    BY <1>1, <1>2, Zenon DEF CountInv, Busy, SameCall
  <2>4. \A u, v \in Threads : th'[u].pc = "close" /\ Busy(th'[v]) /\ ClosingRec(th'[v]) => u = v
    BY <1>1, <1>2, Zenon DEF CountInv, Busy, SameCall
  <2>5. \A u \in Threads, i \in DOMAIN sent' : sent'[i] = "Close" => th'[u].pc # "close"
    <3>1. \A u \in Threads : th'[u].pc = "close" => u # t /\ th[u].pc = "close" BY <1>3
    <3> QED BY <1>6, <1>7, <3>1, Zenon
  <2>6. \A i \in DOMAIN sent' : sent'[i] = "Close" => i = Len(sent') /\ live' = {} /\ app_refcount' = 0
    BY <1>6, <1>7, Zenon
  <2> QED BY <2>1, <2>2, <2>3, <2>4, <2>5, <2>6, Zenon DEF CountInv, Busy, ClosingRec
<1> QED BY <1>2, <1>8, Zenon DEF HandleInv

\* A step that changes none of it.
LEMMA HandleStays ==
  ASSUME HandleInv, UNCHANGED <<th, scene, todo, live, owed, sent, app_refcount>>
  PROVE  HandleInv'
<1>1. CallInv' BY DEF HandleInv, CallInv, Planned, Busy, ClosingRec
<1>2. RequestInv' BY DEF HandleInv, RequestInv, Busy, IsRequest
<1>3. CountInv' BY DEF HandleInv, CountInv, Busy, ClosingRec
<1> QED BY <1>1, <1>2, <1>3 DEF HandleInv

-----------------------------------------------------------------------------
(* The rings. *)

\* A thread that moves without touching the rings.
LEMMA RingMove ==
  ASSUME TypeInv, RingInv, NEW t \in Threads, NEW r \in Regs, Moves(t, r), PublishOK(r),
         UNCHANGED <<rx_ring, tx_ring, consumed, accepted>>
  PROVE  RingInv'
<1>1. th'[t] = r /\ \A u \in Threads \ {t} : th'[u] = th[u] BY MoveFacts, Zenon
<1>2. \A q : PublishOK(q)' <=> PublishOK(q) BY Zenon DEF PublishOK, Reads, Filled, Space
<1>3. ASSUME NEW u \in Threads PROVE PublishOK(th[u])'
  <2>1. PublishOK(th'[u]) BY <1>1, Zenon DEF RingInv
  <2> QED BY <2>1, Zenon DEF PublishOK, Reads, Filled, Space
<1>4. RingOK(rx_ring)' /\ RingOK(tx_ring)' BY Zenon DEF RingInv, RingOK
<1> QED BY <1>3, <1>4, Zenon DEF RingInv

\* A step that changes neither a ring nor a thread.
LEMMA RingStays ==
  ASSUME RingInv, UNCHANGED <<th, rx_ring, tx_ring, consumed, accepted>>
  PROVE  RingInv'
  BY Zenon DEF RingInv, RingOK, PublishOK, Reads, Filled, Space

-----------------------------------------------------------------------------
(* The wake-ups. *)

\* The calls the engine still has to make stay in order.
LEMMA OpsStay == ASSUME WakeInv, eng'.ops = eng.ops PROVE OpsOK(eng.ops)'
<1>1. OpsOK(eng'.ops) BY Zenon DEF WakeInv
<1> QED BY <1>1, Zenon DEF OpsOK

\* A task's waker stays registered while the engine and the wakers do nothing.
LEMMA PollStays ==
  ASSUME UNCHANGED <<error, eof, rx_ring, waker>>, eng'.ops = eng.ops, NEW u, NEW q, PollOK(u, q)
  PROVE  PollOK(u, q)'
  BY Zenon DEF PollOK, Coming, Filled, Reads, Polls, WakeOf

\* A thread that moves without waking anyone.
LEMMA WakeMove ==
  ASSUME TypeInv, WakeInv, NEW t \in Threads, NEW r \in Regs, Moves(t, r), th[t].pc # "parked",
         UNCHANGED <<error, eof, rx_ring, waker, parked>>, eng'.ops = eng.ops, PollOK(t, r)
  PROVE  WakeInv'
<1>1. th'[t] = r /\ \A u \in Threads \ {t} : th'[u] = th[u] BY MoveFacts, Zenon
<1>2. ASSUME NEW u \in Threads PROVE PollOK(u, th[u])'
  <2>1. PollOK(u, th'[u]) BY <1>1, Zenon DEF WakeInv
  <2>2. \A q : PollOK(u, q) => PollOK(u, q)' BY PollStays, Zenon
  <2>3. \A q : q = th'[u] => PollOK(u, q)' BY <2>1, <2>2, Zenon
  <2> QED BY <2>3, Zenon DEF PollOK, Coming, Filled, Reads, Polls, WakeOf
<1>3. ASSUME NEW u \in parked' PROVE th'[u].pc = "parked" /\ (Due(th[u].call)' => Coming("notify_all")')
  <2>1. u \in Threads /\ u # t BY <1>3, Zenon DEF WakeInv, TypeInv
  <2>2. th'[u] = th[u] BY <1>1, <2>1, Zenon
  <2> QED BY <1>3, <2>2, Zenon DEF WakeInv, Due, Coming, Filled, Reads
<1>4. OpsOK(eng.ops)' BY OpsStay, Zenon
<1> QED BY <1>2, <1>3, <1>4, Zenon DEF WakeInv

\* A step that changes nobody's sleep.
LEMMA WakeStays ==
  ASSUME WakeInv, UNCHANGED <<th, error, eof, rx_ring, waker, parked>>, eng'.ops = eng.ops
  PROVE  WakeInv'
<1>1. ASSUME NEW u \in Threads PROVE PollOK(u, th[u])'
  <2>1. PollOK(u, th'[u]) BY Zenon DEF WakeInv
  <2>2. \A q : PollOK(u, q) => PollOK(u, q)' BY PollStays, Zenon
  <2>3. \A q : q = th'[u] => PollOK(u, q)' BY <2>1, <2>2, Zenon
  <2> QED BY <2>3, Zenon DEF PollOK, Coming, Filled, Reads, Polls, WakeOf
<1>2. \A u \in parked' : th'[u].pc = "parked" /\ (Due(th[u].call)' => Coming("notify_all")')
  BY Zenon DEF WakeInv, Due, Coming, Filled, Reads
<1>3. OpsOK(eng.ops)' BY OpsStay, Zenon
<1> QED BY <1>1, <1>2, <1>3, Zenon DEF WakeInv

-----------------------------------------------------------------------------
(* The signals to the engine. *)

\* A thread that moves outside of signal.
LEMMA SigMove ==
  ASSUME TypeInv, SigInv, NEW t \in Threads, NEW r \in Regs, Moves(t, r),
         th[t].pc \notin {"signal", "notify_one"}, UNCHANGED <<eng, tcb, flag, cmds, tx_ring>>
  PROVE  SigInv'
<1>1. \A u \in Threads \ {t} : th'[u] = th[u] BY MoveFacts, Zenon
<1>2. \A u \in Threads : th[u].pc \in {"signal", "notify_one"} => th'[u].pc = th[u].pc BY <1>1, Zenon
<1>3. Signalling => Signalling' BY <1>2, Zenon DEF Signalling
<1>4. SignalNotLost' BY <1>2, Zenon DEF SigInv, SignalNotLost, SendsData, Filled
<1> QED BY <1>3, <1>4, Zenon DEF SigInv, Coming, SendsData, Filled

\* A thread that gets to signal.
LEMMA SigRaise ==
  ASSUME TypeInv, SigInv, NEW t \in Threads, NEW r \in Regs, Moves(t, r), r.pc = "signal", eng' = eng
  PROVE  SigInv'
<1>1. th'[t].pc = "signal" BY MoveFacts, Zenon
<1> QED BY <1>1, Zenon DEF SigInv, SignalNotLost, Signalling

-----------------------------------------------------------------------------
(* Steps that change nothing but a thread and the mutexes it holds. *)

Untouched == <<rx_ring, tx_ring, handleVars, wakeVars, chanVars, slot, tcb, eng, scene, todo, events,
               objVars, logVars>>

\* Taking and giving up mutexes leaves each with one owner or none.
LEMMA LockTypes ==
  ASSUME TypeInv
  PROVE  /\ lock' = lock => lock' \in [Mutexes -> Threads \cup {Nobody}]
         /\ \A ms : Release(ms) => lock' \in [Mutexes -> Threads \cup {Nobody}]
         /\ \A t \in Threads, m \in Mutexes : Acquire(t, m) => lock' \in [Mutexes -> Threads \cup {Nobody}]
<1>1. lock \in [Mutexes -> Threads \cup {Nobody}] BY DEF TypeInv
<1>2. ASSUME NEW ms, Release(ms) PROVE lock' \in [Mutexes -> Threads \cup {Nobody}]
  BY <1>1, <1>2 DEF Release
<1>3. ASSUME NEW t \in Threads, NEW m \in Mutexes, Acquire(t, m)
      PROVE  lock' \in [Mutexes -> Threads \cup {Nobody}]
  BY <1>1, <1>3 DEF Acquire
<1> QED BY <1>1, <1>2, <1>3, Zenon

\* Such a step keeps the invariant when the thread keeps the mutexes in order, continues its
\* call or returns, and has its waker registered when it goes on to sleep.
LEMMA QuietMove ==
  ASSUME StreamInv, NEW t \in Threads, NEW r \in Regs, Moves(t, r), UNCHANGED Untouched,
         LockInv', lock' \in [Mutexes -> Threads \cup {Nobody}],
         th[t].pc \notin {"idle", "parked", "signal", "notify_one"},
         r.pc = "idle" \/ SameCall(r, th[t]), PublishOK(r), PollOK(t, r)
  PROVE  StreamInv'
<1> USE DEF Untouched, handleVars, wakeVars, chanVars, objVars, logVars
<1>1. TypeInv'
  <2>1. th' \in [Threads -> Regs] BY MoveFacts, Zenon DEF StreamInv
  <2> QED BY <2>1, Zenon DEF StreamInv, TypeInv
<1>2. HandleInv' BY HandleMove, Zenon DEF StreamInv, Busy
<1>3. RingInv' BY RingMove, Zenon DEF StreamInv
<1>4. WakeInv' BY WakeMove, Zenon DEF StreamInv
<1>5. SigInv' BY SigMove, Zenon DEF StreamInv
<1> QED BY <1>1, <1>2, <1>3, <1>4, <1>5, Zenon DEF StreamInv

\* What the invariant says of one thread.
LEMMA InvRegs == ASSUME StreamInv, NEW t \in Threads PROVE th[t] \in Regs /\ RegOK(th[t])
  BY DEF StreamInv, TypeInv, LockInv

\* Return, with a mutex or without.
LEMMA ReturnInv ==
  ASSUME StreamInv, NEW t \in Threads, Return(t), Release(Held(t)), UNCHANGED Untouched,
         th[t].pc \in {"error", "eof", "wait"}
  PROVE  StreamInv'
<1>1. th[t] \in Regs /\ RegOK(th[t]) BY InvRegs
<1>2. Moves(t, Idle) BY DEF Moves, Return
<1>3. \A m \in Mutexes : m \in Held(t) <=> Holds(th[t], m)
  BY <1>1 DEF Held, Holds, Blocking, Direction, Op, RegOK, Mutexes, Moving, Reads, Writes
<1>4. \A m \in Mutexes : ~Holds(Idle, m) BY IdleReg DEF Holds
<1>5. LockInv' BY <1>2, <1>3, <1>4, IdleReg, LockReleased, Zenon DEF StreamInv
<1>6. lock' \in [Mutexes -> Threads \cup {Nobody}] BY LockTypes, Zenon DEF StreamInv
<1>7. PublishOK(Idle) /\ PollOK(t, Idle) BY IdleReg DEF PublishOK, PollOK
<1>8. th[t].pc \notin {"idle", "parked", "signal", "notify_one"} OBVIOUS
<1> QED BY <1>2, <1>5, <1>6, <1>7, <1>8, IdleReg, QuietMove, Zenon

\* A thread goes on in its transfer without taking a mutex or giving one up.
LEMMA GoOnInv ==
  ASSUME StreamInv, NEW t \in Threads, NEW r \in Regs, Moves(t, r), UNCHANGED Untouched, lock' = lock,
         th[t].pc \in {"error", "ring", "eof", "wait"},
         r.pc \in {"ring", "publish", "eof", "wait", "pending", "poll_read", "poll_write"},
         r.call = th[t].call, r.then = th[t].then,
         RegOK(r), PublishOK(r), PollOK(t, r)
  PROVE  StreamInv'
<1>1. th[t] \in Regs /\ RegOK(th[t]) BY InvRegs
<1>2. \A m \in Mutexes : Holds(r, m) <=> Holds(th[t], m)
  BY <1>1 DEF Holds, RegOK, Mutexes, Moving, Calls, Reads, Writes, Polls
<1>3. LockInv' BY <1>2, LockSame, Zenon DEF StreamInv
<1>4. lock' \in [Mutexes -> Threads \cup {Nobody}] BY LockTypes, Zenon DEF StreamInv
<1>5. SameCall(r, th[t]) BY <1>1 DEF SameCall, ClosingRec, RegOK, Moving, Reads, Writes
<1>6. th[t].pc \notin {"idle", "parked", "signal", "notify_one"} OBVIOUS
<1> QED BY <1>3, <1>4, <1>5, <1>6, QuietMove, Zenon

\* read and write take their mutex.
LEMMA EnterInv == ASSUME StreamInv, NEW t \in Threads, Enter(t) PROVE StreamInv'
<1>1. th[t] \in Regs /\ RegOK(th[t]) BY InvRegs
<1>2. "error" \in Steps BY DEF Steps
<1>3. Goto(t, "error") BY Zenon DEF Enter
<1>4. PICK r \in Regs : Moves(t, r) /\ r.pc = "error" /\ r.call = th[t].call /\ r.then = th[t].then
                       /\ r.resched = th[t].resched
  BY <1>2, <1>3, GotoMoves, Zenon DEF StreamInv
<1> DEFINE m == th[t].pc
<1>5. m \in {"read", "write"} /\ Free(m) /\ Acquire(t, m) /\ UNCHANGED Untouched
  BY DEF Enter, Untouched, handleVars, wakeVars, chanVars, objVars, logVars
<1>6. th[t].call.op = m BY <1>1, <1>5 DEF RegOK, Calls
<1>7. RegOK(r) BY <1>1, <1>4, <1>5, <1>6 DEF RegOK, Moving, Calls, Reads, Writes
<1>8. \A k \in Mutexes : Holds(r, k) <=> Holds(th[t], k) \/ k = m
  BY <1>4, <1>5, <1>6 DEF Holds, Mutexes
<1>9. m \in Mutexes BY <1>5 DEF Mutexes
<1> HIDE DEF m
<1>10. LockInv' BY <1>4, <1>5, <1>7, <1>8, <1>9, LockAcquired, Zenon DEF StreamInv
<1>11. lock' \in [Mutexes -> Threads \cup {Nobody}] BY <1>5, <1>9, LockTypes, Zenon DEF StreamInv
<1>12. SameCall(r, th[t]) BY <1>4, <1>5, <1>6 DEF SameCall, ClosingRec
<1>13. PublishOK(r) /\ PollOK(t, r) BY <1>4, <1>5, <1>6 DEF PublishOK, PollOK, Polls
<1>14. th[t].pc \notin {"idle", "parked", "signal", "notify_one"} BY <1>5 DEF m
<1> QED BY <1>4, <1>5, <1>10, <1>11, <1>12, <1>13, <1>14, QuietMove, Zenon

\* The latched error is looked at first.
LEMMA CheckErrorInv == ASSUME StreamInv, NEW t \in Threads, CheckError(t) PROVE StreamInv'
<1>1. th[t] \in Regs /\ RegOK(th[t]) BY InvRegs
<1>2. th[t].pc = "error" /\ UNCHANGED Untouched
  BY DEF CheckError, At, Untouched, handleVars, wakeVars, chanVars, objVars, logVars
<1>3. CASE error # None
  BY <1>2, <1>3, ReturnInv DEF CheckError
<1>4. CASE error = None
  <2>1. "ring" \in Steps BY DEF Steps
  <2>2. Goto(t, "ring") /\ lock' = lock BY <1>4 DEF CheckError
  <2>3. PICK r \in Regs : Moves(t, r) /\ r.pc = "ring" /\ r.call = th[t].call /\ r.then = th[t].then
                         /\ r.resched = th[t].resched
    BY <2>1, <2>2, GotoMoves, Zenon DEF StreamInv
  <2>4. RegOK(r) BY <1>1, <1>2, <2>3 DEF RegOK, Moving, Calls, Reads, Writes, Polls, IsRequest
  <2>5. PublishOK(r) BY <2>3 DEF PublishOK
  <2>6. PollOK(t, th[t]) BY Zenon DEF StreamInv, WakeInv
  <2>7. PollOK(t, r) BY <1>2, <1>4, <2>3, <2>6 DEF PollOK
  <2> QED BY <1>2, <2>2, <2>3, <2>4, <2>5, <2>7, GoOnInv
<1> QED BY <1>3, <1>4, Zenon

\* eof is looked at when the ring was empty.
LEMMA CheckEofInv == ASSUME StreamInv, NEW t \in Threads, CheckEof(t) PROVE StreamInv'
<1>1. th[t] \in Regs /\ RegOK(th[t]) BY InvRegs
<1>2. th[t].pc = "eof" /\ UNCHANGED Untouched
  BY DEF CheckEof, At, Untouched, handleVars, wakeVars, chanVars, objVars, logVars
<1>3. CASE eof
  BY <1>2, <1>3, ReturnInv DEF CheckEof
<1>4. CASE ~eof
  <2>1. "wait" \in Steps BY DEF Steps
  <2>2. Goto(t, "wait") /\ lock' = lock BY <1>4 DEF CheckEof
  <2>3. PICK r \in Regs : Moves(t, r) /\ r.pc = "wait" /\ r.call = th[t].call /\ r.then = th[t].then
                         /\ r.resched = th[t].resched
    BY <2>1, <2>2, GotoMoves, Zenon DEF StreamInv
  <2>4. RegOK(r) BY <1>1, <1>2, <2>3 DEF RegOK, Moving, Calls, Reads, Writes, Polls, IsRequest
  <2>5. PublishOK(r) BY <2>3 DEF PublishOK
  <2>6. PollOK(t, th[t]) BY Zenon DEF StreamInv, WakeInv
  <2>7. PollOK(t, r) BY <1>2, <1>4, <2>3, <2>6 DEF PollOK
  <2> QED BY <1>2, <2>2, <2>3, <2>4, <2>5, <2>7, GoOnInv
<1> QED BY <1>3, <1>4, Zenon

\* A nonblocking call returns instead of waiting.
LEMMA WouldBlockInv == ASSUME StreamInv, NEW t \in Threads, WouldBlock(t) PROVE StreamInv'
<1>1. th[t].pc = "wait" /\ UNCHANGED Untouched /\ Return(t) /\ Release(Held(t))
  BY DEF WouldBlock, At, Untouched, handleVars, wakeVars, chanVars, objVars, logVars
<1> QED BY <1>1, ReturnInv, ZenonT(30)

\* ByteRing::read and ByteRing::write read the indices; what they are about to publish fits.
LEMMA RingBeginInv == ASSUME StreamInv, NEW t \in Threads, RingBegin(t) PROVE StreamInv'
<1>1. th[t] \in Regs /\ RegOK(th[t]) BY InvRegs
<1>2. th[t].pc = "ring" /\ UNCHANGED Untouched /\ lock' = lock
  BY DEF RingBegin, At, Untouched, handleVars, wakeVars, chanVars, objVars, logVars
<1>3. th[t].call \in AllCalls /\ (Reads(th[t].call) \/ Writes(th[t].call)) /\ th[t].then = "idle"
  BY <1>1, <1>2 DEF RegOK, Moving
<1>4. th[t].call.len \in Nat /\ th[t].call.len > 0 BY <1>3, CallTypes
<1> DEFINE read == Direction(t) = "read"
           room == IF read THEN Filled(rx_ring) ELSE Space(tx_ring)
           n == Smaller(th[t].call.len, room)
           r == [th[t] EXCEPT !.pc = IF n > 0 THEN "publish" ELSE IF read THEN "eof" ELSE "wait",
                              !.n = n,
                              !.base = IF n = 0 THEN 0
                                       ELSE IF read THEN rx_ring.tail ELSE tx_ring.head]
<1>5. read <=> Reads(th[t].call) BY DEF Direction, Op, Reads
<1>6. /\ rx_ring.head \in Nat /\ rx_ring.tail \in Nat /\ tx_ring.head \in Nat /\ tx_ring.tail \in Nat
      /\ Capacity \in Nat /\ RingOK(rx_ring) /\ RingOK(tx_ring)
  BY StreamAssumption DEF StreamInv, TypeInv, RingInv, Ring
<1>7. room \in Nat BY <1>6 DEF Filled, Space, RingOK
<1>8. n \in Nat /\ n <= room /\ (n = 0 => room = 0) BY <1>4, <1>7 DEF Smaller
<1>9. th' = [th EXCEPT ![t] = r]
  <2>1. th \in [Threads -> Regs] BY DEF StreamInv, TypeInv
  <2> QED BY <2>1, <1>1, Zenon DEF RingBegin, Regs
<1>10. Moves(t, r) BY <1>9, Zenon DEF Moves
<1>11. /\ r.call = th[t].call /\ r.then = th[t].then /\ r.resched = th[t].resched /\ r.n = n
       /\ r.pc = IF n > 0 THEN "publish" ELSE IF read THEN "eof" ELSE "wait"
       /\ r.base = IF n = 0 THEN 0 ELSE IF read THEN rx_ring.tail ELSE tx_ring.head
  BY <1>1 DEF Regs
<1>12. r \in Regs
  <2>1. (IF n > 0 THEN "publish" ELSE IF read THEN "eof" ELSE "wait") \in Steps BY DEF Steps
  <2>2. (IF n = 0 THEN 0 ELSE IF read THEN rx_ring.tail ELSE tx_ring.head) \in Nat BY <1>6
  <2> QED BY <1>1, <1>8, <2>1, <2>2, Zenon DEF Regs
<1> HIDE DEF r, n, room, read
<1>13. RegOK(r) BY <1>1, <1>2, <1>3, <1>5, <1>11 DEF RegOK, Moving, Calls, Reads, Writes, Polls, IsRequest
<1>14. PublishOK(r) BY <1>5, <1>8, <1>11 DEF PublishOK, room
<1>15. PollOK(t, th[t]) BY Zenon DEF StreamInv, WakeInv
<1>16. n = 0 /\ Reads(th[t].call) => ~(Filled(rx_ring) > 0) BY <1>5, <1>7, <1>8 DEF room
<1>17. PollOK(t, r) BY <1>2, <1>5, <1>8, <1>11, <1>15, <1>16 DEF PollOK
<1>18. r.pc \in {"ring", "publish", "eof", "wait", "pending", "poll_read", "poll_write"} BY <1>11
<1> QED BY <1>2, <1>10, <1>11, <1>12, <1>13, <1>14, <1>17, <1>18, GoOnInv

\* A thread that has to wait takes notify_lock.
LEMMA LockNotifyInv == ASSUME StreamInv, NEW t \in Threads, LockNotify(t) PROVE StreamInv'
<1>1. th[t] \in Regs /\ RegOK(th[t]) BY InvRegs
<1>2. th[t].pc = "wait" /\ Blocking(t) /\ UNCHANGED Untouched /\ Free("notify") /\ Acquire(t, "notify")
  BY DEF LockNotify, At, Untouched, handleVars, wakeVars, chanVars, objVars, logVars
<1>3. "recheck" \in Steps /\ "notify" \in Mutexes BY DEF Steps, Mutexes
<1>4. PICK r \in Regs : Moves(t, r) /\ r.pc = "recheck" /\ r.call = th[t].call /\ r.then = th[t].then
                       /\ r.resched = th[t].resched
  BY <1>3, GotoMoves, Zenon DEF StreamInv, LockNotify
<1>5. th[t].call.op \in {"read", "write"} BY <1>2, Zenon DEF Blocking, Op
<1>6. RegOK(r) BY <1>1, <1>2, <1>4, <1>5 DEF RegOK, Moving, Calls, Reads, Writes
<1>7. \A k \in Mutexes : Holds(r, k) <=> Holds(th[t], k) \/ k = "notify"
  BY <1>2, <1>4, <1>5 DEF Holds, Mutexes
<1>8. LockInv' BY <1>2, <1>3, <1>4, <1>6, <1>7, LockAcquired, Zenon DEF StreamInv
<1>9. lock' \in [Mutexes -> Threads \cup {Nobody}] BY <1>2, <1>3, LockTypes, Zenon DEF StreamInv
<1>10. SameCall(r, th[t]) BY <1>2, <1>4, <1>5 DEF SameCall, ClosingRec
<1>11. PublishOK(r) /\ PollOK(t, r) BY <1>4, <1>5 DEF PublishOK, PollOK, Polls
<1>12. th[t].pc \notin {"idle", "parked", "signal", "notify_one"} BY <1>2
<1> QED BY <1>2, <1>4, <1>8, <1>9, <1>10, <1>11, <1>12, QuietMove, Zenon

\* A task returns Pending, or polls again when it was woken meanwhile.
LEMMA PendingInv == ASSUME StreamInv, NEW t \in Threads, Pending(t) PROVE StreamInv'
<1>1. th[t] \in Regs /\ RegOK(th[t]) BY InvRegs
<1>2. th[t].pc = "wait" /\ ~Blocking(t) /\ UNCHANGED Untouched /\ lock' = lock
  BY DEF Pending, At, Untouched, handleVars, wakeVars, chanVars, objVars, logVars
<1> DEFINE p == IF th[t].resched THEN Op(t) ELSE "pending"
<1>3. Polls(th[t].call) BY <1>1, <1>2 DEF RegOK, Moving, Blocking, Op, Reads, Writes, Polls
<1>4. p \in {"pending", "poll_read", "poll_write"} BY <1>3 DEF Op, Polls
<1>5. p \in Steps BY <1>4 DEF Steps, Calls
<1>6. Goto(t, p) BY Zenon DEF Pending
<1> HIDE DEF p
<1>7. PICK r \in Regs : Moves(t, r) /\ r.pc = p /\ r.call = th[t].call /\ r.then = th[t].then
                       /\ r.resched = th[t].resched
  BY <1>5, <1>6, GotoMoves, Zenon DEF StreamInv
<1>8. RegOK(r)
  <2>1. CASE th[t].resched
    BY <1>1, <1>2, <1>3, <1>7, <2>1, Zenon DEF RegOK, Moving, Calls, Polls, Op, p, Reads, Writes, IsRequest
  <2>2. CASE th[t].resched = FALSE
    BY <1>1, <1>2, <1>3, <1>7, <2>2 DEF RegOK, Moving, Calls, Polls, p, Reads, Writes
  <2> QED BY <1>1, <2>1, <2>2, Zenon DEF Regs
<1>9. PublishOK(r) BY <1>4, <1>7, Zenon DEF PublishOK
<1>10. PollOK(t, th[t]) BY Zenon DEF StreamInv, WakeInv
<1>11. PollOK(t, r) BY <1>2, <1>4, <1>7, <1>10 DEF PollOK
<1>12. r.pc \in {"ring", "publish", "eof", "wait", "pending", "poll_read", "poll_write"} BY <1>4, <1>7
<1> QED BY <1>2, <1>7, <1>8, <1>9, <1>11, <1>12, GoOnInv

-----------------------------------------------------------------------------
(* Sleeping in the condvar, and registering a waker. *)

\* A thread that goes to sleep does so while nothing is there for it; others sleep on.
LEMMA WakePark ==
  ASSUME TypeInv, WakeInv, NEW t \in Threads, NEW r \in Regs, Moves(t, r), PollOK(t, r),
         UNCHANGED <<error, eof, rx_ring, waker>>, eng'.ops = eng.ops,
         parked' \subseteq parked \cup {t}, t \in parked' => r.pc = "parked" /\ ~Due(r.call)
  PROVE  WakeInv'
<1>1. th'[t] = r /\ \A u \in Threads \ {t} : th'[u] = th[u] BY MoveFacts, Zenon
<1>2. ASSUME NEW u \in Threads PROVE PollOK(u, th[u])'
  <2>1. PollOK(u, th'[u]) BY <1>1, Zenon DEF WakeInv
  <2>2. \A q : PollOK(u, q) => PollOK(u, q)' BY PollStays, Zenon
  <2>3. \A q : q = th'[u] => PollOK(u, q)' BY <2>1, <2>2, Zenon
  <2> QED BY <2>3, Zenon DEF PollOK, Coming, Filled, Reads, Polls, WakeOf
<1>3. ASSUME NEW u \in parked' PROVE th'[u].pc = "parked" /\ (Due(th[u].call)' => Coming("notify_all")')
  <2>1. CASE u = t
    <3>1. th'[u] = r BY <1>1, <2>1, Zenon
    <3>2. ~Due(r.call)' BY <1>3, <2>1, Zenon DEF Due, Filled, Reads
    <3>3. ~Due(th[u].call)' BY <3>1, <3>2, Zenon DEF Due, Filled, Reads
    <3> QED BY <1>3, <2>1, <3>1, <3>3, Zenon
  <2>2. CASE u # t
    <3>1. u \in parked /\ u \in Threads BY <1>3, <2>2, Zenon DEF TypeInv
    <3>2. th'[u] = th[u] BY <1>1, <2>2, <3>1, Zenon
    <3> QED BY <3>1, <3>2, Zenon DEF WakeInv, Due, Coming, Filled, Reads
  <2> QED BY <2>1, <2>2, Zenon
<1>4. OpsOK(eng.ops)' BY OpsStay, Zenon
<1> QED BY <1>2, <1>3, <1>4, Zenon DEF WakeInv

\* A step of a thread that goes to sleep on the condvar, or leaves it.
LEMMA SleepMove ==
  ASSUME StreamInv, NEW t \in Threads, NEW r \in Regs, Moves(t, r),
         UNCHANGED <<rx_ring, tx_ring, handleVars, waker, chanVars, slot, tcb, eng, scene, todo, events,
                     objVars, logVars>>,
         LockInv', lock' \in [Mutexes -> Threads \cup {Nobody}],
         th[t].pc \in {"recheck", "parked"}, r.pc \in {"idle", "error", "parked"},
         r.pc = "idle" \/ r.call = th[t].call,
         parked' \subseteq parked \cup {t}, t \in parked' => r.pc = "parked" /\ ~Due(r.call)
  PROVE  StreamInv'
<1> USE DEF handleVars, chanVars, objVars, logVars
<1>1. RegOK(th[t]) BY InvRegs, Zenon
<1>2. th[t].call.op \in {"read", "write"} BY <1>1 DEF RegOK
<1>3. TypeInv'
  <2>1. th' \in [Threads -> Regs] BY MoveFacts, Zenon DEF StreamInv
  <2>2. parked' \in SUBSET Threads BY Zenon DEF StreamInv, TypeInv
  <2> QED BY <2>1, <2>2, Zenon DEF StreamInv, TypeInv
<1>4. r.pc = "idle" \/ SameCall(r, th[t]) BY <1>2 DEF SameCall, ClosingRec
<1>5. PublishOK(r) BY DEF PublishOK
<1>6. PollOK(t, r) BY <1>2 DEF PollOK, Polls
<1>7. Busy(th[t]) BY DEF Busy
<1>8. HandleInv' BY <1>4, <1>7, HandleMove, Zenon DEF StreamInv
<1>9. RingInv' BY <1>5, RingMove, Zenon DEF StreamInv
<1>10. WakeInv' BY <1>6, WakePark, Zenon DEF StreamInv
<1>11. th[t].pc \notin {"signal", "notify_one"} OBVIOUS
<1>12. SigInv' BY <1>11, SigMove, Zenon DEF StreamInv
<1> QED BY <1>3, <1>8, <1>9, <1>10, <1>12, Zenon DEF StreamInv

\* What a blocking thread waits for is what it is woken for.
LEMMA ReadyIsDue == ASSUME NEW t, ~Ready(Direction(t)) PROVE ~Due(th[t].call)
  BY DEF Ready, Direction, Due, Op, Reads

\* Under notify_lock the condition is checked again before the thread sleeps.
LEMMA RecheckInv == ASSUME StreamInv, NEW t \in Threads, Recheck(t) PROVE StreamInv'
<1> DEFINE Rest == UNCHANGED <<rx_ring, tx_ring, handleVars, waker, chanVars, slot, tcb, eng, scene, todo,
                               events, objVars, logVars>>
<1>1. th[t] \in Regs /\ RegOK(th[t]) BY InvRegs
<1>2. th[t].pc = "recheck" /\ Rest BY DEF Recheck, At
<1> HIDE DEF Rest
<1>3. th[t].call.op \in {"read", "write"} /\ th[t].then = "idle" BY <1>1, <1>2 DEF RegOK, Moving
<1>4. t \notin parked BY <1>2 DEF StreamInv, WakeInv
<1>5. {"error", "parked"} \subseteq Steps BY Zenon DEF Steps
<1>6. CASE Goto(t, "error") /\ Release({"notify"}) /\ UNCHANGED parked
  <2>1. PICK r \in Regs : Moves(t, r) /\ r.pc = "error" /\ r.call = th[t].call /\ r.then = th[t].then
    BY <1>5, <1>6, GotoMoves, Zenon DEF StreamInv
  <2>2. RegOK(r) BY <1>1, <1>2, <1>3, <2>1 DEF RegOK, Moving, Calls, Reads, Writes
  <2>3. \A m \in Mutexes : m \in {"notify"} => Holds(th[t], m) BY <1>2 DEF Holds
  <2>4. \A m \in Mutexes : Holds(r, m) <=> Holds(th[t], m) /\ m \notin {"notify"}
    BY <1>2, <1>3, <2>1 DEF Holds, Mutexes
  <2>5. LockInv' BY <1>6, <2>1, <2>2, <2>3, <2>4, LockReleased, Zenon DEF StreamInv
  <2>6. lock' \in [Mutexes -> Threads \cup {Nobody}] BY <1>6, LockTypes, Zenon DEF StreamInv
  <2>7. parked' \subseteq parked \cup {t} /\ t \notin parked' BY <1>4, <1>6, Zenon
  <2> QED BY <1>2, <2>1, <2>5, <2>6, <2>7, SleepMove DEF Rest
<1>7. CASE Return(t) /\ Release({"notify"} \cup Held(t)) /\ UNCHANGED parked
  <2>1. Moves(t, Idle) BY <1>7 DEF Moves, Return
  <2>2. \A m \in Mutexes : m \in {"notify"} \cup Held(t) <=> Holds(th[t], m)
    BY <1>2, <1>3 DEF Holds, Held, Blocking, Direction, Op, Mutexes
  <2>3. \A m \in Mutexes : ~Holds(Idle, m) BY IdleReg DEF Holds
  <2>4. LockInv' BY <1>7, <2>1, <2>2, <2>3, IdleReg, LockReleased, Zenon DEF StreamInv
  <2>5. lock' \in [Mutexes -> Threads \cup {Nobody}] BY <1>7, LockTypes, Zenon DEF StreamInv
  <2>6. parked' \subseteq parked \cup {t} /\ t \notin parked' BY <1>4, <1>7, Zenon
  <2> QED BY <1>2, <2>1, <2>4, <2>5, <2>6, IdleReg, SleepMove DEF Rest
<1>8. CASE ~Ready(Direction(t)) /\ parked' = parked \cup {t} /\ Goto(t, "parked") /\ Release({"notify"})
  <2>1. PICK r \in Regs : Moves(t, r) /\ r.pc = "parked" /\ r.call = th[t].call /\ r.then = th[t].then
    BY <1>5, <1>8, GotoMoves, Zenon DEF StreamInv
  <2>2. RegOK(r) BY <1>1, <1>2, <1>3, <2>1 DEF RegOK, Moving, Calls, Reads, Writes
  <2>3. \A m \in Mutexes : m \in {"notify"} => Holds(th[t], m) BY <1>2 DEF Holds
  <2>4. \A m \in Mutexes : Holds(r, m) <=> Holds(th[t], m) /\ m \notin {"notify"}
    BY <1>2, <1>3, <2>1 DEF Holds, Mutexes
  <2>5. LockInv' BY <1>8, <2>1, <2>2, <2>3, <2>4, LockReleased, Zenon DEF StreamInv
  <2>6. lock' \in [Mutexes -> Threads \cup {Nobody}] BY <1>8, LockTypes, Zenon DEF StreamInv
  <2>7. ~Due(r.call) BY <1>8, <2>1, ReadyIsDue
  <2>8. parked' \subseteq parked \cup {t} BY <1>8, Zenon
  <2> QED BY <1>2, <2>1, <2>5, <2>6, <2>7, <2>8, SleepMove DEF Rest
<1> QED BY <1>6, <1>7, <1>8 DEF Recheck

\* wait_timeout returns, notified or not.
LEMMA UnparkInv == ASSUME StreamInv, NEW t \in Threads, Unpark(t) PROVE StreamInv'
<1>1. th[t] \in Regs /\ RegOK(th[t]) BY InvRegs
<1>2. th[t].pc = "parked" /\ lock' = lock /\ parked' = parked \ {t} /\ Goto(t, "error") BY Zenon DEF Unpark, At
<1>3. th[t].call.op \in {"read", "write"} /\ th[t].then = "idle" BY <1>1, <1>2 DEF RegOK, Moving
<1>4. "error" \in Steps BY DEF Steps
<1>5. PICK r \in Regs : Moves(t, r) /\ r.pc = "error" /\ r.call = th[t].call /\ r.then = th[t].then
  BY <1>2, <1>4, GotoMoves, Zenon DEF StreamInv
<1>6. RegOK(r) BY <1>1, <1>2, <1>3, <1>5, Zenon DEF RegOK, Moving, Calls, Reads, Writes
<1>7. \A m \in Mutexes : Holds(r, m) <=> Holds(th[t], m) BY <1>2, <1>3, <1>5 DEF Holds, Mutexes
<1>8. LockInv' BY <1>2, <1>5, <1>6, <1>7, LockSame, Zenon DEF StreamInv
<1>9. lock' \in [Mutexes -> Threads \cup {Nobody}] BY <1>2, LockTypes, Zenon DEF StreamInv
<1>10. parked' \subseteq parked \cup {t} /\ t \notin parked' BY <1>2
<1> QED BY <1>2, <1>5, <1>8, <1>9, <1>10, SleepMove, Zenon DEF Unpark

-----------------------------------------------------------------------------
(* Who may move bytes: poll_read and poll_write have their end of the      *)
(* stream to themselves, and read and write its mutex.                     *)

\* A task has its end of the stream to itself.
LEMMA PollsAlone ==
  ASSUME StreamInv, NEW t \in Threads, NEW u \in Threads, t # u, Busy(th[t]), Busy(th[u]), Polls(th[t].call),
         (Reads(th[t].call) /\ Reads(th[u].call)) \/ (Writes(th[t].call) /\ Writes(th[u].call))
  PROVE  FALSE
<1>1. th[t].call \in AllCalls /\ th[u].call \in AllCalls BY InvRegs, Zenon DEF RegOK, Busy
<1>2. th[t].call \in Planned(scene, t) /\ th[u].call \in Planned(scene, u) /\ scene \in Scenes
  BY Zenon DEF StreamInv, HandleInv, CallInv, TypeInv
<1>3. /\ th[t].call.on \in Objects /\ th[u].call.on \in Objects
      /\ \/ th[t].call.on \in {"stream", "read_half"} /\ th[u].call.on \in {"stream", "read_half"}
         \/ th[t].call.on \in {"stream", "write_half"} /\ th[u].call.on \in {"stream", "write_half"}
  BY <1>1, CallTypes, Zenon DEF Objects
<1>4. ~ClosingRec(th[t]) /\ ~ClosingRec(th[u]) BY DEF ClosingRec, Reads, Writes
<1>5. th[t].call.on \in live /\ th[u].call.on \in live /\ live \in Lives
  BY <1>3, <1>4, Zenon DEF StreamInv, HandleInv, CallInv
<1>6. th[t].call.on = th[u].call.on BY <1>3, <1>5 DEF Lives
<1>7. SameEnd(th[t].call, th[u].call) BY <1>6 DEF SameEnd
<1>8. SceneOK(scene) BY <1>2, StreamAssumption
<1> QED BY <1>2, <1>7, <1>8, Zenon DEF SceneOK

\* No two threads are inside a transfer in the same direction.
LEMMA OneMover ==
  ASSUME StreamInv, NEW t \in Threads, NEW u \in Threads, t # u,
         th[t].pc \in Moving, th[u].pc \in Moving, Reads(th[t].call) <=> Reads(th[u].call)
  PROVE  FALSE
<1>1. Busy(th[t]) /\ Busy(th[u]) BY DEF Busy, Moving
<1>2. RegOK(th[t]) /\ RegOK(th[u]) BY InvRegs, Zenon
<1>3. (Reads(th[t].call) /\ Reads(th[u].call)) \/ (Writes(th[t].call) /\ Writes(th[u].call))
  BY <1>2 DEF RegOK
<1>4. CASE Polls(th[t].call) BY <1>1, <1>3, <1>4, PollsAlone
<1>5. CASE Polls(th[u].call) BY <1>1, <1>3, <1>5, PollsAlone
<1>6. CASE ~Polls(th[t].call) /\ ~Polls(th[u].call)
  <2>1. PICK m \in {"read", "write"} : th[t].call.op = m /\ th[u].call.op = m
    BY <1>3, <1>6 DEF Polls, Reads, Writes
  <2>2. m \in Mutexes BY DEF Mutexes
  <2>3. Holds(th[t], m) /\ Holds(th[u], m) BY <2>1 DEF Holds, Moving
  <2>4. lock[m] = t /\ lock[m] = u BY <2>2, <2>3, Zenon DEF StreamInv, LockInv
  <2> QED BY <2>4
<1> QED BY <1>4, <1>5, <1>6

\* AtomicWaker::register puts the task's waker in place before the ring is read.
LEMMA RegisterInv == ASSUME StreamInv, NEW t \in Threads, Register(t) PROVE StreamInv'
<1> USE DEF handleVars, chanVars, objVars, logVars
<1>1. th[t] \in Regs /\ RegOK(th[t]) BY InvRegs
<1>2. /\ th[t].pc \in {"poll_read", "poll_write"} /\ waker' = [waker EXCEPT ![Direction(t)] = t]
      /\ UNCHANGED <<rx_ring, tx_ring, handleVars, lock, parked, chanVars, slot, tcb, eng, scene, todo,
                     events, objVars, logVars>>
  BY Zenon DEF Register
<1>3. th[t].call.op = th[t].pc /\ th[t].then = "idle" BY <1>1, <1>2 DEF RegOK, Calls
<1> DEFINE r == [th[t] EXCEPT !.pc = "error", !.resched = FALSE]
<1>4. r \in Regs /\ r.pc = "error" /\ r.call = th[t].call /\ r.then = th[t].then /\ r.resched = FALSE
  BY <1>1, Zenon DEF Regs, Steps
<1>5. Moves(t, r)
  <2>1. th \in [Threads -> Regs] BY DEF StreamInv, TypeInv
  <2> QED BY <2>1, <1>1, ZenonT(30) DEF Register, Regs, Moves
<1> HIDE DEF r
<1>6. RegOK(r) BY <1>1, <1>2, <1>3, <1>4, Zenon DEF RegOK, Moving, Calls, Reads, Writes
<1>7. \A m \in Mutexes : Holds(r, m) <=> Holds(th[t], m) BY <1>2, <1>3, <1>4 DEF Holds, Mutexes
<1>8. LockInv' BY <1>2, <1>4, <1>5, <1>6, <1>7, LockSame, Zenon DEF StreamInv
<1>9. SameCall(r, th[t]) /\ PublishOK(r) /\ Busy(th[t])
  BY <1>2, <1>3, <1>4 DEF SameCall, ClosingRec, PublishOK, Busy
<1>10. HandleInv' BY <1>2, <1>4, <1>5, <1>9, HandleMove, Zenon DEF StreamInv
<1>11. RingInv' BY <1>2, <1>4, <1>5, <1>9, RingMove, Zenon DEF StreamInv
<1>12. SigInv'
  <2>1. th[t].pc \notin {"signal", "notify_one"} BY <1>2
  <2> QED BY <1>2, <1>4, <1>5, <2>1, SigMove, Zenon DEF StreamInv
<1>13. th'[t] = r /\ (\A u \in Threads \ {t} : th'[u] = th[u]) /\ th' \in [Threads -> Regs]
  BY <1>4, <1>5, MoveFacts, Zenon DEF StreamInv
<1> DEFINE d == Direction(t)
<1>14. d \in {"read", "write"} /\ (d = "read" <=> Reads(th[t].call)) BY DEF Direction, Op, Reads
<1>15. waker \in [{"read", "write"} -> Threads \cup {Nobody}] BY Zenon DEF StreamInv, TypeInv
<1> HIDE DEF d
<1>16. waker'[d] = t /\ (\A e \in {"read", "write"} : e # d => waker'[e] = waker[e])
       /\ waker' \in [{"read", "write"} -> Threads \cup {Nobody}]
  BY <1>2, <1>14, <1>15 DEF d
<1>17. TypeInv' BY <1>2, <1>13, <1>16, Zenon DEF StreamInv, TypeInv
<1>18. ASSUME NEW u \in Threads PROVE PollOK(u, th[u])'
  <2>1. CASE u = t
    <3>1. th'[u] = r BY <1>13, <2>1, Zenon
    <3>2. waker'[IF Reads(r.call) THEN "read" ELSE "write"] = u BY <1>4, <1>14, <1>16, <2>1
    <3> QED BY <1>4, <3>1, <3>2 DEF PollOK, Reads, Polls
  <2>2. CASE u # t /\ Polls(th[u].call) /\ Busy(th[u])
    <3>1. th'[u] = th[u] BY <1>13, <2>2, Zenon
    <3>2. Reads(th[u].call) <=> ~Reads(th[t].call)
      <4>1. Polls(th[t].call) BY <1>2, <1>3 DEF Polls
      <4> QED BY <1>9, <2>2, <4>1, PollsAlone DEF Polls, Reads, Writes
    <3>3. LET e == IF Reads(th[u].call) THEN "read" ELSE "write" IN waker'[e] = waker[e]
      BY <1>14, <1>16, <3>2
    <3>4. PollOK(u, th[u]) BY Zenon DEF StreamInv, WakeInv
    <3>5. \A q : q = th[u] => PollOK(u, q)'
      BY <1>2, <3>3, <3>4, Zenon DEF PollOK, Coming, Filled, Reads, Polls, WakeOf
    <3> QED BY <3>1, <3>5, Zenon DEF PollOK, Coming, Filled, Reads, Polls, WakeOf
  <2>3. CASE u # t /\ ~(Polls(th[u].call) /\ Busy(th[u]))
    <3>1. th'[u] = th[u] BY <1>13, <2>3, Zenon
    <3> QED BY <2>3, <3>1 DEF PollOK, Busy, Polls
  <2> QED BY <2>1, <2>2, <2>3
<1>19. ASSUME NEW u \in parked' PROVE th'[u].pc = "parked" /\ (Due(th[u].call)' => Coming("notify_all")')
  <2>1. u \in parked /\ u \in Threads /\ th[u].pc = "parked" BY <1>2, <1>19, Zenon DEF StreamInv, WakeInv, TypeInv
  <2>2. th'[u] = th[u] BY <1>2, <1>13, <2>1
  <2>3. Due(th[u].call) => Coming("notify_all") BY <2>1, Zenon DEF StreamInv, WakeInv
  <2> QED BY <1>2, <2>1, <2>2, <2>3, Zenon DEF Due, Coming, Filled, Reads
<1>20. OpsOK(eng.ops)' BY <1>2, OpsStay, Zenon DEF StreamInv
<1>21. WakeInv' BY <1>18, <1>19, <1>20, Zenon DEF WakeInv
<1> QED BY <1>8, <1>10, <1>11, <1>12, <1>17, <1>21, Zenon DEF StreamInv

\* Bytes that are their own positions, with the next n of them.
LEMMA NextBytes ==
  ASSUME NEW s \in Seq(Nat), \A i \in DOMAIN s : s[i] = i, NEW n \in Nat
  PROVE  LET q == s \o [i \in 1..n |-> Len(s) + i] IN
         q \in Seq(Nat) /\ Len(q) = Len(s) + n /\ \A i \in DOMAIN q : q[i] = i
<1> DEFINE e == [i \in 1..n |-> Len(s) + i]
<1>1. e \in Seq(Nat) /\ Len(e) = n /\ \A i \in 1..n : e[i] = Len(s) + i OBVIOUS
<1> HIDE DEF e
<1>2. s \o e \in Seq(Nat) /\ Len(s \o e) = Len(s) + n BY <1>1
<1>3. ASSUME NEW i \in 1..(Len(s) + n) PROVE (s \o e)[i] = i
  <2>1. CASE i <= Len(s) BY <1>1, <2>1
  <2>2. CASE i > Len(s)
    <3>1. (s \o e)[i] = e[i - Len(s)] BY <1>1, <2>2
    <3>2. i - Len(s) \in 1..n BY <2>2
    <3> QED BY <1>1, <3>1, <3>2
  <2>3. i \in Nat /\ Len(s) \in Nat /\ (i <= Len(s) \/ i > Len(s)) OBVIOUS
  <2> QED BY <2>1, <2>2, <2>3, Zenon
<1> QED BY <1>2, <1>3 DEF e

\* The bytes in rx_ring become fewer, and nobody is woken.
LEMMA WakeDrain ==
  ASSUME TypeInv, WakeInv, NEW t \in Threads, NEW r \in Regs, Moves(t, r), th[t].pc # "parked",
         UNCHANGED <<error, eof, waker, parked>>, eng'.ops = eng.ops, r.pc = "idle",
         Filled(rx_ring)' > 0 => Filled(rx_ring) > 0
  PROVE  WakeInv'
<1>1. th'[t] = r /\ \A u \in Threads \ {t} : th'[u] = th[u] BY MoveFacts, Zenon
<1>2. ASSUME NEW u \in Threads PROVE PollOK(u, th[u])'
  <2>1. PollOK(u, th'[u])
    <3>1. CASE u = t BY <1>1, <3>1 DEF PollOK
    <3>2. CASE u # t BY <1>1, <3>2, Zenon DEF WakeInv
    <3> QED BY <3>1, <3>2, Zenon
  <2>2. \A q : PollOK(u, q) => PollOK(u, q)'
    BY Zenon DEF PollOK, Coming, Reads, Polls, WakeOf
  <2>3. \A q : q = th'[u] => PollOK(u, q)' BY <2>1, <2>2, Zenon
  <2> QED BY <2>3, Zenon DEF PollOK, Coming, Filled, Reads, Polls, WakeOf
<1>3. ASSUME NEW u \in parked' PROVE th'[u].pc = "parked" /\ (Due(th[u].call)' => Coming("notify_all")')
  <2>1. u \in Threads /\ u # t BY <1>3, Zenon DEF WakeInv, TypeInv
  <2>2. th'[u] = th[u] BY <1>1, <2>1, Zenon
  <2>3. \A c : Due(c)' => Due(c) BY Zenon DEF Due, Reads
  <2>4. Due(th[u].call)' => Due(th[u].call)
    <3>1. \A c : c = th[u].call => (Due(c)' => Due(c)) BY <2>3, Zenon
    <3> QED BY <2>2, <3>1, Zenon DEF Due, Reads
  <2> QED BY <1>3, <2>2, <2>4, Zenon DEF WakeInv, Coming
<1>4. OpsOK(eng.ops)' BY OpsStay, Zenon
<1> QED BY <1>2, <1>3, <1>4, Zenon DEF WakeInv

\* A reader takes its bytes and returns.
LEMMA ReadPublishInv ==
  ASSUME StreamInv, NEW t \in Threads, RingPublish(t), Reads(th[t].call)
  PROVE  StreamInv'
<1> USE DEF handleVars, wakeVars, chanVars, objVars
<1>1. th[t] \in Regs /\ RegOK(th[t]) BY InvRegs
<1>2. th[t].pc = "publish" /\ Direction(t) = "read" BY DEF RingPublish, At, Direction, Op, Reads
<1> DEFINE n == th[t].n
           base == th[t].base
<1>3. /\ rx_ring' = [rx_ring EXCEPT !.tail = base + n]
      /\ consumed' = consumed \o [i \in 1..n |-> base + i]
      /\ Return(t) /\ Release(Held(t))
      /\ UNCHANGED <<tx_ring, accepted, handleVars, wakeVars, chanVars, slot, tcb, eng, scene, todo, events,
                     objVars>>
  BY <1>2, Zenon DEF RingPublish
<1>4. n \in Nat /\ base \in Nat BY <1>1, Zenon DEF Regs
<1>5. /\ rx_ring \in Ring /\ RingOK(rx_ring) /\ Capacity \in Nat /\ consumed \in Seq(Nat)
      /\ Len(consumed) = rx_ring.tail /\ (\A i \in DOMAIN consumed : consumed[i] = i)
  BY StreamAssumption, Zenon DEF StreamInv, TypeInv, RingInv
<1>6. base = rx_ring.tail /\ n <= Filled(rx_ring)
  <2>1. PublishOK(th[t]) BY Zenon DEF StreamInv, RingInv
  <2> QED BY <1>2, <2>1 DEF PublishOK
<1> HIDE DEF n, base
<1>7. rx_ring' \in Ring /\ rx_ring'.head = rx_ring.head /\ rx_ring'.tail = rx_ring.tail + n
  <2>1. rx_ring' = [rx_ring EXCEPT !.tail = base + n] BY <1>3, Zenon
  <2>2. rx_ring \in Ring /\ base = rx_ring.tail BY <1>5, <1>6, Zenon
  <2> QED BY <1>4, <2>1, <2>2 DEF Ring
<1>8. RingOK(rx_ring') /\ Filled(rx_ring)' <= Filled(rx_ring) /\ Filled(rx_ring)' \in Int /\ Filled(rx_ring) \in Int
  BY <1>4, <1>5, <1>6, <1>7 DEF RingOK, Filled, Ring
<1>9. consumed' \in Seq(Nat) /\ Len(consumed') = Len(consumed) + n /\ \A i \in DOMAIN consumed' : consumed'[i] = i
  BY <1>3, <1>4, <1>5, <1>6, NextBytes, Zenon
<1>10. Moves(t, Idle) BY <1>3, Zenon DEF Moves, Return
<1>11. th' \in [Threads -> Regs] /\ th'[t] = Idle /\ \A u \in Threads \ {t} : th'[u] = th[u]
  BY <1>10, IdleReg, MoveFacts, Zenon DEF StreamInv
<1>12. lock' \in [Mutexes -> Threads \cup {Nobody}] BY <1>3, LockTypes, Zenon DEF StreamInv
<1>13. TypeInv' BY <1>3, <1>7, <1>9, <1>11, <1>12, Zenon DEF StreamInv, TypeInv
<1>14. LockInv'
  <2>1. \A m \in Mutexes : m \in Held(t) <=> Holds(th[t], m)
    BY <1>1, <1>2 DEF Held, Holds, Blocking, Direction, Op, RegOK, Mutexes, Moving, Reads, Writes
  <2>2. \A m \in Mutexes : ~Holds(Idle, m) BY IdleReg DEF Holds
  <2> QED BY <1>3, <1>10, <2>1, <2>2, IdleReg, LockReleased, Zenon DEF StreamInv
<1>15. HandleInv'
  <2>1. Busy(th[t]) BY <1>2 DEF Busy
  <2> QED BY <1>3, <1>10, <2>1, IdleReg, HandleMove, Zenon DEF StreamInv
<1>16. RingInv'
  <2>1. ASSUME NEW u \in Threads PROVE PublishOK(th[u])'
    <3>1. CASE u = t BY <1>11, <3>1, IdleReg DEF PublishOK
    <3>2. CASE u # t /\ th[u].pc # "publish" BY <1>11, <3>2 DEF PublishOK
    <3>3. CASE u # t /\ th[u].pc = "publish"
      <4>1. ~Reads(th[u].call) BY <1>2, <3>3, OneMover DEF Moving
      <4>2. PublishOK(th[u]) BY Zenon DEF StreamInv, RingInv
      <4>3. th'[u] = th[u] BY <1>11, <3>3
      <4> QED BY <1>3, <4>1, <4>2, <4>3 DEF PublishOK, Space, Filled, Reads
    <3> QED BY <3>1, <3>2, <3>3
  <2>2. RingOK(rx_ring)' BY <1>8, Zenon DEF RingOK
  <2>3. RingOK(tx_ring)' /\ accepted' = tx_ring'.head BY <1>3, Zenon DEF StreamInv, RingInv, RingOK
  <2>4. Len(consumed') = rx_ring'.tail BY <1>5, <1>7, <1>9
  <2> QED BY <1>9, <2>1, <2>2, <2>3, <2>4, Zenon DEF RingInv
<1>17. WakeInv'
  <2>1. Filled(rx_ring)' > 0 => Filled(rx_ring) > 0 BY <1>8
  <2>2. th[t].pc # "parked" BY <1>2
  <2> QED BY <1>3, <1>10, <2>1, <2>2, IdleReg, WakeDrain, Zenon DEF StreamInv
<1>18. SigInv'
  <2>1. th[t].pc \notin {"signal", "notify_one"} BY <1>2
  <2> QED BY <1>3, <1>10, <2>1, IdleReg, SigMove, Zenon DEF StreamInv
<1> QED BY <1>13, <1>14, <1>15, <1>16, <1>17, <1>18, Zenon DEF StreamInv

\* A writer adds its bytes and goes on to signal the engine, still with the mutex.
LEMMA WritePublishInv ==
  ASSUME StreamInv, NEW t \in Threads, RingPublish(t), ~Reads(th[t].call)
  PROVE  StreamInv'
<1> USE DEF handleVars, wakeVars, chanVars, objVars
<1>1. th[t] \in Regs /\ RegOK(th[t]) BY InvRegs
<1>2. th[t].pc = "publish" /\ Direction(t) # "read" BY DEF RingPublish, At, Direction, Op, Reads
<1> DEFINE n == th[t].n
           base == th[t].base
           r == [Idle EXCEPT !.pc = "signal", !.call = th[t].call]
<1>3. /\ tx_ring' = [tx_ring EXCEPT !.head = base + n]
      /\ accepted' = accepted + n /\ th' = [th EXCEPT ![t] = r]
      /\ UNCHANGED <<rx_ring, consumed, lock, handleVars, wakeVars, chanVars, slot, tcb, eng, scene, todo,
                     events, objVars>>
  BY <1>2 DEF RingPublish
<1>4. n \in Nat /\ base \in Nat BY <1>1, Zenon DEF Regs
<1>5. /\ tx_ring \in Ring /\ RingOK(tx_ring) /\ Capacity \in Nat /\ accepted \in Nat
      /\ accepted = tx_ring.head
  BY StreamAssumption, Zenon DEF StreamInv, TypeInv, RingInv
<1>6. base = tx_ring.head /\ n <= Space(tx_ring)
  <2>1. PublishOK(th[t]) BY Zenon DEF StreamInv, RingInv
  <2> QED BY <1>2, <2>1 DEF PublishOK
<1>7. /\ r \in Regs /\ r.pc = "signal" /\ r.call = th[t].call /\ r.then = "idle" /\ r.resched = FALSE
  BY <1>1, Zenon DEF Regs, Idle, Steps
<1> HIDE DEF n, base, r
<1>8. tx_ring' \in Ring /\ tx_ring'.tail = tx_ring.tail /\ tx_ring'.head = tx_ring.head + n
  BY <1>3, <1>4, <1>5, <1>6 DEF Ring
<1>9. RingOK(tx_ring') BY <1>4, <1>5, <1>6, <1>8 DEF RingOK, Filled, Space, Ring
<1>10. Moves(t, r) BY <1>3, Zenon DEF Moves
<1>11. th' \in [Threads -> Regs] /\ th'[t] = r /\ \A u \in Threads \ {t} : th'[u] = th[u]
  BY <1>7, <1>10, MoveFacts, Zenon DEF StreamInv
<1>12. accepted' \in Nat BY <1>3, <1>4, <1>5
<1>13. TypeInv' BY <1>3, <1>8, <1>11, <1>12, Zenon DEF StreamInv, TypeInv
<1>14. Writes(th[t].call) BY <1>1, <1>2, SMTT(30) DEF RegOK, Moving
<1>15. RegOK(r) BY <1>1, <1>2, <1>7, <1>14, Zenon DEF RegOK, Moving, Calls, Reads, Writes, IsRequest
<1>16. LockInv'
  <2>1. \A m \in Mutexes : Holds(r, m) <=> Holds(th[t], m)
    BY <1>2, <1>7, <1>14, Zenon DEF Holds, Mutexes, Writes
  <2> QED BY <1>3, <1>7, <1>10, <1>15, <2>1, LockSame, Zenon DEF StreamInv
<1>17. HandleInv'
  <2>1. Busy(th[t]) BY <1>2 DEF Busy
  <2>2. SameCall(r, th[t]) BY <1>2, <1>7, <1>14 DEF SameCall, ClosingRec, Writes
  <2> QED BY <1>3, <1>7, <1>10, <2>1, <2>2, HandleMove, Zenon DEF StreamInv
<1>18. RingInv'
  <2>1. ASSUME NEW u \in Threads PROVE PublishOK(th[u])'
    <3>1. CASE u = t BY <1>7, <1>11, <3>1 DEF PublishOK
    <3>2. CASE u # t /\ th[u].pc # "publish" BY <1>11, <3>2 DEF PublishOK
    <3>3. CASE u # t /\ th[u].pc = "publish"
      <4>1. Reads(th[u].call) BY <1>2, <3>3, OneMover DEF Moving
      <4>2. PublishOK(th[u]) BY Zenon DEF StreamInv, RingInv
      <4>3. th'[u] = th[u] BY <1>11, <3>3
      <4> QED BY <1>3, <4>1, <4>2, <4>3 DEF PublishOK, Space, Filled, Reads
    <3> QED BY <3>1, <3>2, <3>3
  <2>2. RingOK(tx_ring)' BY <1>9, Zenon DEF RingOK
  <2>3. /\ RingOK(rx_ring)' /\ Len(consumed') = rx_ring'.tail
        /\ \A i \in DOMAIN consumed' : consumed'[i] = i
    BY <1>3, Zenon DEF StreamInv, RingInv, RingOK
  <2>4. accepted' = tx_ring'.head BY <1>3, <1>5, <1>8
  <2> QED BY <2>1, <2>2, <2>3, <2>4, Zenon DEF RingInv
<1>19. WakeInv'
  <2>1. th[t].pc # "parked" /\ PollOK(t, r) BY <1>2, <1>7 DEF PollOK
  <2> QED BY <1>3, <1>7, <1>10, <2>1, WakeMove, Zenon DEF StreamInv
<1>20. SigInv' BY <1>3, <1>7, <1>10, SigRaise, Zenon DEF StreamInv
<1> QED BY <1>13, <1>16, <1>17, <1>18, <1>19, <1>20, Zenon DEF StreamInv

-----------------------------------------------------------------------------
(* Signals, commands and calls. *)

\* A thread moves outside of a transfer: what changes besides is the application's.
LEMMA OutsideMove ==
  ASSUME StreamInv, NEW t \in Threads, NEW r \in Regs, Moves(t, r), RegOK(r), HandleInv',
         UNCHANGED <<rx_ring, tx_ring, eof, error, lock, parked, waker, tcb, eng, scene, consumed, accepted>>,
         flag' \in BOOLEAN, owed' \in BOOLEAN, app_refcount' \in Int, linger' \in Seq(STRING),
         cmds' \in Seq(Commands), sent' \in Seq(Kinds), todo' \in [Threads -> Seq(AllCalls)],
         \A m \in Mutexes : Holds(r, m) <=> Holds(th[t], m), th[t].pc # "parked",
         r.pc \notin {"error", "ring", "publish", "eof", "wait", "pending"}, SigInv'
  PROVE  StreamInv'
<1>1. TypeInv'
  <2>1. th' \in [Threads -> Regs] BY MoveFacts, Zenon DEF StreamInv
  <2> QED BY <2>1, Zenon DEF StreamInv, TypeInv
<1>2. LockInv' BY LockSame, Zenon DEF StreamInv
<1>3. PublishOK(r) /\ PollOK(t, r) BY DEF PublishOK, PollOK
<1>4. RingInv' BY <1>3, RingMove, Zenon DEF StreamInv
<1>5. WakeInv' BY <1>3, WakeMove, Zenon DEF StreamInv
<1> QED BY <1>1, <1>2, <1>4, <1>5, Zenon DEF StreamInv

\* The types of what a step outside of a transfer changes.
LEMMA OuterTypes ==
  ASSUME StreamInv
  PROVE  /\ flag \in BOOLEAN /\ owed \in BOOLEAN /\ app_refcount \in Int /\ linger \in Seq(STRING)
         /\ cmds \in Seq(Commands) /\ sent \in Seq(Kinds) /\ todo \in [Threads -> Seq(AllCalls)]
  BY DEF StreamInv, TypeInv

\* EngineWakeup::signal: the flag.
LEMMA SignalFlagInv == ASSUME StreamInv, NEW t \in Threads, SignalFlag(t) PROVE StreamInv'
<1> USE DEF handleVars, wakeVars, objVars, logVars
<1>1. th[t] \in Regs /\ RegOK(th[t]) BY InvRegs
<1>2. /\ th[t].pc = "signal" /\ flag' = TRUE /\ Goto(t, "notify_one")
      /\ UNCHANGED <<rx_ring, tx_ring, handleVars, lock, wakeVars, cmds, sent, slot, tcb, eng, scene,
                     todo, events, objVars, logVars>>
  BY DEF SignalFlag, At
<1>3. "notify_one" \in Steps BY DEF Steps
<1>4. PICK r \in Regs : Moves(t, r) /\ r.pc = "notify_one" /\ r.call = th[t].call /\ r.then = th[t].then
  BY <1>2, <1>3, GotoMoves, Zenon DEF StreamInv
<1>5. RegOK(r) BY <1>1, <1>2, <1>4, Zenon DEF RegOK, Moving, Calls
<1>6. \A m \in Mutexes : Holds(r, m) <=> Holds(th[t], m) BY <1>2, <1>4, Zenon DEF Holds, Mutexes
<1>7. Busy(th[t]) /\ SameCall(r, th[t]) BY <1>2, <1>4, Zenon DEF Busy, SameCall, ClosingRec
<1>8. HandleInv' BY <1>2, <1>4, <1>7, HandleMove, Zenon DEF StreamInv
<1>9. th'[t].pc = "notify_one" BY <1>4, MoveFacts, Zenon DEF StreamInv
<1>10. SigInv'
  <2>1. Signalling' BY <1>2, Zenon DEF Signalling
  <2>2. SignalNotLost' BY <1>9, Zenon DEF SignalNotLost
  <2>3. eng'.pc \in {"top", "asleep", "notified", "try_again", "tick"} => eng'.ops = << >>
    BY <1>2, Zenon DEF StreamInv, SigInv
  <2> QED BY <2>1, <2>2, <2>3, Zenon DEF SigInv
<1>11. flag' \in BOOLEAN BY <1>2
<1>12. th[t].pc # "parked" /\ r.pc \notin {"error", "ring", "publish", "eof", "wait", "pending"} BY <1>2, <1>4
<1> QED BY <1>2, <1>4, <1>5, <1>6, <1>8, <1>10, <1>11, <1>12, OuterTypes, OutsideMove, Zenon

\* EngineWakeup::signal: the notification, which ends the engine's sleep.
LEMMA SignalNotifyInv == ASSUME StreamInv, NEW t \in Threads, SignalNotify(t) PROVE StreamInv'
<1> USE DEF handleVars, wakeVars, chanVars, objVars, logVars
<1>1. th[t] \in Regs /\ RegOK(th[t]) BY InvRegs
<1> DEFINE ms == {m \in Mutexes : lock[m] = t}
           r == IF th[t].then = "idle" THEN Idle ELSE [th[t] EXCEPT !.pc = th[t].then]
<1>2. /\ th[t].pc = "notify_one" /\ Release(ms)
      /\ eng' = [eng EXCEPT !.pc = IF @ = "asleep" THEN "notified" ELSE @]
      /\ UNCHANGED <<rx_ring, tx_ring, handleVars, wakeVars, chanVars, slot, tcb, scene, todo,
                     events, objVars, logVars>>
  BY DEF SignalNotify, At
<1>3. Moves(t, r)
  <2>1. th \in [Threads -> Regs] BY DEF StreamInv, TypeInv
  <2> QED BY <2>1, Zenon DEF SignalNotify, Moves
<1>4. th[t].then \in {"idle", "drop_ref", "await"} BY <1>1 DEF Regs
<1>5. r \in Regs /\ (r = Idle \/ (r.pc = th[t].then /\ th[t].then # "idle" /\ r.call = th[t].call /\ r.then = th[t].then))
  <2>1. CASE th[t].then = "idle" BY <2>1, IdleReg
  <2>2. CASE th[t].then # "idle"
    <3>1. th[t].then \in Steps BY <1>4, <2>2 DEF Steps
    <3>2. r = [th[t] EXCEPT !.pc = th[t].then] BY <2>2
    <3> QED BY <1>1, <2>2, <3>1, <3>2, Zenon DEF Regs
  <2> QED BY <2>1, <2>2
<1> HIDE DEF ms, r
<1>6. RegOK(r)
  <2>1. CASE r = Idle BY <2>1, IdleReg
  <2>2. CASE r.pc = th[t].then /\ th[t].then # "idle" /\ r.call = th[t].call /\ r.then = th[t].then
    BY <1>1, <1>2, <1>4, <2>2 DEF RegOK, Moving, Calls
  <2> QED BY <1>5, <2>1, <2>2
<1>7. \A m \in Mutexes : m \in ms <=> Holds(th[t], m) BY Zenon DEF ms, StreamInv, LockInv
<1>8. \A m \in Mutexes : ~Holds(r, m)
  <2>1. CASE r = Idle BY <2>1, IdleReg DEF Holds
  <2>2. CASE r.pc = th[t].then /\ th[t].then # "idle" /\ r.call = th[t].call /\ r.then = th[t].then
    BY <1>1, <1>2, <1>4, <2>2 DEF RegOK, Holds, Mutexes, IsRequest
  <2> QED BY <1>5, <2>1, <2>2
<1>9. LockInv' BY <1>2, <1>3, <1>5, <1>6, <1>7, <1>8, LockReleased, Zenon DEF StreamInv
<1>10. Busy(th[t]) /\ (r.pc = "idle" \/ SameCall(r, th[t]))
  BY <1>1, <1>2, <1>4, <1>5, IdleReg DEF Busy, SameCall, ClosingRec, RegOK
<1>11. HandleInv' BY <1>2, <1>3, <1>5, <1>10, HandleMove, Zenon DEF StreamInv
<1>12. eng \in [pc : EnginePcs, ops : Seq(Ops)] BY DEF StreamInv, TypeInv
<1>13. /\ eng' \in [pc : EnginePcs, ops : Seq(Ops)] /\ eng'.ops = eng.ops
       /\ eng'.pc = IF eng.pc = "asleep" THEN "notified" ELSE eng.pc
  BY <1>2, <1>12 DEF EnginePcs
<1>14. TypeInv'
  <2>1. th' \in [Threads -> Regs] BY <1>3, <1>5, MoveFacts, Zenon DEF StreamInv
  <2>2. lock' \in [Mutexes -> Threads \cup {Nobody}] BY <1>2, LockTypes, Zenon DEF StreamInv
  <2> QED BY <1>2, <1>13, <2>1, <2>2, Zenon DEF StreamInv, TypeInv
<1>15. r.pc \in {"idle", "drop_ref", "await"} BY <1>4, <1>5, IdleReg
<1>16. PublishOK(r) /\ PollOK(t, r) BY <1>15 DEF PublishOK, PollOK
<1>17. RingInv' BY <1>2, <1>3, <1>5, <1>16, RingMove, Zenon DEF StreamInv
<1>18. th[t].pc # "parked" BY <1>2
<1>19. WakeInv' BY <1>2, <1>3, <1>5, <1>13, <1>16, <1>18, WakeMove, Zenon DEF StreamInv
<1>20. SigInv'
  <2>1. \A u \in Threads \ {t} : th'[u] = th[u] BY <1>3, <1>5, MoveFacts, Zenon DEF StreamInv
  <2>2. Signalling => Signalling' BY <1>2, <2>1 DEF Signalling
  <2>3. eng'.pc # "asleep" BY <1>13
  <2>4. SigInv BY DEF StreamInv
  <2>5. eng'.pc \in {"tick", "finish", "top"} => eng'.pc = eng.pc BY <1>13
  <2>6. Coming("drain")' = Coming("drain") BY <1>13, Zenon DEF Coming
  <2>7. eng'.pc \in {"top", "asleep", "notified", "try_again", "tick"} => eng'.ops = << >>
    BY <1>13, <2>4 DEF SigInv
  <2>8. SignalNotLost' BY <2>3, Zenon DEF SignalNotLost
  <2>9. eng'.pc \in {"tick", "finish", "top"} /\ cmds' # << >> => Signalling'
    BY <1>2, <2>2, <2>4, <2>5, Zenon DEF SigInv
  <2>10. eng'.pc = "top" \/ (eng'.pc = "finish" /\ ~Coming("drain")') => eng'.pc = eng.pc BY <2>5
  <2>11. eng'.pc = "top" \/ (eng'.pc = "finish" /\ ~Coming("drain")') =>
           (SendsData(tcb'.state) /\ Filled(tx_ring') > 0 => Signalling')
    BY <1>2, <2>2, <2>4, <2>6, <2>10, Zenon DEF SigInv
  <2> QED BY <2>7, <2>8, <2>9, <2>11, Zenon DEF SigInv, SendsData, Filled
<1> QED BY <1>9, <1>11, <1>14, <1>17, <1>19, <1>20, Zenon DEF StreamInv

\* The kinds of commands.
LEMMA CommandKind == ASSUME NEW cmd \in Commands PROVE cmd.kind \in Kinds
<1>1. CASE cmd \in [kind : {"Shutdown"}, how : {"Read", "Write"}] BY <1>1 DEF Kinds
<1>2. CASE cmd \in [kind : {"SetOption"}] BY <1>2 DEF Kinds
<1>3. CASE cmd \in [kind : {"Close"}, linger : Seq(STRING)] BY <1>3 DEF Kinds
<1>4. CASE cmd \in [kind : {"connect", "accept"}] BY <1>4 DEF Kinds
<1> QED BY <1>1, <1>2, <1>3, <1>4, Zenon DEF Commands

\* A command goes to the engine: what the calls that send one have in common.
LEMMA SendInv ==
  ASSUME StreamInv, NEW t \in Threads, NEW cmd \in Commands, NEW n \in {"idle", "drop_ref", "await"},
         Send(t, cmd, n),
         UNCHANGED <<rx_ring, tx_ring, eof, error, app_refcount, lock, wakeVars, flag, tcb, eng, scene, todo,
                     live, logVars>>,
         th[t].pc \in {"shutdown", "set_option", "drop", "close", "connect", "accept"},
         cmd.kind = "Close" <=> th[t].pc = "close", linger' \in Seq(STRING),
         owed' = owed \/ IsRequest(th[t].call), owed' \in BOOLEAN,
         n = "await" <=> IsRequest(th[t].call), n = "drop_ref" <=> th[t].pc = "drop"
  PROVE  StreamInv'
<1> USE DEF wakeVars, logVars
<1>1. th[t] \in Regs /\ RegOK(th[t]) BY InvRegs
<1>2. PICK r \in Regs : Moves(t, r) /\ r.pc = "signal" /\ r.call = th[t].call /\ r.then = n
  BY SendMoves, ZenonT(30) DEF StreamInv
<1>3. Busy(th[t]) /\ th[t].call \in AllCalls BY <1>1, Zenon DEF Busy, RegOK
<1>4. th[t].call.op \in {"shutdown", "set_option", "drop", "connect", "accept"}
  BY <1>1, SMTT(30) DEF RegOK, Calls
<1>5. RegOK(r) BY <1>1, <1>2, <1>3, <1>4, Zenon DEF RegOK, Moving, Calls, Reads, IsRequest
<1>6. \A m \in Mutexes : Holds(r, m) <=> Holds(th[t], m) BY <1>2, <1>4, Zenon DEF Holds, Mutexes
<1>7. SameCall(r, th[t]) /\ (ClosingRec(th[t]) => th[t].pc = "close")
  <2>1. CASE th[t].pc = "close" BY <1>1, <1>2, <2>1, Zenon DEF SameCall, ClosingRec, RegOK, IsRequest
  <2>2. CASE th[t].pc # "close"
    <3>1. th[t].pc = th[t].call.op BY <1>1, <2>2, Zenon DEF RegOK, Calls
    <3> QED BY <1>2, <2>2, <3>1, Zenon DEF SameCall, ClosingRec
  <2> QED BY <2>1, <2>2, Zenon
<1>8. th[t].call.on \in Objects \/ IsRequest(th[t].call) BY <1>3, <1>4, CallTypes DEF IsRequest
<1>9. sent' = Append(sent, cmd.kind) /\ cmds' = Append(cmds, cmd) BY DEF Send
<1>10. HandleInv'
  <2> DEFINE k == cmd.kind
  <2>1. sent' = Append(sent, k) /\ (k = "Close" <=> th[t].pc = "close") BY <1>9
  <2> HIDE DEF k
  <2> QED BY <1>2, <1>3, <1>7, <1>8, <2>1, HandleSend, Zenon
<1>11. cmds' \in Seq(Commands) /\ sent' \in Seq(Kinds)
  <2>1. cmd.kind \in Kinds BY CommandKind
  <2>2. cmds \in Seq(Commands) /\ sent \in Seq(Kinds) BY OuterTypes
  <2> QED BY <1>9, <2>1, <2>2, SMTT(30)
<1>12. SigInv' BY <1>2, SigRaise, Zenon DEF StreamInv
<1>13. th[t].pc # "parked" /\ r.pc \notin {"error", "ring", "publish", "eof", "wait", "pending"} BY <1>2, Zenon
<1> QED BY <1>2, <1>5, <1>6, <1>10, <1>11, <1>12, <1>13, OuterTypes, OutsideMove, Zenon

\* shutdown
LEMMA ShutdownInv == ASSUME StreamInv, NEW t \in Threads, Shutdown(t) PROVE StreamInv'
<1> USE DEF handleVars, objVars
<1>1. th[t] \in Regs /\ RegOK(th[t]) BY InvRegs
<1>2. th[t].pc = "shutdown" BY Zenon DEF Shutdown, At
<1>3. th[t].call \in AllCalls /\ th[t].call.op = "shutdown" BY <1>1, <1>2, Zenon DEF RegOK, Calls
<1> DEFINE cmd == [kind |-> "Shutdown", how |-> th[t].call.how]
<1>4. cmd \in Commands /\ cmd.kind # "Close" BY <1>3, CallTypes DEF Commands
<1>5. Send(t, cmd, "idle") BY DEF Shutdown
<1>6. ~IsRequest(th[t].call) BY <1>3 DEF IsRequest
<1>7. linger' \in Seq(STRING) /\ owed' \in BOOLEAN /\ owed' = owed BY OuterTypes, Zenon DEF Shutdown
<1> HIDE DEF cmd
<1> QED BY <1>2, <1>4, <1>5, <1>6, <1>7, SendInv, Zenon DEF Shutdown

\* set_option
LEMMA SetOptionInv == ASSUME StreamInv, NEW t \in Threads, SetOption(t) PROVE StreamInv'
<1> USE DEF objVars
<1>1. th[t] \in Regs /\ RegOK(th[t]) BY InvRegs
<1>2. th[t].pc = "set_option" BY Zenon DEF SetOption, At
<1>3. th[t].call \in AllCalls /\ th[t].call.op = "set_option" BY <1>1, <1>2, Zenon DEF RegOK, Calls
<1> DEFINE cmd == [kind |-> "SetOption"]
<1>4. cmd \in Commands /\ cmd.kind # "Close" BY DEF Commands
<1>5. Send(t, cmd, "idle") BY DEF SetOption
<1>6. ~IsRequest(th[t].call) BY <1>3, Zenon DEF IsRequest
<1>7. th[t].call.linger \in Seq(STRING) BY <1>3, CallTypes
<1>8. linger' \in Seq(STRING) /\ owed' \in BOOLEAN /\ owed' = owed BY <1>7, OuterTypes, SMTT(30) DEF SetOption
<1> HIDE DEF cmd
<1> QED BY <1>2, <1>4, <1>5, <1>6, <1>8, SendInv, Zenon DEF SetOption

\* The write half is dropped: first the shutdown.
LEMMA DropWriteHalfInv == ASSUME StreamInv, NEW t \in Threads, DropWriteHalf(t) PROVE StreamInv'
<1> USE DEF handleVars, objVars
<1>1. th[t] \in Regs /\ RegOK(th[t]) BY InvRegs
<1>2. th[t].pc = "drop" BY Zenon DEF DropWriteHalf, At
<1>3. th[t].call.op = "drop" BY <1>1, <1>2 DEF RegOK, Calls
<1> DEFINE cmd == [kind |-> "Shutdown", how |-> "Write"]
<1>4. cmd \in Commands /\ cmd.kind # "Close" BY DEF Commands
<1>5. Send(t, cmd, "drop_ref") BY DEF DropWriteHalf
<1>6. ~IsRequest(th[t].call) BY <1>3 DEF IsRequest
<1>7. linger' \in Seq(STRING) /\ owed' \in BOOLEAN /\ owed' = owed BY OuterTypes, Zenon DEF DropWriteHalf
<1> HIDE DEF cmd
<1> QED BY <1>2, <1>4, <1>5, <1>6, <1>7, SendInv, Zenon DEF DropWriteHalf

\* The last reference is gone: the close.
LEMMA SendCloseInv == ASSUME StreamInv, NEW t \in Threads, SendClose(t) PROVE StreamInv'
<1> USE DEF handleVars, objVars
<1>1. th[t] \in Regs /\ RegOK(th[t]) BY InvRegs
<1>2. th[t].pc = "close" BY Zenon DEF SendClose, At
<1>3. th[t].call.op = "drop" BY <1>1, <1>2, Zenon DEF RegOK, Calls
<1> DEFINE cmd == [kind |-> "Close", linger |-> linger]
<1>4. cmd \in Commands /\ cmd.kind = "Close" BY OuterTypes DEF Commands
<1>5. Send(t, cmd, "idle") BY DEF SendClose
<1>6. ~IsRequest(th[t].call) BY <1>3 DEF IsRequest
<1>7. linger' \in Seq(STRING) /\ owed' \in BOOLEAN /\ owed' = owed BY OuterTypes DEF SendClose
<1> HIDE DEF cmd
<1> QED BY <1>2, <1>4, <1>5, <1>6, <1>7, SendInv, Zenon DEF SendClose

\* connect and accept ask for a stream.
LEMMA RequestStepInv == ASSUME StreamInv, NEW t \in Threads, Request(t) PROVE StreamInv'
<1> USE DEF handleVars
<1>1. th[t] \in Regs /\ RegOK(th[t]) BY InvRegs
<1>2. th[t].pc \in {"connect", "accept"} BY Zenon DEF Request
<1>3. th[t].call.op = th[t].pc BY <1>1, <1>2 DEF RegOK, Calls
<1> DEFINE cmd == [kind |-> th[t].pc]
<1>4. cmd \in Commands /\ cmd.kind # "Close" BY <1>2 DEF Commands
<1>5. Send(t, cmd, "await") BY DEF Request
<1>6. IsRequest(th[t].call) BY <1>2, <1>3 DEF IsRequest
<1>7. linger' \in Seq(STRING) /\ owed' = TRUE BY OuterTypes DEF Request
<1> HIDE DEF cmd
<1> QED BY <1>2, <1>4, <1>5, <1>6, <1>7, SendInv, Zenon DEF Request

\* A stream exists before it is split or dropped, and while it does nobody waits for one and
\* nobody has closed.
LEMMA LiveFacts ==
  ASSUME StreamInv, live # {}
  PROVE  /\ ~owed /\ \A i \in DOMAIN sent : sent[i] # "Close"
         /\ \A u \in Threads : Busy(th[u]) => ~ClosingRec(th[u]) /\ ~IsRequest(th[u].call) /\ th[u].pc # "close"
         /\ \A u \in Threads : \A i \in DOMAIN todo[u] : ~IsRequest(todo[u][i])
<1>1. CountInv /\ RequestInv BY Zenon DEF StreamInv, HandleInv
<1>2. ASSUME NEW u \in Threads, Busy(th[u])
      PROVE  ~ClosingRec(th[u]) /\ ~IsRequest(th[u].call) /\ th[u].pc # "close"
  <2>1. ~ClosingRec(th[u]) BY <1>1, <1>2, Zenon DEF CountInv
  <2>2. ~IsRequest(th[u].call) BY <1>1, <1>2, Zenon DEF RequestInv
  <2>3. RegOK(th[u]) BY InvRegs, Zenon
  <2>4. th[u].pc # "close" BY <2>1, <2>3 DEF RegOK, ClosingRec
  <2> QED BY <2>1, <2>2, <2>4
<1>3. ~owed /\ \A i \in DOMAIN sent : sent[i] # "Close" BY <1>1, Zenon DEF CountInv
<1>4. \A u \in Threads : \A i \in DOMAIN todo[u] : ~IsRequest(todo[u][i]) BY <1>1, Zenon DEF RequestInv
<1> QED BY <1>2, <1>3, <1>4, Zenon

\* What a thread that drops or splits an object has.
LEMMA Consumes ==
  ASSUME StreamInv, NEW t \in Threads, th[t].pc \in {"drop", "drop_ref", "into_split"}
  PROVE  /\ th[t].call.op \in {"drop", "into_split"} /\ Busy(th[t]) /\ ~ClosingRec(th[t])
         /\ th[t].call.on \in live /\ th[t].call.on \in Objects
         /\ th[t].pc = "into_split" => th[t].call.on = "stream"
         /\ \A u \in Threads \ {t} : /\ Busy(th[u]) => th[u].call.on # th[t].call.on
                                     /\ \A i \in DOMAIN todo[u] : todo[u][i].on # th[t].call.on
<1>1. th[t] \in Regs /\ RegOK(th[t]) BY InvRegs, Zenon
<1>2. /\ Busy(th[t]) /\ th[t].call \in AllCalls /\ th[t].call.op \in {"drop", "into_split"} /\ ~ClosingRec(th[t])
      /\ th[t].pc = "into_split" => th[t].call.op = "into_split"
  BY <1>1, Zenon DEF Busy, RegOK, Calls, ClosingRec
<1>3. th[t].call.on \in Objects /\ (th[t].pc = "into_split" => th[t].call.on = "stream") BY <1>2, CallTypes
<1>4. CallInv BY Zenon DEF StreamInv, HandleInv
<1>5. th[t].call.on \in live BY <1>2, <1>3, <1>4, Zenon DEF CallInv
<1>6. \A u \in Threads \ {t} : /\ Busy(th[u]) => th[u].call.on # th[t].call.on
                               /\ \A i \in DOMAIN todo[u] : todo[u][i].on # th[t].call.on
  BY <1>2, <1>4, Zenon DEF CallInv
<1> QED BY <1>2, <1>3, <1>5, <1>6, Zenon

\* The handles stay counted when objects are replaced, by nothing or by halves.
LEMMA HandleReplace ==
  ASSUME StreamInv, live # {}, NEW t \in Threads, NEW r \in Regs, Moves(t, r),
         UNCHANGED <<scene, todo, owed, sent>>, live' \in Lives,
         \A u \in Threads \ {t} : Busy(th[u]) /\ th[u].call.on \in Objects => th[u].call.on \in live',
         \/ r.pc = "idle" /\ live' # {} /\ app_refcount' = IF live' = {"read_half", "write_half"} THEN 2 ELSE 1
         \/ r.pc = "close" /\ r.call = th[t].call /\ Busy(th[t]) /\ r.call.op = "drop" /\ live' = {} /\ app_refcount' = 0
  PROVE  HandleInv'
<1>1. CallInv /\ TypeInv BY Zenon DEF StreamInv, HandleInv
<1>2. th'[t] = r /\ \A u \in Threads \ {t} : th'[u] = th[u] BY <1>1, MoveFacts, Zenon
<1>3. /\ ~owed /\ \A i \in DOMAIN sent : sent[i] # "Close"
      /\ \A u \in Threads : Busy(th[u]) => ~ClosingRec(th[u]) /\ ~IsRequest(th[u].call) /\ th[u].pc # "close"
      /\ \A u \in Threads : \A i \in DOMAIN todo[u] : ~IsRequest(todo[u][i])
  BY LiveFacts, Zenon
<1>4. Busy(th'[t]) => th'[t].pc = "close" /\ th'[t].call = th[t].call /\ Busy(th[t]) /\ ClosingRec(th'[t])
                      /\ live' = {} /\ app_refcount' = 0
  BY <1>2 DEF Busy, ClosingRec
<1>5. \A u \in Threads : Busy(th'[u]) => Busy(th[u]) /\ th'[u].call = th[u].call BY <1>2, <1>4, Zenon
<1>6. \A u \in Threads : Busy(th'[u]) /\ ClosingRec(th'[u]) => u = t /\ live' = {} /\ app_refcount' = 0
  BY <1>2, <1>3, <1>4, Zenon
<1>7. CallInv'
  <2>1. \A u \in Threads : Planned(scene, u)' = Planned(scene, u) BY Zenon DEF Planned
  <2>2. live' \in Lives /\ \A u \in Threads : \A i \in DOMAIN todo'[u] : todo'[u][i] \in Planned(scene, u)
    BY <1>1, Zenon DEF CallInv
  <2>3. \A u \in Threads : Busy(th'[u]) => th'[u].call \in Planned(scene, u) BY <1>1, <1>5, Zenon DEF CallInv
  <2>4. \A u \in Threads : Busy(th'[u]) /\ th'[u].call.on \in Objects /\ ~ClosingRec(th'[u])
                             => th'[u].call.on \in live'
    BY <1>2, <1>4, Zenon
  <2>5. ASSUME NEW u \in Threads, NEW v \in Threads, u # v,
               Busy(th'[u]), th'[u].call.op \in {"drop", "into_split"}, ~ClosingRec(th'[u])
        PROVE  /\ Busy(th'[v]) => th'[v].call.on # th'[u].call.on
               /\ \A i \in DOMAIN todo'[v] : todo'[v][i].on # th'[u].call.on
    <3>1. Busy(th[u]) /\ th'[u].call = th[u].call /\ ~ClosingRec(th[u]) BY <1>3, <1>5, <2>5, Zenon
    <3>2. Busy(th'[v]) => Busy(th[v]) /\ th'[v].call = th[v].call BY <1>5, Zenon
    <3>3. /\ Busy(th[v]) => th[v].call.on # th[u].call.on
          /\ \A i \in DOMAIN todo[v] : todo[v][i].on # th[u].call.on
      BY <1>1, <3>1, <2>5, Zenon DEF CallInv
    <3> QED BY <3>1, <3>2, <3>3, Zenon
  <2> QED BY <2>1, <2>2, <2>3, <2>4, <2>5, Zenon DEF CallInv, Busy, ClosingRec
<1>8. RequestInv' BY <1>3, <1>5 DEF RequestInv, Busy, IsRequest
<1>9. CountInv'
  <2>1. app_refcount' \in 0..2 /\ (live' # {} => app_refcount' = IF live' = {"read_half", "write_half"} THEN 2 ELSE 1)
    OBVIOUS
  <2>2. ~owed' /\ \A i \in DOMAIN sent' : sent'[i] # "Close" BY <1>3, Zenon
  <2>3. \A u \in Threads : Busy(th'[u]) /\ ClosingRec(th'[u]) => live' = {} /\ app_refcount' = 0
    BY <1>6, Zenon
  <2>4. \A u \in Threads : th'[u].pc = "close" => u = t
    <3>1. \A u \in Threads \ {t} : th[u].pc # "close" BY <1>3 DEF Busy
    <3> QED BY <1>2, <3>1, Zenon
  <2>5. \A u, v \in Threads : th'[u].pc = "close" /\ Busy(th'[v]) /\ ClosingRec(th'[v]) => u = v
    BY <1>6, <2>4, Zenon
  <2> QED BY <2>1, <2>2, <2>3, <2>5, Zenon DEF CountInv, Busy, ClosingRec
<1> QED BY <1>7, <1>8, <1>9, Zenon DEF HandleInv

\* into_split
LEMMA IntoSplitInv == ASSUME StreamInv, NEW t \in Threads, IntoSplit(t) PROVE StreamInv'
<1> USE DEF wakeVars, chanVars, logVars
<1>1. th[t] \in Regs /\ RegOK(th[t]) BY InvRegs
<1>2. /\ th[t].pc = "into_split" /\ app_refcount' = 2 /\ live' = {"read_half", "write_half"} /\ Return(t)
      /\ UNCHANGED <<rx_ring, tx_ring, eof, error, linger, lock, wakeVars, chanVars, slot, tcb, eng,
                     scene, todo, events, owed, logVars>>
  BY Zenon DEF IntoSplit, At
<1>3. /\ th[t].call.op = "into_split" /\ Busy(th[t]) /\ th[t].call.on = "stream" /\ "stream" \in live
      /\ \A u \in Threads \ {t} : Busy(th[u]) => th[u].call.on # "stream"
  <2>1. th[t].call.op = "into_split" BY <1>1, <1>2, Zenon DEF RegOK, Calls
  <2> QED BY <1>2, <2>1, Consumes, ZenonT(30)
<1>4. live = {"stream"}
  <2>1. live \in Lives BY Zenon DEF StreamInv, HandleInv, CallInv
  <2> QED BY <1>3, <2>1 DEF Lives
<1>5. Moves(t, Idle) BY <1>2, Zenon DEF Moves, Return
<1>6. \A u \in Threads \ {t} : Busy(th[u]) /\ th[u].call.on \in Objects => th[u].call.on \in live'
  <2>1. \A u \in Threads : Busy(th[u]) => ~ClosingRec(th[u]) BY <1>4, LiveFacts, Zenon
  <2>2. \A u \in Threads : Busy(th[u]) /\ th[u].call.on \in Objects => th[u].call.on \in live
    BY <2>1, Zenon DEF StreamInv, HandleInv, CallInv
  <2> QED BY <1>3, <1>4, <2>2
<1>7. live' \in Lives /\ live # {} /\ live' # {} /\ app_refcount' = IF live' = {"read_half", "write_half"} THEN 2 ELSE 1
  BY <1>2, <1>4, Zenon DEF Lives
<1>8. HandleInv' BY <1>2, <1>5, <1>6, <1>7, IdleReg, HandleReplace, Zenon
<1>9. SigInv'
  <2>1. th[t].pc \notin {"signal", "notify_one"} BY <1>2, Zenon
  <2> QED BY <1>2, <1>5, <2>1, IdleReg, SigMove, Zenon DEF StreamInv
<1>10. \A m \in Mutexes : Holds(Idle, m) <=> Holds(th[t], m) BY <1>2, <1>3, IdleReg, Zenon DEF Holds, Mutexes
<1>11. th[t].pc # "parked" /\ Idle.pc \notin {"error", "ring", "publish", "eof", "wait", "pending"} /\ app_refcount' \in Int
  <2>1. 2 \in Int OBVIOUS
  <2> QED BY <1>2, <2>1, IdleReg, Zenon
<1> QED BY <1>2, <1>5, <1>8, <1>9, <1>10, <1>11, IdleReg, OuterTypes, OutsideMove, Zenon

\* A reference is given up, by the stream or by a half.
LEMMA DropRefInv == ASSUME StreamInv, NEW t \in Threads, DropRef(t) PROVE StreamInv'
<1> USE DEF wakeVars, chanVars, logVars
<1>1. th[t] \in Regs /\ RegOK(th[t]) BY InvRegs
<1> DEFINE x == th[t].call.on
<1>2. /\ th[t].pc \in {"drop_ref", "drop"} /\ app_refcount' = app_refcount - 1 /\ live' = live \ {x}
      /\ (IF app_refcount = 1 THEN Goto(t, "close") ELSE Return(t))
      /\ UNCHANGED <<rx_ring, tx_ring, eof, error, linger, lock, wakeVars, chanVars, slot, tcb, eng,
                     scene, todo, events, owed, logVars>>
  BY Zenon DEF DropRef, At
<1>3. /\ th[t].call.op = "drop" /\ Busy(th[t]) /\ x \in live
      /\ \A u \in Threads \ {t} : Busy(th[u]) => th[u].call.on # x
  <2>1. th[t].call.op = "drop" BY <1>1, <1>2, Zenon DEF RegOK, Calls
  <2> QED BY <1>2, <2>1, Consumes, Zenon
<1> HIDE DEF x
<1>4. live \in Lives /\ app_refcount = IF live = {"read_half", "write_half"} THEN 2 ELSE 1
  <2>1. live \in Lives BY Zenon DEF StreamInv, HandleInv, CallInv
  <2> QED BY <1>3, <2>1, SMTT(30) DEF StreamInv, HandleInv, CountInv
<1>5. live' \in Lives /\ live # {} BY <1>2, <1>3, <1>4, Zenon DEF Lives
<1>6. \A u \in Threads \ {t} : Busy(th[u]) /\ th[u].call.on \in Objects => th[u].call.on \in live'
  <2>1. \A u \in Threads : Busy(th[u]) => ~ClosingRec(th[u]) BY <1>5, LiveFacts, Zenon
  <2>2. \A u \in Threads : Busy(th[u]) /\ th[u].call.on \in Objects => th[u].call.on \in live
    BY <2>1, Zenon DEF StreamInv, HandleInv, CallInv
  <2> QED BY <1>2, <1>3, <2>2
<1>7. app_refcount' \in Int BY <1>2, OuterTypes
<1>8. th[t].pc \notin {"signal", "notify_one"} /\ th[t].pc # "parked" BY <1>2
<1>9. CASE app_refcount = 1
  <2>1. live' = {} /\ app_refcount' = 0 BY <1>2, <1>3, <1>4, <1>9 DEF Lives
  <2>2. "close" \in Steps BY DEF Steps
  <2>3. PICK r \in Regs : Moves(t, r) /\ r.pc = "close" /\ r.call = th[t].call /\ r.then = th[t].then
    BY <1>2, <1>9, <2>2, GotoMoves, Zenon DEF StreamInv
  <2>4. RegOK(r) BY <1>1, <1>2, <1>3, <2>3, Zenon DEF RegOK, Moving, Calls
  <2>5. \A m \in Mutexes : Holds(r, m) <=> Holds(th[t], m) BY <1>2, <1>3, <2>3, Zenon DEF Holds, Mutexes
  <2>6. HandleInv' BY <1>2, <1>3, <1>5, <1>6, <2>1, <2>3, HandleReplace, Zenon
  <2>7. SigInv' BY <1>2, <1>8, <2>3, SigMove, Zenon DEF StreamInv
  <2>8. r.pc \notin {"error", "ring", "publish", "eof", "wait", "pending"} BY <2>3
  <2> QED BY <1>2, <1>7, <1>8, <2>3, <2>4, <2>5, <2>6, <2>7, <2>8, OuterTypes, OutsideMove, Zenon
<1>10. CASE app_refcount # 1
  <2>1. live' # {} /\ app_refcount' = IF live' = {"read_half", "write_half"} THEN 2 ELSE 1
    BY <1>2, <1>3, <1>4, <1>10 DEF Lives
  <2>2. Moves(t, Idle) BY <1>2, <1>10, Zenon DEF Moves, Return
  <2>3. \A m \in Mutexes : Holds(Idle, m) <=> Holds(th[t], m) BY <1>2, <1>3, IdleReg DEF Holds, Mutexes
  <2>4. HandleInv' BY <1>2, <1>5, <1>6, <2>1, <2>2, IdleReg, HandleReplace, Zenon
  <2>5. SigInv' BY <1>2, <1>8, <2>2, IdleReg, SigMove, Zenon DEF StreamInv
  <2>6. Idle.pc \notin {"error", "ring", "publish", "eof", "wait", "pending"} BY IdleReg
  <2> QED BY <1>2, <1>7, <1>8, <2>2, <2>3, <2>4, <2>5, <2>6, IdleReg, OuterTypes, OutsideMove, Zenon
<1> QED BY <1>9, <1>10, Zenon

\* The response of connect or accept, or its timeout, ends the only request there is.
LEMMA HandleReceive ==
  ASSUME StreamInv, NEW t \in Threads, th[t].pc = "await", Moves(t, Idle),
         live' \in {live, {"stream"}}, owed' = FALSE, UNCHANGED <<scene, todo, sent, app_refcount>>
  PROVE  HandleInv'
<1>1. CallInv /\ RequestInv /\ CountInv /\ TypeInv BY Zenon DEF StreamInv, HandleInv
<1>2. Busy(th[t]) /\ IsRequest(th[t].call)
  <2>1. RegOK(th[t]) BY InvRegs
  <2> QED BY <2>1, Zenon DEF RegOK, Busy
<1>3. th'[t] = Idle /\ \A u \in Threads \ {t} : th'[u] = th[u] BY <1>1, IdleReg, MoveFacts, Zenon
<1>4. live = {} /\ app_refcount = 1 BY <1>1, <1>2, Zenon DEF RequestInv
<1>5. \A u \in Threads : Busy(th'[u]) => u # t /\ Busy(th[u]) /\ th'[u] = th[u] BY <1>3, IdleReg, Zenon DEF Busy
<1>6. \A u \in Threads : Busy(th[u]) => ~ClosingRec(th[u]) /\ th[u].call.on \notin Objects
  <2>1. \A u \in Threads : Busy(th[u]) => ~ClosingRec(th[u]) BY <1>1, <1>4, SMTT(30) DEF CountInv
  <2> QED BY <1>1, <1>4, <2>1, Zenon DEF CallInv
<1>7. \A u \in Threads : Busy(th[u]) => th[u].call.op \notin {"drop", "into_split"}
  <2> TAKE u \in Threads
  <2>1. Busy(th[u]) => th[u].call \in AllCalls BY InvRegs, Zenon DEF Busy, RegOK
  <2> QED BY <1>6, <2>1, CallTypes
<1>8. \A u \in Threads : /\ Busy(th'[u]) => ~IsRequest(th'[u].call)
                         /\ \A i \in DOMAIN todo[u] : ~IsRequest(todo[u][i])
  BY <1>1, <1>2, <1>5, Zenon DEF RequestInv
<1>9. CallInv'
  <2>1. \A u \in Threads : Planned(scene, u)' = Planned(scene, u) BY Zenon DEF Planned
  <2>2. live' \in Lives BY <1>4 DEF Lives
  <2>3. \A u \in Threads : \A i \in DOMAIN todo'[u] : todo'[u][i] \in Planned(scene, u) BY <1>1, Zenon DEF CallInv
  <2>4. \A u \in Threads : Busy(th'[u]) => th'[u].call \in Planned(scene, u) BY <1>1, <1>5, Zenon DEF CallInv
  <2>5. \A u \in Threads : Busy(th'[u]) => th'[u].call.on \notin Objects BY <1>5, <1>6, Zenon
  <2>6. \A u \in Threads : Busy(th'[u]) => th'[u].call.op \notin {"drop", "into_split"} BY <1>5, <1>7, Zenon
  <2> QED BY <2>1, <2>2, <2>3, <2>4, <2>5, <2>6, Zenon DEF CallInv, Busy, ClosingRec
<1>10. RequestInv' BY <1>8, Zenon DEF RequestInv, Busy, IsRequest
<1>11. CountInv'
  <2>1. app_refcount' \in 0..2 /\ (live' # {} => app_refcount' = IF live' = {"read_half", "write_half"} THEN 2 ELSE 1)
    BY <1>4
  <2>2. \A u \in Threads : Busy(th'[u]) => ~ClosingRec(th'[u]) BY <1>5, <1>6, Zenon
  <2>3. \A i \in DOMAIN sent' : sent'[i] # "Close" BY <1>1, <1>4 DEF CountInv
  <2>4. ~owed' OBVIOUS
  <2> QED BY <2>1, <2>2, <2>3, <2>4, Zenon DEF CountInv, Busy, ClosingRec
<1> QED BY <1>9, <1>10, <1>11, Zenon DEF HandleInv

\* The end of a request: what the two ways have in common.
LEMMA RequestEnds ==
  ASSUME StreamInv, NEW t \in Threads, th[t].pc = "await", Return(t),
         live' \in {live, {"stream"}}, owed' = FALSE,
         UNCHANGED <<rx_ring, tx_ring, handleVars, lock, wakeVars, chanVars, tcb, eng, scene, todo, logVars>>
  PROVE  StreamInv'
<1> USE DEF handleVars, wakeVars, chanVars, logVars
<1>1. RegOK(th[t]) BY InvRegs
<1>2. Moves(t, Idle) BY Zenon DEF Moves, Return
<1>3. HandleInv' BY <1>2, HandleReceive, Zenon
<1>4. SigInv'
  <2>1. th[t].pc \notin {"signal", "notify_one"} BY SMTT(30)
  <2> QED BY <1>2, <2>1, IdleReg, SigMove, Zenon DEF StreamInv
<1>5. \A m \in Mutexes : Holds(Idle, m) <=> Holds(th[t], m)
  BY <1>1, IdleReg, Zenon DEF Holds, Mutexes, RegOK, IsRequest
<1>6. th[t].pc # "parked" /\ Idle.pc \notin {"error", "ring", "publish", "eof", "wait", "pending"} /\ owed' \in BOOLEAN
  BY IdleReg, Zenon
<1> QED BY <1>2, <1>3, <1>4, <1>5, <1>6, IdleReg, OuterTypes, OutsideMove, Zenon

\* recv of the oneshot.
LEMMA ReceiveInv == ASSUME StreamInv, NEW t \in Threads, Receive(t) PROVE StreamInv'
<1>1. live' \in {live, {"stream"}} BY DEF Receive
<1> QED BY <1>1, RequestEnds, Zenon DEF Receive, At

\* recv_timeout that gives up.
LEMMA ReceiveTimesOutInv == ASSUME StreamInv, NEW t \in Threads, ReceiveTimesOut(t) PROVE StreamInv'
<1>1. live' \in {live, {"stream"}} BY DEF ReceiveTimesOut
<1> QED BY <1>1, RequestEnds, Zenon DEF ReceiveTimesOut, At

\* The elements of the tail of a sequence.
LEMMA TailFacts ==
  ASSUME NEW S, NEW q \in Seq(S), q # << >>
  PROVE  /\ 1 \in DOMAIN q /\ Head(q) = q[1] /\ Tail(q) \in Seq(S)
         /\ \A i \in DOMAIN Tail(q) : i + 1 \in DOMAIN q /\ Tail(q)[i] = q[i + 1] /\ i + 1 # 1
         /\ \A i, j \in DOMAIN Tail(q) : i + 1 = j + 1 => i = j
<1>1. Len(q) \in Nat /\ Len(q) >= 1 /\ DOMAIN q = 1..Len(q) OBVIOUS
<1>2. Tail(q) \in Seq(S) /\ Len(Tail(q)) = Len(q) - 1 OBVIOUS
<1>3. DOMAIN Tail(q) = 1..(Len(q) - 1) BY <1>1, <1>2
<1>4. \A i \in 1..(Len(q) - 1) : Tail(q)[i] = q[i + 1] BY <1>1
<1>5. \A i \in DOMAIN Tail(q) : i \in Int /\ i >= 1 /\ i + 1 <= Len(q) BY <1>1, <1>3
<1>6. \A i \in DOMAIN Tail(q) : i + 1 \in DOMAIN q /\ Tail(q)[i] = q[i + 1] /\ i + 1 # 1
  BY <1>1, <1>3, <1>4, <1>5
<1>7. \A i, j \in DOMAIN Tail(q) : i + 1 = j + 1 => i = j BY <1>5
<1> QED BY <1>1, <1>2, <1>6, <1>7

\* A thread takes its next call.
LEMMA HandleCall ==
  ASSUME StreamInv, NEW t \in Threads, th[t].pc = "idle", todo[t] # << >>, NEW r \in Regs, Moves(t, r),
         r.call = Head(todo[t]), r.pc = r.call.op, r.call \in AllCalls,
         r.call.on = Nobody \/ r.call.on \in live,
         r.call.op \in {"drop", "into_split"} => ~Borrowed(t, r.call.on),
         todo' = [todo EXCEPT ![t] = Tail(@)], UNCHANGED <<scene, live, owed, sent, app_refcount>>
  PROVE  HandleInv'
<1>1. CallInv /\ RequestInv /\ CountInv /\ TypeInv BY Zenon DEF StreamInv, HandleInv
<1>2. th'[t] = r /\ \A u \in Threads \ {t} : th'[u] = th[u] BY <1>1, MoveFacts, Zenon
<1>3. todo \in [Threads -> Seq(AllCalls)] BY <1>1, Zenon DEF TypeInv
<1>4. /\ todo'[t] = Tail(todo[t]) /\ \A u \in Threads \ {t} : todo'[u] = todo[u]
  BY <1>3
<1>5. /\ 1 \in DOMAIN todo[t] /\ Head(todo[t]) = todo[t][1]
      /\ \A i \in DOMAIN todo'[t] : i + 1 \in DOMAIN todo[t] /\ todo'[t][i] = todo[t][i + 1] /\ i + 1 # 1
      /\ \A i, j \in DOMAIN todo'[t] : i + 1 = j + 1 => i = j
  <2> DEFINE q == todo[t]
  <2>1. q \in Seq(AllCalls) /\ q # << >> BY <1>3
  <2> HIDE DEF q
  <2>2. /\ 1 \in DOMAIN q /\ Head(q) = q[1]
        /\ \A i \in DOMAIN Tail(q) : i + 1 \in DOMAIN q /\ Tail(q)[i] = q[i + 1] /\ i + 1 # 1
        /\ \A i, j \in DOMAIN Tail(q) : i + 1 = j + 1 => i = j
    BY <2>1, TailFacts, Zenon
  <2>3. todo'[t] = Tail(q) BY <1>4, Zenon DEF q
  <2> QED BY <2>2, <2>3, Zenon DEF q
<1>6. r.call.op \in Calls BY CallTypes, Zenon
<1>7. Busy(r) /\ ~ClosingRec(r) /\ r.pc # "close" BY <1>6 DEF Busy, ClosingRec, Calls
<1>8. \A u \in Threads : \A i \in DOMAIN todo'[u] : \E j \in DOMAIN todo[u] : todo'[u][i] = todo[u][j]
  <2> SUFFICES ASSUME NEW u \in Threads, NEW i \in DOMAIN todo'[u]
               PROVE  \E j \in DOMAIN todo[u] : todo'[u][i] = todo[u][j]
    OBVIOUS
  <2>1. CASE u = t BY <1>5, <2>1, Zenon
  <2>2. CASE u # t BY <1>4, <2>2, Zenon
  <2> QED BY <2>1, <2>2, Zenon
<1>9. CallInv'
  <2>1. \A u \in Threads : Planned(scene, u)' = Planned(scene, u) BY Zenon DEF Planned
  <2>2. \A u \in Threads : \A i \in DOMAIN todo'[u] : todo'[u][i] \in Planned(scene, u)
    BY <1>1, <1>8, ZenonT(30) DEF CallInv
  <2>3. ASSUME NEW u \in Threads, Busy(th'[u]) PROVE th'[u].call \in Planned(scene, u)
    <3>1. CASE u = t
      <4>1. th'[u].call = todo[t][1] BY <1>2, <1>5, <3>1, Zenon
      <4> QED BY <1>1, <1>5, <3>1, <4>1, Zenon DEF CallInv
    <3>2. CASE u # t BY <1>1, <1>2, <2>3, <3>2, Zenon DEF CallInv
    <3> QED BY <3>1, <3>2, Zenon
  <2>4. Nobody \notin Objects BY DEF Nobody, Objects
  <2>5. \A u \in Threads : Busy(th'[u]) /\ th'[u].call.on \in Objects /\ ~ClosingRec(th'[u])
                             => th'[u].call.on \in live'
    BY <1>1, <1>2, <2>4, Zenon DEF CallInv
  <2>6. ASSUME NEW u \in Threads, NEW v \in Threads, u # v,
               Busy(th'[u]), th'[u].call.op \in {"drop", "into_split"}, ~ClosingRec(th'[u])
        PROVE  /\ Busy(th'[v]) => th'[v].call.on # th'[u].call.on
               /\ \A i \in DOMAIN todo'[v] : todo'[v][i].on # th'[u].call.on
    <3>1. CASE u = t
      <4>1. th'[u] = r /\ th'[v] = th[v] /\ todo'[v] = todo[v] BY <1>2, <1>4, <2>6, <3>1, Zenon
      <4>2. ~Borrowed(t, r.call.on) BY <2>6, <4>1, Zenon
      <4>3. /\ ~(th[v].pc # "idle" /\ th[v].call.on = r.call.on)
            /\ ~(\E i \in DOMAIN todo[v] : todo[v][i].on = r.call.on)
        BY <2>6, <3>1, <4>2, Zenon DEF Borrowed
      <4> QED BY <4>1, <4>3, Zenon DEF Busy
    <3>2. CASE u # t
      <4>1. th'[u] = th[u] BY <1>2, <3>2, Zenon
      <4>2. /\ Busy(th[v]) => th[v].call.on # th[u].call.on
            /\ \A i \in DOMAIN todo[v] : todo[v][i].on # th[u].call.on
        BY <1>1, <2>6, <4>1, Zenon DEF CallInv
      <4>3. CASE v = t
        <5>1. th'[v].call = todo[v][1] /\ 1 \in DOMAIN todo[v] BY <1>2, <1>5, <4>3, Zenon
        <5>2. th'[v].call.on # th'[u].call.on BY <4>1, <4>2, <5>1, Zenon
        <5>3. ASSUME NEW i \in DOMAIN todo'[v] PROVE todo'[v][i].on # th'[u].call.on
          <6>1. PICK j \in DOMAIN todo[v] : todo'[v][i] = todo[v][j] BY <1>8, Zenon
          <6>2. todo[v][j].on # th[u].call.on BY <4>2, Zenon
          <6> QED BY <4>1, <6>1, <6>2, Zenon
        <5> QED BY <5>2, <5>3, Zenon
      <4>4. CASE v # t BY <1>2, <1>4, <4>1, <4>2, <4>4, Zenon
      <4> QED BY <4>3, <4>4, Zenon
    <3> QED BY <3>1, <3>2, Zenon
  <2>7. live' \in Lives BY <1>1, Zenon DEF CallInv
  <2> QED BY <2>1, <2>2, <2>3, <2>5, <2>6, <2>7, Zenon DEF CallInv, Busy, ClosingRec
<1>10. RequestInv'
  <2>1. \A u, v \in Threads : \A i \in DOMAIN todo'[u], j \in DOMAIN todo'[v] :
          IsRequest(todo'[u][i]) /\ IsRequest(todo'[v][j]) => u = v /\ i = j
    <3> TAKE u, v \in Threads
    <3> TAKE i \in DOMAIN todo'[u], j \in DOMAIN todo'[v]
    <3> HAVE IsRequest(todo'[u][i]) /\ IsRequest(todo'[v][j])
    <3>1. PICK k \in DOMAIN todo[u] : todo'[u][i] = todo[u][k] /\ k = IF u = t THEN i + 1 ELSE i
      BY <1>4, <1>5, Zenon
    <3>2. PICK l \in DOMAIN todo[v] : todo'[v][j] = todo[v][l] /\ l = IF v = t THEN j + 1 ELSE j
      BY <1>4, <1>5, Zenon
    <3>3. u = v /\ k = l BY <1>1, <3>1, <3>2, Zenon DEF RequestInv
    <3> QED BY <1>5, <3>1, <3>2, <3>3, Zenon
  <2>2. ASSUME IsRequest(r.call)
        PROVE  \A u \in Threads : /\ Busy(th[u]) => ~IsRequest(th[u].call)
                                  /\ \A i \in DOMAIN todo'[u] : ~IsRequest(todo'[u][i])
    <3>1. IsRequest(todo[t][1]) BY <1>5, <2>2, Zenon
    <3>2. \A u \in Threads : Busy(th[u]) => ~IsRequest(th[u].call) BY <1>1, <1>5, <3>1, Zenon DEF RequestInv
    <3>3. \A u \in Threads : \A i \in DOMAIN todo[u] : IsRequest(todo[u][i]) => u = t /\ i = 1
      BY <1>1, <1>5, <3>1, ZenonT(30) DEF RequestInv
    <3>4. ASSUME NEW u \in Threads, NEW i \in DOMAIN todo'[u] PROVE ~IsRequest(todo'[u][i])
      <4>1. CASE u = t BY <1>5, <3>3, <4>1, ZenonT(30)
      <4>2. CASE u # t BY <1>4, <3>3, <4>2, Zenon
      <4> QED BY <4>1, <4>2, Zenon
    <3> QED BY <3>2, <3>4, Zenon
  <2>3. ASSUME NEW u \in Threads, NEW v \in Threads, Busy(th'[u]), IsRequest(th'[u].call)
        PROVE  /\ \A i \in DOMAIN todo'[v] : ~IsRequest(todo'[v][i])
               /\ Busy(th'[v]) /\ IsRequest(th'[v].call) => u = v
    <3>1. CASE u = t BY <1>2, <2>2, <2>3, <3>1, Zenon
    <3>2. CASE u # t
      <4>1. th'[u] = th[u] BY <1>2, <3>2, Zenon
      <4>2. /\ \A w \in Threads : \A i \in DOMAIN todo[w] : ~IsRequest(todo[w][i])
            /\ Busy(th[v]) /\ IsRequest(th[v].call) => u = v
        BY <1>1, <2>3, <4>1, Zenon DEF RequestInv
      <4>3. ~IsRequest(r.call) BY <1>5, <4>2, Zenon
      <4>4. Busy(th'[v]) /\ IsRequest(th'[v].call) => u = v BY <1>2, <4>2, <4>3, Zenon
      <4>5. \A i \in DOMAIN todo'[v] : ~IsRequest(todo'[v][i]) BY <1>8, <4>2, Zenon
      <4> QED BY <4>4, <4>5, Zenon
    <3> QED BY <3>1, <3>2, Zenon
  <2>4. ASSUME NEW u \in Threads,
               (Busy(th'[u]) /\ IsRequest(th'[u].call)) \/ (\E i \in DOMAIN todo'[u] : IsRequest(todo'[u][i]))
        PROVE  live' = {} /\ app_refcount' = 1
    <3>1. (Busy(th[u]) /\ IsRequest(th[u].call)) \/ (\E i \in DOMAIN todo[u] : IsRequest(todo[u][i]))
      <4>1. CASE \E i \in DOMAIN todo'[u] : IsRequest(todo'[u][i]) BY <1>8, <4>1, Zenon
      <4>2. CASE u = t /\ IsRequest(th'[u].call)
        <5>1. th'[u].call = todo[u][1] /\ 1 \in DOMAIN todo[u] BY <1>2, <1>5, <4>2, Zenon
        <5> QED BY <4>2, <5>1, Zenon
      <4>3. CASE u # t /\ Busy(th'[u]) /\ IsRequest(th'[u].call) BY <1>2, <4>3, Zenon
      <4> QED BY <2>4, <4>1, <4>2, <4>3, Zenon
    <3> QED BY <1>1, <3>1, Zenon DEF RequestInv
  <2>6. \A u, v \in Threads : Busy(th'[u]) /\ IsRequest(th'[u].call) =>
          /\ \A i \in DOMAIN todo'[v] : ~IsRequest(todo'[v][i])
          /\ Busy(th'[v]) /\ IsRequest(th'[v].call) => u = v
    BY <2>3, Zenon
  <2>7. \A u \in Threads :
          (Busy(th'[u]) /\ IsRequest(th'[u].call)) \/ (\E i \in DOMAIN todo'[u] : IsRequest(todo'[u][i]))
            => live' = {} /\ app_refcount' = 1
    BY <2>4, Zenon
  <2> QED BY <2>1, <2>6, <2>7, Zenon DEF RequestInv, Busy, IsRequest
<1>11. CountInv'
  <2>1. \A u \in Threads : Busy(th'[u]) /\ (ClosingRec(th'[u]) \/ th'[u].pc = "close") => th'[u] = th[u]
    BY <1>2, <1>7, Zenon
  <2>2. \A u \in Threads : th'[u].pc = "close" => th'[u] = th[u] BY <1>2, <1>7, Zenon
  <2> QED BY <1>1, <2>1, <2>2, Zenon DEF CountInv, Busy, ClosingRec
<1> QED BY <1>9, <1>10, <1>11, Zenon DEF HandleInv

\* The call of a thread that was between two calls.
LEMMA CallStepInv == ASSUME StreamInv, NEW t \in Threads, Call(t) PROVE StreamInv'
<1> USE DEF handleVars, wakeVars, chanVars, objVars, logVars
<1> DEFINE c == Head(todo[t])
           r == [Idle EXCEPT !.pc = c.op, !.call = c]
<1>1. /\ th[t].pc = "idle" /\ todo[t] # << >> /\ (c.on = Nobody \/ c.on \in live)
      /\ (c.op \in {"drop", "into_split"} => ~Borrowed(t, c.on))
      /\ th' = [th EXCEPT ![t] = r] /\ todo' = [todo EXCEPT ![t] = Tail(@)]
      /\ UNCHANGED <<rx_ring, tx_ring, handleVars, lock, wakeVars, chanVars, slot, tcb, eng, scene,
                     events, objVars, logVars>>
  BY DEF Call, At
<1>2. todo \in [Threads -> Seq(AllCalls)] BY OuterTypes
<1>3. todo[t] \in Seq(AllCalls) BY <1>2
<1>4. c \in AllCalls BY <1>1, <1>3
<1>5. todo' \in [Threads -> Seq(AllCalls)]
  <2>1. Tail(todo[t]) \in Seq(AllCalls) BY <1>1, <1>3
  <2> QED BY <1>1, <1>2, <2>1
<1> HIDE DEF c
<1>6. c.op \in Calls BY <1>4, CallTypes
<1>7. r \in Regs /\ r.pc = c.op /\ r.call = c /\ r.then = "idle"
  <2>1. c.op \in Steps BY <1>6 DEF Steps
  <2>2. Idle \in Regs BY IdleReg
  <2> QED BY <1>4, <2>1, <2>2, Zenon DEF Idle, Regs
<1> HIDE DEF r
<1>8. Moves(t, r) BY <1>1, Zenon DEF Moves
<1>9. RegOK(r) BY <1>4, <1>6, <1>7, ZenonT(30) DEF RegOK, Calls, Moving
<1>10. \A m \in Mutexes : Holds(r, m) <=> Holds(th[t], m) BY <1>1, <1>6, <1>7 DEF Holds, Mutexes, Calls
<1>11. HandleInv'
  <2>1. r.call = Head(todo[t]) /\ r.pc = r.call.op /\ r.call \in AllCalls /\ (r.call.on = Nobody \/ r.call.on \in live)
        /\ (r.call.op \in {"drop", "into_split"} => ~Borrowed(t, r.call.on))
    BY <1>1, <1>4, <1>7, Zenon DEF c
  <2> QED BY <1>1, <1>7, <1>8, <2>1, HandleCall, Zenon
<1>12. SigInv'
  <2>1. th[t].pc \notin {"signal", "notify_one"} BY <1>1, Zenon
  <2> QED BY <1>1, <1>7, <1>8, <2>1, SigMove, Zenon DEF StreamInv
<1>13. th[t].pc # "parked" /\ r.pc \notin {"error", "ring", "publish", "eof", "wait", "pending"}
  BY <1>1, <1>6, <1>7 DEF Calls
<1> QED BY <1>1, <1>5, <1>7, <1>8, <1>9, <1>10, <1>11, <1>12, <1>13, OuterTypes, OutsideMove, Zenon
=============================================================================
