------------------------------ MODULE StreamIo ------------------------------
(***************************************************************************)
(* The application's side of a TCP connection: the ConnectionHandle that   *)
(* application threads share with the engine thread                        *)
(* (dpdk-stdlib-tcp/src/contract.rs), the blocking API over it (stream.rs, *)
(* tcp_stream.rs, split.rs, tcp_listener.rs), the async API of             *)
(* dpdk-stdlib-tokio/src/compat/tcp*.rs, and the engine's loop             *)
(* (engine_loop, run_engine_driver).  A step is what a thread does between *)
(* two points where another can interfere: a lock, an atomic, a ring, the  *)
(* command channel.                                                        *)
(*                                                                         *)
(* What the engine decides is in TcpEngine.  Here a segment or a timer is  *)
(* its effect on the handle, the calls of the handler in the order of the  *)
(* code: bytes written to rx_ring, the error latched, eof set, the         *)
(* notifications.  The rings are the queues that RingImplementsQueue, in   *)
(* CounterProofs, proves them to be; a byte is its position in the stream. *)
(***************************************************************************)
EXTENDS Integers, Sequences

CONSTANTS Threads,       \* threads and tasks of the application
          Scenes,        \* [start, mode, calls]: how the connection comes about, the
                         \* RxReadiness of the backend, thread -> the calls it makes
          Capacity,      \* of rx_ring and of tx_ring
          Window,        \* bytes the peer lets the engine have in flight
          MaxBytes,      \* bound: bytes the peer sends
          MaxEvents      \* bound: segments and timers that end or answer something

VARIABLES rx_ring, tx_ring,        \* [head, tail]
          eof, error,
          lock,                    \* mutex -> who holds it
          parked,                  \* threads in condvar.wait
          waker,                   \* direction -> the task registered, Nobody when none
          app_refcount, linger,
          cmds, flag,              \* the command channel; the flag of EngineWakeup
          slot,                    \* the value in the oneshot of connect and accept
          tcb,                     \* [state, fin_pending, unsent, flight, accept]
          eng,                     \* the engine thread: [pc, ops]
          scene, todo, th,         \* what the threads still have to call; their registers
          events,                  \* segments and timers so far
          live,                    \* the app's objects: stream, or the halves of it
          owed,                    \* a connect or accept has yet to return the handle
          consumed, accepted,      \* bytes returned by reads; number taken by writes
          sent                     \* commands sent about the connection

handleVars == <<eof, error, app_refcount, linger>>
wakeVars == <<parked, waker>>
chanVars == <<cmds, flag, sent>>
logVars == <<consumed, accepted>>
objVars == <<live, owed>>
vars == <<rx_ring, tx_ring, handleVars, lock, wakeVars, chanVars, slot, tcb, eng, scene, todo,
          th, events, objVars, logVars>>

None == << >>
Some(x) == <<x>>
Nobody == "nobody"
Mutexes == {"read", "write", "notify"}

Filled(r) == r.head - r.tail

Space(r) == Capacity - Filled(r)
Empty == [head |-> 0, tail |-> 0]
Smaller(a, b) == IF a <= b THEN a ELSE b

Idle == [pc |-> "idle", call |-> None, base |-> 0, n |-> 0, resched |-> FALSE, then |-> "idle"]

\* ConnectionHandle::new, with the engine's TCB; "connected" starts from a stream
\* that connect or accept returned.
Init ==
  /\ rx_ring = Empty /\ tx_ring = Empty /\ eof = FALSE /\ error = None
  /\ lock = [m \in Mutexes |-> Nobody] /\ parked = {}
  /\ waker = [d \in {"read", "write"} |-> Nobody]
  /\ app_refcount = 1 /\ linger = None
  /\ cmds = << >> /\ flag = FALSE /\ slot = None /\ sent = << >>
  /\ scene \in Scenes
  /\ tcb = [state |-> CASE scene.start = "connected" -> "Established"
                        [] scene.start = "listening" -> "SynReceived"
                        [] OTHER -> "Absent",
            fin_pending |-> FALSE, unsent |-> 0, flight |-> 0, accept |-> "none"]
  /\ eng = [pc |-> "top", ops |-> << >>]
  /\ todo = scene.calls /\ th = [t \in Threads |-> Idle]
  /\ events = 0
  /\ live = IF scene.start = "connected" THEN {"stream"} ELSE {}
  /\ owed = (scene.start = "listening")
  /\ consumed = << >> /\ accepted = 0

-----------------------------------------------------------------------------
(* The public calls.  Each copy of a loop over the handle is the same call  *)
(* on the stream or on a half; what the call may do when it has to wait is  *)
(* in nonblocking and timeout, which the halves and the tasks do not have.  *)

Transfer(op, on, nonblocking, timeout) ==
  [op |-> op, on |-> on, len |-> 2, nonblocking |-> nonblocking, timeout |-> timeout]

DpdkTcpStream_read(nonblocking, timeout) == Transfer("read", "stream", nonblocking, timeout)
DpdkTcpStream_write(nonblocking, timeout) == Transfer("write", "stream", nonblocking, timeout)
TcpStream_ref_read == DpdkTcpStream_read(FALSE, FALSE)
TcpStream_ref_write == DpdkTcpStream_write(FALSE, FALSE)
OwnedReadHalf_read == Transfer("read", "read_half", FALSE, FALSE)
OwnedWriteHalf_write == Transfer("write", "write_half", FALSE, FALSE)

TcpStream_poll_read == Transfer("poll_read", "stream", FALSE, FALSE)
TcpStream_poll_write == Transfer("poll_write", "stream", FALSE, FALSE)
OwnedReadHalf_poll_read == Transfer("poll_read", "read_half", FALSE, FALSE)
OwnedWriteHalf_poll_write == Transfer("poll_write", "write_half", FALSE, FALSE)

shutdown(how) == [op |-> "shutdown", on |-> "stream", how |-> how]
poll_shutdown(on) == [op |-> "shutdown", on |-> on, how |-> "Write"]
set_nodelay == [op |-> "set_option", on |-> "stream", linger |-> None]
set_linger(l) == [op |-> "set_option", on |-> "stream", linger |-> Some(l)]

into_split == [op |-> "into_split", on |-> "stream"]
DpdkTcpStream_drop == [op |-> "drop", on |-> "stream"]
OwnedReadHalf_drop == [op |-> "drop", on |-> "read_half"]
OwnedWriteHalf_drop == [op |-> "drop", on |-> "write_half"]

connect == [op |-> "connect", on |-> Nobody, timeout |-> FALSE]
connect_timeout == [op |-> "connect", on |-> Nobody, timeout |-> TRUE]
accept == [op |-> "accept", on |-> Nobody, timeout |-> FALSE]

\* The calls there are, and what the threads of a program can make of them.
Objects == {"stream", "read_half", "write_half"}
Transfers(ops, objects) ==
  [op : ops, on : objects, len : Nat \ {0}, nonblocking : BOOLEAN, timeout : BOOLEAN]
AllCalls ==
  Transfers({"read", "poll_read"}, {"stream", "read_half"})
    \cup Transfers({"write", "poll_write"}, {"stream", "write_half"})
    \cup [op : {"shutdown"}, on : Objects, how : {"Read", "Write"}]
    \cup [op : {"set_option"}, on : {"stream"}, linger : Seq(STRING)]
    \cup [op : {"into_split"}, on : {"stream"}] \cup [op : {"drop"}, on : Objects]
    \cup [op : {"connect", "accept"}, on : {Nobody}, timeout : BOOLEAN]

Polls(c) == c.op \in {"poll_read", "poll_write"}
Reads(c) == c.op \in {"read", "poll_read"}
Writes(c) == c.op \in {"write", "poll_write"}
SameEnd(c, e) == c.on = e.on /\ ((Reads(c) /\ Reads(e)) \/ (Writes(c) /\ Writes(e)))
IsRequest(c) == c.op \in {"connect", "accept"}
Planned(s, t) == {s.calls[t][i] : i \in DOMAIN s.calls[t]}

\* poll_read and poll_write take the stream or half by &mut, so that no other thread reads
\* or writes it meanwhile; and a scene is about one connection, opened or accepted once.
SceneOK(s) ==
  /\ \A t, u \in Threads : \A c \in Planned(s, t), e \in Planned(s, u) :
       t # u /\ Polls(c) => ~SameEnd(c, e)
  /\ \A t, u \in Threads : \A i \in DOMAIN s.calls[t], j \in DOMAIN s.calls[u] :
       IsRequest(s.calls[t][i]) =>
         s.start # "connected" /\ (IsRequest(s.calls[u][j]) => t = u /\ i = j)

ASSUME StreamAssumption ==
  /\ Nobody \notin Threads /\ Capacity \in Nat /\ Window \in Nat
  /\ Scenes \subseteq [start : {"connected", "listening", "connect"}, mode : {"Fd", "PollOnly", "Condvar"},
                      calls : [Threads -> Seq(AllCalls)]]
  /\ \A s \in Scenes : SceneOK(s)

-----------------------------------------------------------------------------
\* What the steps have in common.

At(t, pc) == th[t].pc = pc
Op(t) == th[t].call.op
Goto(t, pc) == th' = [th EXCEPT ![t].pc = pc]
Return(t) == th' = [th EXCEPT ![t] = Idle]

Free(m) == lock[m] = Nobody
Acquire(t, m) == lock' = [lock EXCEPT ![m] = t]
Release(ms) == lock' = [m \in Mutexes |-> IF m \in ms THEN Nobody ELSE lock[m]]

Direction(t) == IF Op(t) \in {"read", "poll_read"} THEN "read" ELSE "write"
Blocking(t) == Op(t) \in {"read", "write"}
Held(t) == IF Blocking(t) THEN {Direction(t)} ELSE {}

\* The condition a reader or a writer waits for.
Ready(d) ==
  \/ error # None
  \/ d = "read" /\ (Filled(rx_ring) > 0 \/ eof)
  \/ d = "write" /\ Space(tx_ring) > 0

\* The stream is shared by reference: another thread uses it or is going to.
Borrowed(t, obj) ==
  \E u \in Threads \ {t} :
    \/ th[u].pc # "idle" /\ th[u].call.on = obj
    \/ \E i \in DOMAIN todo[u] : todo[u][i].on = obj

\* A thread takes its next call; a half is used by the thread it was moved to.
Call(t) ==
  /\ At(t, "idle") /\ todo[t] # << >>
  /\ LET call == Head(todo[t])
     IN  /\ call.on = Nobody \/ call.on \in live
         /\ call.op \in {"drop", "into_split"} => ~Borrowed(t, call.on)
         /\ th' = [th EXCEPT ![t] = [Idle EXCEPT !.pc = call.op, !.call = call]]
  /\ todo' = [todo EXCEPT ![t] = Tail(@)]
  /\ UNCHANGED <<rx_ring, tx_ring, handleVars, lock, wakeVars, chanVars, slot, tcb, eng, scene,
                 events, objVars, logVars>>

-----------------------------------------------------------------------------
(* Read and Write of DpdkTcpStream, of &TcpStream and of the owned halves. *)

\* Mutant: read and write do not serialise their callers.
EnterUnlocked(t) ==
  /\ th[t].pc \in {"read", "write"}
  /\ Goto(t, "error")
  /\ UNCHANGED <<rx_ring, tx_ring, handleVars, lock, wakeVars, chanVars, slot, tcb, eng, scene,
                 todo, events, objVars, logVars>>

Enter(t) ==
  /\ th[t].pc \in {"read", "write"}
  /\ Free(th[t].pc) /\ Acquire(t, th[t].pc)
  /\ Goto(t, "error")
  /\ UNCHANGED <<rx_ring, tx_ring, handleVars, wakeVars, chanVars, slot, tcb, eng, scene, todo,
                 events, objVars, logVars>>

\* The sticky error comes first, even when bytes wait in the ring.
CheckError(t) ==
  /\ At(t, "error")
  /\ IF error # None THEN Return(t) /\ Release(Held(t))
                     ELSE Goto(t, "ring") /\ UNCHANGED lock
  /\ UNCHANGED <<rx_ring, tx_ring, handleVars, wakeVars, chanVars, slot, tcb, eng, scene, todo,
                 events, objVars, logVars>>

\* rx_ring.read and tx_ring.write load the positions ...
RingBegin(t) ==
  /\ At(t, "ring")
  /\ LET read == Direction(t) = "read"
         n == Smaller(th[t].call.len, IF read THEN Filled(rx_ring) ELSE Space(tx_ring))
     IN  th' = [th EXCEPT ![t].pc = IF n > 0 THEN "publish" ELSE IF read THEN "eof" ELSE "wait",
                          ![t].n = n,
                          ![t].base = IF n = 0 THEN 0
                                      ELSE IF read THEN rx_ring.tail ELSE tx_ring.head]
  /\ UNCHANGED <<rx_ring, tx_ring, handleVars, lock, wakeVars, chanVars, slot, tcb, eng, scene,
                 todo, events, objVars, logVars>>

\* ... and publish the transfer; a writer then signals the engine.
RingPublish(t) ==
  /\ At(t, "publish")
  /\ LET last == th[t].base + th[t].n
     IN  IF Direction(t) = "read"
         THEN /\ rx_ring' = [rx_ring EXCEPT !.tail = last]
              /\ consumed' = consumed \o [i \in 1..th[t].n |-> th[t].base + i]
              /\ Return(t) /\ Release(Held(t))
              /\ UNCHANGED <<tx_ring, accepted>>
         ELSE /\ tx_ring' = [tx_ring EXCEPT !.head = last]
              /\ accepted' = accepted + th[t].n
              /\ th' = [th EXCEPT ![t] = [Idle EXCEPT !.pc = "signal", !.call = th[t].call]]
              /\ UNCHANGED <<rx_ring, consumed, lock>>
  /\ UNCHANGED <<handleVars, wakeVars, chanVars, slot, tcb, eng, scene, todo, events, objVars>>

CheckEof(t) ==
  /\ At(t, "eof")
  /\ IF eof THEN Return(t) /\ Release(Held(t)) ELSE Goto(t, "wait") /\ UNCHANGED lock
  /\ UNCHANGED <<rx_ring, tx_ring, handleVars, wakeVars, chanVars, slot, tcb, eng, scene, todo,
                 events, objVars, logVars>>

\* WouldBlock, or take notify_lock to wait.
WouldBlock(t) ==
  /\ At(t, "wait") /\ Blocking(t) /\ th[t].call.nonblocking
  /\ Return(t) /\ Release(Held(t))
  /\ UNCHANGED <<rx_ring, tx_ring, handleVars, wakeVars, chanVars, slot, tcb, eng, scene, todo,
                 events, objVars, logVars>>

LockNotify(t) ==
  /\ At(t, "wait") /\ Blocking(t) /\ ~th[t].call.nonblocking
  /\ Free("notify") /\ Acquire(t, "notify")
  /\ Goto(t, "recheck")
  /\ UNCHANGED <<rx_ring, tx_ring, handleVars, wakeVars, chanVars, slot, tcb, eng, scene, todo,
                 events, objVars, logVars>>

\* Mutant: the condition is not rechecked under notify_lock.
RecheckSkipped(t) ==
  /\ At(t, "recheck")
  /\ parked' = parked \cup {t} /\ Goto(t, "parked") /\ Release({"notify"})
  /\ UNCHANGED <<rx_ring, tx_ring, handleVars, waker, chanVars, slot, tcb, eng, scene, todo,
                 events, objVars, logVars>>

\* Recheck under notify_lock: try again, give up at the deadline, or park, which
\* releases the lock.
Recheck(t) ==
  /\ At(t, "recheck")
  /\ \/ Ready(Direction(t)) /\ Goto(t, "error") /\ Release({"notify"}) /\ UNCHANGED parked
     \/ ~Ready(Direction(t)) /\ th[t].call.timeout /\ Return(t)
          /\ Release({"notify"} \cup Held(t)) /\ UNCHANGED parked
     \/ ~Ready(Direction(t)) /\ parked' = parked \cup {t} /\ Goto(t, "parked")
          /\ Release({"notify"})
  /\ UNCHANGED <<rx_ring, tx_ring, handleVars, waker, chanVars, slot, tcb, eng, scene, todo,
                 events, objVars, logVars>>

\* A notification or the timeout ends the wait, which takes the lock and drops it.
Unpark(t) ==
  /\ At(t, "parked") /\ Free("notify")
  /\ t \notin parked \/ th[t].call.timeout
  /\ parked' = parked \ {t}
  /\ Goto(t, "error")
  /\ UNCHANGED <<rx_ring, tx_ring, handleVars, lock, waker, chanVars, slot, tcb, eng, scene, todo,
                 events, objVars, logVars>>

-----------------------------------------------------------------------------
(* poll_read_dpdk and poll_write_dpdk: AsyncRead, AsyncWrite. *)

\* AtomicWaker::register comes before every check.
Register(t) ==
  /\ th[t].pc \in {"poll_read", "poll_write"}
  /\ waker' = [waker EXCEPT ![Direction(t)] = t]
  /\ th' = [th EXCEPT ![t].pc = "error", ![t].resched = FALSE]
  /\ UNCHANGED <<rx_ring, tx_ring, handleVars, lock, parked, chanVars, slot, tcb, eng, scene, todo,
                 events, objVars, logVars>>

\* Poll::Pending: the task sleeps, unless its waker was taken while it ran.
Pending(t) ==
  /\ At(t, "wait") /\ ~Blocking(t)
  /\ Goto(t, IF th[t].resched THEN Op(t) ELSE "pending")
  /\ UNCHANGED <<rx_ring, tx_ring, handleVars, lock, wakeVars, chanVars, slot, tcb, eng, scene,
                 todo, events, objVars, logVars>>

\* Wakes the task registered for d, if there is one: the registers afterwards.
Woken(d) ==
  IF waker[d] = Nobody THEN th
  ELSE IF th[waker[d]].pc = "pending" THEN [th EXCEPT ![waker[d]].pc = th[waker[d]].call.op]
  ELSE [th EXCEPT ![waker[d]].resched = TRUE]

-----------------------------------------------------------------------------
(* Commands: CommandSender::send and EngineWakeup::signal. *)

Send(t, cmd, then) ==
  /\ cmds' = Append(cmds, cmd)
  /\ sent' = Append(sent, cmd.kind)
  /\ th' = [th EXCEPT ![t].pc = "signal", ![t].then = then]

\* signal stores the flag ...
SignalFlag(t) ==
  /\ At(t, "signal")
  /\ flag' = TRUE
  /\ Goto(t, "notify_one")
  /\ UNCHANGED <<rx_ring, tx_ring, handleVars, lock, wakeVars, cmds, sent, slot, tcb, eng, scene,
                 todo, events, objVars, logVars>>

\* ... then notifies under the mutex of the wakeup, which wait releases only to sleep;
\* a writer returns.
SignalNotify(t) ==
  /\ At(t, "notify_one")
  /\ Release({m \in Mutexes : lock[m] = t})
  /\ eng' = [eng EXCEPT !.pc = IF @ = "asleep" THEN "notified" ELSE @]
  /\ th' = [th EXCEPT ![t] = IF th[t].then = "idle" THEN Idle ELSE [@ EXCEPT !.pc = th[t].then]]
  /\ UNCHANGED <<rx_ring, tx_ring, handleVars, wakeVars, chanVars, slot, tcb, scene, todo,
                 events, objVars, logVars>>

\* shutdown, poll_shutdown, and the setters that go through the engine.
Shutdown(t) ==
  /\ At(t, "shutdown")
  /\ Send(t, [kind |-> "Shutdown", how |-> th[t].call.how], "idle")
  /\ UNCHANGED <<rx_ring, tx_ring, handleVars, lock, wakeVars, flag, slot, tcb, eng, scene, todo,
                 events, objVars, logVars>>

SetOption(t) ==
  /\ At(t, "set_option")
  /\ linger' = IF th[t].call.linger = None THEN linger ELSE th[t].call.linger
  /\ Send(t, [kind |-> "SetOption"], "idle")
  /\ UNCHANGED <<rx_ring, tx_ring, eof, error, app_refcount, lock, wakeVars, flag, slot, tcb, eng,
                 scene, todo, events, objVars, logVars>>

\* Mutant: the halves share the reference of the stream.
IntoSplitShared(t) ==
  /\ At(t, "into_split")
  /\ live' = {"read_half", "write_half"}
  /\ Return(t)
  /\ UNCHANGED <<rx_ring, tx_ring, handleVars, lock, wakeVars, chanVars, slot, tcb, eng, scene, todo,
                 events, owed, logVars>>

\* into_split: the halves replace the stream, whose Drop does not run.
IntoSplit(t) ==
  /\ At(t, "into_split")
  /\ app_refcount' = 2
  /\ live' = {"read_half", "write_half"}
  /\ Return(t)
  /\ UNCHANGED <<rx_ring, tx_ring, eof, error, linger, lock, wakeVars, chanVars, slot, tcb, eng,
                 scene, todo, events, owed, logVars>>

-----------------------------------------------------------------------------
(* Drop of the stream and of the halves. *)

\* The write half first shuts the connection down for writing.
DropWriteHalf(t) ==
  /\ At(t, "drop") /\ th[t].call.on = "write_half"
  /\ Send(t, [kind |-> "Shutdown", how |-> "Write"], "drop_ref")
  /\ UNCHANGED <<rx_ring, tx_ring, handleVars, lock, wakeVars, flag, slot, tcb, eng, scene, todo,
                 events, objVars, logVars>>

\* app_refcount.fetch_sub(1): whoever takes the last reference closes.
DropRef(t) ==
  /\ At(t, "drop_ref") \/ (At(t, "drop") /\ th[t].call.on # "write_half")
  /\ app_refcount' = app_refcount - 1
  /\ live' = live \ {th[t].call.on}
  /\ IF app_refcount = 1 THEN Goto(t, "close") ELSE Return(t)
  /\ UNCHANGED <<rx_ring, tx_ring, eof, error, linger, lock, wakeVars, chanVars, slot, tcb, eng,
                 scene, todo, events, owed, logVars>>

SendClose(t) ==
  /\ At(t, "close")
  /\ Send(t, [kind |-> "Close", linger |-> linger], "idle")
  /\ UNCHANGED <<rx_ring, tx_ring, handleVars, lock, wakeVars, flag, slot, tcb, eng, scene, todo,
                 events, objVars, logVars>>

-----------------------------------------------------------------------------
(* connect_v4, connect_timeout and accept: a command and its oneshot. *)

Request(t) ==
  /\ th[t].pc \in {"connect", "accept"}
  /\ Send(t, [kind |-> th[t].pc], "await")
  /\ owed' = TRUE
  /\ UNCHANGED <<rx_ring, tx_ring, handleVars, lock, wakeVars, flag, slot, tcb, eng, scene, todo,
                 events, live, logVars>>

\* recv and recv_timeout take the response: a stream, or an error.
Receive(t) ==
  /\ At(t, "await") /\ slot # None
  /\ slot' = None
  /\ live' = IF slot = Some("Ok") THEN {"stream"} ELSE live
  /\ owed' = FALSE
  /\ Return(t)
  /\ UNCHANGED <<rx_ring, tx_ring, handleVars, lock, wakeVars, chanVars, tcb, eng, scene, todo,
                 events, logVars>>

\* recv_timeout gives up: connect_timeout drops its handle and returns TimedOut.
ReceiveTimesOut(t) ==
  /\ At(t, "await") /\ slot = None /\ th[t].call.timeout
  /\ owed' = FALSE
  /\ Return(t)
  /\ UNCHANGED <<rx_ring, tx_ring, handleVars, lock, wakeVars, chanVars, slot, tcb, eng, scene,
                 todo, events, live, logVars>>

-----------------------------------------------------------------------------
(* The engine's handlers: the state they lead to and what they call on the *)
(* handle, in order.                                                       *)

Do(op) == [op |-> op, arg |-> None]
DoWith(op, x) == [op |-> op, arg |-> x]

\* notify_all: the condvar and then both wakers.
NotifyAll == <<Do("notify_all"), Do("wake_read"), Do("wake_write")>>

\* The wake step of on_tick.
NotifyWriters == <<Do("wake_write"), Do("notify_all")>>

Abort(err) == <<DoWith("latch_error", err), Do("set_eof")>> \o NotifyAll

Handler(state, ops) == [state |-> state, ops |-> ops]

\* handle_rst, for a RST that carries the sequence number the engine expects.
Reset(s) ==
  CASE s \in {"Absent", "SynSent"} -> {}
    [] s = "SynReceived" ->
         {Handler("Absent", <<DoWith("latch_error", "ConnectionReset")>> \o NotifyAll)}
    [] OTHER -> {Handler("Absent", Abort("ConnectionReset"))}

Data(s) == Handler(s, <<Do("write_rx")>> \o NotifyAll)
PeerFin(next) == Handler(next, <<Do("set_eof")>> \o NotifyAll)

\* What a segment can be to a connection in state s, as handle_existing_tcb and
\* handle_rst dispatch it.
Segments(s) ==
  Reset(s) \cup
  CASE s = "SynSent" ->
         {Handler("Established", NotifyAll \o <<DoWith("respond", "Ok")>>),
          Handler("Absent", <<DoWith("latch_error", "ConnectionRefused")>> \o NotifyAll
                              \o <<DoWith("respond", "ConnectionRefused")>>)}
    [] s = "SynReceived" -> {Handler("Established", NotifyAll \o <<Do("deliver_accept")>>)}
    [] s = "Established" -> {Data(s), Handler(s, <<Do("ack")>>), PeerFin("CloseWait")}
    [] s = "CloseWait" -> {Handler(s, <<Do("ack")>>)}
    [] s = "FinWait1" ->
         {Data(s), Handler("FinWait2", << >>), PeerFin("Closing"), PeerFin("TimeWait")}
    [] s = "FinWait2" -> {Data(s), PeerFin("TimeWait")}
    [] s = "Closing" -> {Handler("TimeWait", << >>)}
    [] s = "LastAck" -> {Handler("Absent", NotifyAll)}
    [] OTHER -> {}

\* What the timers of on_tick can do: the expiry of TIME_WAIT and FIN_WAIT_2, the last
\* retransmission, the last keepalive probe.
Timers(s) ==
  CASE s \in {"TimeWait", "FinWait2"} -> {PeerFin("Absent")}
    [] s = "Established" \/ (s \in {"CloseWait", "FinWait1", "Closing", "LastAck"} /\ tcb.flight > 0) ->
         {Handler("Absent", Abort("TimedOut"))}
    [] OTHER -> {}

\* send_fin
AfterFin(s) == IF s = "Established" THEN "FinWait1" ELSE "LastAck"

SendsData(s) == s \in {"Established", "CloseWait"}

-----------------------------------------------------------------------------
(* The engine thread. *)

EngineGoto(pc) == eng' = [eng EXCEPT !.pc = pc]
appVars == <<app_refcount, linger, cmds, sent, scene, todo, objVars, logVars>>

\* EngineWakeup::wait (RxReadiness::Fd): the flag, or sleep until notified or timed out.
\* Mutant: wait sleeps without looking at the flag.
WaitBlindly ==
  /\ eng.pc = "top" /\ scene.mode = "Fd"
  /\ EngineGoto("asleep")
  /\ UNCHANGED <<rx_ring, tx_ring, eof, error, lock, wakeVars, flag, slot, tcb, th, events, appVars>>

Wait ==
  /\ eng.pc = "top" /\ scene.mode = "Fd"
  /\ flag' = FALSE
  /\ EngineGoto(IF flag THEN "frames" ELSE "asleep")
  /\ UNCHANGED <<rx_ring, tx_ring, eof, error, lock, wakeVars, slot, tcb, th, events, appVars>>

WaitReturns ==
  /\ eng.pc \in {"asleep", "notified"}
  /\ flag' = FALSE
  /\ EngineGoto("frames")
  /\ UNCHANGED <<rx_ring, tx_ring, eof, error, lock, wakeVars, slot, tcb, th, events, appVars>>

\* try_recv, then a nap (PollOnly) or a wait on the backend's condvar, which a frame
\* or the timeout ends (Condvar).
TryRecv ==
  /\ eng.pc = "top" /\ scene.mode # "Fd"
  /\ flag' = FALSE
  /\ EngineGoto(IF flag \/ scene.mode = "PollOnly" THEN "frames" ELSE "try_again")
  /\ UNCHANGED <<rx_ring, tx_ring, eof, error, lock, wakeVars, slot, tcb, th, events, appVars>>

TryRecvAgain ==
  /\ eng.pc = "try_again"
  /\ flag' = FALSE
  /\ EngineGoto("frames")
  /\ UNCHANGED <<rx_ring, tx_ring, eof, error, lock, wakeVars, slot, tcb, th, events, appVars>>

\* One inbound segment.
OnSegment ==
  /\ eng.pc = "frames" /\ eng.ops = << >> /\ events < MaxEvents
  /\ \E h \in Segments(tcb.state) :
       /\ (h.ops # << >> /\ h.ops[1].op = "write_rx") => rx_ring.head < MaxBytes
       /\ eng' = [eng EXCEPT !.ops = h.ops]
       /\ tcb' = [tcb EXCEPT !.state = h.state]
       /\ events' = IF h.ops # << >> /\ h.ops[1].op = "write_rx" THEN events ELSE events + 1
  /\ UNCHANGED <<rx_ring, tx_ring, eof, error, lock, wakeVars, flag, slot, th, appVars>>

FramesDone ==
  /\ eng.pc = "frames" /\ eng.ops = << >>
  /\ EngineGoto("commands")
  /\ UNCHANGED <<rx_ring, tx_ring, eof, error, lock, wakeVars, flag, slot, tcb, th, events, appVars>>

\* on_command: Connect, Accept, Shutdown, Close; SetOption changes nothing here.
Handle(cmd) ==
  CASE cmd.kind = "connect" -> <<[tcb EXCEPT !.state = "SynSent"], << >> >>
    [] cmd.kind = "accept" /\ tcb.accept = "queued" ->
         <<[tcb EXCEPT !.accept = "none"], <<DoWith("respond", "Ok")>> >>
    [] cmd.kind = "accept" -> <<[tcb EXCEPT !.accept = "waiting"], << >> >>
    [] cmd.kind = "Close" /\ cmd.linger = Some("zero") /\ tcb.state # "Absent" ->
         <<[tcb EXCEPT !.state = "Absent"], Abort("ConnectionAborted")>>
    [] cmd.kind = "Shutdown" /\ cmd.how = "Read" /\ tcb.state # "Absent" ->
         <<tcb, <<Do("set_eof")>> \o NotifyAll>>
    [] cmd.kind \in {"Shutdown", "Close"} /\ SendsData(tcb.state) ->
         <<[tcb EXCEPT !.fin_pending = TRUE], <<Do("drain"), Do("fin_if_flushed")>> >>
    [] OTHER -> <<tcb, << >> >>

OnCommand ==
  /\ eng.pc = "commands" /\ eng.ops = << >> /\ cmds # << >>
  /\ cmds' = Tail(cmds)
  /\ tcb' = Handle(Head(cmds))[1]
  /\ eng' = [eng EXCEPT !.ops = Handle(Head(cmds))[2]]
  /\ UNCHANGED <<rx_ring, tx_ring, handleVars, lock, wakeVars, flag, sent, slot, scene, todo, th,
                 events, objVars, logVars>>

CommandsDone ==
  /\ eng.pc = "commands" /\ eng.ops = << >> /\ cmds = << >>
  /\ eng' = [pc |-> "tick", ops |-> << >>]
  /\ UNCHANGED <<rx_ring, tx_ring, eof, error, lock, wakeVars, flag, slot, tcb, th, events, appVars>>

\* on_tick: a timer fires, or the ring is drained and sent.
TimerFires ==
  /\ eng.pc = "tick" /\ events < MaxEvents
  /\ \E h \in Timers(tcb.state) :
       /\ eng' = [pc |-> "finish", ops |-> h.ops]
       /\ tcb' = [tcb EXCEPT !.state = h.state]
  /\ events' = events + 1
  /\ UNCHANGED <<rx_ring, tx_ring, eof, error, lock, wakeVars, flag, slot, th, appVars>>

Tick ==
  /\ eng.pc = "tick"
  /\ eng' = [pc |-> "finish", ops |-> IF SendsData(tcb.state)
                                      THEN <<Do("drain"), Do("transmit")>> ELSE << >>]
  /\ UNCHANGED <<rx_ring, tx_ring, eof, error, lock, wakeVars, flag, slot, tcb, th, events, appVars>>

TickDone ==
  /\ eng.pc = "finish" /\ eng.ops = << >>
  /\ EngineGoto("top")
  /\ UNCHANGED <<rx_ring, tx_ring, eof, error, lock, wakeVars, flag, slot, tcb, th, events, appVars>>

-----------------------------------------------------------------------------
(* The calls the handlers make on the handle. *)

Doing(op) == eng.ops # << >> /\ Head(eng.ops).op = op
Arg == Head(eng.ops).arg
OpDone == eng' = [eng EXCEPT !.ops = Tail(@)]

WriteRx ==
  /\ Doing("write_rx") /\ OpDone
  /\ rx_ring' = [rx_ring EXCEPT !.head = @ + Smaller(1, Space(rx_ring))]
  /\ UNCHANGED <<tx_ring, eof, error, lock, wakeVars, flag, slot, tcb, th, events, appVars>>

SetEof ==
  /\ Doing("set_eof") /\ OpDone
  /\ eof' = TRUE
  /\ UNCHANGED <<rx_ring, tx_ring, error, lock, wakeVars, flag, slot, tcb, th, events, appVars>>

latch_error ==
  /\ Doing("latch_error") /\ OpDone
  /\ error' = IF error = None THEN Some(Arg) ELSE error
  /\ UNCHANGED <<rx_ring, tx_ring, eof, lock, wakeVars, flag, slot, tcb, th, events, appVars>>

\* condvar.notify_all under notify_lock; keeping the lock while the wakers are woken
\* would only hold back threads that already woke up.
notify_all ==
  /\ Doing("notify_all") /\ Free("notify") /\ OpDone
  /\ parked' = {}
  /\ UNCHANGED <<rx_ring, tx_ring, eof, error, lock, waker, flag, slot, tcb, th, events, appVars>>

\* AtomicWaker::wake takes the waker.
Wake(d) ==
  /\ Doing(IF d = "read" THEN "wake_read" ELSE "wake_write") /\ OpDone
  /\ th' = Woken(d)
  /\ waker' = [waker EXCEPT ![d] = Nobody]
  /\ UNCHANGED <<rx_ring, tx_ring, eof, error, lock, parked, flag, slot, tcb, events, appVars>>

\* OneshotSender::send; the response of an abandoned oneshot goes nowhere.
Respond ==
  /\ Doing("respond") /\ OpDone
  /\ slot' = IF \E t \in Threads : At(t, "await") \/ th[t].then = "await" THEN Some(Arg) ELSE slot
  /\ UNCHANGED <<rx_ring, tx_ring, eof, error, lock, wakeVars, flag, tcb, th, events, appVars>>

\* A completed passive open goes to a waiting accept, or to the accept queue.
DeliverAccept ==
  /\ Doing("deliver_accept")
  /\ eng' = [eng EXCEPT !.ops = IF tcb.accept = "waiting" THEN <<DoWith("respond", "Ok")>>
                                ELSE << >>]
  /\ tcb' = [tcb EXCEPT !.accept = IF @ = "waiting" THEN "none" ELSE "queued"]
  /\ UNCHANGED <<rx_ring, tx_ring, eof, error, lock, wakeVars, flag, slot, th, events, appVars>>

\* An ACK: the flight shrinks, and the writer's task is woken.
Ack ==
  /\ Doing("ack")
  /\ eng' = [eng EXCEPT !.ops = <<Do("wake_write")>>]
  /\ tcb' = [tcb EXCEPT !.flight = 0]
  /\ UNCHANGED <<rx_ring, tx_ring, eof, error, lock, wakeVars, flag, slot, th, events, appVars>>

\* tx_ring.read until the ring is empty.
Drain ==
  /\ Doing("drain")
  /\ tx_ring' = [tx_ring EXCEPT !.tail = tx_ring.head]
  /\ tcb' = [tcb EXCEPT !.unsent = @ + Filled(tx_ring)]
  /\ IF Filled(tx_ring) = 0 THEN OpDone ELSE UNCHANGED eng
  /\ UNCHANGED <<rx_ring, eof, error, lock, wakeVars, flag, slot, th, events, appVars>>

\* handle_shutdown sends the FIN at once when everything has been sent.
FinIfFlushed ==
  /\ Doing("fin_if_flushed") /\ OpDone
  /\ tcb' = IF tcb.unsent = 0
            THEN [tcb EXCEPT !.state = AfterFin(@), !.fin_pending = FALSE] ELSE tcb
  /\ UNCHANGED <<rx_ring, tx_ring, eof, error, lock, wakeVars, flag, slot, th, events, appVars>>

\* on_tick sends what the window allows, then a pending FIN, and otherwise wakes the
\* writers when the window is not used up.
Transmit ==
  /\ Doing("transmit")
  /\ LET n == Smaller(tcb.unsent, IF tcb.flight >= Window THEN 0 ELSE Window - tcb.flight)
         left == tcb.unsent - n
     IN  IF tcb.fin_pending /\ left = 0 /\ Filled(tx_ring) = 0
         THEN /\ tcb' = [tcb EXCEPT !.unsent = 0, !.flight = @ + n, !.fin_pending = FALSE,
                                    !.state = AfterFin(@)]
              /\ OpDone
         ELSE /\ tcb' = [tcb EXCEPT !.unsent = left, !.flight = @ + n]
              /\ eng' = [eng EXCEPT !.ops = IF tcb.flight + n < Window /\ Space(tx_ring) > 0
                                            THEN NotifyWriters ELSE << >>]
  /\ UNCHANGED <<rx_ring, tx_ring, eof, error, lock, wakeVars, flag, slot, th, events, appVars>>

EngineOp ==
  \/ WriteRx \/ SetEof \/ latch_error \/ notify_all \/ Wake("read") \/ Wake("write")
  \/ Respond \/ DeliverAccept \/ Ack \/ Drain \/ FinIfFlushed \/ Transmit

EngineStep ==
  \/ Wait \/ WaitReturns \/ TryRecv \/ TryRecvAgain \/ FramesDone
  \/ OnCommand \/ CommandsDone \/ Tick \/ TickDone \/ EngineOp

AppStep(t) ==
  \/ Call(t) \/ Enter(t) \/ CheckError(t) \/ RingBegin(t) \/ RingPublish(t) \/ CheckEof(t)
  \/ WouldBlock(t) \/ LockNotify(t) \/ Recheck(t) \/ Unpark(t) \/ Register(t) \/ Pending(t)
  \/ SignalFlag(t) \/ SignalNotify(t) \/ Shutdown(t) \/ SetOption(t) \/ IntoSplit(t)
  \/ DropWriteHalf(t) \/ DropRef(t) \/ SendClose(t) \/ Request(t) \/ Receive(t)
  \/ ReceiveTimesOut(t)

Next == (\E t \in Threads : AppStep(t)) \/ EngineStep \/ OnSegment \/ TimerFires

Spec == Init /\ [][Next]_vars

-----------------------------------------------------------------------------
(* Properties. *)

Calls == {"read", "write", "poll_read", "poll_write", "shutdown", "set_option", "into_split",
          "drop", "connect", "accept"}
Steps == Calls \cup {"idle", "error", "ring", "publish", "eof", "wait", "recheck", "parked",
                     "pending", "signal", "notify_one", "drop_ref", "close", "await"}

\* The shape of the state; a thread that holds a mutex is inside the section it guards.
TypeOK ==
  /\ \A r \in {rx_ring, tx_ring} : r.tail <= r.head /\ Filled(r) <= Capacity
  /\ eof \in BOOLEAN /\ flag \in BOOLEAN /\ owed \in BOOLEAN
  /\ lock \in [Mutexes -> Threads \cup {Nobody}]
  /\ parked \subseteq {t \in Threads : At(t, "parked")}
  /\ waker \in [{"read", "write"} -> Threads \cup {Nobody}]
  /\ app_refcount \in 0..2
  /\ live \subseteq {"stream", "read_half", "write_half"}
  /\ \A t \in Threads : th[t].pc \in Steps
  /\ \A d \in {"read", "write"} : lock[d] # Nobody => Blocking(lock[d]) /\ Direction(lock[d]) = d

\* Concurrent reads of one stream take its bytes in order and once each, and every byte a
\* concurrent write reported as taken has its own place in the send stream: read_mutex and
\* write_mutex keep the rings single-consumer and single-producer.
RingsSerialised ==
  /\ \A i \in DOMAIN consumed : consumed[i] = i
  /\ accepted = tx_ring.head

Coming(op) == \E i \in DOMAIN eng.ops : eng.ops[i].op = op

\* A thread that sleeps, or a task whose waker is still registered.
Sleeps(t) == t \in parked \/ At(t, "pending")
WakeComing(t) ==
  IF t \in parked THEN Coming("notify_all")
  ELSE Coming(IF Direction(t) = "read" THEN "wake_read" ELSE "wake_write")

\* No wake-up is lost: when a reader sleeps although bytes, the end of the stream or an
\* error are there for it, or a writer although the connection has failed, the engine is
\* in the middle of a handler that is about to wake it.
NoLostWakeup ==
  \A t \in Threads :
    Sleeps(t) /\ (IF Direction(t) = "read" THEN Ready("read") ELSE error # None)
      => WakeComing(t)

\* Nobody waits for a connection the engine no longer has: a thread or task that sleeps in
\* read or write has a TCB that will wake it, or is being woken.
SleepersAreServed ==
  \A t \in Threads : Sleeps(t) => tcb.state # "Absent" \/ WakeComing(t)

\* While the engine sleeps in EngineWakeup::wait with a command in the channel or bytes
\* to send, a thread is on its way through EngineWakeup::signal.
SignalNotLost ==
  (eng.pc = "asleep" /\ (cmds # << >> \/ (SendsData(tcb.state) /\ Filled(tx_ring) > 0)))
    => \E t \in Threads : th[t].pc \in {"signal", "notify_one"}

\* While the application has the stream or a half of it, or waits for the connect or accept
\* that returns it, app_refcount counts what it has: the drop that takes the last reference
\* is the last drop.
HandlesCounted ==
  LET Ref(held) == IF held THEN 1 ELSE 0
  IN  (tcb.state # "Absent" /\ (live # {} \/ owed))
        => app_refcount = Ref("stream" \in live) + Ref("read_half" \in live) + Ref("write_half" \in live) + Ref(owed)

\* The connection is closed once, by the last handle, and no command about it follows.
CloseIsLast ==
  /\ \A i \in DOMAIN sent : sent[i] = "Close" => i = Len(sent)
  /\ (sent # << >> /\ sent[Len(sent)] = "Close") => live = {}

\* The two rings of a stream keep their single producer and consumer and their bounds
\* under any number of threads and tasks that read and write it.
StreamSerialised == TypeOK /\ RingsSerialised

\* Whoever sleeps in read or write has a wake-up on its way once there is something for
\* it, and a connection that will produce one until then.
SleepersWake == NoLostWakeup /\ SleepersAreServed

\* The handles of a stream are counted from connect, accept and split to the last drop,
\* and only that drop closes the connection, once and as its last command.
LastHandleCloses == HandlesCounted /\ CloseIsLast
=============================================================================
