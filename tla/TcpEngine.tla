------------------------------ MODULE TcpEngine ------------------------------
(***************************************************************************)
(* Two TCP engines, a client and a server, and the network between them.   *)
(* An engine is one thread that owns every Tcb of its host; it takes       *)
(* segments from the network, commands from application threads and timer  *)
(* ticks, one at a time.  Each of its handlers is an action here.          *)
(*                                                                         *)
(* A handler works on a record e of what it may change: the Tcb e.t, the   *)
(* shared handle e.hnd, the frames e.out it sends and the reply it gives   *)
(* to a pending connect.  A connection c of Conn is a 4-tuple, the same    *)
(* for both ends.                                                          *)
(*                                                                         *)
(* The bytes an application writes are numbered 1, 2, 3...: a byte is its  *)
(* place in the stream, so what the peer reads shows what was lost,        *)
(* repeated or invented.  0 is the byte of a window probe.                 *)
(***************************************************************************)
EXTENDS TcpTcb

CONSTANTS Conn,         \* the connections
          IsnStep,      \* how far the ISN clock gets between two connections
          Backlog,      \* backlog of the listener
          KaCount,      \* probe count of the keepalive configuration
          Scenes        \* configurations, applications and environments

SE == INSTANCE SequencesExt

Hosts == {"client", "server"}
Peer(h) == IF h = "client" THEN "server" ELSE "client"

\* "close_at_eof" is an application that closes only once it has read EOF.
AllAppOps == {"shutdown_read", "shutdown_write", "close", "close_at_eof", "close_linger0",
              "nodelay", "keepalive", "no_keepalive", "recv_buf_size", "relisten"}

SceneType ==
  [Conns : SUBSET Conn,                     \* the connections that are opened
   Iss : [Hosts -> SeqNums],                \* the first initial sequence number
   MaxRetries : Nat, MaxTcbs : Nat,         \* max_retries, max_tcbs
   AppOps : [Hosts -> SUBSET AllAppOps],    \* the operations an application uses
   MaxBytes : [Hosts -> Nat],               \* bound: bytes an application writes
   WriteLen : Nat \ {0},                    \* bound: the length of the slice passed to write
   ReadLen : Nat \ {0},                     \* bound: the length of the buffer passed to read
   MaxAccepts : Nat,                        \* bound: accept calls
   Expiring : SUBSET Timers,                \* the timers that may run out
   FaultKinds : SUBSET {"lose", "duplicate", "delay", "switched"},
   MaxFaults : Nat,                         \* bound: faults in one behaviour
   MaxProbes : Nat]                         \* bound: persist probes in one behaviour

ASSUME EngineAssumption ==
  /\ IsnStep \in SeqNums /\ Backlog \in Nat /\ KaCount \in Nat
  /\ \A s \in Scenes : s \in SceneType

VARIABLES tcb,       \* [Hosts -> [Conn -> Tcb or NoTcb]]
          handle,    \* [Hosts -> [Conn -> ConnectionHandle]]
          connect,   \* [Conn -> reply of the client's connect call]
          listener,  \* the server's ListenState
          net,       \* [Hosts -> Seq(segment)]: on their way to a host
          app,       \* [Hosts -> [Conn -> what the application did]]
          spent      \* the scene, and faults, probes, accept calls and Tcbs made so far

vars == <<tcb, handle, connect, listener, net, app, spent>>

Iss == spent.scene.Iss
MaxRetries == spent.scene.MaxRetries
MaxTcbs == spent.scene.MaxTcbs
AppOps == spent.scene.AppOps
MaxBytes == spent.scene.MaxBytes
WriteLen == spent.scene.WriteLen
ReadLen == spent.scene.ReadLen
MaxAccepts == spent.scene.MaxAccepts
Expiring == spent.scene.Expiring
FaultKinds == spent.scene.FaultKinds
MaxFaults == spent.scene.MaxFaults
MaxProbes == spent.scene.MaxProbes

NoListener == [listening |-> FALSE, backlog |-> 0, accept_queue |-> 0, completed |-> <<>>]

NewApp == [open |-> FALSE, written |-> 0, read |-> <<>>, shut |-> {}]

Init ==
  /\ tcb = [h \in Hosts |-> [c \in Conn |-> NoTcb]]
  /\ handle = [h \in Hosts |-> [c \in Conn |-> NewHandle("Closed")]]
  /\ connect = [c \in Conn |-> "idle"]
  /\ listener = NoListener
  /\ net = [h \in Hosts |-> <<>>]
  /\ app = [h \in Hosts |-> [c \in Conn |-> NewApp]]
  /\ \E s \in Scenes : spent = [scene |-> s, faults |-> 0, probes |-> 0, accepts |-> 0,
                                 tcbs |-> [h \in Hosts |-> [c \in Conn |-> 0]]]

-----------------------------------------------------------------------------
(* The working record of a handler *)

Work(h, c) ==
  [t |-> tcb[h][c], hnd |-> handle[h][c], out |-> <<>>, reply |-> "none"]

Emit(e, frame) == [e EXCEPT !.out = Append(@, frame)]

EmitAck(e, c) == Emit(e, AckFrame(e.t, e.hnd, c))

SetState(e, state) == [e EXCEPT !.t.state = state, !.hnd.state = state]

Arm(e, timer) == [e EXCEPT !.t.armed = @ \cup {timer}]
Disarm(e, timer) == [e EXCEPT !.t.armed = @ \ {timer}]

\* The Tcb leaves the table and the handle shows CLOSED.
Remove(e) == [e EXCEPT !.t = NoTcb, !.hnd.state = "Closed"]

SetEof(e) == [e EXCEPT !.hnd.eof = TRUE]

\* latch_error, CLOSED, EOF, and the Tcb is gone.
Abort(e, err) == SetEof(Remove([e EXCEPT !.hnd = LatchError(@, err)]))

WriteRx(e, bytes) ==
  LET written == MinOf(Len(bytes), RingCap - Len(e.hnd.rx))
  IN  [e EXCEPT !.hnd.rx = @ \o SubSeq(bytes, 1, written),
                !.t.rcv_nxt = SeqAdd(@, written)]

\* Step 1 of the transmission in on_tick and handle_shutdown.
DrainTx(e) == [e EXCEPT !.t.send_buf = @ \o e.hnd.tx, !.hnd.tx = <<>>]

\* An acknowledgement in (snd_una, snd_nxt].
Acks(t, seg) == "ACK" \in seg.flags /\ SeqGt(seg.ack, t.snd_una) /\ SeqLe(seg.ack, t.snd_nxt)

AdvanceUna(e, seg) ==
  [e EXCEPT !.t.snd_una = seg.ack,
            !.t.retransmit_queue = Retain(@, seg.ack),
            !.t.congestion = OnAck(@)]

\* Mutant: a FIN is taken while bytes before it are missing.
FinAnywhere(e, seg) == "FIN" \in seg.flags

\* The FIN of seg comes right after the bytes received so far.
FinInOrder(e, seg) ==
  "FIN" \in seg.flags /\ SeqAdd(seg.seq, Len(seg.payload)) = e.t.rcv_nxt

\* rcv_nxt passes the FIN, EOF is set and the state changes.
TakeFin(e, state) ==
  SetState(SetEof([e EXCEPT !.t.rcv_nxt = SeqAdd(@, 1)]), state)

-----------------------------------------------------------------------------
(* handle_established *)

\* Mutant: the offsets are not rebased.
AckWithoutRebase(e, seg) ==
  LET drained == MinOf(SeqDiff(seg.ack, e.t.snd_una), Len(e.t.send_buf))
  IN  [AdvanceUna(e, seg) EXCEPT
         !.t.send_buf = SubSeq(@, drained + 1, Len(@)),
         !.t.has_unacked_data = @ /\ seg.ack # e.t.snd_nxt]

\* The acknowledged bytes leave send_buf; the offsets of the entries that
\* survive are rebased.
AckEstablished(e, seg) ==
  LET drained == MinOf(SeqDiff(seg.ack, e.t.snd_una), Len(e.t.send_buf))
      rebase(entry) == [entry EXCEPT !.offset = SaturatingSub(@, drained)]
      queue == Retain(e.t.retransmit_queue, seg.ack)
  IN  [AdvanceUna(e, seg) EXCEPT
         !.t.send_buf = SubSeq(@, drained + 1, Len(@)),
         !.t.retransmit_queue = [i \in DOMAIN queue |-> rebase(queue[i])],
         !.t.has_unacked_data = @ /\ seg.ack # e.t.snd_nxt]

\* The precedence of && over || is the code's.
WindowIsNewer(t, seg) ==
  \/ SeqGt(seg.seq, t.snd_wl1)
  \/ seg.seq = t.snd_wl1 /\ SeqLe(seg.ack, t.snd_nxt) /\ SeqGt(seg.ack, t.snd_wl2)
  \/ seg.ack = t.snd_wl2

UpdateSendWindow(e, seg) ==
  IF "ACK" \in seg.flags /\ WindowIsNewer(e.t, seg)
  THEN [e EXCEPT !.t.snd_wnd = ScaledUp(seg.window, e.t.snd_scale),
                 !.t.snd_wl1 = seg.seq,
                 !.t.snd_wl2 = seg.ack]
  ELSE e

ResetKeepalive(e) ==
  [e EXCEPT !.t.keepalive_probes_sent = 0,
            !.t.armed = IF e.t.keepalive THEN @ \cup {"keepalive"} ELSE @]

\* The keys of reorder_buffer are distances from rcv_nxt; they wrap like the
\* u32 subtraction of a release build.
Rebase(buffer, written) ==
  [k \in {SeqDiff(j, written) : j \in DOMAIN buffer} |-> buffer[SeqAdd(k, written)]]

\* d: the handler's record and the number of entries drained.
DrainEntry(d) ==
  LET buffer == d.e.t.reorder_buffer
      e1 == WriteRx(d.e, buffer[0])
      written == SeqDiff(e1.t.rcv_nxt, d.e.t.rcv_nxt)
      rest == [k \in DOMAIN buffer \ {0} |-> buffer[k]]
  IN  IF 0 \notin DOMAIN buffer
      THEN d
      ELSE [e |-> [e1 EXCEPT !.t.reorder_buffer = Rebase(rest, written)], n |-> d.n + 1]

DrainReorderBuffer(e) ==
  LET size == Cardinality(DOMAIN e.t.reorder_buffer)
      after[i \in 0..size] == IF i = 0 THEN [e |-> e, n |-> 0] ELSE DrainEntry(after[i - 1])
  IN  after[size]

\* In order: to rx_ring, with what the reorder buffer then continues; an ACK
\* at every second segment, else at the delayed-ACK timer.
DeliverInOrder(e, c, seg) ==
  LET e1 == WriteRx(e, seg.payload)
      written == SeqDiff(e1.t.rcv_nxt, e.t.rcv_nxt)
      d == DrainReorderBuffer([e1 EXCEPT !.t.reorder_buffer = Rebase(@, written)])
      since == e.t.segments_since_ack + 1 + d.n
  IN  IF since >= 2
      THEN EmitAck(Disarm([d.e EXCEPT !.t.segments_since_ack = 0], "delayed_ack"), c)
      ELSE Arm([d.e EXCEPT !.t.segments_since_ack = since], "delayed_ack")

\* Out of order: kept for later, with an immediate duplicate ACK.
BufferOutOfOrder(e, c, seg) ==
  LET offset == SeqDiff(seg.seq, e.t.rcv_nxt)
      buffer == e.t.reorder_buffer
      insert == [k \in DOMAIN buffer \cup {offset} |->
                   IF k = offset THEN seg.payload ELSE buffer[k]]
  IN  EmitAck(Disarm([e EXCEPT !.t.reorder_buffer = insert,
                               !.t.segments_since_ack = 0], "delayed_ack"), c)

\* Mutant: data received before is delivered again.
DeliverOldData(e, c, seg) ==
  IF SeqLe(seg.seq, e.t.rcv_nxt) THEN DeliverInOrder(e, c, seg)
  ELSE BufferOutOfOrder(e, c, seg)

DeliverData(e, c, seg) ==
  IF seg.seq = e.t.rcv_nxt THEN DeliverInOrder(e, c, seg)
  ELSE IF SeqGt(seg.seq, e.t.rcv_nxt) THEN BufferOutOfOrder(e, c, seg)
  ELSE e

\* The ACK of the FIN replaces the one the data may have caused.
FinEstablished(e, c, seg) ==
  IF FinInOrder(e, seg)
  THEN EmitAck(Disarm([TakeFin(e, "CloseWait") EXCEPT
                         !.t.segments_since_ack = 0, !.out = <<>>], "delayed_ack"), c)
  ELSE e

HandleEstablished(e, c, seg) ==
  LET acked == IF Acks(e.t, seg) THEN AckEstablished(e, seg) ELSE e
      windowed == UpdateSendWindow(acked, seg)
      delivered == IF seg.payload = <<>> THEN windowed
                   ELSE DeliverData(ResetKeepalive(windowed), c, seg)
  IN  FinEstablished(delivered, c, seg)

-----------------------------------------------------------------------------
(* The handlers of the closing states *)

DeliverClosing(e, seg) ==
  IF seg.payload # <<>> /\ seg.seq = e.t.rcv_nxt THEN WriteRx(e, seg.payload) ELSE e

HandleFinWait1(e, c, seg) ==
  LET acked == IF Acks(e.t, seg) THEN AdvanceUna(e, seg) ELSE e
      our_fin_acked == "ACK" \in seg.flags /\ seg.ack = e.t.snd_nxt
      d == DeliverClosing(acked, seg)
      peer_fin == FinInOrder(d, seg)
  IN  IF our_fin_acked /\ peer_fin
      THEN EmitAck(Arm(TakeFin(d, "TimeWait"), "time_wait"), c)
      ELSE IF our_fin_acked
      THEN Disarm(Arm(SetState(d, "FinWait2"), "fin_wait2"), "rto")
      ELSE IF peer_fin
      THEN EmitAck(TakeFin(d, "Closing"), c)
      ELSE d

\* Mutant: TIME_WAIT is entered without its timer.
FinWait2NoTimer(e, c, seg) ==
  LET d == DeliverClosing(e, seg)
  IN  IF FinInOrder(d, seg)
      THEN EmitAck(Disarm(TakeFin(d, "TimeWait"), "fin_wait2"), c)
      ELSE IF seg.payload # <<>> /\ seg.seq = e.t.rcv_nxt
      THEN EmitAck(d, c)
      ELSE d

HandleFinWait2(e, c, seg) ==
  LET d == DeliverClosing(e, seg)
  IN  IF FinInOrder(d, seg)
      THEN EmitAck(Disarm(Arm(TakeFin(d, "TimeWait"), "time_wait"), "fin_wait2"), c)
      ELSE IF seg.payload # <<>> /\ seg.seq = e.t.rcv_nxt
      THEN EmitAck(d, c)
      ELSE d

HandleCloseWait(e, seg) == IF Acks(e.t, seg) THEN AdvanceUna(e, seg) ELSE e

HandleLastAck(e, seg) ==
  IF "ACK" \in seg.flags /\ seg.ack = e.t.snd_nxt THEN Remove(e) ELSE e

HandleClosing(e, seg) ==
  IF "ACK" \in seg.flags /\ seg.ack = e.t.snd_nxt
  THEN Disarm(Arm(SetState(e, "TimeWait"), "time_wait"), "rto")
  ELSE e

HandleTimeWait(e, c, seg) ==
  IF "FIN" \in seg.flags THEN EmitAck(Arm(e, "time_wait"), c) ELSE e

-----------------------------------------------------------------------------
(* handle_rst and handle_rst_rfc5961 *)

HandleRst(e, c, seg) ==
  CASE e.t.state = "SynSent" ->
         IF "ACK" \in seg.flags /\ seg.ack = SeqAdd(e.t.iss, 1)
         THEN [Remove([e EXCEPT !.hnd = LatchError(@, "ConnectionRefused")])
                 EXCEPT !.reply = "ConnectionRefused"]
         ELSE e
    [] e.t.state = "SynReceived" ->
         IF seg.seq = e.t.rcv_nxt
         THEN Remove([e EXCEPT !.hnd = LatchError(@, "ConnectionReset")])
         ELSE e
    [] e.t.state = "None" -> e
    [] OTHER ->
         IF seg.seq = e.t.rcv_nxt THEN Abort(e, "ConnectionReset")
         ELSE IF IsInWindow(seg.seq, e.t.rcv_nxt, e.t.rcv_wnd) THEN EmitAck(e, c)
         ELSE e

-----------------------------------------------------------------------------
(* on_tick for one connection; x is the set of its timers that ran out *)

\* Mutant: the timer runs out and is not armed again.
RtoGivesUpSilently(e, c) == Disarm(e, "rto")

RtoFires(e, c) ==
  LET count == e.t.retransmit_count + 1
      entry == e.t.retransmit_queue[1]
      e1 == [e EXCEPT !.t.retransmit_count = count,
                      !.t.congestion = OnRto(@, FlightSize(e.t))]
      payload == EntryBytes(e.t, entry)
  IN  IF count > MaxRetries THEN [Abort(e, "TimedOut") EXCEPT !.reply = "TimedOut"]
      ELSE IF payload = <<>> THEN e1
      ELSE Emit(e1, Frame(e.t, e.hnd, c, {"ACK"}, entry.seq, payload))

\* One byte, 0, at snd_una + flight_size.
PersistFires(e, c) ==
  Emit(e, Frame(e.t, e.hnd, c, {"ACK"}, SeqAdd(e.t.snd_una, FlightSize(e.t)), <<0>>))

KeepaliveFires(e, c) ==
  LET sent == e.t.keepalive_probes_sent + 1
  IN  IF sent > KaCount
      THEN Abort(e, "TimedOut")
      ELSE Emit([e EXCEPT !.t.keepalive_probes_sent = sent],
                Frame(e.t, e.hnd, c, {"ACK"}, SeqDiff(e.t.snd_una, 1), <<>>))

DelayedAckFires(e, c) ==
  EmitAck(Disarm([e EXCEPT !.t.segments_since_ack = 0], "delayed_ack"), c)

MaySend(t) ==
  /\ AvailableSendWindow(t) > 0
  /\ Unsent(t) > 0
  /\ NagleShouldSend(t, Unsent(t))

SendSegment(e, c) ==
  LET offset == AlreadySentOffset(e.t)
      len == MinOf(MinOf(Unsent(e.t), Mss), AvailableSendWindow(e.t))
      entry == [seq |-> e.t.snd_nxt, offset |-> offset, len |-> len]
      frame == Frame(e.t, e.hnd, c, {"ACK"}, e.t.snd_nxt,
                     SubSeq(e.t.send_buf, offset + 1, offset + len))
  IN  Arm(Emit([e EXCEPT !.t.snd_nxt = SeqAdd(@, len),
                         !.t.has_unacked_data = TRUE,
                         !.t.retransmit_queue = Append(@, entry)], frame), "rto")

SendSegments(e, c) ==
  LET after[i \in 0..Len(e.t.send_buf)] ==
        IF i = 0 THEN e
        ELSE IF MaySend(after[i - 1].t) THEN SendSegment(after[i - 1], c)
        ELSE after[i - 1]
  IN  after[Len(e.t.send_buf)]

\* Armed when nothing may be sent although there is something to send,
\* cleared when something may be sent.
PersistTimer(e) ==
  IF AvailableSendWindow(e.t) > 0 THEN Disarm(e, "persist")
  ELSE IF Len(e.t.send_buf) > AlreadySentOffset(e.t) THEN Arm(e, "persist")
  ELSE e

KeepaliveTimer(e) ==
  IF e.t.state = "Established" /\ e.t.keepalive THEN Arm(e, "keepalive") ELSE e

\* Mutants: FIN_WAIT_1 also after the peer's FIN; a FIN without a sequence number.
SendFinAlwaysActive(e, c) ==
  LET frame == Frame(e.t, e.hnd, c, {"FIN", "ACK"}, e.t.snd_nxt, <<>>)
      e1 == [e EXCEPT !.t.fin_pending = FALSE, !.t.snd_nxt = SeqAdd(@, 1)]
  IN  Arm(Emit(SetState(e1, "FinWait1"), frame), "rto")

SendFinUncounted(e, c) ==
  LET frame == Frame(e.t, e.hnd, c, {"FIN", "ACK"}, e.t.snd_nxt, <<>>)
      state == IF e.t.state = "Established" THEN "FinWait1" ELSE "LastAck"
      e1 == [e EXCEPT !.t.fin_pending = FALSE]
  IN  Arm(Emit(SetState(e1, state), frame), "rto")

SendFin(e, c) ==
  LET frame == Frame(e.t, e.hnd, c, {"FIN", "ACK"}, e.t.snd_nxt, <<>>)
      state == IF e.t.state = "Established" THEN "FinWait1" ELSE "LastAck"
      e1 == [e EXCEPT !.t.fin_pending = FALSE, !.t.snd_nxt = SeqAdd(@, 1)]
  IN  Arm(Emit(SetState(e1, state), frame), "rto")

Transmit(e, c) ==
  LET e1 == KeepaliveTimer(PersistTimer(SendSegments(DrainTx(e), c)))
  IN  IF e1.t.fin_pending /\ Unsent(e1.t) = 0 THEN SendFin(e1, c) ELSE e1

OnTick(e, c, x) ==
  IF \/ e.t.state = "TimeWait" /\ "time_wait" \in x
     \/ e.t.state = "FinWait2" /\ "fin_wait2" \in x
  THEN SetEof(Remove(e))
  ELSE IF "rto" \in x /\ e.t.retransmit_queue # <<>> THEN RtoFires(e, c)
  ELSE IF "persist" \in x THEN PersistFires(e, c)
  ELSE IF "keepalive" \in x /\ e.t.keepalive THEN KeepaliveFires(e, c)
  ELSE LET e1 == IF "delayed_ack" \in x THEN DelayedAckFires(e, c) ELSE e
       IN  IF e1.t.state \in {"Established", "CloseWait"} THEN Transmit(e1, c) ELSE e1

-----------------------------------------------------------------------------
(* Commands *)

HandleShutdown(e, c, how) ==
  IF how = "read" THEN SetEof(e)
  ELSE IF e.t.state \notin {"Established", "CloseWait"} THEN e
  ELSE LET e1 == DrainTx([e EXCEPT !.t.fin_pending = TRUE])
       IN  IF Unsent(e1.t) = 0 THEN SendFin(e1, c) ELSE e1

HandleCloseRst(e, c) ==
  LET rst == [Frame(e.t, e.hnd, c, {"RST", "ACK"}, e.t.snd_nxt, <<>>) EXCEPT !.window = 0]
  IN  Emit(Abort(e, "ConnectionAborted"), rst)

HandleClose(e, c, linger0) ==
  IF linger0 THEN HandleCloseRst(e, c) ELSE HandleShutdown(e, c, "write")

HandleSetOption(e, option) ==
  CASE option = "nodelay" -> [e EXCEPT !.t.nodelay = ~@]
    [] option = "keepalive" -> [e EXCEPT !.t.keepalive = TRUE]
    [] option = "no_keepalive" ->
         Disarm([e EXCEPT !.t.keepalive = FALSE, !.t.keepalive_probes_sent = 0], "keepalive")
    [] option = "recv_buf_size" ->
         [e EXCEPT !.t.recv_buf_size = Mss, !.t.rcv_wnd = MinOf(@, Mss)]

-----------------------------------------------------------------------------
(* Segments: the head of net[h] is handled by the engine of h *)

Segment(h) == Head(net[h])

\* A segment without RST arrives for a connection in one of the states.
Arrives(h, states) ==
  /\ net[h] # <<>>
  /\ "RST" \notin Segment(h).flags
  /\ tcb[h][Segment(h).conn].state \in states

\* The handler's record takes effect.
Store(h, c, e) ==
  /\ tcb' = [tcb EXCEPT ![h][c] = e.t]
  /\ handle' = [handle EXCEPT ![h][c] = e.hnd]
  /\ connect' = [connect EXCEPT ![c] =
                   IF h = "client" /\ @ = "pending" /\ e.reply # "none" THEN e.reply ELSE @]

Consume(h, out) == net' = [net EXCEPT ![h] = Tail(@), ![Peer(h)] = @ \o out]

Handled(h, e) ==
  /\ Store(h, Segment(h).conn, e)
  /\ Consume(h, e.out)
  /\ UNCHANGED <<listener, spent>>

LiveTcbs(h) == {c \in Conn : Exists(tcb[h][c])}

\* IsnGenerator::generate: a hash of the 4-tuple plus a clock.
Isn(h, c) == SeqAdd(Iss[h], spent.tcbs[h][c] * IsnStep)

\* handle_syn_with_macs
SynRefused ==
  LET embryonic == {c \in LiveTcbs("server") : tcb["server"][c].state = "SynReceived"}
  IN  \/ ~listener.listening
      \/ Cardinality(embryonic) + Len(listener.completed) >= listener.backlog
      \/ Cardinality(LiveTcbs("server")) >= MaxTcbs

SynReceivedTcb(seg) ==
  [NewTcb("SynReceived", Isn("server", seg.conn)) EXCEPT
     !.rcv_nxt = SeqAdd(seg.seq, 1),
     !.snd_scale = RcvScale,
     !.snd_wnd = ScaledUp(seg.window, RcvScale)]

\* A SYN makes a Tcb with a handle of its own: a stream of an earlier
\* connection with this 4-tuple keeps the old handle, which changes no more.
RecvSyn ==
  /\ Arrives("server", {"None"})
  /\ "SYN" \in Segment("server").flags /\ "ACK" \notin Segment("server").flags
  /\ LET seg == Segment("server")
         t == SynReceivedTcb(seg)
     IN  IF SynRefused
         THEN Consume("server", <<RstFor(seg)>>) /\ UNCHANGED <<tcb, handle, app, spent>>
         ELSE /\ tcb' = [tcb EXCEPT !["server"][seg.conn] = t]
              /\ handle' = [handle EXCEPT !["server"][seg.conn] = NewHandle("SynReceived")]
              /\ app' = [app EXCEPT !["server"][seg.conn] = NewApp]
              /\ spent' = [spent EXCEPT !.tcbs["server"][seg.conn] = @ + 1]
              /\ Consume("server", <<HandshakeFrame(t, seg.conn, {"SYN", "ACK"}, t.iss)>>)
  /\ UNCHANGED <<connect, listener>>

HandleSynAck(e, c, seg) ==
  LET t == [e.t EXCEPT !.snd_una = seg.ack,
                       !.rcv_nxt = SeqAdd(seg.seq, 1),
                       !.armed = @ \ {"rto"},
                       !.snd_scale = RcvScale,
                       !.snd_wnd = ScaledUp(seg.window, RcvScale),
                       !.congestion = NewCongestion]
      e1 == SetState([e EXCEPT !.t = t, !.reply = "Ok"], "Established")
  IN  IF seg.ack = SeqAdd(e.t.iss, 1)
      THEN Emit(e1, HandshakeFrame(t, c, {"ACK"}, t.snd_nxt))
      ELSE e

\* The application's connect call returns the stream with the reply.
OpenIfConnected(h, c, e) ==
  app' = [app EXCEPT ![h][c].open = @ \/ e.reply = "Ok"]

RecvSynSent ==
  /\ Arrives("client", {"SynSent"})
  /\ LET seg == Segment("client")
         e == IF {"SYN", "ACK"} \subseteq seg.flags
              THEN HandleSynAck(Work("client", seg.conn), seg.conn, seg)
              ELSE Work("client", seg.conn)
     IN  Handled("client", e) /\ OpenIfConnected("client", seg.conn, e)

\* Mutant: a connection nobody waits for is dropped.
OfferToWaiting(l, c) ==
  IF l.accept_queue > 0 THEN [l EXCEPT !.accept_queue = @ - 1] ELSE l

\* The connection goes to an accept call that waits, or else to the completed
\* connections; to nobody when there is no listener.
Offer(l, c) ==
  IF ~l.listening THEN l
  ELSE IF l.accept_queue > 0 THEN [l EXCEPT !.accept_queue = @ - 1]
  ELSE [l EXCEPT !.completed = Append(@, c)]

\* handle_ack_for_syn_received
RecvSynReceived ==
  /\ Arrives("server", {"SynReceived"})
  /\ LET seg == Segment("server")
         c == seg.conn
         e == Work("server", c)
         completes == /\ "ACK" \in seg.flags /\ "SYN" \notin seg.flags
                      /\ seg.ack = SeqAdd(e.t.iss, 1)
         waiting == listener.accept_queue > 0
         e1 == Disarm(SetState([e EXCEPT !.t.snd_una = seg.ack], "Established"), "rto")
     IN  /\ Store("server", c, IF completes THEN e1 ELSE e)
         /\ Consume("server", <<>>)
         /\ listener' = IF completes THEN Offer(listener, c) ELSE listener
         /\ app' = [app EXCEPT !["server"][c].open = @ \/ (completes /\ waiting)]
  /\ UNCHANGED spent

\* handle_existing_tcb for the synchronised states
RecvEstablished(h) ==
  /\ Arrives(h, {"Established"})
  /\ Handled(h, HandleEstablished(Work(h, Segment(h).conn), Segment(h).conn, Segment(h)))
  /\ UNCHANGED app

RecvFinWait1(h) ==
  /\ Arrives(h, {"FinWait1"})
  /\ Handled(h, HandleFinWait1(Work(h, Segment(h).conn), Segment(h).conn, Segment(h)))
  /\ UNCHANGED app

RecvFinWait2(h) ==
  /\ Arrives(h, {"FinWait2"})
  /\ Handled(h, HandleFinWait2(Work(h, Segment(h).conn), Segment(h).conn, Segment(h)))
  /\ UNCHANGED app

RecvCloseWait(h) ==
  /\ Arrives(h, {"CloseWait"})
  /\ Handled(h, HandleCloseWait(Work(h, Segment(h).conn), Segment(h)))
  /\ UNCHANGED app

RecvLastAck(h) ==
  /\ Arrives(h, {"LastAck"})
  /\ Handled(h, HandleLastAck(Work(h, Segment(h).conn), Segment(h)))
  /\ UNCHANGED app

RecvClosing(h) ==
  /\ Arrives(h, {"Closing"})
  /\ Handled(h, HandleClosing(Work(h, Segment(h).conn), Segment(h)))
  /\ UNCHANGED app

RecvTimeWait(h) ==
  /\ Arrives(h, {"TimeWait"})
  /\ Handled(h, HandleTimeWait(Work(h, Segment(h).conn), Segment(h).conn, Segment(h)))
  /\ UNCHANGED app

RecvRst(h) ==
  /\ net[h] # <<>>
  /\ "RST" \in Segment(h).flags
  /\ Handled(h, HandleRst(Work(h, Segment(h).conn), Segment(h).conn, Segment(h)))
  /\ UNCHANGED app

\* No Tcb, and not the SYN of a new connection.
RecvUnknown(h) ==
  /\ Arrives(h, {"None"})
  /\ ~("SYN" \in Segment(h).flags /\ "ACK" \notin Segment(h).flags)
  /\ Consume(h, <<>>)
  /\ UNCHANGED <<tcb, handle, connect, listener, app, spent>>

-----------------------------------------------------------------------------
(* Ticks *)

\* The frames of every connection (in the order of the table's iteration).
Frames(after) ==
  LET order == SE!SetToSeq(Conn)
  IN  SE!FlattenSeq([i \in DOMAIN order |-> after[order[i]].out])

\* on_tick: every connection of the host, with the timers that ran out.
Tick(h, expired) ==
  LET after == [c \in Conn |->
                  IF Exists(tcb[h][c]) THEN OnTick(Work(h, c), c, expired[c]) ELSE Work(h, c)]
      probing == {c \in Conn : \E i \in DOMAIN after[c].out : after[c].out[i].payload = <<0>>}
  IN  /\ spent.probes + Cardinality(probing) <= MaxProbes
      /\ tcb' = [tcb EXCEPT ![h] = [c \in Conn |-> after[c].t]]
      /\ handle' = [handle EXCEPT ![h] = [c \in Conn |-> after[c].hnd]]
      /\ connect' = [c \in Conn |->
                       IF h = "client" /\ connect[c] = "pending" /\ after[c].reply # "none"
                       THEN after[c].reply ELSE connect[c]]
      /\ net' = [net EXCEPT ![Peer(h)] = @ \o Frames(after)]
      /\ spent' = [spent EXCEPT !.probes = @ + Cardinality(probing)]
      /\ UNCHANGED <<listener, app>>

ArmedTimers(h) ==
  [c \in Conn |-> IF Exists(tcb[h][c]) THEN tcb[h][c].armed \cap Expiring ELSE {}]

TickAny(h) ==
  \E due \in SUBSET UNION {{c} \X ArmedTimers(h)[c] : c \in Conn} :
    Tick(h, [c \in Conn |-> {timer \in Timers : <<c, timer>> \in due}])

-----------------------------------------------------------------------------
(* Commands of the applications; an application that holds a stream calls *)
(* its operations, and the engine handles the command.                    *)

\* handle_connect
Connect(c) ==
  LET t == NewTcb("SynSent", Isn("client", c))
  IN  /\ connect[c] = "idle"
      /\ IF Cardinality(LiveTcbs("client")) >= MaxTcbs
         THEN /\ connect' = [connect EXCEPT ![c] = "ResourceLimit"]
              /\ UNCHANGED <<tcb, handle, net, spent>>
         ELSE /\ connect' = [connect EXCEPT ![c] = "pending"]
              /\ tcb' = [tcb EXCEPT !["client"][c] = t]
              /\ handle' = [handle EXCEPT !["client"][c] = NewHandle("SynSent")]
              /\ net' = [net EXCEPT !["server"] = Append(@, HandshakeFrame(t, c, {"SYN"}, t.iss))]
              /\ spent' = [spent EXCEPT !.tcbs["client"][c] = @ + 1]
      /\ UNCHANGED <<listener, app>>

\* handle_listen: a second Listen replaces the state of the first.
Listen ==
  /\ listener.listening => "relisten" \in AppOps["server"]
  /\ listener' = [listening |-> TRUE, backlog |-> Backlog, accept_queue |-> 0, completed |-> <<>>]
  /\ UNCHANGED <<tcb, handle, connect, net, app, spent>>

\* handle_accept: the connection completed last, or wait.
Accept ==
  /\ listener.listening
  /\ spent.accepts < MaxAccepts
  /\ spent' = [spent EXCEPT !.accepts = @ + 1]
  /\ LET done == listener.completed
     IN  IF done # <<>>
         THEN /\ listener' = [listener EXCEPT !.completed = SubSeq(@, 1, Len(@) - 1)]
              /\ app' = [app EXCEPT !["server"][done[Len(done)]].open = TRUE]
         ELSE /\ listener' = [listener EXCEPT !.accept_queue = @ + 1]
              /\ UNCHANGED app
  /\ UNCHANGED <<tcb, handle, connect, net>>

\* A command on a connection that still has a Tcb; any other is ignored.
Command(h, c, e) ==
  /\ IF Exists(tcb[h][c])
     THEN /\ Store(h, c, e)
          /\ net' = [net EXCEPT ![Peer(h)] = @ \o e.out]
     ELSE UNCHANGED <<tcb, handle, connect, net>>
  /\ UNCHANGED <<listener, spent>>

Shutdown(h, c, how) ==
  /\ app[h][c].open
  /\ how \notin app[h][c].shut
  /\ (IF how = "read" THEN "shutdown_read" ELSE "shutdown_write") \in AppOps[h]
  /\ app' = [app EXCEPT ![h][c].shut = @ \cup {how}]
  /\ Command(h, c, HandleShutdown(Work(h, c), c, how))

MayClose(h, c) ==
  /\ app[h][c].open
  /\ \/ "close" \in AppOps[h]
     \/ "close_at_eof" \in AppOps[h] /\ handle[h][c].eof /\ handle[h][c].rx = <<>>

\* Drop of the last handle of the stream.
Close(h, c, linger0) ==
  /\ IF linger0 THEN app[h][c].open /\ "close_linger0" \in AppOps[h] ELSE MayClose(h, c)
  /\ app' = [app EXCEPT ![h][c].open = FALSE, ![h][c].shut = @ \cup {"write"}]
  /\ Command(h, c, HandleClose(Work(h, c), c, linger0))

SetOption(h, c, option) ==
  /\ app[h][c].open
  /\ option \in AppOps[h]
  /\ Command(h, c, HandleSetOption(Work(h, c), option))
  /\ UNCHANGED app

-----------------------------------------------------------------------------
(* The rings: the application's side *)

\* Write for DpdkTcpStream: as much as the ring takes, unless an error is latched.
Write(h, c) ==
  LET sent == app[h][c].written
      n == MinOf(MinOf(WriteLen, MaxBytes[h] - sent), RingCap - Len(handle[h][c].tx))
  IN  /\ app[h][c].open /\ "write" \notin app[h][c].shut
      /\ handle[h][c].error = "none"
      /\ n > 0
      /\ handle' = [handle EXCEPT ![h][c].tx = @ \o [i \in 1..n |-> sent + i]]
      /\ app' = [app EXCEPT ![h][c].written = sent + n]
      /\ UNCHANGED <<tcb, connect, listener, net, spent>>

\* Read for DpdkTcpStream: an error hides what the ring still holds.
Read(h, c) ==
  LET rx == handle[h][c].rx
      n == MinOf(ReadLen, Len(rx))
  IN  /\ app[h][c].open
      /\ handle[h][c].error = "none"
      /\ n > 0
      /\ handle' = [handle EXCEPT ![h][c].rx = SubSeq(@, n + 1, Len(@))]
      /\ app' = [app EXCEPT ![h][c].read = @ \o SubSeq(rx, 1, n)]
      /\ UNCHANGED <<tcb, connect, listener, net, spent>>

-----------------------------------------------------------------------------
(* The network *)

Fault(kind) ==
  /\ kind \in FaultKinds
  /\ spent.faults < MaxFaults
  /\ spent' = [spent EXCEPT !.faults = @ + 1]
  /\ UNCHANGED <<tcb, handle, connect, listener, app>>

Lose(h) ==
  /\ Fault("lose")
  /\ net[h] # <<>>
  /\ net' = [net EXCEPT ![h] = Tail(@)]

\* A second copy arrives after the first i segments.
Duplicate(h) ==
  /\ Fault("duplicate")
  /\ \E i \in DOMAIN net[h] :
       net' = [net EXCEPT ![h] = SubSeq(@, 1, i) \o <<@[1]>> \o SubSeq(@, i + 1, Len(@))]

\* The first segment arrives after the next i.
Delay(h) ==
  /\ Fault("delay")
  /\ \E i \in DOMAIN net[h] \ {1} :
       net' = [net EXCEPT ![h] = SubSeq(@, 2, i) \o <<@[1]>> \o SubSeq(@, i + 1, Len(@))]

\* On a switched network a frame for the placeholder MAC address reaches no
\* host (on a shared one, as in the repository's tests, the peer takes it).
Misaddressed(h) ==
  /\ "switched" \in FaultKinds
  /\ net[h] # <<>>
  /\ Segment(h).lost_mac
  /\ net' = [net EXCEPT ![h] = Tail(@)]
  /\ UNCHANGED <<tcb, handle, connect, listener, app, spent>>

-----------------------------------------------------------------------------

Receive(h) ==
  \/ RecvEstablished(h) \/ RecvFinWait1(h) \/ RecvFinWait2(h) \/ RecvCloseWait(h)
  \/ RecvLastAck(h) \/ RecvClosing(h) \/ RecvTimeWait(h) \/ RecvRst(h)
  \/ RecvUnknown(h)
  \/ h = "server" /\ (RecvSyn \/ RecvSynReceived)
  \/ h = "client" /\ RecvSynSent

Application(h, c) ==
  \/ Write(h, c) \/ Read(h, c)
  \/ \E how \in {"read", "write"} : Shutdown(h, c, how)
  \/ \E linger0 \in BOOLEAN : Close(h, c, linger0)
  \/ \E option \in {"nodelay", "keepalive", "no_keepalive", "recv_buf_size"} :
       SetOption(h, c, option)

Next ==
  \/ Listen \/ Accept
  \/ \E c \in spent.scene.Conns : Connect(c)
  \/ \E h \in Hosts :
       \/ Receive(h) \/ TickAny(h)
       \/ Lose(h) \/ Duplicate(h) \/ Delay(h) \/ Misaddressed(h)
       \/ \E c \in Conn : Application(h, c)

Spec == Init /\ [][Next]_vars

\* A tick with these expired timers would change something.
TickDue(h, expired) ==
  \E c \in Conn : Exists(tcb[h][c]) /\ OnTick(Work(h, c), c, expired[c]) # Work(h, c)

NoTimer == [c \in Conn |-> {}]
Only(h, timer) == [c \in Conn |-> ArmedTimers(h)[c] \cap {timer}]

\* The driver loop of an engine never stops: it takes what has arrived,
\* ticks, and a retransmission, delayed-ACK or TIME_WAIT timer that stays
\* armed runs out (if the scene lets it).  The server listens and
\* keeps accepting; the applications read what they can and close in the
\* end.  (Each line is the weak fairness of its action, with the condition
\* that enables it written out.)
Fairness ==
  /\ WF_vars(Listen) /\ WF_vars(Accept)
  /\ \A h \in Hosts :
       /\ []<>(net[h] = <<>>) \/ []<><<Receive(h)>>_vars
       /\ []<>~TickDue(h, NoTimer) \/ []<><<Tick(h, NoTimer)>>_vars
       /\ \A timer \in {"rto", "delayed_ack", "time_wait"} :
            []<>~TickDue(h, Only(h, timer)) \/ []<><<Tick(h, Only(h, timer))>>_vars
       /\ \A c \in Conn :
            /\ WF_vars(Read(h, c))
            /\ []<>~MayClose(h, c) \/ []<><<Close(h, c, FALSE)>>_vars

LiveSpec == Spec /\ Fairness

-----------------------------------------------------------------------------
(* Properties *)

Synchronized == TcpState \ {"SynSent", "SynReceived"}
FinSent == {"FinWait1", "FinWait2", "Closing", "LastAck", "TimeWait"}

\* The byte of the stream that has sequence number s is byte Pos(t, s).
Pos(t, s) == SeqDiff(s, t.iss)

\* How many sequence numbers of the flight carry data.
DataInFlight(t) == FlightSize(t) - (IF t.state \in FinSent /\ FlightSize(t) > 0 THEN 1 ELSE 0)

\* All a host's application has received or can still read.
Received(h, c) == app[h][c].read \o handle[h][c].rx

Ascending(seq) == \A i \in DOMAIN seq : seq[i] = i

TcbType(offsets) ==
  [state : TcpState, iss : SeqNums, snd_una : SeqNums, snd_nxt : SeqNums,
   snd_wnd : Nat, snd_wl1 : SeqNums, snd_wl2 : SeqNums, snd_scale : Nat,
   rcv_nxt : SeqNums, rcv_wnd : Nat, recv_buf_size : Nat,
   congestion : [cwnd : Nat, ssthresh : Nat],
   armed : SUBSET Timers, retransmit_count : Nat,
   send_buf : Seq(Nat), retransmit_queue : Seq([seq : SeqNums, offset : Nat, len : Nat]),
   reorder_buffer : [offsets -> Seq(Nat)],
   nodelay : BOOLEAN, has_unacked_data : BOOLEAN, fin_pending : BOOLEAN,
   keepalive : BOOLEAN, keepalive_probes_sent : Nat, segments_since_ack : {0, 1}]

HandleType ==
  [state : TcpState \cup {"Closed"}, eof : BOOLEAN,
   error : {"none", "ConnectionRefused", "ConnectionReset", "ConnectionAborted", "TimedOut"},
   rx : Seq(Nat), tx : Seq(Nat)]

(* Types, and what the handle shows of the engine's state: the rings never *)
(* hold more than they can, the state the application sees is the Tcb's,   *)
(* CLOSED once the Tcb is gone.                                            *)
TypeOK ==
  /\ \A h \in Hosts, c \in Conn :
       /\ \/ tcb[h][c] = NoTcb
          \/ /\ DOMAIN tcb[h][c].reorder_buffer \subseteq SeqNums
             /\ tcb[h][c] \in TcbType(DOMAIN tcb[h][c].reorder_buffer)
       /\ handle[h][c] \in HandleType
       /\ Len(handle[h][c].rx) <= RingCap /\ Len(handle[h][c].tx) <= RingCap
       /\ handle[h][c].state = IF Exists(tcb[h][c]) THEN tcb[h][c].state ELSE "Closed"
  /\ connect \in [Conn -> {"idle", "pending", "Ok", "ConnectionRefused", "TimedOut",
                           "ResourceLimit"}]

(* Whatever is in flight can be sent again: every unacknowledged byte lies *)
(* in an entry of the retransmit queue, and while there is an entry the    *)
(* retransmission timer is armed (until TIME_WAIT).                        *)
InFlightIsRetransmittable ==
  \A h \in Hosts, c \in Conn :
    LET t == tcb[h][c]
        q == t.retransmit_queue
    IN  t.state \in Synchronized =>
          /\ \A i \in 0..(DataInFlight(t) - 1) : \E j \in DOMAIN q :
               SeqInRange(SeqAdd(t.snd_una, i), q[j].seq, SeqAdd(q[j].seq, q[j].len))
          /\ q # <<>> /\ t.state # "TimeWait" => "rto" \in t.armed

(* An entry of the retransmit queue still denotes the bytes that were sent *)
(* under its sequence numbers, however acknowledgements have moved send_buf. *)
RetransmitFaithful ==
  \A h \in Hosts, c \in Conn :
    LET t == tcb[h][c]
    IN  t.state \in Synchronized =>
          \A j \in DOMAIN t.retransmit_queue :
            LET entry == t.retransmit_queue[j]
            IN  EntryBytes(t, entry) =
                  [k \in 1..entry.len |-> Pos(t, SeqAdd(entry.seq, k - 1))]

(* The stream arrives as it was written: what a receiver holds is a prefix *)
(* of the bytes its peer wrote.                                            *)
StreamIntegrity ==
  \A h \in Hosts, c \in Conn :
    /\ Ascending(Received(h, c))
    /\ Len(Received(h, c)) <= app[Peer(h)][c].written

(* End of file means the end: an application that sees EOF without an      *)
(* error, and did not shut down reading itself, has or can read every byte *)
(* its peer wrote.                                                         *)
EofIsComplete ==
  \A h \in Hosts, c \in Conn :
    /\ app[h][c].open /\ "read" \notin app[h][c].shut
    /\ handle[h][c].eof /\ handle[h][c].error = "none"
    => Len(Received(h, c)) = app[Peer(h)][c].written

(* Neither end is ahead of the other: what a sender takes as acknowledged  *)
(* has been received, and what a receiver expects next has been sent.  (A  *)
(* window probe breaks this: its byte is not counted by the sender.)       *)
EndsAgree ==
  spent.probes = 0 => \A h \in Hosts, c \in Conn :
    LET t == tcb[h][c]
        p == tcb[Peer(h)][c]
    IN  t.state \in Synchronized /\ p.state \in Synchronized =>
          SeqLe(t.snd_una, p.rcv_nxt) /\ SeqLe(p.rcv_nxt, t.snd_nxt)

(* The receiver has room for everything that is on its way to it.          *)
FlowControl ==
  \A h \in Hosts : \A i \in DOMAIN net[h] :
    LET seg == net[h][i]
        t == tcb[h][seg.conn]
        room == RingCap - Len(handle[h][seg.conn].rx)
    IN  t.state \in Synchronized /\ seg.payload # <<>>
          => SeqLe(SeqAdd(seg.seq, Len(seg.payload)), SeqAdd(t.rcv_nxt, room))

(* Sending respects both windows: a step that sends new data leaves no more *)
(* in flight than the congestion window and the peer's window allow.        *)
SendsWithinWindow ==
  \A h \in Hosts, c \in Conn :
    LET t == tcb[h][c]
        u == tcb'[h][c]
    IN  /\ Exists(t) /\ Exists(u)
        /\ Len(u.retransmit_queue) > Len(t.retransmit_queue)
        => DataInFlight(u) <= MinOf(u.congestion.cwnd, u.snd_wnd)

(* Late and repeated segments undo nothing: in the life of one Tcb neither  *)
(* the acknowledged nor the expected sequence number moves back, nor does   *)
(* the number to send next.                                                 *)
NeverRegresses ==
  \A h \in Hosts, c \in Conn :
    LET t == tcb[h][c]
        u == tcb'[h][c]
    IN  t.state \in Synchronized /\ u.state \in Synchronized =>
          /\ SeqLe(t.snd_una, u.snd_una)
          /\ SeqLe(t.snd_nxt, u.snd_nxt)
          /\ SeqLe(t.rcv_nxt, u.rcv_nxt)

(* The listener's limits hold at every moment, not just when a SYN arrives: *)
(* half-open and completed connections together stay within the backlog,    *)
(* and no host has more than max_tcbs connections.                          *)
ResourceBounds ==
  /\ Cardinality({c \in Conn : tcb["server"][c].state = "SynReceived"})
       + Len(listener.completed) <= Backlog
  /\ \A h \in Hosts : Cardinality(LiveTcbs(h)) <= MaxTcbs

(* No established connection is forgotten: the server has handed it to an   *)
(* accept call, or the next accept will find it.                            *)
NoConnectionForgotten ==
  \A c \in Conn :
    tcb["server"][c].state \in Synchronized =>
      \/ app["server"][c].open
      \/ "write" \in app["server"][c].shut
      \/ \E i \in DOMAIN listener.completed : listener.completed[i] = c

(* The states of a connection change as in the TCP state diagram, whatever  *)
(* segments arrive in whatever order: each side's FIN is sent and taken once. *)
LegalTransitions ==
  \A h \in Hosts, c \in Conn :
    LET from == tcb[h][c].state
        to == tcb'[h][c].state
    IN  from # to =>
          <<from, to>> \in
            ({"None"} \X {"SynSent", "SynReceived"})
            \cup ({"SynSent", "SynReceived"} \X {"Established"})
            \cup ({"Established"} \X {"FinWait1", "CloseWait"})
            \cup ({"FinWait1"} \X {"FinWait2", "Closing", "TimeWait"})
            \cup ({"FinWait2", "Closing"} \X {"TimeWait"})
            \cup ({"CloseWait"} \X {"LastAck"})
            \cup (TcpState \X {"None"})

\* The network of the scene delivers everything.
Reliable == FaultKinds = {}

(* On a network that loses nothing, a connect call returns: the engine     *)
(* answers it, with a connection or an error.                              *)
ConnectReturns == \A c \in Conn : Reliable /\ connect[c] = "pending" ~> connect[c] # "pending"

(* Every byte that was written reaches the peer's receive ring, unless the *)
(* connection fails and the error is shown.                                *)
WrittenIsDelivered ==
  \A h \in Hosts, c \in Conn :
    app[h][c].written > Len(Received(Peer(h), c)) ~>
      \/ app[h][c].written = Len(Received(Peer(h), c))
      \/ handle[h][c].error # "none"

(* On a network that loses nothing, a connection that its application has  *)
(* closed is eventually gone: no Tcb is left behind.                       *)
ClosedIsRemoved ==
  \A h \in Hosts, c \in Conn :
    Reliable /\ Exists(tcb[h][c]) /\ ~app[h][c].open /\ "write" \in app[h][c].shut ~> ~Exists(tcb[h][c])

(* What a sender holds is what it may have to send again: the types hold,   *)
(* every unacknowledged byte is covered by the retransmit queue with the    *)
(* timer armed, the queue still denotes the bytes first sent, and what is   *)
(* taken as acknowledged was received.                                      *)
SendStateSound == TypeOK /\ InFlightIsRetransmittable /\ RetransmitFaithful /\ EndsAgree

(* Flow control from both ends: the receiver has room for all that is on    *)
(* its way, and no step of the sender exceeds the smaller of the windows.   *)
FlowControlled == [][FlowControl' /\ SendsWithinWindow]_vars

(* The listener loses nothing and keeps its limits: backlog and max_tcbs    *)
(* are never exceeded, and no established connection is forgotten.          *)
BacklogKept == ResourceBounds /\ NoConnectionForgotten

(* Whatever arrives late, twice or out of order, each step of a connection  *)
(* is one of the state diagram and no sequence number moves back.           *)
LegalSteps == [][LegalTransitions /\ NeverRegresses]_vars

(* Both ends of a connection's life finish on a network that loses nothing: *)
(* the connect call returns, and a closed connection leaves no Tcb behind.  *)
HandshakesEnd == ConnectReturns /\ ClosedIsRemoved
=============================================================================
