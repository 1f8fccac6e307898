------------------------------- MODULE TcpTcb -------------------------------
(***************************************************************************)
(* The data of one TCP connection and the computations on it: the          *)
(* transmission control block (Tcb), its congestion state, the handle      *)
(* shared with the application (ConnectionHandle) and the segments.        *)
(*                                                                         *)
(* A deadline of the code is modelled by whether it is armed: the timers   *)
(* of a Tcb are the set t.armed.  A ring of the handle is the queue of its *)
(* bytes, which ByteRing implements.  Both ends run this code, so the      *)
(* options of a SYN are the constants Mss and RcvScale.                    *)
(***************************************************************************)
EXTENDS SeqNum, Sequences, FiniteSets

CONSTANTS Mss,        \* local_mss of both ends
          RingCap,    \* capacity of rx_ring and tx_ring
          RcvWnd,     \* default_rcv_wnd
          RcvScale,   \* default_rcv_scale
          IwFloor,    \* the 14600 of initial_window
          Infinite    \* the u32::MAX of ssthresh, beyond any window

ASSUME TcbAssumption ==
  /\ Mss \in Nat \ {0}
  /\ RingCap \in Nat \ {0}
  /\ RcvWnd \in Nat /\ RcvScale \in Nat
  /\ IwFloor \in Nat /\ Infinite \in Nat

Timers == {"rto", "persist", "keepalive", "time_wait", "fin_wait2", "delayed_ack"}

TcpState == {"SynSent", "SynReceived", "Established", "FinWait1", "FinWait2",
             "CloseWait", "Closing", "LastAck", "TimeWait"}

MinOf(a, b) == IF a <= b THEN a ELSE b
MaxOf(a, b) == IF a >= b THEN a ELSE b
SaturatingSub(a, b) == IF a >= b THEN a - b ELSE 0

-----------------------------------------------------------------------------
(* Congestion window *)

InitialWindow == MinOf(10 * Mss, MaxOf(2 * Mss, IwFloor))

NewCongestion == [cwnd |-> InitialWindow, ssthresh |-> Infinite]

\* on_ack: slow start below ssthresh, congestion avoidance above.
OnAck(cg) ==
  [cg EXCEPT !.cwnd = @ + IF cg.cwnd < cg.ssthresh
                          THEN Mss
                          ELSE MaxOf(1, (Mss * Mss) \div MaxOf(1, cg.cwnd))]

\* on_rto: one segment, and half of the flight as the new threshold.
OnRto(cg, flight) == [cwnd |-> Mss, ssthresh |-> MaxOf(flight \div 2, 2 * Mss)]

-----------------------------------------------------------------------------
(* Tcb *)

NoTcb == [state |-> "None"]

NewTcb(state, iss) ==
  [state |-> state, iss |-> iss,
   snd_una |-> iss, snd_nxt |-> SeqAdd(iss, 1), snd_wnd |-> 0,
   snd_wl1 |-> 0, snd_wl2 |-> 0, snd_scale |-> 0,
   rcv_nxt |-> 0, rcv_wnd |-> RcvWnd, recv_buf_size |-> RingCap,
   congestion |-> NewCongestion,
   armed |-> {"rto"}, retransmit_count |-> 0,
   send_buf |-> <<>>, retransmit_queue |-> <<>>, reorder_buffer |-> <<>>,
   nodelay |-> FALSE, has_unacked_data |-> FALSE, fin_pending |-> FALSE,
   keepalive |-> FALSE, keepalive_probes_sent |-> 0, segments_since_ack |-> 0]

Exists(t) == t.state # "None"

FlightSize(t) == SeqDiff(t.snd_nxt, t.snd_una)

AvailableSendWindow(t) ==
  SaturatingSub(MinOf(t.congestion.cwnd, t.snd_wnd), FlightSize(t))

\* Where the bytes of send_buf not yet sent begin.
AlreadySentOffset(t) ==
  LET q == t.retransmit_queue
  IN  IF q = <<>> THEN 0 ELSE q[Len(q)].offset + q[Len(q)].len

Unsent(t) == SaturatingSub(Len(t.send_buf), AlreadySentOffset(t))

NagleShouldSend(t, pending) == t.nodelay \/ ~t.has_unacked_data \/ pending >= Mss

\* retransmit_queue.retain of every handler that advances snd_una
Retain(queue, una) ==
  SelectSeq(queue, LAMBDA entry : SeqGt(SeqAdd(entry.seq, entry.len), una))

\* The bytes of send_buf an entry of the retransmit queue stands for.
EntryBytes(t, entry) ==
  SubSeq(t.send_buf, entry.offset + 1,
         MinOf(entry.offset + entry.len, Len(t.send_buf)))

-----------------------------------------------------------------------------
(* ConnectionHandle *)

NewHandle(state) ==
  [state |-> state, eof |-> FALSE, error |-> "none", rx |-> <<>>, tx |-> <<>>]

LatchError(hnd, err) == IF hnd.error = "none" THEN [hnd EXCEPT !.error = err] ELSE hnd

-----------------------------------------------------------------------------
(* Segments and windows *)

\* encode_window: the handshake advertises rcv_wnd unscaled.
EncodeWindow(t) == t.rcv_wnd

\* Mutant: the window does not shrink with the room in the ring.
WindowIgnoringRing(t, hnd) == t.rcv_wnd \div (2 ^ RcvScale)

\* encode_established_window, with silly-window avoidance.
EncodeEstablishedWindow(t, hnd) ==
  LET available == RingCap - Len(hnd.rx)
      threshold == MinOf(Mss, t.recv_buf_size \div 2)
      wnd == IF available < threshold THEN 0 ELSE MinOf(available, t.rcv_wnd)
  IN  wnd \div (2 ^ RcvScale)

ScaledUp(window, scale) == window * (2 ^ scale)

\* A segment of an established connection.
Frame(t, hnd, c, flags, seq, payload) ==
  [conn |-> c, flags |-> flags, seq |-> seq, ack |-> t.rcv_nxt,
   window |-> EncodeEstablishedWindow(t, hnd), payload |-> payload, lost_mac |-> FALSE]

\* build_ack_for_tcb
AckFrame(t, hnd, c) == Frame(t, hnd, c, {"ACK"}, t.snd_nxt, <<>>)

\* A segment of the handshake (rcv_nxt is still 0 when the SYN is built).
HandshakeFrame(t, c, flags, seq) ==
  [conn |-> c, flags |-> flags, seq |-> seq, ack |-> t.rcv_nxt,
   window |-> EncodeWindow(t), payload |-> <<>>, lost_mac |-> FALSE]

SegmentLen(seg) ==
  Len(seg.payload) + Cardinality(seg.flags \cap {"SYN", "FIN"})

\* send_rst_for_segment: the answer is addressed to the placeholder MACs of
\* extract_macs_from_segment, never to the sender of the segment.
RstFor(seg) ==
  [conn |-> seg.conn, window |-> 0, payload |-> <<>>, lost_mac |-> TRUE,
   flags |-> IF "ACK" \in seg.flags THEN {"RST"} ELSE {"RST", "ACK"},
   seq |-> IF "ACK" \in seg.flags THEN seg.ack ELSE 0,
   ack |-> IF "ACK" \in seg.flags THEN 0 ELSE SeqAdd(seg.seq, SegmentLen(seg))]

IsInWindow(seq, rcv_nxt, rcv_wnd) ==
  \/ seq = rcv_nxt
  \/ rcv_wnd # 0 /\ SeqGt(seq, rcv_nxt) /\ SeqGt(SeqAdd(rcv_nxt, rcv_wnd), seq)
=============================================================================
