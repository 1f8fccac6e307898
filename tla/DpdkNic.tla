------------------------------ MODULE DpdkNic ------------------------------
(***************************************************************************)
(* The wrappers of the dpdk crate (Eal, Mempool, Mbuf, Port) and the       *)
(* driver below them, as operations on a record.  An Mbuf value of the     *)
(* program is a member of the sequence its owner holds; dropping the value *)
(* is Mbuf_drop, forgetting it is leaving it out.  The pool counts how     *)
(* often a buffer is on its free list, so that a buffer freed twice or     *)
(* never freed shows.                                                      *)
(***************************************************************************)
EXTENDS Naturals, Sequences, SequencesExt, FiniteSetsExt

CONSTANTS Mbuf,            \* the buffers of the mempool
          RxDesc, TxDesc,  \* descriptors of the receive and the transmit queue
          DataRoom         \* what a buffer holds beyond its headroom

NoNic == [eal |-> "down", pool |-> "none", port |-> "none",
          free |-> [m \in Mbuf |-> 0], rxq |-> << >>, txq |-> << >>]

Copies(m, s) == Cardinality({i \in DOMAIN s : s[i].m = m})

\* Eal::init and its Drop.
Eal_init(n) == [n EXCEPT !.eal = "up"]
Eal_drop(n) == [n EXCEPT !.eal = "down"]

\* Mempool::create, and its Drop: the memory of every buffer is gone.
Mempool_create(n) == [n EXCEPT !.pool = "live", !.free = [m \in Mbuf |-> 1]]
Mempool_drop(n) == [n EXCEPT !.pool = "none", !.free = [m \in Mbuf |-> 0]]

\* Mempool::alloc: any buffer of the free list; none left is an error.
CanAlloc(n) == \E m \in Mbuf : n.free[m] > 0
Mempool_alloc(n) == CHOOSE m \in Mbuf : n.free[m] > 0
Allocated(n) == [n EXCEPT !.free[Mempool_alloc(n)] = @ - 1]

\* Drop for Mbuf, for each value of the sequence s.
Mbuf_drop(n, s) == [n EXCEPT !.free = [m \in Mbuf |-> @[m] + Copies(m, s)]]

\* Port::init: the device is configured with its queues.
Port_init(n) == [n EXCEPT !.port = "stopped"]
Port_start(n) == [n EXCEPT !.port = "started"]

\* Port::stop and rte_eth_dev_close: the driver gives its buffers back.
Port_drop(n) ==
  [Mbuf_drop(n, n.rxq \o n.txq) EXCEPT !.port = "none", !.rxq = << >>, !.txq = << >>]

\* Port::rx_burst: the driver's oldest buffers become Mbuf values.
Port_rx_burst(n, max) ==
  LET k == IF n.port = "started" THEN Min({max, Len(n.rxq)}) ELSE 0
  IN  [mbufs |-> SubSeq(n.rxq, 1, k), nic |-> [n EXCEPT !.rxq = SubSeq(@, k + 1, Len(@))]]

\* Port::tx_burst: the driver takes as many as it has descriptors for; those are forgotten,
\* the others stay in packets.
TxTaken(n, packets) ==
  IF n.port = "started" THEN Min({Len(packets), TxDesc - Len(n.txq)}) ELSE 0

\* Mutant: what the driver took stays in the vector, whose drop frees it again.
TxBurstKeepsSent(n, packets) ==
  LET k == TxTaken(n, packets)
  IN  [sent |-> k, left |-> packets, nic |-> [n EXCEPT !.txq = @ \o SubSeq(packets, 1, k)]]

Port_tx_burst(n, packets) ==
  LET k == TxTaken(n, packets)
  IN  [sent |-> k, left |-> SubSeq(packets, k + 1, Len(packets)),
       nic |-> [n EXCEPT !.txq = @ \o SubSeq(packets, 1, k)]]

\* The device: a frame that finds no descriptor or no buffer is missed.
HwRoom(n) == n.port = "started" /\ Len(n.rxq) < RxDesc /\ CanAlloc(n)
HwReceive(n, f) == [Allocated(n) EXCEPT !.rxq = Append(@, [m |-> Mempool_alloc(n), f |-> f])]
HwTransmit(n) == [Mbuf_drop(n, <<Head(n.txq)>>) EXCEPT !.txq = Tail(@)]
=============================================================================
