----------------------------- MODULE PacketRing -----------------------------
(***************************************************************************)
(* The PACKET_MMAP rings of dpdk-stdlib-net/src/ring_buffer.rs, shared     *)
(* with the kernel.  The memory of a ring is a function from the offset of *)
(* a slot to its tp_status and frame.  The program finds slot i at         *)
(* i * frame_size; the kernel packs whole frames into blocks, so that the  *)
(* two agree only if RingConfig lays the ring out the way the kernel does. *)
(***************************************************************************)
EXTENDS Naturals, Sequences

CONSTANTS Page,        \* 4096
          RingRoom     \* what fits into a slot behind its header

NoFrame == << >>

\* RingConfig::block_size: the smallest power of two pages that holds a frame.
block_size(c) ==
  CHOOSE b \in {Page * 2^k : k \in 0..8} :
    b >= c.frame_size /\ (b = Page \/ b < 2 * c.frame_size)
frames_per_block(c) == block_size(c) \div c.frame_size
block_count(c) ==
  IF frames_per_block(c) = 0 THEN c.frame_count
  ELSE (c.frame_count + frames_per_block(c) - 1) \div frames_per_block(c)
total_size(c) == block_size(c) * block_count(c)

\* RingConfig::to_tpacket_req
to_tpacket_req(c) ==
  [tp_block_size |-> block_size(c), tp_block_nr |-> block_count(c),
   tp_frame_size |-> c.frame_size, tp_frame_nr |-> block_count(c) * frames_per_block(c)]

\* Where the kernel puts frame i of a ring set up with request q.
KernelAddr(q, i) ==
  LET per == q.tp_block_size \div q.tp_frame_size
  IN  (i \div per) * q.tp_block_size + (i % per) * q.tp_frame_size

\* Mutant: the ring wraps where the configuration says, not where the kernel does.
NewWithConfigCount(c) ==
  [mem |-> [a \in {KernelAddr(to_tpacket_req(c), i) : i \in 0..to_tpacket_req(c).tp_frame_nr - 1} |->
             [st |-> "kernel", f |-> NoFrame]],
   req |-> to_tpacket_req(c), frame_size |-> c.frame_size, frame_count |-> c.frame_count,
   current_frame |-> 0, kernel |-> 0, done |-> 0]

\* MmapRing::new.  TP_STATUS_KERNEL and TP_STATUS_AVAILABLE are both 0.
MmapRing_new(c) ==
  [mem |-> [a \in {KernelAddr(to_tpacket_req(c), i) : i \in 0..to_tpacket_req(c).tp_frame_nr - 1} |->
             [st |-> "kernel", f |-> NoFrame]],
   req |-> to_tpacket_req(c), frame_size |-> c.frame_size,
   frame_count |-> to_tpacket_req(c).tp_frame_nr, current_frame |-> 0, kernel |-> 0, done |-> 0]

frame_header(r, i) == i * r.frame_size
frame_status(r, i) == r.mem[frame_header(r, i)].st
set_frame_status(r, i, st) == [r EXCEPT !.mem[frame_header(r, i)].st = st]
advance(r) == [r EXCEPT !.current_frame = (@ + 1) % r.frame_count]

\* write_tx_frame: the slot must be available and the frame fit.
\* Mutant: the status of the slot is not looked at.
CanWriteAlways(r) == TRUE
CanWrite(r) == frame_status(r, r.current_frame) = "kernel"
write_tx_frame(r, f) ==
  set_frame_status([r EXCEPT !.mem[frame_header(r, r.current_frame)].f = f], r.current_frame,
                   "request")

\* read_rx_frame: a frame the kernel has handed over, copied before the slot goes back.
CanRead(r) == frame_status(r, r.current_frame) = "user"
frame_data(r) == r.mem[frame_header(r, r.current_frame)].f
Released(r) == set_frame_status(r, r.current_frame, "kernel")

\* The kernel's side: it fills the slot its cursor is on, or drops the frame; it cuts a frame
\* that does not fit.
KernelSlot(r) == KernelAddr(r.req, r.kernel)
KernelNext(r) == [r EXCEPT !.kernel = (@ + 1) % r.req.tp_frame_nr]
KernelRoom(r) == r.mem[KernelSlot(r)].st = "kernel"
KernelReceive(r, f) ==
  KernelNext([r EXCEPT !.mem[KernelSlot(r)] =
                [st |-> "user", f |-> IF f.len > RingRoom THEN [f EXCEPT !.len = RingRoom, !.cut = TRUE] ELSE f]])

\* It gives the slots marked for it to the device, in order.  The device reads the slot's
\* memory; when it is done the slot is available again.
KernelToSend(r) == r.mem[KernelSlot(r)].st = "request"
KernelSend(r) == KernelNext([r EXCEPT !.mem[KernelSlot(r)].st = "sending"])
DeviceSlot(r) == KernelAddr(r.req, r.done)
DeviceBusy(r) == r.mem[DeviceSlot(r)].st = "sending"
DeviceDone(r) == [r EXCEPT !.mem[DeviceSlot(r)] = [st |-> "kernel", f |-> NoFrame],
                           !.done = (@ + 1) % r.req.tp_frame_nr]
=============================================================================
