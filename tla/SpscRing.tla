------------------------------ MODULE SpscRing ------------------------------
(***************************************************************************)
(* The single-producer single-consumer ring that carries frame references  *)
(* between threads: src/dpdk-stdlib-udp/src/ring.rs.  A ring is a record;  *)
(* each operator is the part of enqueue, dequeue or dequeue_batch up to    *)
(* one store that the other side can observe, so that a producer and a     *)
(* consumer can interleave between the slot access and the counter store.  *)
(***************************************************************************)
EXTENDS Integers, Sequences

CONSTANT RingCapacity     \* slots of every ring (SpscRing::new rounds it to a power of two)

ASSUME RingCapacityAssumption == RingCapacity \in Nat \ {0}

NewRing == [head |-> 0, tail |-> 0, slots |-> [s \in 0 .. (RingCapacity - 1) |-> << >>]]

Full(r) == r.head - r.tail >= RingCapacity

\* enqueue: the slot is written first, then the head is published.
WriteSlot(r, item) == [r EXCEPT !.slots[r.head % RingCapacity] = <<item>>]
PublishHead(r) == [r EXCEPT !.head = @ + 1]

\* dequeue and dequeue_batch: the items are read first, then the tail is published.
Available(r) == r.head - r.tail
ReadSlot(r, i) == r.slots[(r.tail + i) % RingCapacity][1]
ReadBatch(r, count) == [i \in 1 .. count |-> ReadSlot(r, i - 1)]

PublishTail(r, count) == [r EXCEPT !.tail = @ + count]

\* The items between the counters, oldest first.
RingItems(r) == ReadBatch(r, Available(r))
=============================================================================
