------------------------------ MODULE ByteRing ------------------------------
(***************************************************************************)
(* SpscByteRing, the lock-free ring that carries the bytes of a TCP        *)
(* connection between the engine thread and an application thread: the     *)
(* engine writes rx_ring and reads tx_ring, the application does the       *)
(* reverse.                                                                *)
(*                                                                         *)
(* head and tail are free-running machine words: Word is the 2^64 of the   *)
(* code.  The two loads at the start of an operation, the copy of each     *)
(* byte and the store that publishes the operation are steps of their own, *)
(* so that the two threads interleave at every point where they can.  The  *)
(* Acquire loads and Release stores of the code order the copies against   *)
(* the stores as the steps are ordered here.                               *)
(***************************************************************************)
EXTENDS Integers, Sequences, FiniteSets

CONSTANTS Byte,       \* the values of a byte
          Capacity,   \* size of buf
          Word,       \* head and tail wrap at this value
          MaxLen,     \* bound: the longest slice passed to write or read
          ZeroByte    \* what `new' fills buf with

ASSUME RingAssumption ==
  /\ Capacity \in Nat \ {0}
  /\ Word \in Nat /\ Word > Capacity /\ Word % Capacity = 0
  /\ MaxLen \in Nat \ {0}
  /\ ZeroByte \in Byte

VARIABLES buf,    \* [0..Capacity-1 -> Byte]
          head,   \* write position, stored by the producer only
          tail,   \* read position, stored by the consumer only
          prod,   \* the write in progress
          cons,   \* the read or peek in progress
          wrote,  \* the bytes the last completed write accepted
          got     \* the bytes the last completed read or peek returned

vars == <<buf, head, tail, prod, cons, wrote, got>>

Idle == [op |-> "none", bytes |-> <<>>, n |-> 0, i |-> 0]

\* head.wrapping_sub(tail) and head.wrapping_add(n)
WrappingSub(a, b) == (a - b) % Word

WrappingAdd(a, n) == (a + n) % Word

Lesser(a, b) == IF a <= b THEN a ELSE b

\* The i-th byte of a transfer of n bytes at position pos: the first chunk
\* runs up to the end of buf, the second starts again at its beginning.
Slot(pos, n, i) ==
  LET start == pos % Capacity
      first_chunk == Lesser(n, Capacity - start)
  IN  IF i < first_chunk THEN start + i ELSE i - first_chunk

Slices == UNION {[1..m -> Byte] : m \in 1..MaxLen}

Init ==
  /\ buf = [s \in 0..(Capacity - 1) |-> ZeroByte]
  /\ head = 0
  /\ tail = 0
  /\ prod = Idle
  /\ cons = Idle
  /\ wrote = <<>>
  /\ got = <<>>

-----------------------------------------------------------------------------
(* write: the producer thread *)

\* Mutant: off by one.
FreeSpaceOffByOne == Capacity + 1 - WrappingSub(head, tail)

FreeSpace == Capacity - WrappingSub(head, tail)

WriteBegin ==
  /\ prod.op = "none"
  /\ \E data \in Slices :
       LET n == Lesser(Len(data), FreeSpace)
       IN  IF n = 0
           THEN wrote' = <<>> /\ UNCHANGED prod
           ELSE /\ prod' = [op |-> "write", bytes |-> data, n |-> n, i |-> 0]
                /\ UNCHANGED wrote
  /\ UNCHANGED <<buf, head, tail, cons, got>>

\* Mutant: the second chunk is left out.
WriteCopyFirstChunk ==
  /\ prod.op = "write"
  /\ prod.i < prod.n
  /\ buf' = IF prod.i < Capacity - (head % Capacity)
            THEN [buf EXCEPT ![Slot(head, prod.n, prod.i)] = prod.bytes[prod.i + 1]]
            ELSE buf
  /\ prod' = [prod EXCEPT !.i = @ + 1]
  /\ UNCHANGED <<head, tail, cons, wrote, got>>

WriteCopy ==
  /\ prod.op = "write"
  /\ prod.i < prod.n
  /\ buf' = [buf EXCEPT ![Slot(head, prod.n, prod.i)] = prod.bytes[prod.i + 1]]
  /\ prod' = [prod EXCEPT !.i = @ + 1]
  /\ UNCHANGED <<head, tail, cons, wrote, got>>

WritePublish ==
  /\ prod.op = "write"
  /\ prod.i = prod.n
  /\ head' = WrappingAdd(head, prod.n)
  /\ wrote' = SubSeq(prod.bytes, 1, prod.n)
  /\ prod' = Idle
  /\ UNCHANGED <<buf, tail, cons, got>>

-----------------------------------------------------------------------------
(* read and peek: the consumer thread *)

Available == WrappingSub(head, tail)

ReadBegin(op) ==
  /\ cons.op = "none"
  /\ \E len \in 1..MaxLen :
       LET n == Lesser(len, Available)
       IN  IF n = 0
           THEN got' = <<>> /\ UNCHANGED cons
           ELSE /\ cons' = [op |-> op, bytes |-> <<>>, n |-> n, i |-> 0]
                /\ UNCHANGED got
  /\ UNCHANGED <<buf, head, tail, prod, wrote>>

ReadCopy ==
  /\ cons.op # "none"
  /\ cons.i < cons.n
  /\ cons' = [cons EXCEPT !.bytes = Append(@, buf[Slot(tail, cons.n, cons.i)]),
                          !.i = @ + 1]
  /\ UNCHANGED <<buf, head, tail, prod, wrote, got>>

ReadPublish ==
  /\ cons.op = "read"
  /\ cons.i = cons.n
  /\ tail' = WrappingAdd(tail, cons.n)
  /\ got' = cons.bytes
  /\ cons' = Idle
  /\ UNCHANGED <<buf, head, prod, wrote>>

PeekReturn ==
  /\ cons.op = "peek"
  /\ cons.i = cons.n
  /\ got' = cons.bytes
  /\ cons' = Idle
  /\ UNCHANGED <<buf, head, tail, prod, wrote>>

Next ==
  \/ WriteBegin \/ WriteCopy \/ WritePublish
  \/ ReadBegin("read") \/ ReadBegin("peek") \/ ReadCopy
  \/ ReadPublish \/ PeekReturn

Spec == Init /\ [][Next]_vars

-----------------------------------------------------------------------------
(* Properties *)

Transfer(ops) ==
  [op : ops, bytes : Seq(Byte), n : 0..Capacity, i : 0..Capacity]

(* Types: positions stay machine words, a transfer never exceeds the ring  *)
(* and the bytes counted as copied are the bytes there are.                *)
TypeOK ==
  /\ buf \in [0..(Capacity - 1) -> Byte]
  /\ head \in 0..(Word - 1)
  /\ tail \in 0..(Word - 1)
  /\ prod \in Transfer({"none", "write"})
  /\ cons \in Transfer({"none", "read", "peek"})
  /\ prod.i <= prod.n /\ prod.n <= Len(prod.bytes)
  /\ cons.i <= cons.n /\ cons.i = Len(cons.bytes)
  /\ wrote \in Seq(Byte)
  /\ got \in Seq(Byte)

(* The room a write in progress has reserved is free and the bytes a read  *)
(* in progress has claimed are there: the positions each thread loaded can *)
(* only have become more favourable since.  An operation in progress       *)
(* transfers something.  Inductive together with TypeOK.                   *)
Reserved ==
  /\ Available + prod.n <= Capacity
  /\ cons.n <= Available
  /\ IF prod.op = "none" THEN prod = Idle ELSE prod.n > 0
  /\ IF cons.op = "none" THEN cons = Idle ELSE cons.n > 0

(* What makes the unsafe copies of write and read sound: the slots a write *)
(* in progress fills and the slots a read or peek in progress copies are   *)
(* disjoint, whatever stale positions the two threads loaded.              *)
NoCopyRace ==
  \A i \in 0..(prod.n - 1), j \in 0..(cons.n - 1) :
    Slot(head, prod.n, i) # Slot(tail, cons.n, j)

(* A consumer's copy is not torn: every byte it has copied so far is still *)
(* the byte at that place of the ring when the operation completes.        *)
ReadStable ==
  \A i \in 1..cons.i : cons.bytes[i] = buf[Slot(tail, cons.n, i - 1)]

(* A producer's copy is complete when it is published: every byte it has   *)
(* copied so far is in the slot where the reader will look for it.         *)
WriteInPlace ==
  \A i \in 1..prod.i : buf[Slot(head, prod.n, i - 1)] = prod.bytes[i]

Content == [i \in 1..Available |-> buf[(tail + i - 1) % Capacity]]

Queue == INSTANCE ByteQueue WITH queue <- Content

(* The ring implements the first-in first-out queue: the content is the    *)
(* bytes between tail and head, and each operation takes effect at its     *)
(* publishing store (at its loads when it transfers nothing).              *)
ImplementsQueue == Queue!Spec
=============================================================================
