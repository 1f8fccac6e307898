------------------------------ MODULE MpscRing ------------------------------
(***************************************************************************)
(* The multi-producer single-consumer ring of src/dpdk-stdlib-udp/src/     *)
(* ring.rs.  A producer claims a position with a compare-and-swap on head, *)
(* writes the slot and publishes it through the slot's sequence number;    *)
(* the consumer reads a published slot, hands it back for the position one *)
(* capacity further and then advances tail.  Every load, store and         *)
(* compare-and-swap on shared memory is a step of its own.  The positions  *)
(* are the code's u64, which the bound on enqueues keeps far from its end. *)
(***************************************************************************)
EXTENDS Integers, Sequences

CONSTANTS Producers,      \* the threads that enqueue
          MpscCapacity,   \* slots; `new' rounds it to a power of two, at least 2
          MaxItems,       \* bound: enqueue calls of a producer
          MaxBatch        \* bound: the largest max of dequeue_batch

ASSUME MpscAssumption ==
  /\ MpscCapacity \in Nat /\ MpscCapacity >= 2
  /\ MaxItems \in Nat /\ MaxBatch \in Nat

VARIABLES mhead,          \* the next position to claim
          mtail,          \* the next position to dequeue
          mseq,           \* per slot, its sequence number
          mdata,          \* per slot, << >> (not initialised) or <<item>>
          epc, ehead,     \* per producer: where enqueue is, its local copy of head
          calls,          \* per producer, its enqueue calls so far
          dpc,            \* where dequeue is
          left,           \* dequeues left in the batch; Drop never counts down
          item,           \* the item dequeue has moved out
          claims, taken   \* history: the items in the order claimed, and dequeued

prodVars == <<epc, ehead, calls>>
consVars == <<dpc, left, item>>
slotVars == <<mseq, mdata>>
mpscVars == <<mhead, mtail, mseq, mdata, epc, ehead, calls, dpc, left, item, claims, taken>>

Drain == -1
Index(n) == n % MpscCapacity
Item(p) == <<p, calls[p]>>

MpscInit ==
  /\ mhead = 0 /\ mtail = 0
  /\ mseq = [s \in 0 .. (MpscCapacity - 1) |-> s]
  /\ mdata = [s \in 0 .. (MpscCapacity - 1) |-> << >>]
  /\ epc = [p \in Producers |-> "idle"] /\ ehead = [p \in Producers |-> 0]
  /\ calls = [p \in Producers |-> 0]
  /\ dpc = "idle" /\ left = 0 /\ item = << >>
  /\ claims = << >> /\ taken = << >>

-----------------------------------------------------------------------------
\* enqueue, by a producer.

EnqueueCall(p) ==
  /\ epc[p] = "idle" /\ left # Drain /\ calls[p] < MaxItems
  /\ calls' = [calls EXCEPT ![p] = @ + 1]
  /\ ehead' = [ehead EXCEPT ![p] = mhead]
  /\ epc' = [epc EXCEPT ![p] = "seq"]
  /\ UNCHANGED <<mhead, mtail, slotVars, consVars, claims, taken>>

\* Mutant: a slot that is not free counts as full.
LoadSeqStrict(p) ==
  LET diff == mseq[Index(ehead[p])] - ehead[p] IN
  /\ epc[p] = "seq"
  /\ epc' = [epc EXCEPT ![p] = IF diff = 0 THEN "cas" ELSE "idle"]
  /\ UNCHANGED <<mhead, mtail, slotVars, ehead, calls, consVars, claims, taken>>

\* The slot's sequence number: ready, full (Err(item)) or already claimed.
LoadSeq(p) ==
  LET diff == mseq[Index(ehead[p])] - ehead[p] IN
  /\ epc[p] = "seq"
  /\ epc' = [epc EXCEPT ![p] = IF diff = 0 THEN "cas" ELSE IF diff < 0 THEN "idle" ELSE "load"]
  /\ UNCHANGED <<mhead, mtail, slotVars, ehead, calls, consVars, claims, taken>>

ReloadHead(p) ==
  /\ epc[p] = "load"
  /\ ehead' = [ehead EXCEPT ![p] = mhead]
  /\ epc' = [epc EXCEPT ![p] = "seq"]
  /\ UNCHANGED <<mhead, mtail, slotVars, calls, consVars, claims, taken>>

\* Mutant: head is stored without comparing.
ClaimBlind(p) ==
  /\ epc[p] = "cas"
  /\ mhead' = ehead[p] + 1
  /\ claims' = Append(claims, Item(p))
  /\ epc' = [epc EXCEPT ![p] = "write"]
  /\ UNCHANGED <<mtail, slotVars, ehead, calls, consVars, taken>>

\* compare_exchange_weak succeeds.
Claim(p) ==
  /\ epc[p] = "cas" /\ mhead = ehead[p]
  /\ mhead' = ehead[p] + 1
  /\ claims' = Append(claims, Item(p))
  /\ epc' = [epc EXCEPT ![p] = "write"]
  /\ UNCHANGED <<mtail, slotVars, ehead, calls, consVars, taken>>

\* compare_exchange_weak fails: another producer came first, or spuriously.
ClaimFails(p) ==
  /\ epc[p] = "cas"
  /\ ehead' = [ehead EXCEPT ![p] = mhead]
  /\ epc' = [epc EXCEPT ![p] = "seq"]
  /\ UNCHANGED <<mhead, mtail, slotVars, calls, consVars, claims, taken>>

WriteData(p) ==
  /\ epc[p] = "write"
  /\ mdata' = [mdata EXCEPT ![Index(ehead[p])] = <<Item(p)>>]
  /\ epc' = [epc EXCEPT ![p] = "publish"]
  /\ UNCHANGED <<mhead, mtail, mseq, ehead, calls, consVars, claims, taken>>

PublishSeq(p) ==
  /\ epc[p] = "publish"
  /\ mseq' = [mseq EXCEPT ![Index(ehead[p])] = ehead[p] + 1]
  /\ epc' = [epc EXCEPT ![p] = "idle"]
  /\ UNCHANGED <<mhead, mtail, mdata, ehead, calls, consVars, claims, taken>>

-----------------------------------------------------------------------------
\* dequeue_batch, by the consumer; dequeue is a batch of one.

DequeueCall ==
  /\ dpc = "idle" /\ left = 0
  /\ left' \in 1 .. MaxBatch /\ dpc' = "look"
  /\ UNCHANGED <<mhead, mtail, slotVars, prodVars, item, claims, taken>>

\* Mutant: a claimed slot is read, published or not.
LookAny ==
  /\ dpc = "look"
  /\ IF mhead > mtail THEN dpc' = "read" /\ UNCHANGED left
     ELSE dpc' = "idle" /\ left' = IF left = Drain THEN Drain ELSE 0
  /\ UNCHANGED <<mhead, mtail, slotVars, prodVars, item, claims, taken>>

\* tail is the consumer's own; the item is there when seq = tail + 1.
Look ==
  /\ dpc = "look"
  /\ IF mseq[Index(mtail)] = mtail + 1 THEN dpc' = "read" /\ UNCHANGED left
     ELSE dpc' = "idle" /\ left' = IF left = Drain THEN Drain ELSE 0
  /\ UNCHANGED <<mhead, mtail, slotVars, prodVars, item, claims, taken>>

\* assume_init_read moves the item out.
ReadData ==
  /\ dpc = "read"
  /\ item' = mdata[Index(mtail)]
  /\ mdata' = [mdata EXCEPT ![Index(mtail)] = << >>]
  /\ dpc' = "reset"
  /\ UNCHANGED <<mhead, mtail, mseq, prodVars, left, claims, taken>>

\* Ready for the position one capacity further.
ResetSeq ==
  /\ dpc = "reset"
  /\ mseq' = [mseq EXCEPT ![Index(mtail)] = mtail + MpscCapacity]
  /\ dpc' = "tail"
  /\ UNCHANGED <<mhead, mtail, mdata, prodVars, left, item, claims, taken>>

AdvanceTail ==
  /\ dpc = "tail"
  /\ mtail' = mtail + 1
  /\ taken' = taken \o item /\ item' = << >>
  /\ left' = IF left = Drain THEN Drain ELSE left - 1
  /\ dpc' = IF left = 1 THEN "idle" ELSE "look"
  /\ UNCHANGED <<mhead, slotVars, prodVars, claims>>

\* drop(): nobody else holds the ring; dequeue until there is nothing.
DropRing ==
  /\ dpc = "idle" /\ left = 0 /\ \A p \in Producers : epc[p] = "idle"
  /\ left' = Drain /\ dpc' = "look"
  /\ UNCHANGED <<mhead, mtail, slotVars, prodVars, item, claims, taken>>

Producer(p) ==
  \/ EnqueueCall(p) \/ LoadSeq(p) \/ ReloadHead(p) \/ Claim(p) \/ ClaimFails(p)
  \/ WriteData(p) \/ PublishSeq(p)
Consumer == DequeueCall \/ Look \/ ReadData \/ ResetSeq \/ AdvanceTail \/ DropRing

MpscNext == (\E p \in Producers : Producer(p)) \/ Consumer

MpscSpec == MpscInit /\ [][MpscNext]_mpscVars

-----------------------------------------------------------------------------
\* The state of the positions, and of the two sides.
MpscTypeOK ==
  /\ mhead \in Nat /\ mtail \in Nat
  /\ mseq \in [0 .. (MpscCapacity - 1) -> Nat]
  /\ DOMAIN mdata = 0 .. (MpscCapacity - 1)
  /\ epc \in [Producers -> {"idle", "seq", "load", "cas", "write", "publish"}]
  /\ ehead \in [Producers -> Nat] /\ calls \in [Producers -> Nat]
  /\ dpc \in {"idle", "look", "read", "reset", "tail"}
  /\ left \in Nat \cup {Drain}

Owns(p) == epc[p] \in {"write", "publish"}

\* A slot's data is touched by one thread at a time: two producers that have
\* claimed and not yet published own different slots, and the consumer reads a
\* slot no producer owns.
SlotExclusive ==
  /\ \A p, q \in Producers :
       p # q /\ Owns(p) /\ Owns(q) => Index(ehead[p]) # Index(ehead[q])
  /\ \A p \in Producers :
       Owns(p) /\ dpc \in {"read", "reset"} => Index(ehead[p]) # Index(mtail)

\* A producer never overwrites an item that was not read, and the consumer
\* never reads a slot that was not written.
SlotFilledOnce ==
  /\ \A p \in Producers : epc[p] = "write" => mdata[Index(ehead[p])] = << >>
  /\ dpc = "read" => mdata[Index(mtail)] # << >>

\* What enqueue accepted is dequeued once, in the order of the claims, however
\* the publications overtake each other.
DequeuedInClaimOrder ==
  /\ Len(taken) <= Len(claims) /\ taken = SubSeq(claims, 1, Len(taken))
  /\ \A i, j \in 1 .. Len(claims) : claims[i] = claims[j] => i = j

\* enqueue returns Err(item) only at a moment at which every slot holds an
\* item the consumer has not handed back, though it compares a copy of head
\* that may be long out of date.
RefusedOnlyWhenFull ==
  [][\A p \in Producers :
       epc[p] = "seq" /\ epc'[p] = "idle" => mhead - mtail >= MpscCapacity]_mpscVars

\* drop() leaves no item behind: its loop stops at the first slot that is not
\* published, and none is when every producer has returned.
DropLeavesNothing ==
  left = Drain /\ dpc = "idle" =>
    /\ \A s \in DOMAIN mdata : mdata[s] = << >>
    /\ taken = claims
=============================================================================
