--------------------------- MODULE PipelineSteps ----------------------------
(***************************************************************************)
(* The inductive invariants of FramePool and of UdpPipeline, and lemmas    *)
(* that the steps of the pool, of rx_loop and of worker_loop keep them,    *)
(* for any number of workers, receiving threads, frames and packets.       *)
(***************************************************************************)
EXTENDS UdpPipeline, TLAPS

(* The remainder of a division by c is what is left of a multiple of c.    *)
LEMMA DivMod ==
  ASSUME NEW x \in Int, NEW c \in Nat \ {0}
  PROVE  /\ x % c \in 0..(c - 1)
         /\ x \div c \in Int
         /\ x = c * (x \div c) + (x % c)
  BY SMT

(* A multiple of c smaller than c in absolute value is zero.               *)
LEMMA SmallMultiple ==
  ASSUME NEW q \in Int, NEW c \in Nat \ {0}, c * q < c, -c < c * q
  PROVE  q = 0
  BY SMT

(* Two numbers less than c apart with the same remainder are equal.        *)
LEMMA ModInjective ==
  ASSUME NEW x \in Int, NEW y \in Int, NEW c \in Nat \ {0},
         x - y < c, y - x < c, x % c = y % c
  PROVE  x = y
  <1>1. x = c * (x \div c) + (x % c) /\ x \div c \in Int
    BY DivMod
  <1>2. y = c * (y \div c) + (y % c) /\ y \div c \in Int
    BY DivMod
  <1>3. ASSUME NEW a \in Int, NEW b \in Int, NEW r \in Int,
               x = c * a + r, y = c * b + r
        PROVE  x = y
    <2>1. c * (a - b) = x - y
      BY <1>3, SMT
    <2>2. a - b = 0
      BY <2>1, SmallMultiple
    <2> QED  BY <2>1, <2>2, SMT
  <1>4. x % c \in Int
    BY DivMod
  <1> QED  BY <1>1, <1>2, <1>3, <1>4, Zenon

(* A number below the divisor is its own remainder.                        *)
LEMMA ModSmall ==
  ASSUME NEW c \in Nat \ {0}, NEW x \in 0..(c - 1)
  PROVE  x % c = x
  BY SMT

\* The registers, and the room the counters leave.
RegistersOK ==
  /\ free_tail <= free_head /\ free_head - free_tail <= FreeCapacity
  /\ alloc.pc # "idle" => free_tail < free_head
  /\ alloc.pc = "store" => alloc.idx \in Idx
  /\ \A t \in Threads : freeing[t].pc = "store" => freeing[t].idx \in Idx

PoolInv == PoolTypeOK /\ RegistersOK /\ EveryPositionServed /\ Exclusive

(* There are not more different frames than the pool has: the one fact     *)
(* about cardinalities, which PipelineProofs proves.                       *)
Counting ==
  \A n \in Nat : \A f \in [1 .. n -> Idx] : (\A k, l \in 1 .. n : f[k] = f[l] => k = l) => n <= Capacity

(* Positions of the list have different slots.                             *)
LEMMA SlotsDiffer ==
  ASSUME NEW p \in Nat, NEW q \in Nat, p # q, p - q < FreeCapacity, q - p < FreeCapacity
  PROVE  Slot(p) # Slot(q)
  <1>1. FreeCapacity \in Nat \ {0} /\ p \in Int /\ q \in Int
    BY CapacityAssumption DEF FreeCapacity
  <1>2. p % FreeCapacity # q % FreeCapacity
    BY <1>1, ModInjective, Zenon
  <1> QED  BY <1>2 DEF Slot

(* Every position has a slot.                                              *)
LEMMA SlotType ==
  ASSUME NEW p \in Nat
  PROVE  Slot(p) \in 0 .. (FreeCapacity - 1)
  <1>1. FreeCapacity \in Nat \ {0} /\ p \in Int
    BY CapacityAssumption DEF FreeCapacity
  <1> QED  BY <1>1, DivMod, Zenon DEF Slot

(* The frames of the positions in use are all different, so there are no   *)
(* more of them than frames.                                               *)
LEMMA PigeonHole ==
  ASSUME Counting, PoolInv
  PROVE  NoOverrun
  <1> USE CapacityAssumption
  <1>0. PoolTypeOK /\ RegistersOK /\ EveryPositionServed /\ Exclusive
    BY DEF PoolInv
  <1> DEFINE Used == free_tail .. (free_head - 1)
             AtAlloc(p) == alloc.pc = "store" /\ p = free_tail
             Claims(p, t) == freeing[t].pc = "store" /\ freeing[t].pos = p
             FrameAt(p, i) ==
               \/ AtAlloc(p) /\ i = alloc.idx
               \/ ~AtAlloc(p) /\ free_list[Slot(p)] # MAX /\ i = free_list[Slot(p)]
               \/ ~AtAlloc(p) /\ free_list[Slot(p)] = MAX /\ \E t \in Threads : Claims(p, t) /\ i = freeing[t].idx
  <1>1. free_tail \in Nat /\ free_head \in Nat /\ free_tail <= free_head /\ free_head - free_tail <= FreeCapacity
        /\ FreeCapacity \in Nat
    BY <1>0 DEF PoolTypeOK, RegistersOK, FreeCapacity
  <1>2. ASSUME NEW p \in Used PROVE \E i \in Idx : FrameAt(p, i)
    <2>1. p \in Nat /\ Slot(p) \in 0 .. (FreeCapacity - 1)
      BY <1>1, SlotType
    <2>2. free_list[Slot(p)] \in Idx \cup {MAX}
      BY <1>0, <2>1 DEF PoolTypeOK
    <2>3. free_list[Slot(p)] # MAX \/ (\E t \in Threads : Claims(p, t)) \/ AtAlloc(p)
      BY <1>0 DEF EveryPositionServed
    <2>4. AtAlloc(p) => alloc.idx \in Idx
      BY <1>0 DEF RegistersOK
    <2>5. \A t \in Threads : Claims(p, t) => freeing[t].idx \in Idx
      BY <1>0 DEF RegistersOK
    <2> QED  BY <2>2, <2>3, <2>4, <2>5
  <1>3. ASSUME NEW p \in Used, NEW q \in Used, NEW i \in Idx, FrameAt(p, i), FrameAt(q, i) PROVE p = q
    <2> SUFFICES ASSUME p # q PROVE FALSE
      OBVIOUS
    <2>1. p \in Nat /\ q \in Nat /\ p - q < FreeCapacity /\ q - p < FreeCapacity
      BY <1>1
    <2>2. Slot(p) # Slot(q) /\ Slot(p) \in DOMAIN free_list /\ Slot(q) \in DOMAIN free_list
      BY <1>0, <2>1, SlotsDiffer, SlotType, Zenon DEF PoolTypeOK
    <2>3. /\ Taken(i) => /\ \A t \in Threads : ~Returning(i, t)
                         /\ \A s \in DOMAIN free_list : ~Listed(i, s)
          /\ \A t, u \in Threads : Returning(i, t) /\ Returning(i, u) => t = u
          /\ \A t \in Threads, s \in DOMAIN free_list : ~(Returning(i, t) /\ Listed(i, s))
          /\ \A r, s \in DOMAIN free_list : Listed(i, r) /\ Listed(i, s) => r = s
      BY <1>0 DEF Exclusive
    <2>4. AtAlloc(p) => ~AtAlloc(q)
      OBVIOUS
    <2>5. /\ AtAlloc(p) \/ AtAlloc(q) => Taken(i)
          /\ ~AtAlloc(p) => Listed(i, Slot(p)) \/ \E t \in Threads : Claims(p, t) /\ Returning(i, t)
          /\ ~AtAlloc(q) => Listed(i, Slot(q)) \/ \E t \in Threads : Claims(q, t) /\ Returning(i, t)
      BY <1>3 DEF Taken, Listed, Returning
    <2> QED  BY <2>2, <2>3, <2>4, <2>5
  <1> DEFINE n == free_head - free_tail
             f == [k \in 1 .. n |-> CHOOSE i \in Idx : FrameAt(free_tail + k - 1, i)]
  <1>4. n \in Nat /\ \A k \in 1 .. n : free_tail + k - 1 \in Used
    BY <1>1
  <1>5. \A k \in 1 .. n : f[k] \in Idx /\ FrameAt(free_tail + k - 1, f[k])
    BY <1>2, <1>4
  <1>6. f \in [1 .. n -> Idx]
    BY <1>5
  <1>7. \A k, l \in 1 .. n : f[k] = f[l] => k = l
    <2> SUFFICES ASSUME NEW k \in 1 .. n, NEW l \in 1 .. n, f[k] = f[l] PROVE k = l
      OBVIOUS
    <2> HIDE DEF f, FrameAt, Used
    <2>1. free_tail + k - 1 = free_tail + l - 1
      BY <1>3, <1>4, <1>5
    <2> QED  BY <1>1, <1>4, <2>1, SMTT(30)
  <1>8. n <= Capacity
    <2> HIDE DEF f, n
    <2> QED  BY <1>4, <1>6, <1>7 DEF Counting
  <1> QED  BY <1>8 DEF NoOverrun


-----------------------------------------------------------------------------
(* The invariant holds of a new pool.                                      *)
LEMMA PoolInitInv == PoolInit => PoolInv
  <1> SUFFICES ASSUME PoolInit PROVE PoolInv
    OBVIOUS
  <1> USE CapacityAssumption DEF PoolInit, NewPool, NotAllocating, NotFreeing, FreeCapacity, Idx, MAX
  <1>1. PoolTypeOK
    BY DEF PoolTypeOK
  <1>2. /\ alloc.pc = "idle" /\ \A t \in Threads : freeing[t].pc = "idle"
    OBVIOUS
  <1>3. RegistersOK
    BY <1>2 DEF RegistersOK
  <1>4. EveryPositionServed
    <2> SUFFICES ASSUME NEW p \in 0 .. (Capacity - 1) PROVE free_list[Slot(p)] # MAX
      BY DEF EveryPositionServed
    <2>1. Slot(p) = p
      <3>1. 2 * Capacity \in Nat \ {0} /\ p \in 0 .. (2 * Capacity - 1)
        OBVIOUS
      <3> QED  BY <3>1, ModSmall, Zenon DEF Slot
    <2> QED  BY <2>1
  <1>5. Exclusive
    BY <1>2 DEF Exclusive, Listed, Taken, Returning
  <1> QED  BY <1>1, <1>3, <1>4, <1>5 DEF PoolInv

(* alloc finds the list not empty.                                         *)
LEMMA AllocCheckInv ==
  ASSUME PoolInv, AllocCheck
  PROVE  PoolInv'
  <1>0. PoolTypeOK /\ RegistersOK /\ EveryPositionServed /\ Exclusive
    BY DEF PoolInv
  <1>1. /\ alloc.pc = "idle" /\ alloc' = [alloc EXCEPT !.pc = "swap"] /\ free_tail < free_head
        /\ UNCHANGED <<free_list, free_head, free_tail, freeing, inuse>>
    BY <1>0 DEF AllocCheck, Exhausted, PoolTypeOK
  <1>2. alloc'.pc = "swap"
    BY <1>0, <1>1 DEF PoolTypeOK
  <1>3. PoolTypeOK' /\ RegistersOK'
    BY <1>0, <1>1, <1>2 DEF PoolTypeOK, RegistersOK
  <1>4. EveryPositionServed'
    BY <1>0, <1>1, <1>2 DEF EveryPositionServed
  <1>5. Exclusive'
    BY <1>0, <1>1, <1>2 DEF Exclusive, Listed, Taken, Returning
  <1> QED  BY <1>3, <1>4, <1>5 DEF PoolInv

(* alloc takes the frame of the slot at the tail.                          *)
LEMMA AllocSwapInv ==
  ASSUME PoolInv, AllocSwap
  PROVE  PoolInv'
  <1> USE CapacityAssumption
  <1> DEFINE here == Slot(free_tail)
             v == free_list[here]
  <1>0. PoolTypeOK /\ RegistersOK /\ EveryPositionServed /\ Exclusive
    BY DEF PoolInv
  <1>1. /\ alloc.pc = "swap" /\ v # MAX /\ alloc' = [pc |-> "store", idx |-> v]
        /\ free_list' = [free_list EXCEPT ![here] = MAX]
        /\ UNCHANGED <<free_head, free_tail, freeing, inuse>>
    BY DEF AllocSwap
  <1>2. here \in 0 .. (FreeCapacity - 1)
    BY <1>0, SlotType DEF PoolTypeOK
  <1>3. here \in DOMAIN free_list /\ v \in Idx /\ alloc'.pc = "store" /\ alloc'.idx = v
    BY <1>0, <1>1, <1>2 DEF PoolTypeOK
  <1>4. /\ DOMAIN free_list' = DOMAIN free_list /\ free_list'[here] = MAX
        /\ \A s \in DOMAIN free_list : s # here => free_list'[s] = free_list[s]
    BY <1>1, <1>3
  <1>5. PoolTypeOK'
    BY <1>0, <1>1, <1>2, <1>3 DEF PoolTypeOK
  <1>6. RegistersOK'
    BY <1>0, <1>1, <1>3 DEF RegistersOK
  <1>7. EveryPositionServed'
    <2> SUFFICES ASSUME NEW p \in free_tail .. (free_head - 1), p # free_tail
                 PROVE  free_list'[Slot(p)] # MAX \/ \E t \in Threads : freeing[t].pc = "store" /\ freeing[t].pos = p
      BY <1>1, <1>3 DEF EveryPositionServed
    <2>1. p \in Nat /\ free_tail \in Nat /\ p - free_tail < FreeCapacity /\ free_tail - p < FreeCapacity
      BY <1>0 DEF PoolTypeOK, RegistersOK, FreeCapacity
    <2>2. Slot(p) # here /\ Slot(p) \in DOMAIN free_list
      BY <1>0, <2>1, SlotsDiffer, SlotType, Zenon DEF PoolTypeOK
    <2>3. free_list'[Slot(p)] = free_list[Slot(p)]
      BY <1>4, <2>2
    <2> QED  BY <1>0, <2>3 DEF EveryPositionServed
  <1>8. Exclusive'
    <2> SUFFICES ASSUME NEW i \in Idx
                 PROVE  /\ i \in inuse => /\ ~Taken(i)'
                                          /\ \A t \in Threads : ~Returning(i, t)
                                          /\ \A s \in DOMAIN free_list : ~Listed(i, s)'
                        /\ Taken(i)' => /\ \A t \in Threads : ~Returning(i, t)
                                        /\ \A s \in DOMAIN free_list : ~Listed(i, s)'
                        /\ \A t, u \in Threads : Returning(i, t) /\ Returning(i, u) => t = u
                        /\ \A t \in Threads, s \in DOMAIN free_list : ~(Returning(i, t) /\ Listed(i, s)')
                        /\ \A r, s \in DOMAIN free_list : Listed(i, r)' /\ Listed(i, s)' => r = s
      BY <1>1, <1>4 DEF Exclusive, Returning
    <2>1. \A s \in DOMAIN free_list : Listed(i, s)' <=> Listed(i, s) /\ s # here
      BY <1>4 DEF Listed, Idx, MAX
    <2>2. Taken(i)' <=> i = v
      BY <1>3 DEF Taken
    <2>3. Listed(v, here)
      BY DEF Listed
    <2> HIDE DEF v, here
    <2> QED  BY <1>0, <1>3, <2>1, <2>2, <2>3 DEF Exclusive
  <1> QED  BY <1>5, <1>6, <1>7, <1>8 DEF PoolInv


(* alloc hands the frame out.                                              *)
LEMMA AllocStoreInv ==
  ASSUME PoolInv, AllocStore
  PROVE  PoolInv'
  <1>0. PoolTypeOK /\ RegistersOK /\ EveryPositionServed /\ Exclusive
    BY DEF PoolInv
  <1>1. /\ alloc.pc = "store" /\ free_tail' = free_tail + 1 /\ inuse' = inuse \cup {alloc.idx}
        /\ alloc'.pc = "idle" /\ alloc'.idx = MAX /\ alloc' = [pc |-> "idle", idx |-> MAX]
        /\ UNCHANGED <<free_list, free_head, freeing>>
    BY DEF AllocStore, NotAllocating
  <1>2. free_tail \in Nat /\ free_head \in Nat /\ free_tail < free_head /\ alloc.idx \in Idx
    BY <1>0, <1>1 DEF PoolTypeOK, RegistersOK
  <1>3. PoolTypeOK'
    BY <1>0, <1>1, <1>2 DEF PoolTypeOK
  <1>4. RegistersOK'
    BY CapacityAssumption, <1>0, <1>1, <1>2 DEF RegistersOK, FreeCapacity
  <1>5. EveryPositionServed'
    BY <1>0, <1>1, <1>2 DEF EveryPositionServed
  <1>6. Exclusive'
    <2>1. \A i \in Idx : (Taken(i) <=> i = alloc.idx) /\ ~Taken(i)'
      BY <1>1 DEF Taken
    <2>2. \A i : \A t \in Threads : Returning(i, t)' <=> Returning(i, t)
      BY <1>1 DEF Returning
    <2>3. DOMAIN free_list' = DOMAIN free_list /\ \A i : \A s \in DOMAIN free_list : Listed(i, s)' <=> Listed(i, s)
      BY <1>1 DEF Listed
    <2> QED  BY <1>0, <1>1, <2>1, <2>2, <2>3 DEF Exclusive
  <1> QED  BY <1>3, <1>4, <1>5, <1>6 DEF PoolInv

(* free claims a position; the list has room because the frame it brings   *)
(* was not in it.                                                          *)
LEMMA FreeClaimInv ==
  ASSUME Counting, PoolInv, NEW t \in Threads, NEW i \in inuse, FreeClaim(t, i)
  PROVE  PoolInv'
  <1> USE CapacityAssumption
  <1>0. PoolTypeOK /\ RegistersOK /\ EveryPositionServed /\ Exclusive /\ NoOverrun
    BY PigeonHole DEF PoolInv
  <1>1. /\ freeing[t].pc = "idle" /\ free_head' = free_head + 1 /\ inuse' = inuse \ {i}
        /\ freeing' = [freeing EXCEPT ![t] = [pc |-> "store", pos |-> free_head, idx |-> i]]
        /\ UNCHANGED <<free_list, free_tail, alloc>>
    BY DEF FreeClaim
  <1>2. free_tail \in Nat /\ free_head \in Nat /\ i \in Idx
    BY <1>0 DEF PoolTypeOK
  <1>3. /\ freeing'[t].pc = "store" /\ freeing'[t].pos = free_head /\ freeing'[t].idx = i
        /\ \A u \in Threads \ {t} : freeing'[u] = freeing[u]
    BY <1>0, <1>1 DEF PoolTypeOK
  <1>4. PoolTypeOK'
    BY <1>0, <1>1, <1>2 DEF PoolTypeOK
  <1>5. RegistersOK'
    <2>1. free_tail' <= free_head' /\ free_head' - free_tail' <= FreeCapacity
      BY <1>0, <1>1, <1>2 DEF RegistersOK, NoOverrun, FreeCapacity
    <2>2. alloc'.pc # "idle" => free_tail' < free_head'
      BY <1>0, <1>1, <1>2 DEF RegistersOK
    <2> QED  BY <1>0, <1>1, <1>2, <1>3, <2>1, <2>2 DEF RegistersOK
  <1>6. EveryPositionServed'
    <2> SUFFICES ASSUME NEW p \in free_tail .. free_head
                 PROVE  \/ free_list[Slot(p)] # MAX
                        \/ \E u \in Threads : freeing'[u].pc = "store" /\ freeing'[u].pos = p
                        \/ alloc.pc = "store" /\ p = free_tail
      BY <1>1, <1>2 DEF EveryPositionServed
    <2>1. CASE p = free_head
      BY <1>3, <2>1
    <2>2. CASE p # free_head
      <3>1. p \in free_tail .. (free_head - 1)
        BY <1>2, <2>2
      <3> QED  BY <1>0, <1>1, <1>3, <3>1 DEF EveryPositionServed
    <2> QED  BY <2>1, <2>2
  <1>7. Exclusive'
    <2>1. \A j \in Idx : Taken(j)' <=> Taken(j)
      BY <1>1 DEF Taken
    <2>2. /\ \A j \in Idx : Returning(j, t)' <=> j = i
          /\ \A j \in Idx : ~Returning(j, t)
          /\ \A j \in Idx : \A u \in Threads : u # t => (Returning(j, u)' <=> Returning(j, u))
      BY <1>1, <1>3 DEF Returning
    <2>3. DOMAIN free_list' = DOMAIN free_list /\ \A j : \A s \in DOMAIN free_list : Listed(j, s)' <=> Listed(j, s)
      BY <1>1 DEF Listed
    <2> QED  BY <1>0, <1>1, <1>2, <2>1, <2>2, <2>3 DEF Exclusive
  <1> QED  BY <1>4, <1>5, <1>6, <1>7 DEF PoolInv

(* free stores the frame in the slot it claimed.                           *)
LEMMA FreeStoreInv ==
  ASSUME PoolInv, NEW t \in Threads, FreeStore(t)
  PROVE  PoolInv'
  <1> DEFINE here == Slot(freeing[t].pos)
             i == freeing[t].idx
  <1>0. PoolTypeOK /\ RegistersOK /\ EveryPositionServed /\ Exclusive
    BY DEF PoolInv
  <1>1. /\ freeing[t].pc = "store" /\ free_list' = [free_list EXCEPT ![here] = i]
        /\ freeing' = [freeing EXCEPT ![t] = [pc |-> "idle", pos |-> 0, idx |-> MAX]]
        /\ UNCHANGED <<free_head, free_tail, alloc, inuse>>
    BY DEF FreeStore, NotFreeing
  <1>2. freeing[t].pos \in Nat /\ i \in Idx /\ MAX \notin Idx /\ i # MAX
    <2>1. freeing[t].pos \in Nat /\ i \in Idx
      BY <1>0, <1>1 DEF PoolTypeOK, RegistersOK
    <2>2. MAX \notin Idx
      BY CapacityAssumption DEF MAX, Idx
    <2> QED  BY <2>1, <2>2
  <1>3. here \in 0 .. (FreeCapacity - 1) /\ here \in DOMAIN free_list
    BY <1>0, <1>2, SlotType DEF PoolTypeOK
  <1>4. /\ DOMAIN free_list' = DOMAIN free_list /\ free_list'[here] = i
        /\ \A s \in DOMAIN free_list : s # here => free_list'[s] = free_list[s]
    BY <1>1, <1>3
  <1>5. /\ freeing'[t].pc = "idle" /\ \A u \in Threads \ {t} : freeing'[u] = freeing[u]
    BY <1>0, <1>1 DEF PoolTypeOK
  <1>6. PoolTypeOK'
    BY <1>0, <1>1, <1>2, <1>3 DEF PoolTypeOK
  <1>7. RegistersOK'
    <2>1. \A u \in Threads : freeing'[u].pc = "store" => freeing'[u].idx \in Idx
      BY <1>0, <1>5 DEF RegistersOK
    <2> QED  BY <1>0, <1>1, <2>1 DEF RegistersOK
  <1>8. EveryPositionServed'
    <2> SUFFICES ASSUME NEW p \in free_tail .. (free_head - 1)
                 PROVE  \/ free_list'[Slot(p)] # MAX
                        \/ \E u \in Threads : freeing'[u].pc = "store" /\ freeing'[u].pos = p
                        \/ alloc.pc = "store" /\ p = free_tail
      BY <1>1 DEF EveryPositionServed
    <2>1. p \in Nat
      BY <1>0 DEF PoolTypeOK
    <2>2. Slot(p) \in DOMAIN free_list
      BY <1>0, <2>1, SlotType DEF PoolTypeOK
    <2>3. CASE Slot(p) = here
      BY <1>2, <1>4, <2>3
    <2>4. CASE Slot(p) # here
      <3>1. free_list'[Slot(p)] = free_list[Slot(p)]
        BY <1>4, <2>2, <2>4
      <3>2. freeing[t].pos # p
        BY <2>4
      <3> HIDE DEF here, i
      <3> QED  BY <1>0, <1>5, <3>1, <3>2 DEF EveryPositionServed
    <2> QED  BY <2>3, <2>4
  <1>9. Exclusive'
    <2>1. \A j \in Idx : Taken(j)' <=> Taken(j)
      BY <1>1 DEF Taken
    <2>2. /\ Returning(i, t)
          /\ \A j \in Idx : ~Returning(j, t)'
          /\ \A j \in Idx : \A u \in Threads : u # t => (Returning(j, u)' <=> Returning(j, u))
      BY <1>1, <1>5 DEF Returning
    <2>3. \A j \in Idx : \A s \in DOMAIN free_list :
            Listed(j, s)' <=> (s = here /\ j = i) \/ (s # here /\ Listed(j, s))
      BY <1>4 DEF Listed
    <2> HIDE DEF here, i
    <2> QED  BY <1>0, <1>1, <1>2, <1>3, <1>4, <2>1, <2>2, <2>3 DEF Exclusive
  <1> QED  BY <1>6, <1>7, <1>8, <1>9 DEF PoolInv

(* The pool is as it was when its variables are.                           *)
LEMMA PoolKept ==
  ASSUME PoolInv, UNCHANGED poolVars
  PROVE  PoolInv'
  <1> USE DEF poolVars
  <1>1. PoolTypeOK' /\ RegistersOK' /\ EveryPositionServed'
    BY DEF PoolInv, PoolTypeOK, RegistersOK, EveryPositionServed
  <1>2. Exclusive'
    BY DEF PoolInv, Exclusive, Listed, Taken, Returning
  <1> QED  BY <1>1, <1>2 DEF PoolInv

-----------------------------------------------------------------------------
(* The multi-core receive path.                                            *)

Senders == {p.src : p \in Arrivals}
AppPackets == [idx : Idx, hdr : Nat, src : Senders]
Messages == [hdr : Nat, src : Senders, data : Nat]
RingOf(S) == [head : Nat, tail : Nat, slots : [0 .. (RingCapacity - 1) -> Seq(S)]]
RxRegs == [pc : {"top", "recv", "free", "publish", "exit"}, todo : Nat, refs : Seq(Idx), rr : Nat, ring : Nat]
WorkerRegs == [pc : {"top", "tail", "frame", "publish", "free", "exit"}, batch : Seq(Idx)]
RecvRegs == [pc : {"idle", "lock", "buffered", "scan", "copy", "claim", "free", "filter"},
             offset : Nat, pkt : Seq(AppPackets), data : Nat]
Counters == [ring_full : Nat, app_ring : Nat, parse_fail : Nat, buffer_full : Nat]

PipeTypeOK ==
  /\ pkts \in Seq(Arrivals)
  /\ buffer \in [Idx -> Nat]
  /\ rx \in RxRegs
  /\ worker_rings \in [Workers -> RingOf(Idx)]
  /\ app_rings \in [Workers -> RingOf(AppPackets)]
  /\ workers \in [Workers -> WorkerRegs]
  /\ rx_lock \in Receivers \cup {Nobody}
  /\ rr_index \in 0 .. NumWorkers
  /\ queue \in Seq(Messages)
  /\ Len(queue) <= QueueMax
  /\ receivers \in [Receivers -> RecvRegs]
  /\ returned \in Seq(Messages)
  /\ drops \in Counters

\* The RX thread allocates only for packets of its burst, and a frame holds a packet
\* that arrived.
RxOK ==
  /\ Len(pkts) + rx.todo <= MaxPackets
  /\ alloc.pc # "idle" => rx.pc = "recv" /\ rx.todo > 0
  /\ \A i \in Idx : buffer[i] <= Len(pkts)

\* The frame, or packet, at a position of a ring.
WFrame(w, p) == worker_rings[w].slots[p % RingCapacity][1]
APacket(w, p) == app_rings[w].slots[p % RingCapacity][1]

\* The counters leave room for what is written and not yet published, and hold what was
\* read and not yet taken.
Publishing(w) == rx.pc = "publish" /\ rx.ring = w
RingOK(w) ==
  LET wr == worker_rings[w]
      ar == app_rings[w]
      b == workers[w].batch
  IN  /\ wr.tail <= wr.head /\ wr.head <= wr.tail + RingCapacity
      /\ ar.tail <= ar.head /\ ar.head <= ar.tail + RingCapacity
      /\ Publishing(w) => wr.head < wr.tail + RingCapacity
      /\ workers[w].pc = "publish" => ar.head < ar.tail + RingCapacity
      /\ workers[w].pc \in {"top", "exit"} => b = << >>
      /\ workers[w].pc = "tail" =>
           wr.tail + Len(b) <= wr.head /\ \A k \in 1 .. Len(b) : b[k] = WFrame(w, wr.tail + (k - 1))
RingsOK == \A w \in Workers : RingOK(w)

\* The frames on their way through a worker, the next one to be received first: the app
\* ring up to what is written, the batch, and the worker's ring behind the batch.
AppEnd(w) == IF workers[w].pc = "publish" THEN app_rings[w].head + 1 ELSE app_rings[w].head
RingStart(w) ==
  IF workers[w].pc = "tail" THEN worker_rings[w].tail + Len(workers[w].batch) ELSE worker_rings[w].tail
RingEnd(w) == IF Publishing(w) THEN worker_rings[w].head + 1 ELSE worker_rings[w].head

InApp(w) == AppEnd(w) - app_rings[w].tail
BeforeRing(w) == InApp(w) + Len(workers[w].batch)
PathLen(w) == BeforeRing(w) + (RingEnd(w) - RingStart(w))
PathAt(w, k) ==
  IF k <= InApp(w) THEN APacket(w, app_rings[w].tail + (k - 1)).idx
  ELSE IF k <= BeforeRing(w) THEN workers[w].batch[k - InApp(w)]
  ELSE WFrame(w, RingStart(w) + (k - BeforeRing(w) - 1))

\* Who has a frame.
InRefs(i) == \E k \in DOMAIN rx.refs : rx.refs[k] = i
OnPath(w, i) == \E k \in 1 .. PathLen(w) : PathAt(w, k) = i
Holding(r) == receivers[r].pc \in {"copy", "claim"}
InHand(r, i) == Holding(r) /\ receivers[r].pkt[1].idx = i

Accounted ==
  /\ \A i : i \in inuse <=> InRefs(i) \/ (\E w \in Workers : OnPath(w, i)) \/ (\E r \in Receivers : InHand(r, i))
  /\ \A i : \A v, w \in Workers : OnPath(v, i) /\ OnPath(w, i) => v = w
  /\ \A i : \A w \in Workers : InRefs(i) => ~OnPath(w, i)
  /\ \A i : \A r \in Receivers : InRefs(i) => ~InHand(r, i)
  /\ \A i : \A r \in Receivers, w \in Workers : OnPath(w, i) => ~InHand(r, i)

\* Frames in use hold different packets, in the order of arrival along each path and, behind
\* all paths, in the RX thread's burst.
Ordered ==
  /\ \A i \in inuse : buffer[i] \in 1 .. Len(pkts)
  /\ \A i, j \in inuse : buffer[i] = buffer[j] => i = j
  /\ \A k, l \in DOMAIN rx.refs : k < l => buffer[rx.refs[k]] < buffer[rx.refs[l]]
  /\ \A w \in Workers : \A k, l \in 1 .. PathLen(w) : k < l => buffer[PathAt(w, k)] < buffer[PathAt(w, l)]
  /\ \A w \in Workers : \A i, j : OnPath(w, i) /\ InRefs(j) => buffer[i] < buffer[j]

\* What was parsed from a frame is still what the frame holds.
Genuine(h, s) == h \in 1 .. Len(pkts) /\ pkts[h] = [kind |-> "data", src |-> s]
AppItemOK(w, p) ==
  /\ app_rings[w].slots[p % RingCapacity] # << >>
  /\ buffer[APacket(w, p).idx] = APacket(w, p).hdr
  /\ Genuine(APacket(w, p).hdr, APacket(w, p).src)
AppOK == \A w \in Workers : \A p \in app_rings[w].tail .. (AppEnd(w) - 1) : AppItemOK(w, p)

\* A receiver beyond the lock has it; what it has of a packet belongs together.
HasPacket(r) == receivers[r].pc \in {"copy", "claim", "free", "filter"}
RecvOK(r) ==
  /\ receivers[r].pc \notin {"idle", "lock"} => rx_lock = r
  /\ HasPacket(r) => receivers[r].pkt # << >> /\ Genuine(receivers[r].pkt[1].hdr, receivers[r].pkt[1].src)
  /\ Holding(r) => buffer[receivers[r].pkt[1].idx] = receivers[r].pkt[1].hdr
  /\ HasPacket(r) /\ receivers[r].pc # "copy" => receivers[r].data = receivers[r].pkt[1].hdr
ReceiversOK == \A r \in Receivers : RecvOK(r)

\* Each packet is in one place: returned, queued, with a receiver, or in a frame in use.
IsReturned(h) == \E i \in DOMAIN returned : returned[i].hdr = h
IsQueued(h) == \E i \in DOMAIN queue : queue[i].hdr = h
MessagesOK ==
  /\ \A i \in DOMAIN returned : returned[i].data = returned[i].hdr /\ Genuine(returned[i].hdr, returned[i].src)
  /\ \A i \in DOMAIN queue : queue[i].data = queue[i].hdr /\ Genuine(queue[i].hdr, queue[i].src)
  /\ \A i, j \in DOMAIN returned : returned[i].hdr = returned[j].hdr => i = j
  /\ \A i, j \in DOMAIN queue : queue[i].hdr = queue[j].hdr => i = j
  /\ \A h : IsReturned(h) => ~IsQueued(h)
RecvFresh(r) ==
  /\ HasPacket(r) => ~IsReturned(receivers[r].pkt[1].hdr) /\ ~IsQueued(receivers[r].pkt[1].hdr)
  /\ receivers[r].pc \in {"free", "filter"} => \A i \in inuse : buffer[i] # receivers[r].pkt[1].hdr
HistoryOK ==
  /\ MessagesOK
  /\ \A i \in inuse : ~IsReturned(buffer[i]) /\ ~IsQueued(buffer[i])
  /\ \A r \in Receivers : RecvFresh(r)

PipeInv ==
  /\ PoolInv /\ PipeTypeOK /\ RxOK /\ RingsOK /\ Accounted /\ Ordered /\ AppOK
  /\ ReceiversOK /\ HistoryOK /\ RingsNeverReject

-----------------------------------------------------------------------------
(* What a step may leave as it is, and what that preserves.                *)

SamePath(w) == PathLen(w)' = PathLen(w) /\ \A k \in 1 .. PathLen(w) : PathAt(w, k)' = PathAt(w, k)
SameHand(r) == /\ Holding(r)' <=> Holding(r)
               /\ Holding(r) => receivers'[r].pkt = receivers[r].pkt
PktsGrow == Len(pkts) <= Len(pkts') /\ \A h \in 1 .. Len(pkts) : pkts'[h] = pkts[h]
SameOwners ==
  /\ inuse' = inuse /\ rx'.refs = rx.refs
  /\ \A w \in Workers : SamePath(w)
  /\ \A r \in Receivers : SameHand(r)

(* A path that is the same has the same frames.                            *)
LEMMA SamePathOn ==
  ASSUME NEW w \in Workers, SamePath(w), NEW i
  PROVE  OnPath(w, i)' <=> OnPath(w, i)
  BY SMTT(30) DEF SamePath, OnPath

(* The accounts stand when every frame stays where it is.                  *)
LEMMA SameOwnersAccounted ==
  ASSUME Accounted, SameOwners
  PROVE  Accounted'
  <1>1. \A i : InRefs(i)' <=> InRefs(i)
    BY DEF SameOwners, InRefs
  <1>2. \A i : \A w \in Workers : OnPath(w, i)' <=> OnPath(w, i)
    BY SamePathOn DEF SameOwners
  <1>3. \A i : \A r \in Receivers : InHand(r, i)' <=> InHand(r, i)
    BY ZenonT(30) DEF SameOwners, SameHand, InHand
  <1> QED  BY <1>1, <1>2, <1>3 DEF Accounted, SameOwners

(* So does the order, when no frame is written and packets only arrive.    *)
LEMMA SameOwnersOrdered ==
  ASSUME Ordered, SameOwners, buffer' = buffer, PktsGrow, pkts \in Seq(Arrivals), pkts' \in Seq(Arrivals)
  PROVE  Ordered'
  <1>1. \A i : InRefs(i)' <=> InRefs(i)
    BY Zenon DEF SameOwners, InRefs
  <1>2. \A i : \A w \in Workers : OnPath(w, i)' <=> OnPath(w, i)
    BY SamePathOn DEF SameOwners
  <1>3. \A i \in inuse' : buffer'[i] \in 1 .. Len(pkts')
    BY DEF Ordered, PktsGrow, SameOwners
  <1>4. \A i, j \in inuse' : buffer'[i] = buffer'[j] => i = j
    BY DEF Ordered, SameOwners
  <1>5. \A k, l \in DOMAIN rx'.refs : k < l => buffer'[rx'.refs[k]] < buffer'[rx'.refs[l]]
    BY DEF Ordered, SameOwners
  <1>6. \A w \in Workers : \A k, l \in 1 .. PathLen(w)' : k < l => buffer'[PathAt(w, k)'] < buffer'[PathAt(w, l)']
    BY DEF Ordered, SameOwners, SamePath
  <1>7. \A w \in Workers : \A i, j : OnPath(w, i)' /\ InRefs(j)' => buffer'[i] < buffer'[j]
    BY <1>1, <1>2 DEF Ordered
  <1> QED  BY <1>3, <1>4, <1>5, <1>6, <1>7 DEF Ordered

(* A path is the same when its rings, its batch and the two unpublished    *)
(* writes are.                                                             *)
LEMMA PathFrame ==
  ASSUME NEW w \in Workers, worker_rings'[w] = worker_rings[w], app_rings'[w] = app_rings[w],
         workers'[w].batch = workers[w].batch,
         workers'[w].pc = "publish" <=> workers[w].pc = "publish",
         workers'[w].pc = "tail" <=> workers[w].pc = "tail",
         Publishing(w)' <=> Publishing(w)
  PROVE  SamePath(w) /\ AppEnd(w)' = AppEnd(w)
  <1>1. AppEnd(w)' = AppEnd(w) /\ RingStart(w)' = RingStart(w) /\ RingEnd(w)' = RingEnd(w)
    BY DEF AppEnd, RingStart, RingEnd
  <1>2. InApp(w)' = InApp(w) /\ BeforeRing(w)' = BeforeRing(w) /\ PathLen(w)' = PathLen(w)
    BY <1>1 DEF InApp, BeforeRing, PathLen
  <1>3. \A k \in 1 .. PathLen(w) : PathAt(w, k)' = PathAt(w, k)
    BY <1>1, <1>2, Zenon DEF PathAt, WFrame, APacket
  <1> QED  BY <1>1, <1>2, <1>3, Zenon DEF SamePath

(* The counters of a worker stand when its rings and batch do.             *)
LEMMA RingFrame ==
  ASSUME NEW w \in Workers, RingOK(w), worker_rings'[w] = worker_rings[w], app_rings'[w] = app_rings[w],
         workers'[w].batch = workers[w].batch,
         workers'[w].pc = "publish" <=> workers[w].pc = "publish",
         workers'[w].pc = "tail" <=> workers[w].pc = "tail",
         workers'[w].pc \in {"top", "exit"} => workers[w].pc \in {"top", "exit"} \/ workers[w].batch = << >>,
         Publishing(w)' <=> Publishing(w)
  PROVE  RingOK(w)'
  BY Zenon DEF RingOK, WFrame

(* A packet that arrived has arrived.                                      *)
LEMMA GenuineKept ==
  ASSUME NEW h, NEW t, Genuine(h, t), PktsGrow, pkts \in Seq(Arrivals), pkts' \in Seq(Arrivals)
  PROVE  Genuine(h, t)'
  BY DEF Genuine, PktsGrow

(* The receivers and the history are as before when only other threads     *)
(* move, frames in use keep their content and a frame that becomes used    *)
(* gets a packet that is new.                                              *)
LEMMA SharedKept ==
  ASSUME ReceiversOK, HistoryOK, Accounted, UnchangedShared, PktsGrow,
         pkts \in Seq(Arrivals), pkts' \in Seq(Arrivals),
         \A i \in inuse' : i \in inuse \/ buffer'[i] = Len(pkts) + 1,
         \A i \in inuse : buffer'[i] = buffer[i]
  PROVE  ReceiversOK' /\ HistoryOK'
  <1>1. \A h, t : Genuine(h, t) => Genuine(h, t)' /\ h # Len(pkts) + 1
    BY GenuineKept DEF Genuine
  <1>2. receivers' = receivers /\ rx_lock' = rx_lock /\ queue' = queue /\ returned' = returned
    BY DEF UnchangedShared
  <1>3. /\ \A r \in Receivers : (Holding(r)' <=> Holding(r)) /\ (HasPacket(r)' <=> HasPacket(r))
        /\ \A h : (IsReturned(h)' <=> IsReturned(h)) /\ (IsQueued(h)' <=> IsQueued(h))
    BY <1>2 DEF Holding, HasPacket, IsReturned, IsQueued
  <1>4. \A r \in Receivers : Holding(r) => receivers[r].pkt[1].idx \in inuse
    BY Zenon DEF Accounted, InHand
  <1>5. ReceiversOK'
    BY <1>1, <1>2, <1>3, <1>4, Zenon DEF ReceiversOK, RecvOK
  <1>6. HistoryOK'
    <2>1. ~IsReturned(Len(pkts) + 1) /\ ~IsQueued(Len(pkts) + 1)
      BY <1>1, Zenon DEF HistoryOK, MessagesOK, IsReturned, IsQueued
    <2>2. (\A i \in inuse : ~IsReturned(buffer[i]) /\ ~IsQueued(buffer[i]))'
      BY <1>3, <2>1 DEF HistoryOK
    <2>3. \A r \in Receivers : receivers[r].pc \in {"free", "filter"} => receivers[r].pkt[1].hdr # Len(pkts) + 1
      BY <1>1, Zenon DEF ReceiversOK, RecvOK, HasPacket
    <2>4. \A r \in Receivers : receivers'[r].pc \in {"free", "filter"} =>
            \A i \in inuse' : buffer'[i] # receivers'[r].pkt[1].hdr
      BY <1>2, <2>3, Zenon DEF HistoryOK, RecvFresh
    <2>5. \A h, t : Genuine(h, t) => Genuine(h, t)'
      BY <1>1
    <2>6. MessagesOK'
      BY <1>2, <1>3, <2>5, Zenon DEF HistoryOK, MessagesOK
    <2>7. \A r \in Receivers : RecvFresh(r)'
      BY <1>2, <1>3, <2>4 DEF HistoryOK, RecvFresh
    <2> QED  BY <2>2, <2>6, <2>7 DEF HistoryOK
  <1> QED  BY <1>5, <1>6

(* What the app rings hold stays true when they only lose items from the   *)
(* front.                                                                  *)
LEMMA AppKept ==
  ASSUME AppOK, PktsGrow, pkts \in Seq(Arrivals), pkts' \in Seq(Arrivals),
         \A w \in Workers : \A p \in app_rings'[w].tail .. (AppEnd(w)' - 1) :
           /\ p \in app_rings[w].tail .. (AppEnd(w) - 1)
           /\ app_rings'[w].slots[p % RingCapacity] = app_rings[w].slots[p % RingCapacity]
           /\ buffer'[APacket(w, p).idx] = buffer[APacket(w, p).idx]
  PROVE  AppOK'
  <1> SUFFICES ASSUME NEW w \in Workers, NEW p \in app_rings'[w].tail .. (AppEnd(w)' - 1)
               PROVE  AppItemOK(w, p)'
    BY Zenon DEF AppOK
  <1>1. AppItemOK(w, p) /\ APacket(w, p)' = APacket(w, p)
    BY DEF AppOK, APacket
  <1>2. Genuine(APacket(w, p).hdr, APacket(w, p).src)'
    BY <1>1, GenuineKept DEF AppItemOK
  <1> QED  BY <1>1, <1>2 DEF AppItemOK, Genuine

-----------------------------------------------------------------------------
(* The RX thread.                                                          *)

(* A step of the RX thread that moves no frame.                            *)
LEMMA RxQuiet ==
  ASSUME PipeInv, PoolInv', PipeTypeOK', RxOK', RxUnchanged, UNCHANGED <<worker_rings, drops, buffer, inuse>>,
         rx'.refs = rx.refs, rx.pc # "publish", rx'.pc # "publish", PktsGrow
  PROVE  PipeInv'
  <1>1. /\ worker_rings' = worker_rings /\ app_rings' = app_rings /\ workers' = workers /\ receivers' = receivers
        /\ buffer' = buffer /\ inuse' = inuse /\ drops' = drops
        /\ \A w \in Workers : Publishing(w)' <=> Publishing(w)
    BY DEF RxUnchanged, UnchangedShared, Publishing
  <1>2. pkts \in Seq(Arrivals) /\ pkts' \in Seq(Arrivals)
    BY DEF PipeInv, PipeTypeOK
  <1>3. \A w \in Workers : SamePath(w) /\ AppEnd(w)' = AppEnd(w)
    BY <1>1, PathFrame
  <1>4. RingsOK'
    BY <1>1, RingFrame DEF PipeInv, RingsOK
  <1>5. SameOwners
    BY <1>1, <1>3, Zenon DEF SameOwners, SameHand, Holding
  <1>6. Accounted' /\ Ordered'
    BY <1>1, <1>2, <1>5, SameOwnersAccounted, SameOwnersOrdered, Zenon DEF PipeInv
  <1>7. AppOK'
    BY <1>1, <1>2, <1>3, AppKept, Zenon DEF PipeInv
  <1>8. ReceiversOK' /\ HistoryOK'
    BY <1>1, <1>2, SharedKept, Zenon DEF PipeInv, RxUnchanged
  <1>9. RingsNeverReject'
    BY <1>1 DEF PipeInv, RingsNeverReject
  <1> QED  BY <1>4, <1>6, <1>7, <1>8, <1>9 DEF PipeInv

(* The types, when the RX thread changes its own variables.                *)
LEMMA RxTypes ==
  ASSUME PipeTypeOK, RxUnchanged, pkts' \in Seq(Arrivals), buffer' \in [Idx -> Nat],
         rx' \in RxRegs,
         worker_rings' \in [Workers -> RingOf(Idx)],
         drops' \in Counters
  PROVE  PipeTypeOK'
  BY DEF PipeTypeOK, RxUnchanged, UnchangedShared

(* Packets only arrive: the case of none,                                  *)
LEMMA SameArrivals ==
  ASSUME PipeTypeOK, pkts' = pkts
  PROVE  PktsGrow /\ pkts' \in Seq(Arrivals)
  BY DEF PktsGrow, PipeTypeOK

(* and the case of one.                                                    *)
LEMMA MoreArrivals ==
  ASSUME PipeTypeOK, Arrives
  PROVE  PktsGrow /\ pkts' \in Seq(Arrivals) /\ Len(pkts') = Len(pkts) + 1
  BY DEF PktsGrow, PipeTypeOK, Arrives

(* rx_loop sees the flag and ends.                                         *)
LEMMA RxExitInv ==
  ASSUME PipeInv, RxExit
  PROVE  PipeInv'
  <1>1. /\ rx.pc = "top" /\ rx' = [rx EXCEPT !.pc = "exit"] /\ RxUnchanged
        /\ UNCHANGED <<poolVars, pkts, buffer, worker_rings, drops>> /\ alloc' = alloc /\ inuse' = inuse
    BY DEF RxExit, poolVars
  <1>2. PipeTypeOK /\ RxOK /\ PoolInv /\ rx \in RxRegs
    BY DEF PipeInv, PipeTypeOK
  <1>3. rx' \in RxRegs /\ rx'.pc = "exit" /\ rx'.refs = rx.refs /\ rx'.todo = rx.todo
    BY <1>1, <1>2 DEF RxRegs
  <1>4. PipeTypeOK'
    BY <1>1, <1>2, <1>3, RxTypes DEF PipeTypeOK
  <1>5. RxOK'
    BY <1>1, <1>2, <1>3 DEF RxOK
  <1>6. PoolInv' /\ PktsGrow
    BY <1>1, <1>2, PoolKept, SameArrivals
  <1> QED  BY <1>1, <1>3, <1>4, <1>5, <1>6, RxQuiet

(* rx_burst announces packets: frames are allocated for them one by one.   *)
LEMMA RxBurstInv ==
  ASSUME PipeInv, RxBurst
  PROVE  PipeInv'
  <1>1. PICK n \in 1 .. MaxBurst : Len(pkts) + n <= MaxPackets /\ rx' = [rx EXCEPT !.pc = "recv", !.todo = n]
    BY Zenon DEF RxBurst
  <1>2. /\ rx.pc = "top" /\ RxUnchanged
        /\ UNCHANGED <<poolVars, pkts, buffer, worker_rings, drops>> /\ alloc' = alloc /\ inuse' = inuse
    BY Zenon DEF RxBurst, poolVars
  <1>3. PipeTypeOK /\ RxOK /\ PoolInv /\ rx \in RxRegs /\ n \in Nat
    BY PipelineAssumption DEF PipeInv, PipeTypeOK
  <1>4. rx' \in RxRegs /\ rx'.pc = "recv" /\ rx'.refs = rx.refs /\ rx'.todo = n
    BY <1>1, <1>3, Zenon DEF RxRegs
  <1>5. PipeTypeOK'
    BY <1>2, <1>3, <1>4, RxTypes DEF PipeTypeOK
  <1>6. RxOK'
    BY <1>1, <1>2, <1>3, <1>4 DEF RxOK
  <1>7. PoolInv' /\ PktsGrow
    BY <1>2, <1>3, PoolKept, SameArrivals
  <1> QED  BY <1>2, <1>4, <1>5, <1>6, <1>7, RxQuiet

(* alloc_copy finds no free frame, and the packet is lost.                 *)
LEMMA RxNoFrameInv ==
  ASSUME PipeInv, RxNoFrame
  PROVE  PipeInv'
  <1>1. /\ rx.pc = "recv" /\ rx.todo > 0 /\ alloc.pc = "idle" /\ Arrives /\ rx' = [rx EXCEPT !.todo = @ - 1]
        /\ RxUnchanged /\ UNCHANGED <<poolVars, buffer, worker_rings, drops>> /\ alloc' = alloc /\ inuse' = inuse
    BY DEF RxNoFrame, poolVars
  <1>2. PipeTypeOK /\ RxOK /\ PoolInv /\ rx \in RxRegs /\ pkts \in Seq(Arrivals) /\ buffer \in [Idx -> Nat]
    BY DEF PipeInv, PipeTypeOK
  <1>3. rx' \in RxRegs /\ rx'.pc = "recv" /\ rx'.refs = rx.refs /\ rx'.todo = rx.todo - 1 /\ rx.todo \in Nat
    <2>1. rx.todo \in Nat /\ rx.todo - 1 \in Nat
      BY <1>1, <1>2 DEF RxRegs
    <2> QED  BY <1>1, <1>2, <2>1, Zenon DEF RxRegs
  <1>4. PktsGrow /\ pkts' \in Seq(Arrivals) /\ Len(pkts') = Len(pkts) + 1 /\ Len(pkts) \in Nat
    BY <1>1, <1>2, MoreArrivals
  <1>5. PipeTypeOK'
    BY <1>1, <1>2, <1>3, <1>4, RxTypes DEF PipeTypeOK
  <1>6. RxOK'
    <2>1. \A i \in Idx : buffer'[i] <= Len(pkts')
      BY <1>1, <1>2, <1>4 DEF RxOK
    <2> QED  BY <1>1, <1>2, <1>3, <1>4, <2>1, PipelineAssumption DEF RxOK
  <1>7. PoolInv'
    BY <1>1, <1>2, PoolKept
  <1> QED  BY <1>1, <1>3, <1>4, <1>5, <1>6, <1>7, RxQuiet

(* The steps of alloc before it returns.                                   *)
LEMMA RxAllocStepInv ==
  ASSUME PipeInv, RxAllocStep
  PROVE  PipeInv'
  <1>1. /\ rx.pc = "recv" /\ rx.todo > 0 /\ RxUnchanged /\ UNCHANGED <<rx, pkts, buffer, worker_rings, drops>>
        /\ AllocCheck \/ AllocSwap
    BY DEF RxAllocStep
  <1>2. PipeTypeOK /\ RxOK /\ PoolInv
    BY DEF PipeInv
  <1>3. PoolInv' /\ inuse' = inuse
    BY <1>1, <1>2, AllocCheckInv, AllocSwapInv DEF AllocCheck, AllocSwap
  <1>4. PipeTypeOK' /\ RxOK' /\ PktsGrow
    BY <1>1, <1>2, RxTypes, SameArrivals DEF PipeTypeOK, RxOK
  <1> QED  BY <1>1, <1>3, <1>4, RxQuiet

(* The burst is worked off.                                                *)
LEMMA RxBurstDoneInv ==
  ASSUME PipeInv, RxBurstDone
  PROVE  PipeInv'
  <1>1. /\ rx.pc = "recv" /\ rx.todo = 0 /\ rx' = [rx EXCEPT !.pc = "top"] /\ RxUnchanged
        /\ UNCHANGED <<poolVars, pkts, buffer, worker_rings, drops>> /\ alloc' = alloc /\ inuse' = inuse
    BY DEF RxBurstDone, poolVars
  <1>2. PipeTypeOK /\ RxOK /\ PoolInv /\ rx \in RxRegs
    BY DEF PipeInv, PipeTypeOK
  <1>3. rx' \in RxRegs /\ rx'.pc = "top" /\ rx'.refs = rx.refs /\ rx'.todo = rx.todo
    BY <1>1, <1>2 DEF RxRegs
  <1>4. PipeTypeOK'
    BY <1>1, <1>2, <1>3, RxTypes DEF PipeTypeOK
  <1>5. RxOK'
    BY <1>1, <1>2, <1>3 DEF RxOK
  <1>6. PoolInv' /\ PktsGrow
    BY <1>1, <1>2, PoolKept, SameArrivals
  <1> QED  BY <1>1, <1>3, <1>4, <1>5, <1>6, RxQuiet

(* free stores the index, and the RX thread goes on.                       *)
LEMMA RxFreedInv ==
  ASSUME PipeInv, RxFreed
  PROVE  PipeInv'
  <1>1. /\ rx.pc = "free" /\ FreeStore(RxThread) /\ rx' = [rx EXCEPT !.pc = "recv"] /\ RxUnchanged
        /\ UNCHANGED <<pkts, buffer, worker_rings, drops>> /\ alloc' = alloc /\ inuse' = inuse
    BY DEF RxFreed, FreeStore
  <1>2. PipeTypeOK /\ RxOK /\ PoolInv /\ rx \in RxRegs /\ RxThread \in Threads
    BY PipelineAssumption DEF PipeInv, PipeTypeOK
  <1>3. rx' \in RxRegs /\ rx'.pc = "recv" /\ rx'.refs = rx.refs /\ rx'.todo = rx.todo
    BY <1>1, <1>2 DEF RxRegs
  <1>4. PipeTypeOK'
    BY <1>1, <1>2, <1>3, RxTypes DEF PipeTypeOK
  <1>5. RxOK'
    BY <1>1, <1>2, <1>3 DEF RxOK
  <1>6. PoolInv' /\ PktsGrow
    BY <1>1, <1>2, FreeStoreInv, SameArrivals, Zenon
  <1> QED  BY <1>1, <1>3, <1>4, <1>5, <1>6, RxQuiet

(* The frames of the burst and of the paths are in use.                    *)
LEMMA OwnedInUse ==
  ASSUME Accounted
  PROVE  /\ \A k \in DOMAIN rx.refs : rx.refs[k] \in inuse
         /\ \A w \in Workers : \A k \in 1 .. PathLen(w) : PathAt(w, k) \in inuse
  BY Zenon DEF Accounted, InRefs, OnPath

(* The measures of a path are numbers, and its parts lie behind another.   *)
LEMMA PathTypes ==
  ASSUME PipeTypeOK, RingsOK, NEW w \in Workers
  PROVE  /\ worker_rings[w].head \in Nat /\ worker_rings[w].tail \in Nat
         /\ app_rings[w].head \in Nat /\ app_rings[w].tail \in Nat
         /\ workers[w].batch \in Seq(Idx) /\ Len(workers[w].batch) \in Nat
         /\ AppEnd(w) \in Nat /\ app_rings[w].tail <= AppEnd(w) /\ AppEnd(w) <= app_rings[w].tail + RingCapacity
         /\ RingStart(w) \in Nat /\ RingEnd(w) \in Nat /\ RingStart(w) <= RingEnd(w)
         /\ worker_rings[w].tail <= RingStart(w) /\ RingEnd(w) <= worker_rings[w].tail + RingCapacity
         /\ InApp(w) \in Nat /\ BeforeRing(w) \in Nat /\ PathLen(w) \in Nat
         /\ InApp(w) <= BeforeRing(w) /\ BeforeRing(w) <= PathLen(w)
         /\ BeforeRing(w) = InApp(w) + Len(workers[w].batch)
         /\ PathLen(w) = BeforeRing(w) + (RingEnd(w) - RingStart(w))
         /\ InApp(w) = AppEnd(w) - app_rings[w].tail
  <1>1. /\ worker_rings[w].head \in Nat /\ worker_rings[w].tail \in Nat
        /\ app_rings[w].head \in Nat /\ app_rings[w].tail \in Nat
    BY DEF PipeTypeOK, RingOf
  <1>2. workers[w].batch \in Seq(Idx) /\ Len(workers[w].batch) \in Nat
    BY DEF PipeTypeOK, WorkerRegs
  <1>3. RingOK(w) /\ RingCapacity \in Nat
    BY RingCapacityAssumption, Zenon DEF RingsOK
  <1>4. /\ app_rings[w].tail <= app_rings[w].head /\ app_rings[w].head <= app_rings[w].tail + RingCapacity
        /\ workers[w].pc = "publish" => app_rings[w].head < app_rings[w].tail + RingCapacity
        /\ worker_rings[w].tail <= worker_rings[w].head /\ worker_rings[w].head <= worker_rings[w].tail + RingCapacity
        /\ Publishing(w) => worker_rings[w].head < worker_rings[w].tail + RingCapacity
        /\ workers[w].pc = "tail" => worker_rings[w].tail + Len(workers[w].batch) <= worker_rings[w].head
    BY <1>3, Zenon DEF RingOK
  <1>5. AppEnd(w) \in Nat /\ app_rings[w].tail <= AppEnd(w) /\ AppEnd(w) <= app_rings[w].tail + RingCapacity
    BY <1>1, <1>3, <1>4, SMTT(30) DEF AppEnd
  <1>6. /\ RingStart(w) \in Nat /\ RingStart(w) <= worker_rings[w].head
        /\ worker_rings[w].tail <= RingStart(w)
    BY <1>1, <1>2, <1>4 DEF RingStart
  <1>7. RingEnd(w) \in Nat /\ worker_rings[w].head <= RingEnd(w) /\ RingEnd(w) <= worker_rings[w].tail + RingCapacity
    BY <1>1, <1>3, <1>4 DEF RingEnd
  <1>8. InApp(w) = AppEnd(w) - app_rings[w].tail /\ InApp(w) \in Nat
    BY <1>1, <1>5 DEF InApp
  <1>9. BeforeRing(w) = InApp(w) + Len(workers[w].batch) /\ BeforeRing(w) \in Nat /\ InApp(w) <= BeforeRing(w)
    BY <1>2, <1>8 DEF BeforeRing
  <1>10. RingStart(w) <= RingEnd(w)
    BY <1>1, <1>6, <1>7
  <1>11. /\ PathLen(w) = BeforeRing(w) + (RingEnd(w) - RingStart(w)) /\ PathLen(w) \in Nat
         /\ BeforeRing(w) <= PathLen(w)
    BY <1>6, <1>7, <1>9, <1>10, SMTT(30) DEF PathLen
  <1> QED  BY <1>1, <1>2, <1>5, <1>6, <1>7, <1>8, <1>9, <1>10, <1>11, Zenon

(* The frames of the packets in an app ring are in use and on its path.    *)
LEMMA AppInUse ==
  ASSUME PipeTypeOK, RingsOK, Accounted, NEW w \in Workers, NEW p \in app_rings[w].tail .. (AppEnd(w) - 1)
  PROVE  OnPath(w, APacket(w, p).idx) /\ APacket(w, p).idx \in inuse
  <1> DEFINE k == p - app_rings[w].tail + 1
  <1>1. k \in 1 .. PathLen(w) /\ k <= InApp(w) /\ app_rings[w].tail + (k - 1) = p
    <2>1. /\ app_rings[w].tail \in Nat /\ AppEnd(w) \in Nat /\ InApp(w) = AppEnd(w) - app_rings[w].tail
          /\ InApp(w) <= PathLen(w) /\ PathLen(w) \in Nat
      BY PathTypes, SMTT(30)
    <2> QED  BY <2>1
  <1>2. PathAt(w, k) = APacket(w, p).idx
    BY <1>1 DEF PathAt
  <1> QED  BY <1>1, <1>2 DEF OnPath, Accounted

(* alloc returns a frame nobody has, and the newest packet is copied into  *)
(* it.                                                                     *)
LEMMA RxFillInv ==
  ASSUME PipeInv, RxFill
  PROVE  PipeInv'
  <1> DEFINE n == alloc.idx
             new == Len(pkts) + 1
  <1>1. /\ rx.pc = "recv" /\ AllocStore /\ alloc.pc = "store" /\ inuse' = inuse \cup {n} /\ alloc' = NotAllocating
        /\ Arrives /\ buffer' = [buffer EXCEPT ![n] = Len(pkts')]
        /\ rx' = [rx EXCEPT !.todo = @ - 1, !.refs = Append(@, n)]
        /\ RxUnchanged /\ worker_rings' = worker_rings /\ drops' = drops
    BY DEF RxFill, AllocStore
  <1>2. /\ PoolInv /\ PipeTypeOK /\ RxOK /\ RingsOK /\ Accounted /\ Ordered /\ AppOK /\ ReceiversOK /\ HistoryOK
        /\ PoolTypeOK /\ RegistersOK /\ Exclusive
    BY DEF PipeInv, PoolInv
  <1>3. /\ rx \in RxRegs /\ pkts \in Seq(Arrivals) /\ buffer \in [Idx -> Nat] /\ rx.refs \in Seq(Idx) /\ rx.todo \in Nat
        /\ rx.todo > 0 /\ Len(pkts) \in Nat
    BY <1>1, <1>2 DEF PipeTypeOK, RxRegs, RxOK
  <1>4. n \in Idx /\ n \notin inuse
    <2>1. n \in Idx
      BY <1>1, <1>2 DEF RegistersOK
    <2> QED  BY <1>1, <1>2, <2>1 DEF Exclusive, Taken
  <1>5. PktsGrow /\ pkts' \in Seq(Arrivals) /\ Len(pkts') = new
    BY <1>1, <1>2, MoreArrivals
  <1>6. buffer' \in [Idx -> Nat] /\ buffer'[n] = new /\ \A i \in Idx \ {n} : buffer'[i] = buffer[i]
    BY <1>1, <1>3, <1>4, <1>5
  <1>7. /\ rx' \in RxRegs /\ rx'.pc = "recv" /\ rx'.refs = Append(rx.refs, n) /\ rx'.todo = rx.todo - 1
    <2>1. rx.todo - 1 \in Nat /\ Append(rx.refs, n) \in Seq(Idx)
      BY <1>3, <1>4
    <2> QED  BY <1>1, <1>3, <2>1, Zenon DEF RxRegs
  <1>8. \A i \in inuse : i \in Idx /\ i # n /\ buffer'[i] = buffer[i]
    BY <1>2, <1>4, <1>6 DEF PoolTypeOK
  <1>9. PoolInv'
    BY <1>1, <1>2, AllocStoreInv
  <1>10. PipeTypeOK'
    BY <1>1, <1>2, <1>5, <1>6, <1>7, RxTypes, Zenon DEF PipeTypeOK
  <1>11. RxOK'
    <2>1. \A i \in Idx : buffer'[i] <= Len(pkts')
      BY <1>2, <1>3, <1>5, <1>6, SMTT(30) DEF RxOK
    <2>2. alloc'.pc = "idle"
      BY <1>1 DEF NotAllocating
    <2> QED  BY <1>2, <1>3, <1>5, <1>7, <2>1, <2>2, PipelineAssumption DEF RxOK
  <1>12. /\ app_rings' = app_rings /\ workers' = workers /\ receivers' = receivers
         /\ \A w \in Workers : Publishing(w)' <=> Publishing(w)
    BY <1>1, <1>7 DEF RxUnchanged, UnchangedShared, Publishing
  <1>13. \A w \in Workers : SamePath(w) /\ AppEnd(w)' = AppEnd(w)
    BY <1>1, <1>12, PathFrame
  <1>14. RingsOK'
    BY <1>1, <1>2, <1>12, RingFrame DEF RingsOK
  <1>15. \A k \in 1 .. Len(rx'.refs) : rx'.refs[k] = IF k <= Len(rx.refs) THEN rx.refs[k] ELSE n
    BY <1>3, <1>4, <1>7
  <1>16. /\ Len(rx'.refs) = Len(rx.refs) + 1 /\ DOMAIN rx'.refs = 1 .. Len(rx'.refs) /\ DOMAIN rx.refs = 1 .. Len(rx.refs)
         /\ Len(rx.refs) \in Nat
    BY <1>3, <1>4, <1>7
  <1>17. \A i : InRefs(i)' <=> InRefs(i) \/ i = n
    BY <1>15, <1>16 DEF InRefs
  <1>18. \A i : \A w \in Workers : OnPath(w, i)' <=> OnPath(w, i)
    BY <1>13, SamePathOn
  <1>19. \A i : \A r \in Receivers : InHand(r, i)' <=> InHand(r, i)
    BY <1>12 DEF InHand, Holding
  <1>20. Accounted'
    BY <1>1, <1>2, <1>4, <1>17, <1>18, <1>19, Zenon DEF Accounted
  <1>21. Ordered'
    <2>0. \A i \in inuse : buffer[i] \in 1 .. Len(pkts)
      BY <1>2 DEF Ordered
    <2>1. \A i \in inuse' : buffer'[i] \in 1 .. Len(pkts')
      BY <1>1, <1>3, <1>5, <1>6, <1>8, <2>0
    <2>2. \A i, j \in inuse' : buffer'[i] = buffer'[j] => i = j
      BY <1>1, <1>2, <1>3, <1>6, <1>8, <2>0 DEF Ordered
    <2>3. \A k, l \in DOMAIN rx'.refs : k < l => buffer'[rx'.refs[k]] < buffer'[rx'.refs[l]]
      <3> SUFFICES ASSUME NEW k \in 1 .. Len(rx'.refs), NEW l \in 1 .. Len(rx'.refs), k < l
                   PROVE  buffer'[rx'.refs[k]] < buffer'[rx'.refs[l]]
        BY <1>16
      <3>1. k \in DOMAIN rx.refs /\ rx'.refs[k] = rx.refs[k] /\ rx.refs[k] \in inuse
        BY <1>2, <1>15, <1>16, OwnedInUse
      <3>2. CASE l \in DOMAIN rx.refs
        <4>1. rx'.refs[l] = rx.refs[l] /\ rx.refs[l] \in inuse
          BY <1>2, <1>15, <1>16, <3>2, OwnedInUse
        <4> QED  BY <1>2, <1>8, <3>1, <3>2, <4>1, Zenon DEF Ordered
      <3>3. CASE l \notin DOMAIN rx.refs
        <4>1. rx'.refs[l] = n
          BY <1>15, <1>16, <3>3, SMTT(30)
        <4> QED  BY <1>3, <1>6, <1>8, <2>0, <3>1, <4>1
      <3> QED  BY <3>2, <3>3
    <2>4. \A w \in Workers : \A k, l \in 1 .. PathLen(w)' : k < l => buffer'[PathAt(w, k)'] < buffer'[PathAt(w, l)']
      BY <1>2, <1>8, <1>13, OwnedInUse DEF Ordered, SamePath
    <2>5. \A w \in Workers : \A i, j : OnPath(w, i)' /\ InRefs(j)' => buffer'[i] < buffer'[j]
      <3> SUFFICES ASSUME NEW w \in Workers, NEW i, NEW j, OnPath(w, i), InRefs(j) \/ j = n
                   PROVE  buffer'[i] < buffer'[j]
        BY <1>17, <1>18
      <3>1. i \in inuse /\ (InRefs(j) => j \in inuse)
        BY <1>2 DEF Accounted
      <3>2. InRefs(j) => buffer[i] < buffer[j]
        BY <1>2, Zenon DEF Ordered
      <3> QED  BY <1>3, <1>6, <1>8, <2>0, <3>1, <3>2, SMTT(30)
    <2> QED  BY <2>1, <2>2, <2>3, <2>4, <2>5, Zenon DEF Ordered
  <1>22. AppOK'
    BY <1>2, <1>3, <1>5, <1>8, <1>12, <1>13, AppKept, AppInUse
  <1>23. ReceiversOK' /\ HistoryOK'
    BY <1>1, <1>2, <1>3, <1>5, <1>6, <1>8, SharedKept DEF RxUnchanged
  <1>24. RingsNeverReject'
    BY <1>1 DEF PipeInv, RingsNeverReject
  <1> QED  BY <1>9, <1>10, <1>11, <1>14, <1>20, <1>21, <1>22, <1>23, <1>24 DEF PipeInv

(* The head and the tail of a sequence that is not empty.                  *)
LEMMA HeadAndTail ==
  ASSUME NEW S, NEW q \in Seq(S), q # << >>
  PROVE  /\ Len(q) \in Nat \ {0} /\ DOMAIN q = 1 .. Len(q) /\ Head(q) = q[1] /\ Head(q) \in S
         /\ Tail(q) \in Seq(S) /\ Len(Tail(q)) = Len(q) - 1 /\ DOMAIN Tail(q) = 1 .. (Len(q) - 1)
         /\ \A k \in 1 .. (Len(q) - 1) : Tail(q)[k] = q[k + 1]
  OBVIOUS

(* What is left of the burst when its first frame goes.                    *)
LEMMA RefsTail ==
  ASSUME PipeTypeOK, Ordered, rx.refs # << >>, rx'.refs = Tail(rx.refs)
  PROVE  /\ InRefs(Head(rx.refs))
         /\ \A i : InRefs(i)' <=> InRefs(i) /\ i # Head(rx.refs)
         /\ \A i : InRefs(i)' => buffer[Head(rx.refs)] < buffer[i]
         /\ \A k, l \in DOMAIN rx'.refs : k < l => buffer[rx'.refs[k]] < buffer[rx'.refs[l]]
  <1> DEFINE q == rx.refs
             n == Len(q)
  <1>1. q \in Seq(Idx)
    BY DEF PipeTypeOK, RxRegs
  <1>2. /\ n \in Nat \ {0} /\ DOMAIN q = 1 .. n /\ Head(q) = q[1] /\ DOMAIN rx'.refs = 1 .. (n - 1)
        /\ \A k \in 1 .. (n - 1) : rx'.refs[k] = q[k + 1]
    BY <1>1, HeadAndTail, Zenon
  <1>3. \A k, l \in 1 .. n : k < l => buffer[q[k]] < buffer[q[l]]
    BY <1>2 DEF Ordered
  <1>4. \A k \in 1 .. (n - 1) : buffer[q[1]] < buffer[rx'.refs[k]]
    BY <1>2, <1>3
  <1>5. \A k, l \in DOMAIN rx'.refs : k < l => buffer[rx'.refs[k]] < buffer[rx'.refs[l]]
    BY <1>2, <1>3
  <1>6. \A i : InRefs(i) <=> i = q[1] \/ \E k \in 1 .. (n - 1) : rx'.refs[k] = i
    <2> TAKE i
    <2>1. ASSUME NEW k \in 1 .. n, q[k] = i, i # q[1] PROVE \E l \in 1 .. (n - 1) : rx'.refs[l] = i
      <3>1. k - 1 \in 1 .. (n - 1) /\ (k - 1) + 1 = k
        BY <1>2, <2>1
      <3> QED  BY <1>2, <2>1, <3>1, Zenon
    <2>2. ASSUME NEW k \in 1 .. (n - 1), rx'.refs[k] = i PROVE \E l \in 1 .. n : q[l] = i
      BY <1>2, <2>2
    <2> QED  BY <1>2, <2>1, <2>2 DEF InRefs
  <1>7. \A i : InRefs(i)' <=> \E k \in 1 .. (n - 1) : rx'.refs[k] = i
    BY <1>2, Zenon DEF InRefs
  <1>8. \A i : InRefs(i)' => buffer[q[1]] < buffer[i]
    BY <1>4, <1>7
  <1>9. \A i : InRefs(i)' => i # q[1]
    <2>1. buffer[q[1]] \in Int
      <3>1. q[1] \in Idx /\ buffer \in [Idx -> Nat]
        BY <1>1, <1>2 DEF PipeTypeOK
      <3> QED  BY <3>1
    <2> QED  BY <1>8, <2>1
  <1> QED  BY <1>2, <1>5, <1>6, <1>7, <1>8, <1>9

(* The first frame of the burst goes back to the pool.                     *)
LEMMA RefFreed ==
  ASSUME PipeTypeOK, Accounted, Ordered, rx.refs # << >>, rx'.refs = Tail(rx.refs),
         inuse' = inuse \ {Head(rx.refs)}, buffer' = buffer, pkts' = pkts,
         \A w \in Workers : SamePath(w), \A r \in Receivers : SameHand(r)
  PROVE  Accounted' /\ Ordered'
  <1> DEFINE h == Head(rx.refs)
  <1>1. /\ InRefs(h) /\ \A i : InRefs(i)' <=> InRefs(i) /\ i # h
        /\ \A k, l \in DOMAIN rx'.refs : k < l => buffer[rx'.refs[k]] < buffer[rx'.refs[l]]
    BY Zenon, RefsTail
  <1>2. \A i : \A w \in Workers : OnPath(w, i)' <=> OnPath(w, i)
    BY SamePathOn
  <1>3. \A i : \A r \in Receivers : InHand(r, i)' <=> InHand(r, i)
    BY SMTT(30) DEF SameHand, InHand
  <1>4. Accounted'
    BY <1>1, <1>2, <1>3, Zenon DEF Accounted
  <1>5. \A w \in Workers : \A k, l \in 1 .. PathLen(w)' : k < l => buffer'[PathAt(w, k)'] < buffer'[PathAt(w, l)']
    BY SMTT(30) DEF Ordered, SamePath
  <1>6. \A w \in Workers : \A i, j : OnPath(w, i)' /\ InRefs(j)' => buffer'[i] < buffer'[j]
    BY <1>1, <1>2 DEF Ordered
  <1>7. Ordered'
    BY <1>1, <1>5, <1>6, Zenon DEF Ordered
  <1> QED  BY <1>4, <1>7

(* The slots of a ring are different for positions less than a round       *)
(* apart.                                                                  *)
LEMMA RingSlots ==
  ASSUME NEW p \in Nat, NEW q \in Nat, p < q, q < p + RingCapacity
  PROVE  p % RingCapacity # q % RingCapacity
  <1>1. RingCapacity \in Nat \ {0} /\ p \in Int /\ q \in Int /\ p - q < RingCapacity /\ q - p < RingCapacity
    BY RingCapacityAssumption
  <1> QED  BY <1>1, ModInjective

(* Every position has a slot.                                              *)
LEMMA SlotOfRing == \A p \in Nat : p % RingCapacity \in 0 .. (RingCapacity - 1)
  <1> SUFFICES ASSUME NEW p \in Nat PROVE p % RingCapacity \in 0 .. (RingCapacity - 1)
    OBVIOUS
  <1>1. p \in Int /\ RingCapacity \in Nat \ {0}
    BY RingCapacityAssumption, SMTT(30)
  <1> QED  BY <1>1, DivMod

(* enqueue writes a slot that is not in use: the items of the ring stay.   *)
LEMMA WriteKeeps ==
  ASSUME NEW S, NEW r \in RingOf(S), NEW item \in S, r.tail <= r.head, r.head < r.tail + RingCapacity
  PROVE  /\ WriteSlot(r, item) \in RingOf(S)
         /\ WriteSlot(r, item).head = r.head /\ WriteSlot(r, item).tail = r.tail
         /\ WriteSlot(r, item).slots[r.head % RingCapacity] = <<item>>
         /\ \A p \in r.tail .. (r.head - 1) :
              WriteSlot(r, item).slots[p % RingCapacity] = r.slots[p % RingCapacity]
  <1>1. /\ r.head \in Nat /\ r.tail \in Nat /\ r.slots \in [0 .. (RingCapacity - 1) -> Seq(S)]
        /\ RingCapacity \in Nat \ {0} /\ <<item>> \in Seq(S)
    BY RingCapacityAssumption DEF RingOf
  <1>2. \A p \in Nat : p % RingCapacity \in 0 .. (RingCapacity - 1)
    BY SlotOfRing
  <1> DEFINE at == r.head % RingCapacity
             new == [r.slots EXCEPT ![at] = <<item>>]
  <1>3. WriteSlot(r, item) = [r EXCEPT !.slots = new]
    BY DEF WriteSlot, RingOf
  <1>4. new \in [0 .. (RingCapacity - 1) -> Seq(S)] /\ new[at] = <<item>>
    BY <1>1, <1>2, Zenon
  <1>5. /\ WriteSlot(r, item) \in RingOf(S) /\ WriteSlot(r, item).slots = new
        /\ WriteSlot(r, item).head = r.head /\ WriteSlot(r, item).tail = r.tail
    BY <1>3, <1>4, Zenon DEF RingOf
  <1>6. ASSUME NEW p \in r.tail .. (r.head - 1) PROVE new[p % RingCapacity] = r.slots[p % RingCapacity]
    <2>1. p \in Nat /\ p < r.head /\ r.head < p + RingCapacity
      BY <1>1
    <2>2. p % RingCapacity # at
      BY <1>1, <2>1, RingSlots, Zenon
    <2> QED  BY <1>1, <1>2, <2>1, <2>2, Zenon
  <1> QED  BY <1>4, <1>5, <1>6

(* The RX thread frees the first frame of its burst.                       *)
LEMMA RxFreesInv ==
  ASSUME Counting, PipeInv, RxRefs, FreeClaim(RxThread, Head(rx.refs)), RxUnchanged,
         UNCHANGED <<pkts, buffer, worker_rings>>,
         rx' \in RxRegs, rx'.pc = "free", rx'.todo = rx.todo, rx'.refs = Tail(rx.refs),
         drops' \in Counters, RingsNeverReject'
  PROVE  PipeInv'
  <1> DEFINE h == Head(rx.refs)
  <1>1. /\ PoolInv /\ PipeTypeOK /\ RxOK /\ RingsOK /\ Accounted /\ Ordered /\ AppOK /\ ReceiversOK /\ HistoryOK
    BY DEF PipeInv
  <1>2. /\ rx.pc = "recv" /\ rx.todo = 0 /\ rx.refs # << >> /\ inuse' = inuse \ {h} /\ alloc' = alloc
        /\ pkts' = pkts /\ buffer' = buffer /\ worker_rings' = worker_rings
    BY DEF RxRefs, FreeClaim
  <1>3. h \in inuse
    <2>1. rx.refs \in Seq(Idx)
      BY <1>1 DEF PipeTypeOK, RxRegs
    <2>2. h = rx.refs[1] /\ 1 \in DOMAIN rx.refs
      BY <1>2, <2>1, HeadAndTail
    <2> QED  BY <1>1, <2>2, OwnedInUse
  <1>4. PoolInv'
    <2>1. RxThread \in Threads
      BY PipelineAssumption
    <2> QED  BY <1>1, <1>3, <2>1, FreeClaimInv
  <1>5. PktsGrow /\ pkts' \in Seq(Arrivals) /\ pkts \in Seq(Arrivals)
    BY <1>1, <1>2, SameArrivals
  <1>6. PipeTypeOK'
    BY <1>1, <1>2, <1>5, RxTypes, Zenon DEF PipeTypeOK
  <1>7. RxOK'
    BY <1>1, <1>2 DEF RxOK
  <1>8. /\ app_rings' = app_rings /\ workers' = workers /\ receivers' = receivers
        /\ \A w \in Workers : Publishing(w)' <=> Publishing(w)
    BY <1>2, Zenon DEF RxUnchanged, UnchangedShared, Publishing
  <1>9. \A w \in Workers : SamePath(w) /\ AppEnd(w)' = AppEnd(w)
    BY <1>2, <1>8, PathFrame
  <1>10. RingsOK'
    BY <1>1, <1>2, <1>8, RingFrame, Zenon DEF RingsOK
  <1>11. Accounted' /\ Ordered'
    <2>1. \A r \in Receivers : SameHand(r)
      BY <1>8, Zenon DEF SameHand, Holding
    <2> QED  BY <1>1, <1>2, <1>9, <2>1, RefFreed, Zenon
  <1>12. AppOK'
    BY <1>1, <1>2, <1>5, <1>8, <1>9, AppKept, ZenonT(30)
  <1>13. ReceiversOK' /\ HistoryOK'
    BY <1>1, <1>2, <1>5, SharedKept DEF RxUnchanged
  <1> QED  BY <1>4, <1>6, <1>7, <1>10, <1>11, <1>12, <1>13 DEF PipeInv

(* A frame answered by the RX thread itself is freed.                      *)
LEMMA RxInlineInv ==
  ASSUME Counting, PipeInv, RxInline
  PROVE  PipeInv'
  <1>1. /\ RxRefs /\ FreeClaim(RxThread, Head(rx.refs)) /\ rx' = [rx EXCEPT !.pc = "free", !.refs = Tail(@)]
        /\ RxUnchanged /\ UNCHANGED <<pkts, buffer, worker_rings>> /\ drops' = drops
    BY DEF RxInline
  <1>2. rx \in RxRegs /\ drops \in Counters /\ RingsNeverReject
    BY DEF PipeInv, PipeTypeOK
  <1>3. Tail(rx.refs) \in Seq(Idx)
    BY <1>1, <1>2, HeadAndTail DEF RxRegs, RxRefs
  <1>4. rx' \in RxRegs /\ rx'.pc = "free" /\ rx'.todo = rx.todo /\ rx'.refs = Tail(rx.refs)
    BY <1>1, <1>2, <1>3, Zenon DEF RxRegs
  <1>5. RingsNeverReject'
    BY <1>1, <1>2, Zenon DEF RingsNeverReject
  <1> QED  BY <1>1, <1>2, <1>4, <1>5, RxFreesInv

(* A path has at most as many frames as the pool, and one less while the   *)
(* RX thread has a frame.                                                  *)
LEMMA PathFits ==
  ASSUME Counting, PoolTypeOK, PipeTypeOK, RingsOK, Accounted, Ordered, NEW w \in Workers
  PROVE  PathLen(w) <= Capacity /\ (rx.refs # << >> => PathLen(w) < Capacity)
  <1> DEFINE n == PathLen(w)
  <1>1. n \in Nat /\ Capacity \in Nat
    BY PathTypes, CapacityAssumption, Zenon
  <1>2. \A k \in 1 .. n : PathAt(w, k) \in Idx /\ buffer[PathAt(w, k)] \in Int
    <2>1. \A i \in inuse : i \in Idx /\ buffer[i] \in Int
      BY DEF PoolTypeOK, PipeTypeOK
    <2> QED  BY <2>1, OwnedInUse
  <1>3. \A k, l \in 1 .. n : PathAt(w, k) = PathAt(w, l) => k = l
    <2> SUFFICES ASSUME NEW k \in 1 .. n, NEW l \in 1 .. n, k < l PROVE PathAt(w, k) # PathAt(w, l)
      BY <1>1
    <2>1. buffer[PathAt(w, k)] < buffer[PathAt(w, l)]
      BY DEF Ordered
    <2> QED  BY <1>2, <2>1
  <1>4. n <= Capacity
    <2> DEFINE f == [k \in 1 .. n |-> PathAt(w, k)]
    <2>1. f \in [1 .. n -> Idx] /\ \A k, l \in 1 .. n : f[k] = f[l] => k = l
      BY <1>2, <1>3
    <2> HIDE DEF f, n
    <2> QED  BY <1>1, <2>1 DEF Counting
  <1>5. ASSUME rx.refs # << >> PROVE n + 1 <= Capacity
    <2>1. rx.refs \in Seq(Idx)
      BY Zenon DEF PipeTypeOK, RxRegs
    <2>2. rx.refs[1] \in Idx /\ InRefs(rx.refs[1])
      BY <1>5, <2>1, HeadAndTail, SMTT(30) DEF InRefs
    <2>3. \A k \in 1 .. n : PathAt(w, k) # rx.refs[1]
      BY <2>2 DEF Accounted, OnPath
    <2> DEFINE f == [k \in 1 .. (n + 1) |-> IF k <= n THEN PathAt(w, k) ELSE rx.refs[1]]
    <2>4. f \in [1 .. (n + 1) -> Idx]
      BY <1>1, <1>2, <2>2
    <2>5. \A k, l \in 1 .. (n + 1) : f[k] = f[l] => k = l
      <3>1. \A k \in 1 .. (n + 1) : f[k] = IF k <= n THEN PathAt(w, k) ELSE rx.refs[1]
        OBVIOUS
      <3> HIDE DEF f, n
      <3>2. \A k \in 1 .. (n + 1) : k \in 1 .. n \/ k = n + 1
        BY <1>1
      <3> QED  BY <1>1, <1>3, <2>3, <3>1, <3>2
    <2> HIDE DEF f, n
    <2>6. n + 1 \in Nat
      BY <1>1
    <2> QED  BY <2>4, <2>5, <2>6 DEF Counting
  <1> QED  BY <1>1, <1>4, <1>5

(* If s is at most n after t, then what lies between t and h is at most n  *)
(* and what lies between s and an end behind h.                            *)
LEMMA Spans ==
  ASSUME NEW h \in Int, NEW t \in Int, NEW n \in Int, NEW e \in Int, NEW s \in Int, h <= e, s <= t + n
  PROVE  h - t <= n + (e - s)
  OBVIOUS

(* A path holds what is in either of its rings.                            *)
LEMMA RingOnPath ==
  ASSUME PipeTypeOK, RingsOK, NEW w \in Workers
  PROVE  /\ worker_rings[w].head - worker_rings[w].tail <= PathLen(w)
         /\ app_rings[w].head - app_rings[w].tail + Len(workers[w].batch) <= PathLen(w)
  <1>1. /\ worker_rings[w].head \in Nat /\ worker_rings[w].tail \in Nat /\ worker_rings[w].head <= RingEnd(w)
        /\ app_rings[w].head \in Nat /\ app_rings[w].tail \in Nat /\ app_rings[w].head <= AppEnd(w)
    BY PathTypes, SMTT(30) DEF RingEnd, AppEnd
  <1>2. RingStart(w) <= worker_rings[w].tail + Len(workers[w].batch)
    BY PathTypes, SMTT(30) DEF RingStart
  <1>3. /\ PathLen(w) = BeforeRing(w) + (RingEnd(w) - RingStart(w)) /\ RingStart(w) <= RingEnd(w)
        /\ BeforeRing(w) = InApp(w) + Len(workers[w].batch)
        /\ InApp(w) = AppEnd(w) - app_rings[w].tail
        /\ AppEnd(w) \in Nat /\ RingStart(w) \in Nat /\ RingEnd(w) \in Nat /\ InApp(w) \in Nat
        /\ Len(workers[w].batch) \in Nat
    BY PathTypes
  <1>4. worker_rings[w].head - worker_rings[w].tail <= Len(workers[w].batch) + (RingEnd(w) - RingStart(w))
    <2>1. /\ worker_rings[w].head \in Int /\ worker_rings[w].tail \in Int /\ Len(workers[w].batch) \in Int
          /\ RingEnd(w) \in Int /\ RingStart(w) \in Int
      BY <1>1, <1>3, SMTT(30)
    <2> QED  BY <1>1, <1>2, <2>1, Spans, Zenon
  <1>5. app_rings[w].head - app_rings[w].tail <= InApp(w) /\ 0 <= RingEnd(w) - RingStart(w)
    BY <1>1, <1>3, SMTT(30)
  <1>6. PathLen(w) = InApp(w) + Len(workers[w].batch) + (RingEnd(w) - RingStart(w))
    BY <1>3
  <1>7. /\ worker_rings[w].head - worker_rings[w].tail <= PathLen(w)
    <2>1. worker_rings[w].head - worker_rings[w].tail \in Int
      BY <1>1
    <2> QED  BY <1>3, <1>4, <1>6, <2>1, SMTT(30)
  <1>8. app_rings[w].head - app_rings[w].tail + Len(workers[w].batch) <= PathLen(w)
    <2>1. app_rings[w].head - app_rings[w].tail \in Int
      BY <1>1
    <2> QED  BY <1>3, <1>5, <1>6, <2>1, SMTT(30)
  <1> QED  BY <1>7, <1>8, Zenon

(* The first frame of the burst is put at the end of a path.               *)
LEMMA RefMoved ==
  ASSUME PipeTypeOK, Accounted, Ordered, rx.refs # << >>, rx'.refs = Tail(rx.refs),
         NEW v \in Workers, NEW n \in Nat, n = PathLen(v),
         inuse' = inuse, buffer' = buffer, pkts' = pkts,
         PathLen(v)' = n + 1, PathAt(v, n + 1)' = Head(rx.refs),
         \A k \in 1 .. n : PathAt(v, k)' = PathAt(v, k),
         \A w \in Workers \ {v} : SamePath(w), \A r \in Receivers : SameHand(r)
  PROVE  Accounted' /\ Ordered'
  <1> DEFINE h == Head(rx.refs)
  <1>1. InRefs(h) /\ \A i : InRefs(i)' <=> InRefs(i) /\ i # h
    BY RefsTail, Zenon
  <1>2. \A k \in 1 .. (n + 1) : k \in 1 .. n \/ k = n + 1
    OBVIOUS
  <1>3. \A i : OnPath(v, i)' <=> OnPath(v, i) \/ i = h
    BY <1>2, SMTT(30) DEF OnPath
  <1>4. \A i : \A w \in Workers \ {v} : OnPath(w, i)' <=> OnPath(w, i)
    BY SamePathOn
  <1>5. \A i : \A r \in Receivers : InHand(r, i)' <=> InHand(r, i)
    BY DEF SameHand, InHand
  <1>6. Accounted'
    <2>1. \A i : i \in inuse' <=> InRefs(i)' \/ (\E w \in Workers : OnPath(w, i)') \/ (\E r \in Receivers : InHand(r, i)')
      BY <1>1, <1>3, <1>4, <1>5, Zenon DEF Accounted
    <2>2. \A i : \A u, w \in Workers : OnPath(u, i)' /\ OnPath(w, i)' => u = w
      BY <1>1, <1>3, <1>4, Zenon DEF Accounted
    <2>3. \A i : \A w \in Workers : InRefs(i)' => ~OnPath(w, i)'
      BY <1>1, <1>3, <1>4, Zenon DEF Accounted
    <2>4. \A i : \A r \in Receivers : InRefs(i)' => ~InHand(r, i)'
      BY <1>1, <1>5, Zenon DEF Accounted
    <2>5. \A i : \A r \in Receivers, w \in Workers : OnPath(w, i)' => ~InHand(r, i)'
      BY <1>1, <1>3, <1>4, <1>5, ZenonT(30) DEF Accounted
    <2> QED  BY <2>1, <2>2, <2>3, <2>4, <2>5, Zenon DEF Accounted
  <1>7. \A w \in Workers : \A k, l \in 1 .. PathLen(w)' : k < l => buffer'[PathAt(w, k)'] < buffer'[PathAt(w, l)']
    <2> SUFFICES ASSUME NEW w \in Workers, NEW k \in 1 .. PathLen(w)', NEW l \in 1 .. PathLen(w)', k < l
                 PROVE  buffer[PathAt(w, k)'] < buffer[PathAt(w, l)']
      BY Zenon
    <2>1. CASE w # v
      BY <2>1 DEF Ordered, SamePath
    <2>2. CASE w = v
      <3>1. k \in 1 .. n /\ PathAt(v, k)' = PathAt(v, k) /\ OnPath(v, PathAt(v, k))
        BY <2>2 DEF OnPath
      <3>2. CASE l \in 1 .. n
        BY <2>2, <3>1, <3>2, Zenon DEF Ordered
      <3>3. CASE l = n + 1
        <4>1. PathAt(v, l)' = h
          BY <3>3, ZenonT(30)
        <4>2. buffer[PathAt(v, k)] < buffer[h]
          BY <1>1, <3>1, SMTT(30) DEF Ordered
        <4> QED  BY <2>2, <3>1, <4>1, <4>2, Zenon
      <3> QED  BY <1>2, <2>2, <3>2, <3>3, Zenon
    <2> QED  BY <2>1, <2>2
  <1>8. \A w \in Workers : \A i, j : OnPath(w, i)' /\ InRefs(j)' => buffer'[i] < buffer'[j]
    <2>1. \A j : InRefs(j)' => buffer[h] < buffer[j]
      BY RefsTail, Zenon
    <2> QED  BY <1>1, <1>3, <1>4, <2>1, Zenon DEF Ordered
  <1>9. \A k, l \in DOMAIN rx'.refs : k < l => buffer'[rx'.refs[k]] < buffer'[rx'.refs[l]]
    BY RefsTail, Zenon
  <1>10. Ordered'
    BY <1>7, <1>8, <1>9, Zenon DEF Ordered
  <1> QED  BY <1>6, <1>10

(* The RX thread writes the next frame of its burst into the ring of v.    *)
SendsTo(v) ==
  /\ RxRefs /\ ~Full(worker_rings[v])
  /\ rx' \in RxRegs /\ rx'.pc = "publish" /\ rx'.refs = Tail(rx.refs) /\ rx'.ring = v /\ rx'.todo = rx.todo
  /\ worker_rings' = [worker_rings EXCEPT ![v] = WriteSlot(@, Head(rx.refs))]
  /\ RxUnchanged /\ UNCHANGED <<poolVars, drops, pkts, buffer>>

(* A frame is written behind the last one of a ring that is not full.      *)
LEMMA RxDispatchSends ==
  ASSUME PipeInv, NEW v \in Workers, SendsTo(v)
  PROVE  PipeInv'
  <1> DEFINE h == Head(rx.refs)
             wr == worker_rings[v]
  <1>1. /\ PoolInv /\ PipeTypeOK /\ RxOK /\ RingsOK /\ Accounted /\ Ordered /\ AppOK /\ ReceiversOK /\ HistoryOK
    BY DEF PipeInv
  <1>2. /\ rx.pc = "recv" /\ rx.todo = 0 /\ rx.refs # << >> /\ pkts' = pkts /\ buffer' = buffer
        /\ inuse' = inuse /\ alloc' = alloc /\ drops' = drops
        /\ app_rings' = app_rings /\ workers' = workers /\ receivers' = receivers
        /\ UNCHANGED poolVars /\ UnchangedShared /\ RxUnchanged
    BY Zenon DEF SendsTo, RxRefs, RxUnchanged, UnchangedShared, poolVars
  <1>3. h \in Idx /\ worker_rings \in [Workers -> RingOf(Idx)] /\ wr \in RingOf(Idx)
    <2>1. rx.refs \in Seq(Idx)
      BY <1>1, Zenon DEF PipeTypeOK, RxRegs
    <2>2. h \in Idx
      BY <1>2, <2>1, HeadAndTail, Zenon
    <2> QED  BY <1>1, <2>2 DEF PipeTypeOK
  <1>4. wr.head \in Nat /\ wr.tail \in Nat /\ wr.tail <= wr.head /\ wr.head < wr.tail + RingCapacity
    <2>1. RingCapacity \in Nat /\ wr.head \in Nat /\ wr.tail \in Nat
      BY <1>3, RingCapacityAssumption, Zenon DEF RingOf
    <2>2. wr.tail <= wr.head
      BY <1>1 DEF RingsOK, RingOK
    <2>3. ~(wr.head - wr.tail >= RingCapacity)
      BY Zenon DEF SendsTo, Full
    <2> HIDE DEF wr
    <2> QED  BY <2>1, <2>2, <2>3
  <1>5. /\ worker_rings' \in [Workers -> RingOf(Idx)] /\ worker_rings'[v].head = wr.head /\ worker_rings'[v].tail = wr.tail
        /\ worker_rings'[v].slots[wr.head % RingCapacity] = <<h>>
        /\ \A p \in wr.tail .. (wr.head - 1) :
             worker_rings'[v].slots[p % RingCapacity] = wr.slots[p % RingCapacity]
        /\ \A w \in Workers \ {v} : worker_rings'[w] = worker_rings[w]
    <2>1. worker_rings'[v] = WriteSlot(wr, h) /\ \A w \in Workers \ {v} : worker_rings'[w] = worker_rings[w]
      <3>1. worker_rings' = [worker_rings EXCEPT ![v] = WriteSlot(wr, h)]
        BY DEF SendsTo
      <3> HIDE DEF wr, h
      <3> QED  BY <1>3, <3>1
    <2>2. /\ WriteSlot(wr, h) \in RingOf(Idx) /\ WriteSlot(wr, h).head = wr.head /\ WriteSlot(wr, h).tail = wr.tail
          /\ WriteSlot(wr, h).slots[wr.head % RingCapacity] = <<h>>
          /\ \A p \in wr.tail .. (wr.head - 1) :
               WriteSlot(wr, h).slots[p % RingCapacity] = wr.slots[p % RingCapacity]
      <3> HIDE DEF wr, h
      <3> QED  BY <1>3, <1>4, WriteKeeps, ZenonT(30)
    <2>3. worker_rings' \in [Workers -> RingOf(Idx)]
      <3>1. worker_rings' = [worker_rings EXCEPT ![v] = WriteSlot(wr, h)]
        BY DEF SendsTo
      <3> HIDE DEF wr, h
      <3> QED  BY <1>3, <2>2, <3>1
    <2> QED  BY <2>1, <2>2, <2>3, Zenon
  <1>6. /\ \A w \in Workers \ {v} : Publishing(w)' <=> Publishing(w)
        /\ Publishing(v)' /\ ~Publishing(v)
    BY <1>2 DEF SendsTo, Publishing
  <1>7. \A w \in Workers \ {v} : SamePath(w) /\ AppEnd(w)' = AppEnd(w)
    BY <1>2, <1>5, <1>6, PathFrame, Zenon
  <1>8. /\ AppEnd(v)' = AppEnd(v) /\ RingStart(v)' = RingStart(v) /\ RingEnd(v)' = wr.head + 1 /\ RingEnd(v) = wr.head
    BY <1>2, <1>5, <1>6, Zenon DEF AppEnd, RingStart, RingEnd
  <1>9. \A p \in wr.tail .. (wr.head - 1) : WFrame(v, p)' = WFrame(v, p)
    BY <1>5, Zenon DEF WFrame
  <1>10. \A p : p = wr.head => WFrame(v, p)' = h
    BY <1>3, <1>5 DEF WFrame
  <1>11. PICK n \in Nat : n = PathLen(v)
    BY <1>1, PathTypes, Zenon
  <1>12. /\ InApp(v)' = InApp(v) /\ BeforeRing(v)' = BeforeRing(v) /\ PathLen(v)' = n + 1
    <2>1. InApp(v)' = InApp(v) /\ BeforeRing(v)' = BeforeRing(v)
      BY <1>2, <1>8, Zenon DEF InApp, BeforeRing
    <2>2. /\ PathLen(v) = BeforeRing(v) + (RingEnd(v) - RingStart(v)) /\ BeforeRing(v) \in Nat /\ RingStart(v) \in Nat
      BY <1>1, PathTypes, Zenon
    <2>3. PathLen(v)' = BeforeRing(v) + ((wr.head + 1) - RingStart(v))
      BY <1>8, <2>1, Zenon DEF PathLen
    <2> QED  BY <1>4, <1>8, <1>11, <2>1, <2>2, <2>3
  <1>13. /\ n = BeforeRing(v) + (wr.head - RingStart(v)) /\ BeforeRing(v) \in Nat /\ InApp(v) \in Nat
         /\ RingStart(v) \in Nat /\ wr.tail <= RingStart(v) /\ RingStart(v) <= wr.head /\ InApp(v) <= BeforeRing(v)
    BY <1>1, <1>8, <1>11, PathTypes, Zenon
  <1>14. \A k \in 1 .. n : PathAt(v, k)' = PathAt(v, k)
    <2> SUFFICES ASSUME NEW k \in 1 .. n PROVE PathAt(v, k)' = PathAt(v, k)
      BY Zenon
    <2>1. CASE k <= InApp(v)
      BY <1>2, <1>12, <2>1, Zenon DEF PathAt, APacket
    <2>2. CASE ~(k <= InApp(v)) /\ k <= BeforeRing(v)
      BY <1>2, <1>12, <2>2, Zenon DEF PathAt
    <2>3. CASE ~(k <= InApp(v)) /\ ~(k <= BeforeRing(v))
      <3>1. RingStart(v) + (k - BeforeRing(v) - 1) \in wr.tail .. (wr.head - 1)
        BY <1>4, <1>13, <2>3
      <3>2. PathAt(v, k) = WFrame(v, RingStart(v) + (k - BeforeRing(v) - 1))
        BY <2>3, Zenon DEF PathAt
      <3>3. \A p : p = RingStart(v) + (k - BeforeRing(v) - 1) => PathAt(v, k)' = WFrame(v, p)'
        BY <1>8, <1>12, <2>3, Zenon DEF PathAt
      <3> QED  BY <1>9, <3>1, <3>2, <3>3, Zenon
    <2> QED  BY <2>1, <2>2, <2>3
  <1>15. PathAt(v, n + 1)' = h
    <2>1. ~(n + 1 <= InApp(v)) /\ ~(n + 1 <= BeforeRing(v)) /\ RingStart(v) + ((n + 1) - BeforeRing(v) - 1) = wr.head
      BY <1>4, <1>13, SMTT(30)
    <2>2. \A p : p = RingStart(v) + ((n + 1) - BeforeRing(v) - 1) => PathAt(v, n + 1)' = WFrame(v, p)'
      BY <1>8, <1>12, <2>1 DEF PathAt
    <2> QED  BY <1>10, <2>1, <2>2, Zenon
  <1>16. Accounted' /\ Ordered'
    <2>1. \A r \in Receivers : SameHand(r)
      BY <1>2, Zenon DEF SameHand, Holding
    <2> QED  BY <1>1, <1>2, <1>7, <1>11, <1>12, <1>14, <1>15, <2>1, RefMoved, Zenon DEF SendsTo
  <1>17. RingsOK'
    <2>1. \A w \in Workers \ {v} : RingOK(w)'
      BY <1>1, <1>2, <1>5, <1>6, RingFrame, Zenon DEF RingsOK
    <2>2. RingOK(v)'
      <3>1. RingOK(v) /\ Len(workers[v].batch) \in Nat
        BY <1>1, PathTypes, Zenon DEF RingsOK
      <3>2. workers[v].pc = "tail" => \A k \in 1 .. Len(workers[v].batch) :
              wr.tail + (k - 1) \in wr.tail .. (wr.head - 1)
        <4>1. workers[v].pc = "tail" => wr.tail + Len(workers[v].batch) <= wr.head
          BY <3>1, Zenon DEF RingOK
        <4>2. Len(workers[v].batch) \in Nat
          BY <3>1, Zenon
        <4> HIDE DEF wr
        <4> QED  BY <1>4, <4>1, <4>2, SMTT(30)
      <3>3. workers[v].pc = "tail" => \A k \in 1 .. Len(workers[v].batch) :
              workers[v].batch[k] = WFrame(v, wr.tail + (k - 1))
        BY <3>1 DEF RingOK
      <3>4. workers[v].pc = "tail" => \A k \in 1 .. Len(workers[v].batch) : \A p : p = wr.tail + (k - 1) =>
              workers'[v].batch[k] = WFrame(v, p)'
        BY <1>2, <1>9, <3>2, <3>3, Zenon
      <3>5. workers'[v].pc = "tail" => \A k \in 1 .. Len(workers'[v].batch) :
              workers'[v].batch[k] = WFrame(v, worker_rings[v].tail + (k - 1))'
        BY <1>2, <1>5, <3>4, Zenon
      <3> QED  BY <1>2, <1>4, <1>5, <3>1, <3>5, Zenon DEF RingOK
    <2> QED  BY <2>1, <2>2 DEF RingsOK
  <1>18. PktsGrow /\ pkts' \in Seq(Arrivals) /\ pkts \in Seq(Arrivals)
    BY <1>1, <1>2, SameArrivals, Zenon
  <1>19. PoolInv' /\ PipeTypeOK' /\ RxOK' /\ RingsNeverReject'
    <2>1. PoolInv'
      BY <1>1, <1>2, PoolKept, Zenon
    <2>2. PipeTypeOK'
      BY <1>1, <1>2, <1>5, <1>18, RxTypes, ZenonT(30) DEF SendsTo, PipeTypeOK
    <2>3. RxOK'
      <3>1. rx'.todo = rx.todo
        BY Zenon DEF SendsTo
      <3> QED  BY <1>1, <1>2, <3>1 DEF RxOK
    <2>4. RingsNeverReject'
      BY <1>2, Zenon DEF PipeInv, RingsNeverReject
    <2> QED  BY <2>1, <2>2, <2>3, <2>4, Zenon
  <1>20. AppOK'
    <2>1. \A w \in Workers : AppEnd(w)' = AppEnd(w)
      BY <1>7, <1>8, Zenon
    <2> QED  BY <1>1, <1>2, <1>18, <2>1, AppKept, Zenon
  <1>21. ReceiversOK' /\ HistoryOK'
    BY <1>1, <1>2, <1>18, SharedKept, Zenon
  <1> QED  BY <1>16, <1>17, <1>19, <1>20, <1>21, Zenon DEF PipeInv

-----------------------------------------------------------------------------
(* What rx_loop does with a frame, every step of worker_loop, and the       *)
(* steps of recv_from that move no frame.                                  *)

(* The round-robin counter always names a worker.                          *)
LEMMA WorkerOf == \A x \in Nat : x % NumWorkers \in Workers /\ x % NumWorkers \in Nat
  <1> SUFFICES ASSUME NEW x \in Nat PROVE x % NumWorkers \in Workers /\ x % NumWorkers \in Nat
    OBVIOUS
  <1>1. x \in Int /\ NumWorkers \in Nat \ {0}
    BY PipelineAssumption
  <1>2. x % NumWorkers \in 0 .. (NumWorkers - 1)
    BY <1>1, DivMod
  <1> QED  BY <1>1, <1>2 DEF Workers

(* A frame is given to a worker, or freed when every ring is full.         *)
LEMMA RxDispatchInv ==
  ASSUME Counting, PipeInv, RxDispatch
  PROVE  PipeInv'
  <1> DEFINE i == Head(rx.refs)
             try == [o \in 0 .. (NumWorkers - 1) |-> (rx.rr + o) % NumWorkers]
             free == {o \in DOMAIN try : ~Full(worker_rings[try[o]])}
  <1>1. /\ PoolInv /\ PipeTypeOK /\ RingsOK /\ Accounted /\ Ordered /\ RingsNeverReject
    BY DEF PipeInv
  <1>2. RxRefs /\ RxUnchanged /\ UNCHANGED <<pkts, buffer>>
    BY Zenon DEF RxDispatch
  <1>3. /\ rx \in RxRegs /\ drops \in Counters /\ rx.rr \in Nat /\ Tail(rx.refs) \in Seq(Idx) /\ rx.refs # << >>
        /\ NumWorkers \in Nat \ {0}
    <2>1. rx \in RxRegs /\ drops \in Counters /\ rx.refs # << >>
      BY <1>1, <1>2 DEF PipeTypeOK, RxRefs
    <2>2. rx.rr \in Nat /\ rx.refs \in Seq(Idx)
      BY <2>1 DEF RxRegs
    <2> QED  BY <2>1, <2>2, HeadAndTail, PipelineAssumption
  <1>4. (rx.rr + 1) % NumWorkers \in Nat
    <2>1. rx.rr + 1 \in Nat
      BY <1>3
    <2> QED  BY <2>1, WorkerOf
  <1>5. \A o \in 0 .. (NumWorkers - 1) : try[o] \in Workers /\ try[o] \in Nat
    <2>1. \A o \in 0 .. (NumWorkers - 1) : rx.rr + o \in Nat
      BY <1>3
    <2> QED  BY <2>1, WorkerOf, Zenon
  <1> HIDE DEF try
  <1>6. DOMAIN try = 0 .. (NumWorkers - 1)
    BY DEF try
  <1>7. CASE free # {}
    <2>1. PICK o \in free :
            /\ worker_rings' = [worker_rings EXCEPT ![try[o]] = WriteSlot(@, i)]
            /\ rx' = [rx EXCEPT !.pc = "publish", !.refs = Tail(@), !.ring = try[o], !.rr = (@ + 1) % NumWorkers]
      BY <1>7, Zenon DEF RxDispatch, try
    <2>2. UNCHANGED <<poolVars, drops>>
      BY <1>7, Zenon DEF RxDispatch, try
    <2>3. PICK v \in Workers : v = try[o] /\ v \in Nat /\ ~Full(worker_rings[v])
      BY <1>5, <1>6
    <2>4. rx' = [rx EXCEPT !.pc = "publish", !.refs = Tail(rx.refs), !.ring = v, !.rr = (rx.rr + 1) % NumWorkers]
      BY <2>1, <2>3
    <2>5. /\ rx' \in RxRegs /\ rx'.pc = "publish" /\ rx'.refs = Tail(rx.refs) /\ rx'.ring = v /\ rx'.todo = rx.todo
      BY <1>3, <1>4, <2>3, <2>4, ZenonT(30) DEF RxRegs
    <2>6. worker_rings' = [worker_rings EXCEPT ![v] = WriteSlot(@, i)]
      BY <2>1, <2>3
    <2> QED  BY <1>2, <2>2, <2>3, <2>5, <2>6, RxDispatchSends, Zenon DEF SendsTo
  <1>8. CASE free = {}
    <2>1. /\ FreeClaim(RxThread, i) /\ drops' = [drops EXCEPT !.ring_full = @ + 1] /\ worker_rings' = worker_rings
          /\ rx' = [rx EXCEPT !.pc = "free", !.refs = Tail(@), !.rr = (@ + 1) % NumWorkers]
      BY <1>8, Zenon DEF RxDispatch, try
    <2>2. rx' \in RxRegs /\ rx'.pc = "free" /\ rx'.todo = rx.todo /\ rx'.refs = Tail(rx.refs)
      BY <1>3, <1>4, <2>1, Zenon DEF RxRegs
    <2>3. drops' \in Counters
      BY <1>3, <2>1 DEF Counters
    <2>4. ~(RingCapacity >= Capacity)
      <3>1. 0 \in DOMAIN try
        BY <1>3, <1>6
      <3>2. PICK v \in Workers : Full(worker_rings[v])
        BY <1>5, <1>6, <1>8, <3>1, Zenon
      <3>3. worker_rings[v].head - worker_rings[v].tail <= PathLen(v) /\ PathLen(v) < Capacity /\ PathLen(v) \in Nat
        BY <1>1, <1>3, RingOnPath, PathFits, PathTypes DEF PoolInv
      <3>4. worker_rings[v].head \in Nat /\ worker_rings[v].tail \in Nat
        BY <1>1, PathTypes, Zenon
      <3> QED  BY <3>2, <3>3, <3>4, RingCapacityAssumption, CapacityAssumption DEF Full
    <2>5. RingsNeverReject'
      BY <2>4 DEF RingsNeverReject
    <2> QED  BY <1>2, <2>1, <2>2, <2>3, <2>5, RxFreesInv
  <1> QED  BY <1>7, <1>8

(* The head is published: the frame written stays where it is.             *)
LEMMA RxPublishInv ==
  ASSUME PipeInv, RxPublish
  PROVE  PipeInv'
  <1> DEFINE v == rx.ring
             wr == worker_rings[v]
  <1>1. /\ PoolInv /\ PipeTypeOK /\ RxOK /\ RingsOK /\ Accounted /\ Ordered /\ AppOK /\ ReceiversOK /\ HistoryOK
    BY DEF PipeInv
  <1>2. /\ rx.pc = "publish" /\ rx' = [rx EXCEPT !.pc = "recv"] /\ pkts' = pkts /\ buffer' = buffer
        /\ worker_rings' = [worker_rings EXCEPT ![v] = PublishHead(@)]
        /\ inuse' = inuse /\ alloc' = alloc /\ drops' = drops
        /\ app_rings' = app_rings /\ workers' = workers /\ receivers' = receivers
        /\ RxUnchanged /\ UNCHANGED poolVars
    BY DEF RxPublish, RxUnchanged, UnchangedShared, poolVars
  <1>3. rx' \in RxRegs /\ rx'.pc = "recv" /\ rx'.refs = rx.refs /\ rx'.todo = rx.todo /\ rx.ring = v
    <2>1. rx \in RxRegs
      BY <1>1 DEF PipeTypeOK
    <2> QED  BY <1>2, <2>1 DEF RxRegs
  <1>4. worker_rings \in [Workers -> RingOf(Idx)]
    BY <1>1 DEF PipeTypeOK
  <1>5. \A w \in Workers : w = v =>
          /\ worker_rings'[w] \in RingOf(Idx) /\ worker_rings'[w].head = worker_rings[w].head + 1
          /\ worker_rings'[w].tail = worker_rings[w].tail /\ worker_rings'[w].slots = worker_rings[w].slots
    <2> SUFFICES ASSUME NEW w \in Workers, w = v
                 PROVE  /\ worker_rings'[w] \in RingOf(Idx) /\ worker_rings'[w].head = worker_rings[w].head + 1
                        /\ worker_rings'[w].tail = worker_rings[w].tail /\ worker_rings'[w].slots = worker_rings[w].slots
      BY SMTT(30)
    <2>1. worker_rings[w] \in RingOf(Idx) /\ worker_rings[w].head + 1 \in Nat
      BY <1>4 DEF RingOf
    <2>2. worker_rings'[w] = [worker_rings[w] EXCEPT !.head = worker_rings[w].head + 1]
      BY <1>2, <1>4 DEF PublishHead
    <2> QED  BY <2>1, <2>2, SMTT(30) DEF RingOf
  <1>6. \A w \in Workers : w # v => worker_rings'[w] = worker_rings[w]
    BY <1>2, <1>4
  <1>7. worker_rings' \in [Workers -> RingOf(Idx)]
    BY <1>2, <1>4, <1>5, <1>6, Zenon
  <1>8. \A w \in Workers : (Publishing(w) <=> w = v) /\ ~Publishing(w)'
    BY <1>2, <1>3 DEF Publishing
  <1>9. \A w \in Workers : SamePath(w) /\ AppEnd(w)' = AppEnd(w) /\ RingOK(w)'
    <2> SUFFICES ASSUME NEW w \in Workers PROVE SamePath(w) /\ AppEnd(w)' = AppEnd(w) /\ RingOK(w)'
      OBVIOUS
    <2>0. RingOK(w)
      BY <1>1 DEF RingsOK
    <2>1. CASE w # v
      BY <1>2, <1>6, <1>8, <2>0, <2>1, PathFrame, RingFrame
    <2>2. CASE w = v
      <3>1. /\ worker_rings'[w].head = worker_rings[w].head + 1
            /\ worker_rings'[w].tail = worker_rings[w].tail /\ worker_rings'[w].slots = worker_rings[w].slots
            /\ Publishing(w) /\ ~Publishing(w)'
            /\ worker_rings[w].head \in Nat /\ worker_rings[w].tail \in Nat /\ Len(workers[w].batch) \in Nat
        <4>1. worker_rings[w].head \in Nat /\ worker_rings[w].tail \in Nat /\ Len(workers[w].batch) \in Nat
          BY <1>1, PathTypes, Zenon
        <4> QED  BY <1>5, <1>8, <2>2, <4>1, Zenon
      <3>2. AppEnd(w)' = AppEnd(w) /\ RingStart(w)' = RingStart(w) /\ RingEnd(w)' = RingEnd(w)
        BY <1>2, <3>1 DEF AppEnd, RingStart, RingEnd
      <3>3. InApp(w)' = InApp(w) /\ BeforeRing(w)' = BeforeRing(w) /\ PathLen(w)' = PathLen(w)
        BY <1>2, <3>2, ZenonT(30) DEF InApp, BeforeRing, PathLen
      <3>4. SamePath(w)
        BY <1>2, <3>1, <3>2, <3>3, SMTT(30) DEF SamePath, PathAt, WFrame, APacket
      <3>5. RingOK(w)'
        <4>1. /\ worker_rings[w].tail <= worker_rings[w].head
              /\ worker_rings[w].head < worker_rings[w].tail + RingCapacity
              /\ workers[w].pc = "tail" => worker_rings[w].tail + Len(workers[w].batch) <= worker_rings[w].head
          BY <2>0, <3>1, Zenon DEF RingOK
        <4>2. /\ worker_rings[w].tail <= worker_rings[w].head + 1
              /\ worker_rings[w].head + 1 <= worker_rings[w].tail + RingCapacity
              /\ workers[w].pc = "tail" => worker_rings[w].tail + Len(workers[w].batch) <= worker_rings[w].head + 1
          BY <3>1, <4>1, RingCapacityAssumption, SMTT(30)
        <4> QED  BY <1>2, <2>0, <3>1, <4>2 DEF RingOK, WFrame
      <3> QED  BY <3>2, <3>4, <3>5
    <2> QED  BY <2>1, <2>2
  <1>10. PktsGrow /\ pkts' \in Seq(Arrivals) /\ pkts \in Seq(Arrivals)
    BY <1>1, <1>2, SameArrivals
  <1>11. PoolInv' /\ PipeTypeOK' /\ RxOK' /\ RingsNeverReject'
    <2>1. PoolInv'
      BY <1>1, <1>2, PoolKept
    <2>2. PipeTypeOK'
      BY <1>1, <1>2, <1>3, <1>7, <1>10, RxTypes DEF PipeTypeOK
    <2>3. RxOK'
      BY <1>1, <1>2, <1>3 DEF RxOK
    <2>4. RingsNeverReject'
      BY <1>2 DEF PipeInv, RingsNeverReject
    <2> QED  BY <2>1, <2>2, <2>3, <2>4
  <1>12. SameOwners
    BY <1>2, <1>3, <1>9 DEF SameOwners, SameHand, Holding
  <1>13. Accounted' /\ Ordered'
    BY <1>1, <1>2, <1>10, <1>12, SameOwnersAccounted, SameOwnersOrdered
  <1>14. AppOK'
    BY <1>1, <1>2, <1>9, <1>10, AppKept
  <1>15. ReceiversOK' /\ HistoryOK'
    BY <1>1, <1>2, <1>10, SharedKept DEF RxUnchanged
  <1> QED  BY <1>9, <1>11, <1>13, <1>14, <1>15 DEF PipeInv, RingsOK

-----------------------------------------------------------------------------
(* The workers.                                                            *)

(* One less of the second of two is one less of their sum.                 *)
LEMMA LessOne ==
  ASSUME NEW a \in Nat, NEW c \in Nat \ {0}
  PROVE  a + (c - 1) = (a + c) - 1
  OBVIOUS

(* The item of a sequence of one.                                          *)
LEMMA OnlyItem == \A x : <<x>>[1] = x
  OBVIOUS

(* The items of a path have different frames.                              *)
LEMMA PathInjective ==
  ASSUME PoolTypeOK, PipeTypeOK, Accounted, Ordered, NEW w \in Workers, PathLen(w) \in Nat,
         NEW k \in 1 .. PathLen(w), NEW l \in 1 .. PathLen(w), PathAt(w, k) = PathAt(w, l)
  PROVE  k = l
  <1>1. buffer[PathAt(w, k)] \in Int
    <2>1. \A i \in inuse : buffer[i] \in Int
      BY DEF PoolTypeOK, PipeTypeOK
    <2> QED  BY <2>1, OwnedInUse
  <1>2. ~(k < l) /\ ~(l < k)
    BY <1>1 DEF Ordered
  <1> QED  BY <1>2

(* A path without one of its items.                                        *)
LEMMA PathCut ==
  ASSUME PoolTypeOK, PipeTypeOK, Accounted, Ordered, NEW w \in Workers, NEW n \in Nat, n = PathLen(w),
         NEW m \in 1 .. n, NEW x, x = PathAt(w, m), buffer' = buffer, PathLen(w)' = n - 1,
         \A k \in 1 .. (n - 1) : PathAt(w, k)' = IF k < m THEN PathAt(w, k) ELSE PathAt(w, k + 1)
  PROVE  /\ \A i : OnPath(w, i)' <=> OnPath(w, i) /\ i # x
         /\ \A k, l \in 1 .. PathLen(w)' : k < l => buffer'[PathAt(w, k)'] < buffer'[PathAt(w, l)']
  <1> DEFINE at(k) == IF k < m THEN k ELSE k + 1
  <1>1. \A k \in 1 .. (n - 1) : at(k) \in 1 .. n /\ at(k) # m /\ PathAt(w, k)' = PathAt(w, at(k))
    OBVIOUS
  <1>2. \A k, l \in 1 .. (n - 1) : k < l => at(k) < at(l)
    OBVIOUS
  <1>3. \A k \in 1 .. n : k # m => \E l \in 1 .. (n - 1) : at(l) = k
    <2> SUFFICES ASSUME NEW k \in 1 .. n, k # m PROVE \E l \in 1 .. (n - 1) : at(l) = k
      OBVIOUS
    <2>1. CASE k < m
      <3>1. k \in 1 .. (n - 1) /\ at(k) = k
        BY <2>1
      <3> QED  BY <3>1
    <2>2. CASE k > m
      <3>1. k - 1 \in 1 .. (n - 1) /\ at(k - 1) = k
        BY <2>2
      <3> QED  BY <3>1
    <2> QED  BY <2>1, <2>2
  <1> HIDE DEF at
  <1>4. \A k, l \in 1 .. n : PathAt(w, k) = PathAt(w, l) => k = l
    BY PathInjective
  <1>5. \A i : OnPath(w, i)' <=> OnPath(w, i) /\ i # x
    <2> SUFFICES ASSUME NEW i PROVE OnPath(w, i)' <=> OnPath(w, i) /\ i # x
      OBVIOUS
    <2>1. ASSUME NEW k \in 1 .. (n - 1), PathAt(w, k)' = i PROVE OnPath(w, i) /\ i # x
      BY <1>1, <1>4, <2>1 DEF OnPath
    <2>2. ASSUME NEW k \in 1 .. n, PathAt(w, k) = i, i # x PROVE \E l \in 1 .. (n - 1) : PathAt(w, l)' = i
      BY <1>1, <1>3, <2>2, SMTT(30)
    <2> QED  BY <2>1, <2>2 DEF OnPath
  <1>6. \A k, l \in 1 .. n : k < l => buffer[PathAt(w, k)] < buffer[PathAt(w, l)]
    BY DEF Ordered
  <1>7. \A k, l \in 1 .. (n - 1) : k < l => buffer[PathAt(w, k)'] < buffer[PathAt(w, l)']
    BY <1>1, <1>2, <1>6
  <1> QED  BY <1>5, <1>7

(* The types, when a worker changes its own variables.                     *)
LEMMA WorkerTypes ==
  ASSUME PipeTypeOK, WorkerUnchanged, worker_rings' \in [Workers -> RingOf(Idx)],
         app_rings' \in [Workers -> RingOf(AppPackets)], workers' \in [Workers -> WorkerRegs], drops' \in Counters
  PROVE  PipeTypeOK'
  BY ZenonT(30) DEF PipeTypeOK, WorkerUnchanged, UnchangedShared

(* What a step of one worker leaves to the others.                         *)
LEMMA OtherWorkers ==
  ASSUME PipeInv, WorkerUnchanged, NEW w \in Workers,
         \A u \in Workers \ {w} :
           workers'[u] = workers[u] /\ worker_rings'[u] = worker_rings[u] /\ app_rings'[u] = app_rings[u]
  PROVE  \A u \in Workers \ {w} : SamePath(u) /\ RingOK(u)' /\ AppEnd(u)' = AppEnd(u)
  <1>1. \A u \in Workers : Publishing(u)' <=> Publishing(u)
    BY DEF WorkerUnchanged, Publishing
  <1>2. \A u \in Workers : RingOK(u)
    BY Zenon DEF PipeInv, RingsOK
  <1> QED  BY <1>1, <1>2, PathFrame, RingFrame

(* A step of a worker that moves no frame from its path.                   *)
LEMMA WorkerQuiet ==
  ASSUME PipeInv, PoolInv', NEW w \in Workers, WorkerUnchanged, inuse' = inuse, alloc' = alloc, drops' = drops,
         worker_rings' \in [Workers -> RingOf(Idx)], app_rings' \in [Workers -> RingOf(AppPackets)],
         workers' \in [Workers -> WorkerRegs],
         \A u \in Workers \ {w} :
           workers'[u] = workers[u] /\ worker_rings'[u] = worker_rings[u] /\ app_rings'[u] = app_rings[u],
         RingOK(w)', SamePath(w), AppOK'
  PROVE  PipeInv'
  <1>1. /\ PoolInv /\ PipeTypeOK /\ RxOK /\ RingsOK /\ Accounted /\ Ordered /\ ReceiversOK /\ HistoryOK
    BY ZenonT(30) DEF PipeInv
  <1>2. pkts' = pkts /\ buffer' = buffer /\ rx' = rx /\ receivers' = receivers /\ UnchangedShared
    BY DEF WorkerUnchanged, UnchangedShared
  <1>3. PktsGrow /\ pkts' \in Seq(Arrivals) /\ pkts \in Seq(Arrivals)
    BY <1>1, <1>2, SameArrivals, Zenon
  <1>4. PipeTypeOK' /\ RxOK'
    <2>1. PipeTypeOK'
      BY <1>1, WorkerTypes DEF PipeTypeOK
    <2>2. RxOK'
      BY <1>1, <1>2, Zenon DEF RxOK
    <2> QED  BY <2>1, <2>2, Zenon
  <1>5. \A u \in Workers : SamePath(u) /\ RingOK(u)'
    BY OtherWorkers, Zenon
  <1>6. SameOwners
    BY <1>2, <1>5, ZenonT(30) DEF SameOwners, SameHand, Holding
  <1>7. Accounted' /\ Ordered'
    BY <1>1, <1>2, <1>3, <1>6, SameOwnersAccounted, SameOwnersOrdered, ZenonT(30)
  <1>8. ReceiversOK' /\ HistoryOK'
    BY <1>1, <1>2, <1>3, SharedKept, ZenonT(30)
  <1>9. RingsNeverReject'
    BY DEF PipeInv, RingsNeverReject
  <1> QED  BY <1>4, <1>5, <1>7, <1>8, <1>9, Zenon DEF PipeInv, RingsOK

(* The registers of one worker change.                                     *)
LEMMA WorkerUpdate ==
  ASSUME PipeTypeOK, NEW w \in Workers, NEW regs \in WorkerRegs, workers' = [workers EXCEPT ![w] = regs]
  PROVE  /\ workers' \in [Workers -> WorkerRegs] /\ workers'[w] = regs
         /\ \A u \in Workers \ {w} : workers'[u] = workers[u]
  BY DEF PipeTypeOK

(* The same when only its program counter changes.                         *)
LEMMA WorkerPcUpdate ==
  ASSUME PipeTypeOK, NEW w \in Workers, NEW p \in {"top", "tail", "frame", "publish", "free", "exit"},
         workers' = [workers EXCEPT ![w].pc = p]
  PROVE  /\ workers' \in [Workers -> WorkerRegs] /\ workers'[w].pc = p /\ workers'[w].batch = workers[w].batch
         /\ \A u \in Workers \ {w} : workers'[u] = workers[u]
  <1>1. workers \in [Workers -> WorkerRegs] /\ workers[w] \in WorkerRegs
    BY DEF PipeTypeOK
  <1> DEFINE regs == [workers[w] EXCEPT !.pc = p]
  <1>2. regs \in WorkerRegs /\ regs.pc = p /\ regs.batch = workers[w].batch
    BY <1>1 DEF WorkerRegs
  <1>3. workers' = [workers EXCEPT ![w] = regs]
    BY <1>1
  <1> HIDE DEF regs
  <1> QED  BY <1>1, <1>2, <1>3

(* A worker only goes on to its next step.                                 *)
LEMMA WorkerMoves ==
  ASSUME PipeInv, PoolInv', NEW w \in Workers, NEW p \in {"top", "frame", "exit"}, WorkerUnchanged,
         inuse' = inuse, alloc' = alloc, UNCHANGED <<worker_rings, app_rings, drops>>,
         workers' = [workers EXCEPT ![w].pc = p], workers[w].pc \notin {"publish", "tail"},
         p \in {"top", "exit"} => workers[w].batch = << >>
  PROVE  PipeInv'
  <1>1. PipeTypeOK /\ RingsOK /\ AppOK
    BY DEF PipeInv
  <1>2. /\ workers' \in [Workers -> WorkerRegs] /\ workers'[w].pc = p /\ workers'[w].batch = workers[w].batch
        /\ \A u \in Workers \ {w} : workers'[u] = workers[u]
    BY <1>1, WorkerPcUpdate, Zenon
  <1>3. worker_rings' = worker_rings /\ app_rings' = app_rings /\ pkts' = pkts /\ buffer' = buffer /\ drops' = drops
    BY DEF WorkerUnchanged
  <1>4. Publishing(w)' <=> Publishing(w)
    BY DEF WorkerUnchanged, Publishing
  <1>5. SamePath(w) /\ AppEnd(w)' = AppEnd(w)
    BY <1>2, <1>3, <1>4, PathFrame
  <1>6. RingOK(w)'
    <2>1. RingOK(w)
      BY <1>1 DEF RingsOK
    <2> QED  BY <1>2, <1>3, <1>4, <2>1, RingFrame
  <1>7. AppOK'
    <2>1. \A u \in Workers : AppEnd(u)' = AppEnd(u)
      BY <1>2, <1>3, <1>5, OtherWorkers
    <2>2. PktsGrow /\ pkts' \in Seq(Arrivals) /\ pkts \in Seq(Arrivals)
      BY <1>1, <1>3, SameArrivals
    <2> QED  BY <1>1, <1>3, <2>1, <2>2, AppKept
  <1>8. worker_rings \in [Workers -> RingOf(Idx)] /\ app_rings \in [Workers -> RingOf(AppPackets)]
    BY <1>1 DEF PipeTypeOK
  <1> QED  BY <1>2, <1>3, <1>5, <1>6, <1>7, <1>8, WorkerQuiet

(* worker_loop sees the flag and ends.                                     *)
LEMMA WorkerExitInv ==
  ASSUME PipeInv, NEW w \in Workers, WorkerExit(w)
  PROVE  PipeInv'
  <1>1. /\ workers[w].pc = "top" /\ workers' = [workers EXCEPT ![w].pc = "exit"] /\ WorkerUnchanged
        /\ UNCHANGED poolVars /\ UNCHANGED <<worker_rings, app_rings, drops>> /\ inuse' = inuse /\ alloc' = alloc
    BY DEF WorkerExit, poolVars
  <1>2. PoolInv' /\ workers[w].batch = << >>
    BY <1>1, PoolKept DEF PipeInv, RingsOK, RingOK
  <1> QED  BY <1>1, <1>2, WorkerMoves, Zenon

(* The batch is worked off.                                                *)
LEMMA WorkerBatchDoneInv ==
  ASSUME PipeInv, NEW w \in Workers, WorkerBatchDone(w)
  PROVE  PipeInv'
  <1>1. /\ workers[w].pc = "frame" /\ workers[w].batch = << >> /\ workers' = [workers EXCEPT ![w].pc = "top"]
        /\ WorkerUnchanged /\ UNCHANGED poolVars /\ UNCHANGED <<worker_rings, app_rings, drops>>
        /\ inuse' = inuse /\ alloc' = alloc
    BY DEF WorkerBatchDone, poolVars
  <1>2. PoolInv'
    BY <1>1, PoolKept DEF PipeInv
  <1> QED  BY <1>1, <1>2, WorkerMoves, Zenon

(* free stores the index, and the worker goes on.                          *)
LEMMA WorkerFreedInv ==
  ASSUME PipeInv, NEW w \in Workers, WorkerFreed(w)
  PROVE  PipeInv'
  <1>1. /\ workers[w].pc = "free" /\ FreeStore(WorkerThread(w)) /\ workers' = [workers EXCEPT ![w].pc = "frame"]
        /\ WorkerUnchanged /\ UNCHANGED <<worker_rings, app_rings, drops>> /\ inuse' = inuse /\ alloc' = alloc
    BY DEF WorkerFreed, FreeStore
  <1>2. PoolInv'
    <2>1. WorkerThread(w) \in Threads
      BY PipelineAssumption, SMTT(30)
    <2> QED  BY <1>1, <2>1, FreeStoreInv DEF PipeInv
  <1> QED  BY <1>1, <1>2, WorkerMoves, Zenon

(* When the app rings are as they were, so is what is known of them.       *)
LEMMA AppUntouched ==
  ASSUME PipeInv, WorkerUnchanged, app_rings' = app_rings, \A u \in Workers : AppEnd(u)' = AppEnd(u)
  PROVE  AppOK'
  <1>1. PipeTypeOK /\ AppOK /\ pkts' = pkts /\ buffer' = buffer
    BY DEF PipeInv, WorkerUnchanged
  <1>2. PktsGrow /\ pkts' \in Seq(Arrivals) /\ pkts \in Seq(Arrivals)
    BY <1>1, SameArrivals
  <1> QED  BY <1>1, <1>2, AppKept

(* A batch is read from the ring; its frames still count as the ring's     *)
(* first ones.                                                             *)
LEMMA WorkerDequeueInv ==
  ASSUME PipeInv, NEW w \in Workers, WorkerDequeue(w)
  PROVE  PipeInv'
  <1> DEFINE wr == worker_rings[w]
             count == wr.head - wr.tail
             batch == ReadBatch(wr, count)
  <1>1. /\ workers[w].pc = "top" /\ count > 0 /\ workers' = [workers EXCEPT ![w] = [pc |-> "tail", batch |-> batch]]
        /\ WorkerUnchanged /\ UNCHANGED poolVars /\ worker_rings' = worker_rings /\ app_rings' = app_rings
        /\ drops' = drops /\ inuse' = inuse /\ alloc' = alloc
    BY DEF WorkerDequeue, poolVars, Available
  <1>2. PoolInv /\ PipeTypeOK /\ RingsOK /\ Accounted /\ AppOK /\ PoolTypeOK /\ RingOK(w)
    BY Zenon DEF PipeInv, PoolInv, RingsOK
  <1>3. /\ wr.head \in Nat /\ wr.tail \in Nat /\ count \in Nat /\ InApp(w) \in Nat /\ RingEnd(w) \in Nat
        /\ wr.head <= RingEnd(w) /\ wr.head <= wr.tail + RingCapacity
    <2>1. wr.head \in Nat /\ wr.tail \in Nat /\ InApp(w) \in Nat /\ RingEnd(w) \in Nat
      BY <1>2, PathTypes
    <2>2. wr.head <= RingEnd(w)
      BY <2>1 DEF RingEnd
    <2>3. wr.tail <= wr.head /\ wr.head <= wr.tail + RingCapacity
      BY <1>2, Zenon DEF RingOK
    <2>4. wr.head - wr.tail \in Nat
      <3> HIDE DEF wr
      <3> QED  BY <2>1, <2>3
    <2> QED  BY <2>1, <2>2, <2>3, <2>4, ZenonT(30)
  <1>4. workers[w].batch = << >> /\ Len(workers[w].batch) = 0
    <2>1. workers[w].batch = << >>
      BY <1>1, <1>2, Zenon DEF RingOK
    <2>2. Len(<< >>) = 0
      OBVIOUS
    <2> QED  BY <2>1, <2>2, Zenon
  <1>5. RingStart(w) = wr.tail /\ BeforeRing(w) = InApp(w) /\ PathLen(w) = InApp(w) + (RingEnd(w) - wr.tail)
    <2>1. RingStart(w) = wr.tail
      BY <1>1, Zenon DEF RingStart
    <2>2. BeforeRing(w) = InApp(w) + 0
      BY <1>4, Zenon DEF BeforeRing
    <2>3. InApp(w) + 0 = InApp(w)
      BY <1>3
    <2> QED  BY <2>1, <2>2, <2>3, Zenon DEF PathLen
  <1>6. \A j \in 1 .. count : batch[j] = WFrame(w, wr.tail + (j - 1)) /\ batch[j] \in Idx
    <2> SUFFICES ASSUME NEW j \in 1 .. count
                 PROVE  batch[j] = WFrame(w, wr.tail + (j - 1)) /\ WFrame(w, wr.tail + (j - 1)) \in Idx
      BY Zenon
    <2>1. batch[j] = WFrame(w, wr.tail + (j - 1))
      BY Zenon DEF ReadBatch, ReadSlot, WFrame
    <2>2. /\ InApp(w) + j \in 1 .. PathLen(w) /\ ~(InApp(w) + j <= InApp(w))
          /\ wr.tail + ((InApp(w) + j) - InApp(w) - 1) = wr.tail + (j - 1)
      BY <1>3, <1>5, SMTT(30)
    <2>3. PathAt(w, InApp(w) + j) = WFrame(w, wr.tail + (j - 1))
      BY <1>5, <2>2, SMTT(30) DEF PathAt
    <2>4. PathAt(w, InApp(w) + j) \in inuse
      BY <1>2, <2>2, OwnedInUse
    <2> QED  BY <1>2, <2>1, <2>3, <2>4, Zenon DEF PoolTypeOK
  <1>7. batch \in Seq(Idx) /\ Len(batch) = count
    <2>1. batch = [j \in 1 .. count |-> batch[j]]
      BY DEF ReadBatch
    <2> HIDE DEF batch, count
    <2> QED  BY <1>3, <1>6, <2>1, SMTT(30)
  <1> HIDE DEF batch
  <1>8. /\ workers' \in [Workers -> WorkerRegs] /\ workers'[w] = [pc |-> "tail", batch |-> batch]
        /\ \A u \in Workers \ {w} : workers'[u] = workers[u]
    <2>1. [pc |-> "tail", batch |-> batch] \in WorkerRegs
      BY <1>7 DEF WorkerRegs
    <2> QED  BY <1>1, <1>2, <2>1, WorkerUpdate, Zenon
  <1>9. Publishing(w)' <=> Publishing(w)
    BY <1>1, ZenonT(30) DEF WorkerUnchanged, Publishing
  <1>10. AppEnd(w)' = AppEnd(w) /\ RingEnd(w)' = RingEnd(w) /\ RingStart(w)' = wr.tail + count
    BY <1>1, <1>7, <1>8, <1>9, SMTT(30) DEF AppEnd, RingEnd, RingStart
  <1>11. InApp(w)' = InApp(w) /\ BeforeRing(w)' = InApp(w) + count
    BY <1>1, <1>7, <1>8, <1>10, SMTT(30) DEF InApp, BeforeRing
  <1>12. PathLen(w)' = PathLen(w)
    <2>1. PathLen(w)' = (InApp(w) + count) + (RingEnd(w) - (wr.tail + count))
      BY <1>10, <1>11 DEF PathLen
    <2> HIDE DEF count
    <2> QED  BY <1>3, <1>5, <2>1, SMTT(30)
  <1>13. \A p : WFrame(w, p)' = WFrame(w, p) /\ APacket(w, p)' = APacket(w, p)
    BY <1>1, ZenonT(30) DEF WFrame, APacket
  <1>14. \A k \in 1 .. PathLen(w) : PathAt(w, k)' = PathAt(w, k)
    <2> SUFFICES ASSUME NEW k \in 1 .. PathLen(w) PROVE PathAt(w, k)' = PathAt(w, k)
      OBVIOUS
    <2>0. k \in Int
      OBVIOUS
    <2>1. CASE k <= InApp(w)
      BY <1>1, <1>11, <2>1, Zenon DEF PathAt, APacket
    <2>2. CASE ~(k <= InApp(w)) /\ k <= InApp(w) + count
      <3>1. k - InApp(w) \in 1 .. count /\ wr.tail + ((k - InApp(w)) - 1) = wr.tail + (k - InApp(w) - 1)
        BY <1>3, <2>0, <2>2, SMTT(30)
      <3>2. PathAt(w, k)' = batch[k - InApp(w)]
        BY <1>8, <1>11, <2>2, SMTT(30) DEF PathAt
      <3>3. PathAt(w, k) = WFrame(w, wr.tail + (k - InApp(w) - 1))
        BY <1>5, <2>2, SMTT(30) DEF PathAt
      <3> QED  BY <1>6, <3>1, <3>2, <3>3, Zenon
    <2>3. CASE ~(k <= InApp(w)) /\ ~(k <= InApp(w) + count)
      <3>1. (wr.tail + count) + (k - (InApp(w) + count) - 1) = wr.tail + (k - InApp(w) - 1)
        BY <1>3, <2>0
      <3>2. \A p : p = (wr.tail + count) + (k - (InApp(w) + count) - 1) => PathAt(w, k)' = WFrame(w, p)'
        BY <1>10, <1>11, <2>3, ZenonT(30) DEF PathAt
      <3>3. PathAt(w, k) = WFrame(w, wr.tail + (k - InApp(w) - 1))
        BY <1>5, <2>3 DEF PathAt
      <3> QED  BY <1>13, <3>1, <3>2, <3>3, SMTT(30)
    <2> QED  BY <2>1, <2>2, <2>3
  <1>15. SamePath(w)
    BY <1>12, <1>14 DEF SamePath
  <1>16. RingOK(w)'
    <2>1. wr.tail + count <= wr.head
      <3> HIDE DEF wr
      <3> QED  BY <1>3, SMTT(30) DEF count
    <2>2. workers'[w].pc = "tail" /\ workers'[w].batch = batch /\ Len(workers'[w].batch) = count
      BY <1>7, <1>8, SMTT(30)
    <2>3. \A k \in 1 .. Len(workers'[w].batch) : \A p : p = wr.tail + (k - 1) => workers'[w].batch[k] = WFrame(w, p)'
      BY <1>6, <1>13, <2>2, Zenon
    <2> QED  BY <1>1, <1>2, <1>9, <2>1, <2>2, <2>3, Zenon DEF RingOK
  <1>17. AppOK'
    <2>1. \A u \in Workers : AppEnd(u)' = AppEnd(u)
      BY <1>1, <1>8, <1>10, OtherWorkers, Zenon
    <2> QED  BY <1>1, <2>1, AppUntouched, Zenon
  <1>18. PoolInv'
    BY <1>1, <1>2, PoolKept, Zenon
  <1>19. worker_rings \in [Workers -> RingOf(Idx)] /\ app_rings \in [Workers -> RingOf(AppPackets)]
    BY <1>2, Zenon DEF PipeTypeOK
  <1> QED  BY <1>1, <1>8, <1>15, <1>16, <1>17, <1>18, <1>19, WorkerQuiet, ZenonT(30)

(* The tail is published: the frames of the batch are the batch's alone.   *)
LEMMA WorkerTailInv ==
  ASSUME PipeInv, NEW w \in Workers, WorkerTail(w)
  PROVE  PipeInv'
  <1> DEFINE wr == worker_rings[w]
             n == Len(workers[w].batch)
  <1>1. /\ workers[w].pc = "tail" /\ workers' = [workers EXCEPT ![w].pc = "frame"]
        /\ worker_rings' = [worker_rings EXCEPT ![w] = PublishTail(@, n)]
        /\ WorkerUnchanged /\ UNCHANGED poolVars /\ app_rings' = app_rings
        /\ drops' = drops /\ inuse' = inuse /\ alloc' = alloc
    BY DEF WorkerTail, poolVars
  <1>2. PoolInv /\ PipeTypeOK /\ RingsOK /\ RingOK(w)
    BY DEF PipeInv, RingsOK
  <1>3. /\ workers' \in [Workers -> WorkerRegs] /\ workers'[w].pc = "frame" /\ workers'[w].batch = workers[w].batch
        /\ \A u \in Workers \ {w} : workers'[u] = workers[u]
    BY <1>1, <1>2, WorkerPcUpdate, Zenon
  <1>4. /\ worker_rings \in [Workers -> RingOf(Idx)] /\ app_rings \in [Workers -> RingOf(AppPackets)]
        /\ wr \in RingOf(Idx) /\ wr.head \in Nat /\ wr.tail \in Nat /\ n \in Nat
    <2>1. worker_rings \in [Workers -> RingOf(Idx)] /\ app_rings \in [Workers -> RingOf(AppPackets)]
      BY <1>2 DEF PipeTypeOK
    <2>2. wr.head \in Nat /\ wr.tail \in Nat /\ n \in Nat
      BY <1>2, PathTypes, Zenon
    <2> QED  BY <2>1, <2>2
  <1>5. /\ worker_rings'[w].tail = wr.tail + n /\ worker_rings'[w].head = wr.head /\ worker_rings'[w].slots = wr.slots
        /\ worker_rings' \in [Workers -> RingOf(Idx)]
        /\ \A u \in Workers \ {w} : worker_rings'[u] = worker_rings[u]
    <2> DEFINE new == [wr EXCEPT !.tail = wr.tail + n]
    <2>1. worker_rings' = [worker_rings EXCEPT ![w] = new]
      BY <1>1, <1>4 DEF PublishTail
    <2>2. wr.tail + n \in Nat
      BY <1>4
    <2>3. new \in RingOf(Idx) /\ new.tail = wr.tail + n /\ new.head = wr.head /\ new.slots = wr.slots
      BY <1>4, <2>2, ZenonT(30) DEF RingOf
    <2> HIDE DEF new
    <2> QED  BY <1>4, <2>1, <2>3
  <1>6. Publishing(w)' <=> Publishing(w)
    BY <1>1 DEF WorkerUnchanged, Publishing
  <1>7. AppEnd(w)' = AppEnd(w) /\ RingEnd(w)' = RingEnd(w) /\ RingStart(w)' = RingStart(w)
    BY <1>1, <1>3, <1>5, <1>6 DEF AppEnd, RingEnd, RingStart
  <1>8. InApp(w)' = InApp(w) /\ BeforeRing(w)' = BeforeRing(w) /\ PathLen(w)' = PathLen(w)
    <2>1. InApp(w)' = InApp(w)
      BY <1>1, <1>7, Zenon DEF InApp
    <2>2. BeforeRing(w)' = BeforeRing(w)
      BY <1>3, <2>1, ZenonT(30) DEF BeforeRing
    <2> QED  BY <1>7, <2>1, <2>2, Zenon DEF PathLen
  <1>9. SamePath(w)
    BY <1>1, <1>3, <1>5, <1>7, <1>8 DEF SamePath, PathAt, WFrame, APacket
  <1>10. RingOK(w)'
    <2>1. wr.tail <= wr.head /\ wr.head <= wr.tail + RingCapacity /\ wr.tail + n <= wr.head
          /\ (Publishing(w) => wr.head < wr.tail + RingCapacity)
      BY <1>1, <1>2 DEF RingOK
    <2>2. wr.tail + n <= wr.head /\ wr.head <= (wr.tail + n) + RingCapacity
          /\ (Publishing(w) => wr.head < (wr.tail + n) + RingCapacity)
      <3>1. RingCapacity \in Nat
        BY RingCapacityAssumption
      <3> HIDE DEF n, wr
      <3> QED  BY <1>4, <2>1, <3>1
    <2> QED  BY <1>1, <1>2, <1>3, <1>5, <1>6, <2>2 DEF RingOK
  <1>11. AppOK'
    <2>1. \A u \in Workers : AppEnd(u)' = AppEnd(u)
      BY <1>1, <1>3, <1>5, <1>7, OtherWorkers
    <2> QED  BY <1>1, <2>1, AppUntouched
  <1>12. PoolInv'
    BY <1>1, <1>2, PoolKept
  <1> QED  BY <1>1, <1>3, <1>4, <1>5, <1>9, <1>10, <1>11, <1>12, WorkerQuiet

(* The head of the app ring is published: the packet written stays where   *)
(* it is.                                                                  *)
LEMMA WorkerPublishInv ==
  ASSUME PipeInv, NEW w \in Workers, WorkerPublish(w)
  PROVE  PipeInv'
  <1> DEFINE ar == app_rings[w]
  <1>1. /\ workers[w].pc = "publish" /\ workers' = [workers EXCEPT ![w].pc = "frame"]
        /\ app_rings' = [app_rings EXCEPT ![w] = PublishHead(@)]
        /\ WorkerUnchanged /\ UNCHANGED poolVars /\ worker_rings' = worker_rings
        /\ drops' = drops /\ inuse' = inuse /\ alloc' = alloc /\ pkts' = pkts /\ buffer' = buffer
    BY DEF WorkerPublish, poolVars, WorkerUnchanged
  <1>2. PoolInv /\ PipeTypeOK /\ RingsOK /\ RingOK(w) /\ AppOK
    BY DEF PipeInv, RingsOK
  <1>3. /\ workers' \in [Workers -> WorkerRegs] /\ workers'[w].pc = "frame" /\ workers'[w].batch = workers[w].batch
        /\ \A u \in Workers \ {w} : workers'[u] = workers[u]
    BY <1>1, <1>2, WorkerPcUpdate, Zenon
  <1>4. /\ worker_rings \in [Workers -> RingOf(Idx)] /\ app_rings \in [Workers -> RingOf(AppPackets)]
        /\ ar \in RingOf(AppPackets) /\ ar.head \in Nat /\ ar.tail \in Nat
    <2>1. worker_rings \in [Workers -> RingOf(Idx)] /\ app_rings \in [Workers -> RingOf(AppPackets)]
      BY <1>2, Zenon DEF PipeTypeOK
    <2>2. ar.head \in Nat /\ ar.tail \in Nat
      BY <1>2, PathTypes
    <2> QED  BY <2>1, <2>2
  <1>5. /\ app_rings'[w].tail = ar.tail /\ app_rings'[w].head = ar.head + 1 /\ app_rings'[w].slots = ar.slots
        /\ app_rings' \in [Workers -> RingOf(AppPackets)]
        /\ \A u \in Workers \ {w} : app_rings'[u] = app_rings[u]
    <2> DEFINE new == [ar EXCEPT !.head = ar.head + 1]
    <2>1. app_rings' = [app_rings EXCEPT ![w] = new]
      BY <1>1, <1>4 DEF PublishHead
    <2>2. ar.head + 1 \in Nat
      BY <1>4
    <2>3. new \in RingOf(AppPackets) /\ new.tail = ar.tail /\ new.head = ar.head + 1 /\ new.slots = ar.slots
      BY <1>4, <2>2, ZenonT(30) DEF RingOf
    <2> HIDE DEF new
    <2> QED  BY <1>4, <2>1, <2>3
  <1>6. Publishing(w)' <=> Publishing(w)
    BY <1>1 DEF WorkerUnchanged, Publishing
  <1>7. AppEnd(w)' = AppEnd(w) /\ RingEnd(w)' = RingEnd(w) /\ RingStart(w)' = RingStart(w)
    BY <1>1, <1>3, <1>5, <1>6 DEF AppEnd, RingEnd, RingStart
  <1>8. InApp(w)' = InApp(w) /\ BeforeRing(w)' = BeforeRing(w) /\ PathLen(w)' = PathLen(w)
    <2>1. InApp(w)' = InApp(w)
      BY <1>1, <1>5, <1>7, ZenonT(30) DEF InApp
    <2>2. BeforeRing(w)' = BeforeRing(w)
      BY <1>3, <2>1, Zenon DEF BeforeRing
    <2> QED  BY <1>7, <2>1, <2>2, Zenon DEF PathLen
  <1>9. SamePath(w)
    BY <1>1, <1>3, <1>5, <1>7, <1>8 DEF SamePath, PathAt, WFrame, APacket
  <1>10. RingOK(w)'
    <2>1. ar.tail <= ar.head /\ ar.head < ar.tail + RingCapacity
      BY <1>1, <1>2 DEF RingOK
    <2>2. ar.tail <= ar.head + 1 /\ ar.head + 1 <= ar.tail + RingCapacity
      <3>1. RingCapacity \in Nat
        BY RingCapacityAssumption
      <3> HIDE DEF ar
      <3> QED  BY <1>4, <2>1, <3>1
    <2> QED  BY <1>1, <1>2, <1>3, <1>5, <1>6, <2>2 DEF RingOK, WFrame
  <1>11. AppOK'
    <2>1. \A u \in Workers : /\ AppEnd(u)' = AppEnd(u) /\ app_rings'[u].tail = app_rings[u].tail
                             /\ app_rings'[u].slots = app_rings[u].slots
      BY <1>1, <1>3, <1>5, <1>7, OtherWorkers
    <2>2. PktsGrow /\ pkts' \in Seq(Arrivals) /\ pkts \in Seq(Arrivals)
      BY <1>1, <1>2, SameArrivals
    <2> QED  BY <1>1, <1>2, <2>1, <2>2, AppKept
  <1>12. PoolInv'
    BY <1>1, <1>2, PoolKept
  <1> QED  BY <1>1, <1>3, <1>4, <1>5, <1>9, <1>10, <1>11, <1>12, WorkerQuiet

(* The frame a worker takes next from its batch.                           *)
LEMMA NextOfBatch ==
  ASSUME PipeInv, NEW w \in Workers, HasFrame(w), NEW pc \in {"free", "publish"},
         workers' = [workers EXCEPT ![w] = NextFrame(w, pc)]
  PROVE  /\ workers[w].pc = "frame" /\ Frame(w) = workers[w].batch[1] /\ Frame(w) \in Idx
         /\ Len(workers[w].batch) \in Nat \ {0} /\ Len(workers'[w].batch) = Len(workers[w].batch) - 1
         /\ \A k \in 1 .. (Len(workers[w].batch) - 1) : workers'[w].batch[k] = workers[w].batch[k + 1]
         /\ workers' \in [Workers -> WorkerRegs] /\ workers'[w].pc = pc
         /\ \A u \in Workers \ {w} : workers'[u] = workers[u]
         /\ InApp(w) + 1 \in 1 .. PathLen(w) /\ PathAt(w, InApp(w) + 1) = Frame(w)
         /\ Frame(w) \in inuse /\ OnPath(w, Frame(w))
  <1> DEFINE b == workers[w].batch
  <1>1. PipeTypeOK /\ RingsOK /\ Accounted
    BY DEF PipeInv
  <1>2. b \in Seq(Idx) /\ b # << >> /\ workers[w].pc = "frame"
    BY <1>1, SMTT(30) DEF PipeTypeOK, WorkerRegs, HasFrame
  <1>3. /\ Len(b) \in Nat \ {0} /\ Frame(w) = b[1] /\ Frame(w) \in Idx /\ Tail(b) \in Seq(Idx)
        /\ Len(Tail(b)) = Len(b) - 1 /\ \A k \in 1 .. (Len(b) - 1) : Tail(b)[k] = b[k + 1]
    BY <1>2, HeadAndTail, SMTT(30) DEF Frame
  <1>4. NextFrame(w, pc) \in WorkerRegs /\ NextFrame(w, pc).pc = pc /\ NextFrame(w, pc).batch = Tail(b)
    BY <1>3 DEF NextFrame, WorkerRegs
  <1>5. /\ workers' \in [Workers -> WorkerRegs] /\ workers'[w] = NextFrame(w, pc)
        /\ \A u \in Workers \ {w} : workers'[u] = workers[u]
    BY <1>1, <1>4, WorkerUpdate, ZenonT(30)
  <1>6. /\ InApp(w) \in Nat /\ BeforeRing(w) = InApp(w) + Len(b) /\ BeforeRing(w) <= PathLen(w) /\ PathLen(w) \in Nat
    BY <1>1, PathTypes, SMTT(30)
  <1>7. /\ InApp(w) + 1 \in 1 .. PathLen(w) /\ ~(InApp(w) + 1 <= InApp(w)) /\ InApp(w) + 1 <= BeforeRing(w)
        /\ (InApp(w) + 1) - InApp(w) = 1
    BY <1>3, <1>6
  <1>8. PathAt(w, InApp(w) + 1) = Frame(w)
    BY <1>3, <1>7, Zenon DEF PathAt
  <1>9. OnPath(w, Frame(w)) /\ Frame(w) \in inuse
    BY <1>1, <1>7, <1>8, OwnedInUse DEF OnPath
  <1> QED  BY <1>2, <1>3, <1>4, <1>5, <1>7, <1>8, <1>9, Zenon

(* A worker frees the first frame of its batch.                            *)
LEMMA WorkerFreesInv ==
  ASSUME Counting, PipeInv, NEW w \in Workers, HasFrame(w), FreeClaim(WorkerThread(w), Frame(w)),
         workers' = [workers EXCEPT ![w] = NextFrame(w, "free")], WorkerUnchanged,
         UNCHANGED <<worker_rings, app_rings>>, drops' \in Counters, RingsNeverReject'
  PROVE  PipeInv'
  <1>1. /\ PoolInv /\ PipeTypeOK /\ RxOK /\ RingsOK /\ Accounted /\ Ordered /\ AppOK /\ ReceiversOK /\ HistoryOK
        /\ PoolTypeOK
    BY Zenon DEF PipeInv, PoolInv
  <1>2. /\ inuse' = inuse \ {Frame(w)} /\ alloc' = alloc /\ worker_rings' = worker_rings /\ app_rings' = app_rings
        /\ pkts' = pkts /\ buffer' = buffer /\ rx' = rx /\ receivers' = receivers /\ UnchangedShared
    BY DEF FreeClaim, WorkerUnchanged, UnchangedShared
  <1>3. /\ workers[w].pc = "frame" /\ Frame(w) = workers[w].batch[1] /\ Frame(w) \in Idx
        /\ Len(workers[w].batch) \in Nat \ {0} /\ Len(workers'[w].batch) = Len(workers[w].batch) - 1
        /\ \A k \in 1 .. (Len(workers[w].batch) - 1) : workers'[w].batch[k] = workers[w].batch[k + 1]
        /\ workers' \in [Workers -> WorkerRegs] /\ workers'[w].pc = "free"
        /\ \A u \in Workers \ {w} : workers'[u] = workers[u]
        /\ InApp(w) + 1 \in 1 .. PathLen(w) /\ PathAt(w, InApp(w) + 1) = Frame(w)
        /\ Frame(w) \in inuse /\ OnPath(w, Frame(w))
    BY NextOfBatch, Zenon
  <1>4. Publishing(w)' <=> Publishing(w)
    BY <1>2 DEF Publishing
  <1>5. AppEnd(w)' = AppEnd(w) /\ RingEnd(w)' = RingEnd(w) /\ RingStart(w)' = RingStart(w)
    BY <1>2, <1>3, <1>4, Zenon DEF AppEnd, RingEnd, RingStart
  <1>6. PICK a \in Nat, n \in Nat, x \in Idx : a = InApp(w) /\ n = PathLen(w) /\ x = Frame(w)
    BY <1>1, <1>3, PathTypes, Zenon
  <1>7. /\ RingStart(w) \in Nat /\ RingEnd(w) \in Nat /\ BeforeRing(w) \in Nat
        /\ BeforeRing(w) = a + Len(workers[w].batch) /\ n = BeforeRing(w) + (RingEnd(w) - RingStart(w))
        /\ InApp(w)' = a /\ BeforeRing(w)' = BeforeRing(w) - 1 /\ PathLen(w)' = n - 1
    <2>1. /\ RingStart(w) \in Nat /\ RingEnd(w) \in Nat /\ BeforeRing(w) \in Nat
          /\ BeforeRing(w) = a + Len(workers[w].batch) /\ n = BeforeRing(w) + (RingEnd(w) - RingStart(w))
      BY <1>1, <1>6, PathTypes, Zenon
    <2>2. InApp(w)' = a
      BY <1>2, <1>5, <1>6, Zenon DEF InApp
    <2>3. BeforeRing(w)' = a + (Len(workers[w].batch) - 1)
      BY <1>3, <2>2, Zenon DEF BeforeRing
    <2>4. BeforeRing(w)' = BeforeRing(w) - 1
      BY <1>3, <1>6, <2>1, <2>3, LessOne, ZenonT(30)
    <2>5. PathLen(w)' = (BeforeRing(w) - 1) + (RingEnd(w) - RingStart(w))
      BY <1>5, <2>4 DEF PathLen
    <2> QED  BY <2>1, <2>2, <2>4, <2>5
  <1>8. ASSUME NEW k \in 1 .. (n - 1)
        PROVE  PathAt(w, k)' = IF k < a + 1 THEN PathAt(w, k) ELSE PathAt(w, k + 1)
    <2>0. k \in Int /\ k + 1 \in Int
      OBVIOUS
    <2>1. CASE k <= a
      <3>1. k < a + 1
        BY <2>0, <2>1
      <3> QED  BY <1>2, <1>6, <1>7, <2>1, <3>1, Zenon DEF PathAt, APacket
    <2>2. CASE ~(k <= a) /\ k <= BeforeRing(w) - 1
      <3>1. /\ ~(k < a + 1) /\ ~(k + 1 <= a) /\ k + 1 <= BeforeRing(w) /\ (k - a) + 1 = (k + 1) - a
            /\ k - a \in 1 .. (Len(workers[w].batch) - 1)
        <4>1. PICK c \in Nat \ {0} : c = Len(workers[w].batch)
          BY <1>3, Zenon
        <4>2. BeforeRing(w) = a + c
          BY <1>7, <4>1
        <4> QED  BY <2>0, <2>2, <4>1, <4>2
      <3>2. PathAt(w, k)' = workers'[w].batch[k - a]
        BY <1>7, <2>2, Zenon DEF PathAt
      <3>3. PathAt(w, k + 1) = workers[w].batch[(k + 1) - a]
        BY <1>6, <3>1, Zenon DEF PathAt
      <3> QED  BY <1>3, <3>1, <3>2, <3>3, Zenon
    <2>3. CASE ~(k <= a) /\ ~(k <= BeforeRing(w) - 1)
      <3>1. /\ ~(k < a + 1) /\ ~(k + 1 <= a) /\ ~(k + 1 <= BeforeRing(w))
            /\ RingStart(w) + (k - (BeforeRing(w) - 1) - 1) = RingStart(w) + ((k + 1) - BeforeRing(w) - 1)
        BY <1>7, <2>0, <2>3
      <3>2. \A p : p = RingStart(w) + (k - (BeforeRing(w) - 1) - 1) => PathAt(w, k)' = WFrame(w, p)'
        BY <1>5, <1>7, <2>3, Zenon DEF PathAt
      <3>3. PathAt(w, k + 1) = WFrame(w, RingStart(w) + ((k + 1) - BeforeRing(w) - 1))
        BY <1>6, <3>1, Zenon DEF PathAt
      <3>4. \A p : WFrame(w, p)' = WFrame(w, p)
        BY <1>2, SMTT(30) DEF WFrame
      <3> QED  BY <3>1, <3>2, <3>3, <3>4, SMTT(30)
    <2> QED  BY <2>1, <2>2, <2>3
  <1>9. /\ \A i : OnPath(w, i)' <=> OnPath(w, i) /\ i # x
        /\ \A k, l \in 1 .. PathLen(w)' : k < l => buffer'[PathAt(w, k)'] < buffer'[PathAt(w, l)']
    <2>1. PICK m \in 1 .. n : m = a + 1 /\ x = PathAt(w, m)
      BY <1>3, <1>6, Zenon
    <2>2. \A k \in 1 .. (n - 1) : PathAt(w, k)' = IF k < m THEN PathAt(w, k) ELSE PathAt(w, k + 1)
      BY <1>8, <2>1
    <2>3. PoolTypeOK /\ PipeTypeOK /\ Accounted /\ Ordered
      BY <1>1, SMTT(30)
    <2>4. n = PathLen(w) /\ x = PathAt(w, m) /\ buffer' = buffer /\ PathLen(w)' = n - 1
      BY <1>2, <1>6, <1>7, <2>1
    <2> QED  BY <2>2, <2>3, <2>4, PathCut
  <1>10. \A u \in Workers \ {w} : SamePath(u) /\ RingOK(u)' /\ AppEnd(u)' = AppEnd(u)
    BY <1>2, <1>3, OtherWorkers, Zenon
  <1>11. \A u \in Workers \ {w} : \A i : OnPath(u, i)' <=> OnPath(u, i)
    BY <1>10, SamePathOn
  <1>12. \A i : InRefs(i)' <=> InRefs(i)
    BY <1>2, Zenon DEF InRefs
  <1>13. \A i : \A r \in Receivers : InHand(r, i)' <=> InHand(r, i)
    BY <1>2, Zenon DEF InHand, Holding
  <1>14. Accounted'
    <2>1. OnPath(w, x) /\ inuse' = inuse \ {x}
      BY <1>2, <1>3, <1>6, Zenon
    <2> QED  BY <1>1, <1>9, <1>11, <1>12, <1>13, <2>1 DEF Accounted
  <1>15. Ordered'
    <2>1. \A u \in Workers : \A k, l \in 1 .. PathLen(u)' : k < l => buffer'[PathAt(u, k)'] < buffer'[PathAt(u, l)']
      <3> SUFFICES ASSUME NEW u \in Workers, NEW k \in 1 .. PathLen(u)', NEW l \in 1 .. PathLen(u)', k < l
                   PROVE  buffer'[PathAt(u, k)'] < buffer'[PathAt(u, l)']
        BY Zenon
      <3>1. CASE u = w
        BY <1>9, <3>1, Zenon
      <3>2. CASE u # w
        <4>1. SamePath(u)
          BY <1>10, <3>2, Zenon
        <4>2. k \in 1 .. PathLen(u) /\ l \in 1 .. PathLen(u) /\ PathAt(u, k)' = PathAt(u, k) /\ PathAt(u, l)' = PathAt(u, l)
          BY <4>1, Zenon DEF SamePath
        <4> QED  BY <1>1, <1>2, <4>2, Zenon DEF Ordered
      <3> QED  BY <3>1, <3>2, Zenon
    <2>2. \A u \in Workers : \A i, j : OnPath(u, i)' /\ InRefs(j)' => buffer'[i] < buffer'[j]
      BY <1>1, <1>2, <1>9, <1>11, <1>12, Zenon DEF Ordered
    <2> QED  BY <1>1, <1>2, <2>1, <2>2, Zenon DEF Ordered
  <1>16. RingsOK'
    <2>1. RingOK(w)
      BY <1>1 DEF RingsOK
    <2>2. RingOK(w)'
      BY <1>2, <1>3, <1>4, <2>1, Zenon DEF RingOK
    <2> QED  BY <1>10, <2>2 DEF RingsOK
  <1>17. PktsGrow /\ pkts' \in Seq(Arrivals) /\ pkts \in Seq(Arrivals)
    BY <1>1, <1>2, SameArrivals
  <1>18. AppOK'
    <2>1. \A u \in Workers : AppEnd(u)' = AppEnd(u)
      BY <1>5, <1>10
    <2> QED  BY <1>2, <2>1, AppUntouched
  <1>19. PoolInv'
    <2>1. WorkerThread(w) \in Threads
      BY PipelineAssumption
    <2> QED  BY <1>1, <1>3, <2>1, FreeClaimInv, Zenon
  <1>20. PipeTypeOK' /\ RxOK'
    <2>1. PipeTypeOK'
      BY <1>1, <1>2, <1>3, WorkerTypes, Zenon DEF PipeTypeOK
    <2>2. RxOK'
      BY <1>1, <1>2 DEF RxOK
    <2> QED  BY <2>1, <2>2
  <1>21. ReceiversOK' /\ HistoryOK'
    BY <1>1, <1>2, <1>17, SharedKept
  <1> QED  BY <1>14, <1>15, <1>16, <1>18, <1>19, <1>20, <1>21 DEF PipeInv

(* A frame that is not for the socket is freed.                            *)
LEMMA WorkerRejectInv ==
  ASSUME Counting, PipeInv, NEW w \in Workers, WorkerReject(w)
  PROVE  PipeInv'
  <1>1. /\ HasFrame(w) /\ FreeClaim(WorkerThread(w), Frame(w)) /\ workers' = [workers EXCEPT ![w] = NextFrame(w, "free")]
        /\ drops' = [drops EXCEPT !.parse_fail = @ + IF KindOf(Frame(w)) = "bad" THEN 1 ELSE 0]
        /\ WorkerUnchanged /\ UNCHANGED <<worker_rings, app_rings>>
    BY DEF WorkerReject
  <1>2. drops \in Counters /\ RingsNeverReject
    BY DEF PipeInv, PipeTypeOK
  <1>3. drops' \in Counters /\ drops'.ring_full = drops.ring_full /\ drops'.app_ring = drops.app_ring
    BY <1>1, <1>2 DEF Counters
  <1>4. RingsNeverReject'
    BY <1>2, <1>3 DEF RingsNeverReject
  <1> QED  BY <1>1, <1>3, <1>4, WorkerFreesInv, Zenon

(* A frame in use holds a packet that arrived.                             *)
LEMMA PacketOfFrame ==
  ASSUME PipeInv, NEW x \in inuse
  PROVE  /\ x \in Idx /\ buffer[x] \in 1 .. Len(pkts) /\ pkts[buffer[x]] \in Arrivals
         /\ AppPacket(x) \in AppPackets
         /\ KindOf(x) = "data" => Genuine(AppPacket(x).hdr, AppPacket(x).src)
  <1>1. x \in Idx /\ buffer[x] \in 1 .. Len(pkts) /\ pkts \in Seq(Arrivals) /\ buffer[x] \in Nat
    BY Zenon DEF PipeInv, Ordered, PipeTypeOK, PoolInv, PoolTypeOK
  <1>2. pkts[buffer[x]] \in Arrivals
    BY <1>1
  <1>3. pkts[buffer[x]].src \in Senders
    BY <1>2, SMTT(30) DEF Senders
  <1>4. AppPacket(x) \in AppPackets
    BY <1>1, <1>3, SMTT(30) DEF AppPacket, AppPackets
  <1>5. AppPacket(x).hdr = buffer[x] /\ AppPacket(x).src = pkts[buffer[x]].src
    BY DEF AppPacket
  <1>6. pkts[buffer[x]] = [kind |-> pkts[buffer[x]].kind, src |-> pkts[buffer[x]].src]
    BY <1>2, PipelineAssumption
  <1>7. KindOf(x) = "data" => pkts[buffer[x]] = [kind |-> "data", src |-> pkts[buffer[x]].src]
    BY <1>6, Zenon DEF KindOf
  <1> QED  BY <1>1, <1>2, <1>4, <1>5, <1>7, Zenon DEF Genuine

(* The worker writes the packet behind the last one of the app ring.       *)
LEMMA WorkerDelivers ==
  ASSUME PipeInv, NEW w \in Workers, HasFrame(w), KindOf(Frame(w)) = "data", ~Full(app_rings[w]),
         app_rings' = [app_rings EXCEPT ![w] = WriteSlot(@, AppPacket(Frame(w)))],
         workers' = [workers EXCEPT ![w] = NextFrame(w, "publish")],
         UNCHANGED <<poolVars, drops>>, WorkerUnchanged, worker_rings' = worker_rings
  PROVE  PipeInv'
  <1> DEFINE ar == app_rings[w]
             item == AppPacket(Frame(w))
  <1>1. /\ PoolInv /\ PipeTypeOK /\ RingsOK /\ Accounted /\ AppOK /\ RingOK(w)
    BY DEF PipeInv, RingsOK
  <1>2. /\ inuse' = inuse /\ alloc' = alloc /\ drops' = drops /\ pkts' = pkts /\ buffer' = buffer /\ rx' = rx
    BY DEF poolVars, WorkerUnchanged
  <1>3. /\ workers[w].pc = "frame" /\ Frame(w) = workers[w].batch[1] /\ Frame(w) \in inuse
        /\ Len(workers[w].batch) \in Nat \ {0} /\ Len(workers'[w].batch) = Len(workers[w].batch) - 1
        /\ \A k \in 1 .. (Len(workers[w].batch) - 1) : workers'[w].batch[k] = workers[w].batch[k + 1]
        /\ workers' \in [Workers -> WorkerRegs] /\ workers'[w].pc = "publish"
        /\ \A u \in Workers \ {w} : workers'[u] = workers[u]
    BY NextOfBatch, Zenon
  <1>4. /\ item \in AppPackets /\ item.idx = Frame(w) /\ item.hdr = buffer[Frame(w)]
        /\ Genuine(item.hdr, item.src)
    BY <1>3, PacketOfFrame, Zenon DEF AppPacket
  <1>5. /\ app_rings \in [Workers -> RingOf(AppPackets)] /\ ar \in RingOf(AppPackets)
        /\ worker_rings \in [Workers -> RingOf(Idx)]
    BY <1>1 DEF PipeTypeOK
  <1>6. ar.head \in Nat /\ ar.tail \in Nat /\ ar.tail <= ar.head /\ ar.head < ar.tail + RingCapacity
    <2>1. RingCapacity \in Nat /\ ar.head \in Nat /\ ar.tail \in Nat
      BY <1>5, RingCapacityAssumption, Zenon DEF RingOf
    <2>2. ar.tail <= ar.head
      BY <1>1, Zenon DEF RingOK
    <2> QED  BY <2>1, <2>2 DEF Full
  <1>7. /\ app_rings' \in [Workers -> RingOf(AppPackets)] /\ app_rings'[w].head = ar.head /\ app_rings'[w].tail = ar.tail
        /\ app_rings'[w].slots[ar.head % RingCapacity] = <<item>>
        /\ \A p \in ar.tail .. (ar.head - 1) : app_rings'[w].slots[p % RingCapacity] = ar.slots[p % RingCapacity]
        /\ \A u \in Workers \ {w} : app_rings'[u] = app_rings[u]
    <2>1. app_rings'[w] = WriteSlot(ar, item) /\ \A u \in Workers \ {w} : app_rings'[u] = app_rings[u]
      BY <1>5
    <2>2. /\ WriteSlot(ar, item) \in RingOf(AppPackets) /\ WriteSlot(ar, item).head = ar.head
          /\ WriteSlot(ar, item).tail = ar.tail
          /\ WriteSlot(ar, item).slots[ar.head % RingCapacity] = <<item>>
          /\ \A p \in ar.tail .. (ar.head - 1) :
               WriteSlot(ar, item).slots[p % RingCapacity] = ar.slots[p % RingCapacity]
      <3>1. item \in AppPackets
        BY <1>4, Zenon
      <3> HIDE DEF ar, item
      <3> QED  BY <1>5, <1>6, <3>1, WriteKeeps, ZenonT(30)
    <2>3. app_rings' \in [Workers -> RingOf(AppPackets)]
      BY <1>5, <2>2, Zenon
    <2> QED  BY <2>1, <2>2, <2>3, Zenon
  <1> HIDE DEF item
  <1>8. Publishing(w)' <=> Publishing(w)
    BY <1>2 DEF Publishing
  <1>9. AppEnd(w)' = ar.head + 1 /\ AppEnd(w) = ar.head /\ RingEnd(w)' = RingEnd(w) /\ RingStart(w)' = RingStart(w)
    BY <1>3, <1>7, <1>8, Zenon DEF AppEnd, RingEnd, RingStart
  <1>10. PICK a \in Nat, c \in Nat \ {0} : a = InApp(w) /\ c = Len(workers[w].batch) /\ a = ar.head - ar.tail
    <2>1. InApp(w) = ar.head - ar.tail
      BY <1>9, Zenon DEF InApp
    <2>2. ar.head - ar.tail \in Nat
      <3> HIDE DEF ar
      <3> QED  BY <1>6, SMTT(30)
    <2> QED  BY <1>3, <2>1, <2>2, Zenon
  <1>11. InApp(w)' = a + 1 /\ BeforeRing(w) = a + c /\ BeforeRing(w)' = a + c /\ PathLen(w)' = PathLen(w)
    <2>1. InApp(w)' = (ar.head + 1) - ar.tail
      BY <1>7, <1>9, Zenon DEF InApp
    <2>2. InApp(w)' = a + 1
      BY <1>6, <1>10, <2>1
    <2>3. BeforeRing(w)' = (a + 1) + (c - 1)
      BY <1>3, <1>10, <2>2, Zenon DEF BeforeRing
    <2>4. BeforeRing(w)' = a + c
      BY <2>3
    <2>5. BeforeRing(w) = a + c
      BY <1>10 DEF BeforeRing
    <2> QED  BY <1>9, <2>2, <2>4, <2>5 DEF PathLen
  <1>12. \A p \in ar.tail .. (ar.head - 1) : APacket(w, p)' = APacket(w, p)
    BY <1>7, Zenon DEF APacket
  <1>13. \A p : p = ar.head => APacket(w, p)' = item
    <2>1. app_rings'[w].slots[ar.head % RingCapacity] = <<item>>
      BY <1>7, Zenon
    <2>2. <<item>>[1] = item
      BY OnlyItem, Zenon
    <2> QED  BY <2>1, <2>2, Zenon DEF APacket
  <1>14. ASSUME NEW k \in 1 .. PathLen(w) PROVE PathAt(w, k)' = PathAt(w, k)
    <2>0. k \in Int /\ k >= 1
      <3>1. PathLen(w) \in Nat
        BY <1>1, PathTypes, Zenon
      <3> QED  BY <3>1
    <2>1. CASE k <= a
      <3>1. k <= a + 1 /\ ar.tail + (k - 1) \in ar.tail .. (ar.head - 1)
        BY <1>6, <1>10, <2>0, <2>1, SMTT(30)
      <3>2. \A p : p = ar.tail + (k - 1) => PathAt(w, k)' = (APacket(w, p)').idx
        BY <1>7, <1>11, <3>1, Zenon DEF PathAt
      <3>3. PathAt(w, k) = APacket(w, ar.tail + (k - 1)).idx
        BY <1>10, <2>1, Zenon DEF PathAt
      <3> QED  BY <1>12, <3>1, <3>2, <3>3, SMTT(30)
    <2>2. CASE k = a + 1
      <3>1. /\ k <= a + 1 /\ ar.tail + (k - 1) = ar.head /\ ~(k <= a) /\ k <= a + c /\ k - a = 1
        <4>1. k <= a + 1 /\ ~(k <= a) /\ k <= a + c /\ k - a = 1 /\ k - 1 = a
          BY <2>2
        <4>2. ar.tail + a = ar.head
          BY <1>6, <1>10
        <4> QED  BY <4>1, <4>2
      <3>2. \A p : p = ar.tail + (k - 1) => PathAt(w, k)' = (APacket(w, p)').idx
        BY <1>7, <1>11, <3>1, Zenon DEF PathAt
      <3>3. PathAt(w, k)' = item.idx
        BY <1>13, <3>1, <3>2
      <3>4. PathAt(w, k) = workers[w].batch[1]
        BY <1>10, <1>11, <3>1, Zenon DEF PathAt
      <3> QED  BY <1>3, <1>4, <3>3, <3>4, Zenon
    <2>3. CASE ~(k <= a + 1) /\ k <= a + c
      <3>1. ~(k <= a) /\ k - (a + 1) \in 1 .. (c - 1) /\ (k - (a + 1)) + 1 = k - a
        BY <2>0, <2>3
      <3>2. PathAt(w, k)' = workers'[w].batch[k - (a + 1)]
        BY <1>11, <2>3, Zenon DEF PathAt
      <3>3. PathAt(w, k) = workers[w].batch[k - a]
        BY <1>10, <1>11, <2>3, <3>1, Zenon DEF PathAt
      <3> QED  BY <1>3, <1>10, <3>1, <3>2, <3>3, Zenon
    <2>4. CASE ~(k <= a + 1) /\ ~(k <= a + c)
      <3>1. ~(k <= a)
        BY <2>0, <2>4
      <3>2. \A p : p = RingStart(w) + (k - (a + c) - 1) => PathAt(w, k)' = WFrame(w, p)'
        BY <1>9, <1>11, <2>4, Zenon DEF PathAt
      <3>3. PathAt(w, k) = WFrame(w, RingStart(w) + (k - (a + c) - 1))
        BY <1>10, <1>11, <2>4, <3>1, ZenonT(30) DEF PathAt
      <3>4. \A p : WFrame(w, p)' = WFrame(w, p)
        BY DEF WFrame
      <3> QED  BY <3>2, <3>3, <3>4
    <2> QED  BY <2>0, <2>1, <2>2, <2>3, <2>4, SMTT(30)
  <1>15. SamePath(w)
    BY <1>11, <1>14 DEF SamePath
  <1>16. RingOK(w)'
    BY <1>1, <1>3, <1>6, <1>7, <1>8, Zenon DEF RingOK
  <1>17. AppOK'
    <2> SUFFICES ASSUME NEW u \in Workers, NEW p \in app_rings'[u].tail .. (AppEnd(u)' - 1)
                 PROVE  AppItemOK(u, p)'
      BY DEF AppOK
    <2>1. CASE u # w
      <3>1. AppEnd(u)' = AppEnd(u) /\ app_rings'[u] = app_rings[u]
        BY <1>3, <1>7, <2>1, OtherWorkers, Zenon
      <3>2. AppItemOK(u, p)
        BY <1>1, <3>1 DEF AppOK
      <3> QED  BY <1>2, <3>1, <3>2, Zenon DEF AppItemOK, APacket, Genuine
    <2>2. CASE u = w /\ p < ar.head
      <3>1. p \in ar.tail .. (ar.head - 1)
        <4>1. p \in ar.tail .. ((ar.head + 1) - 1) /\ p < ar.head
          BY <1>7, <1>9, <2>2, Zenon
        <4> HIDE DEF ar
        <4> QED  BY <1>6, <4>1
      <3>2. AppItemOK(w, p)
        BY <1>1, <1>9, <3>1 DEF AppOK
      <3>3. app_rings'[w].slots[p % RingCapacity] = app_rings[w].slots[p % RingCapacity]
        BY <1>7, <3>1, Zenon
      <3> QED  BY <1>2, <2>2, <3>2, <3>3, Zenon DEF AppItemOK, APacket, Genuine
    <2>3. CASE u = w /\ ~(p < ar.head)
      <3>1. p = ar.head
        <4>1. p \in ar.tail .. ((ar.head + 1) - 1) /\ ~(p < ar.head)
          BY <1>7, <1>9, <2>3, Zenon
        <4> HIDE DEF ar
        <4> QED  BY <1>6, <4>1
      <3>2. app_rings'[w].slots[p % RingCapacity] = <<item>> /\ APacket(w, p)' = item
        BY <1>7, <1>13, <3>1, Zenon
      <3>3. <<item>> # << >>
        OBVIOUS
      <3>4. Genuine(item.hdr, item.src) /\ buffer'[item.idx] = item.hdr
        BY <1>2, <1>4, Zenon
      <3> QED  BY <1>2, <2>3, <3>2, <3>3, <3>4, Zenon DEF AppItemOK, Genuine
    <2> QED  BY <2>1, <2>2, <2>3
  <1>18. PoolInv'
    BY <1>1, PoolKept
  <1> QED  BY <1>2, <1>3, <1>5, <1>7, <1>15, <1>16, <1>17, <1>18, WorkerQuiet, Zenon

(* A packet is written to the app ring, or its frame freed when that is    *)
(* full.                                                                   *)
LEMMA WorkerDeliverInv ==
  ASSUME Counting, PipeInv, NEW w \in Workers, WorkerDeliver(w)
  PROVE  PipeInv'
  <1>1. HasFrame(w) /\ KindOf(Frame(w)) = "data" /\ WorkerUnchanged /\ worker_rings' = worker_rings
    BY Zenon DEF WorkerDeliver
  <1>2. CASE ~Full(app_rings[w])
    <2>1. /\ app_rings' = [app_rings EXCEPT ![w] = WriteSlot(@, AppPacket(Frame(w)))]
          /\ workers' = [workers EXCEPT ![w] = NextFrame(w, "publish")]
          /\ UNCHANGED <<poolVars, drops>>
      BY <1>2, Zenon DEF WorkerDeliver
    <2> QED  BY <1>1, <1>2, <2>1, WorkerDelivers, Zenon
  <1>3. CASE Full(app_rings[w])
    <2>1. /\ FreeClaim(WorkerThread(w), Frame(w)) /\ workers' = [workers EXCEPT ![w] = NextFrame(w, "free")]
          /\ drops' = [drops EXCEPT !.app_ring = @ + 1] /\ app_rings' = app_rings
      BY <1>3, Zenon DEF WorkerDeliver
    <2>2. PipeTypeOK /\ RingsOK /\ Accounted /\ Ordered /\ PoolTypeOK /\ drops \in Counters
      BY DEF PipeInv, PoolInv, PipeTypeOK
    <2>3. drops' \in Counters
      BY <2>1, <2>2 DEF Counters
    <2>4. Len(workers[w].batch) \in Nat \ {0}
      BY <1>1, <2>1, NextOfBatch, Zenon
    <2>5. /\ app_rings[w].head - app_rings[w].tail + Len(workers[w].batch) <= PathLen(w) /\ PathLen(w) <= Capacity
          /\ PathLen(w) \in Nat /\ app_rings[w].head \in Nat /\ app_rings[w].tail \in Nat
      <3>1. app_rings[w].head - app_rings[w].tail + Len(workers[w].batch) <= PathLen(w)
        BY <2>2, RingOnPath, Zenon
      <3>2. PathLen(w) <= Capacity
        BY <2>2, PathFits, Zenon
      <3>3. PathLen(w) \in Nat /\ app_rings[w].head \in Nat /\ app_rings[w].tail \in Nat
        BY <2>2, PathTypes, Zenon
      <3> QED  BY <3>1, <3>2, <3>3, Zenon
    <2>6. ~(RingCapacity >= Capacity)
      <3>1. app_rings[w].head - app_rings[w].tail >= RingCapacity
        BY <1>3, Zenon DEF Full
      <3>2. RingCapacity \in Nat /\ Capacity \in Nat
        BY RingCapacityAssumption, CapacityAssumption
      <3> QED  BY <2>4, <2>5, <3>1, <3>2, SMTT(30)
    <2>7. RingsNeverReject'
      BY <2>6 DEF RingsNeverReject
    <2> QED  BY <1>1, <2>1, <2>3, <2>7, WorkerFreesInv, Zenon
  <1> QED  BY <1>2, <1>3
=============================================================================
