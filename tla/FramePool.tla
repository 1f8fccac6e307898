----------------------------- MODULE FramePool -----------------------------
(***************************************************************************)
(* The slab of frame buffers the RX thread fills and every other thread    *)
(* returns frames to: src/dpdk-stdlib-udp/src/frame_pool.rs.  The free     *)
(* list is a ring of twice the capacity.  free_head counts the frames ever *)
(* put on the list and is advanced by any thread, free_tail counts those   *)
(* taken from it and is advanced by the one allocating thread.  free       *)
(* claims its slot before it fills it, so the allocator can see a head     *)
(* that is ahead of the slots and must spin on a slot that is still empty. *)
(* One action per atomic access that another thread can observe.           *)
(***************************************************************************)
EXTENDS Integers

CONSTANTS Capacity,   \* frames in the pool (FramePool::new rounds it to a power of two)
          Threads,    \* the threads that call free
          MaxFrees    \* bound: calls of free in a run

ASSUME CapacityAssumption == Capacity \in Nat \ {0}
ASSUME MaxFreesAssumption == MaxFrees \in Nat

VARIABLES free_list,  \* slot -> frame index or MAX
          free_head,
          free_tail,
          alloc,      \* the allocator's registers while it is inside alloc
          freeing,    \* thread -> its registers while it is inside free
          inuse       \* frames handed out by alloc and not yet given to free

poolVars == <<free_list, free_head, free_tail, alloc, freeing, inuse>>

Idx == 0 .. (Capacity - 1)
MAX == Capacity                       \* u32::MAX, no frame's index
FreeCapacity == 2 * Capacity
Slot(pos) == pos % FreeCapacity       \* pos & free_mask()

NotAllocating == [pc |-> "idle", idx |-> MAX]
NotFreeing == [pc |-> "idle", pos |-> 0, idx |-> MAX]

NewPool ==
  /\ free_list = [s \in 0 .. (FreeCapacity - 1) |-> IF s < Capacity THEN s ELSE MAX]
  /\ free_head = Capacity
  /\ free_tail = 0
  /\ alloc = NotAllocating
  /\ freeing = [t \in Threads |-> NotFreeing]
  /\ inuse = {}

-----------------------------------------------------------------------------
(* alloc: load both counters, take the slot with swap, advance the tail.   *)

Exhausted == free_tail >= free_head

AllocCheck ==
  /\ alloc.pc = "idle"
  /\ ~Exhausted
  /\ alloc' = [alloc EXCEPT !.pc = "swap"]
  /\ UNCHANGED <<free_list, free_head, free_tail, freeing, inuse>>

\* Mutant: the slot is read and left as it is, without the sentinel.
AllocLoad ==
  LET v == free_list[Slot(free_tail)]
  IN  /\ alloc.pc = "swap"
      /\ v # MAX
      /\ alloc' = [pc |-> "store", idx |-> v]
      /\ UNCHANGED <<free_list, free_head, free_tail, freeing, inuse>>

\* A swap that finds the sentinel leaves the slot as it was: the spin.
AllocSwap ==
  LET v == free_list[Slot(free_tail)]
  IN  /\ alloc.pc = "swap"
      /\ v # MAX
      /\ free_list' = [free_list EXCEPT ![Slot(free_tail)] = MAX]
      /\ alloc' = [pc |-> "store", idx |-> v]
      /\ UNCHANGED <<free_head, free_tail, freeing, inuse>>

AllocStore ==
  /\ alloc.pc = "store"
  /\ free_tail' = free_tail + 1
  /\ inuse' = inuse \cup {alloc.idx}
  /\ alloc' = NotAllocating
  /\ UNCHANGED <<free_list, free_head, freeing>>

-----------------------------------------------------------------------------
(* free: claim a slot with fetch_add, then store the index in it.          *)

FreeClaim(t, i) ==
  /\ freeing[t].pc = "idle"
  /\ free_head' = free_head + 1
  /\ freeing' = [freeing EXCEPT ![t] = [pc |-> "store", pos |-> free_head, idx |-> i]]
  /\ inuse' = inuse \ {i}
  /\ UNCHANGED <<free_list, free_tail, alloc>>

FreeStore(t) ==
  /\ freeing[t].pc = "store"
  /\ free_list' = [free_list EXCEPT ![Slot(freeing[t].pos)] = freeing[t].idx]
  /\ freeing' = [freeing EXCEPT ![t] = NotFreeing]
  /\ UNCHANGED <<free_head, free_tail, alloc, inuse>>

-----------------------------------------------------------------------------
(* The pool with any client that frees only frames it was given.           *)

PoolInit == NewPool

PoolNext ==
  \/ AllocCheck
  \/ AllocSwap
  \/ AllocStore
  \/ \E t \in Threads, i \in inuse : free_head < Capacity + MaxFrees /\ FreeClaim(t, i)
  \/ \E t \in Threads : FreeStore(t)

PoolSpec == PoolInit /\ [][PoolNext]_poolVars

-----------------------------------------------------------------------------
(* Properties.                                                             *)

PoolTypeOK ==
  /\ free_list \in [0 .. (FreeCapacity - 1) -> Idx \cup {MAX}]
  /\ free_head \in Nat
  /\ free_tail \in Nat
  /\ alloc \in [pc : {"idle", "swap", "store"}, idx : Idx \cup {MAX}]
  /\ freeing \in [Threads -> [pc : {"idle", "store"}, pos : Nat, idx : Idx \cup {MAX}]]
  /\ inuse \in SUBSET Idx

\* The frames in the hands of the pool: listed, taken by an alloc that has not
\* returned, or given to a free that has not stored them.
Listed(i, s) == free_list[s] = i
Taken(i) == alloc.pc = "store" /\ alloc.idx = i
Returning(i, t) == freeing[t].pc = "store" /\ freeing[t].idx = i

\* No frame is handed out twice: a frame a client holds is nowhere in the pool, a
\* listed frame is listed once, and no two calls of alloc and free carry the same
\* frame.  alloc's spin on a slot that free has claimed and not filled, and its
\* swap of the sentinel, are what this rests on.
Exclusive ==
  \A i \in Idx :
    /\ i \in inuse => /\ ~Taken(i)
                      /\ \A t \in Threads : ~Returning(i, t)
                      /\ \A s \in DOMAIN free_list : ~Listed(i, s)
    /\ Taken(i) => /\ \A t \in Threads : ~Returning(i, t)
                   /\ \A s \in DOMAIN free_list : ~Listed(i, s)
    /\ \A t, u \in Threads : Returning(i, t) /\ Returning(i, u) => t = u
    /\ \A t \in Threads, s \in DOMAIN free_list : ~(Returning(i, t) /\ Listed(i, s))
    /\ \A r, s \in DOMAIN free_list : Listed(i, r) /\ Listed(i, s) => r = s

\* The counters never disagree with the slots: every position between the tail and
\* the head holds a frame or is claimed by exactly one free that will fill it (or
\* has just been emptied by alloc), so the spin of alloc always ends.
EveryPositionServed ==
  \A p \in free_tail .. (free_head - 1) :
    \/ free_list[Slot(p)] # MAX
    \/ \E t \in Threads : freeing[t].pc = "store" /\ freeing[t].pos = p
    \/ alloc.pc = "store" /\ p = free_tail

\* The list never outgrows the pool, so no slot is claimed while it is in use.
NoOverrun == free_head - free_tail <= Capacity
=============================================================================
