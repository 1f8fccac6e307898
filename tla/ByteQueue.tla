----------------------------- MODULE ByteQueue ------------------------------
(***************************************************************************)
(* What a byte ring promises to the two threads that share it: a bounded   *)
(* first-in first-out queue of bytes.  A write appends a non-empty prefix  *)
(* of what it was given, or nothing when the queue is full; a read removes *)
(* a non-empty prefix of the content, or nothing when the queue is empty;  *)
(* a peek returns such a prefix and leaves it in place.                    *)
(***************************************************************************)
EXTENDS Naturals, Sequences

CONSTANTS Byte,      \* the values of a byte
          Capacity   \* the number of bytes the queue can hold

VARIABLES queue,     \* the content, oldest byte first
          wrote,     \* the bytes the last completed write accepted
          got        \* the bytes the last completed read or peek returned

vars == <<queue, wrote, got>>

Init == queue = <<>> /\ wrote = <<>> /\ got = <<>>

Write ==
  \E n \in 1..Capacity : \E bytes \in [1..n -> Byte] :
    /\ Len(queue) + n <= Capacity
    /\ queue' = queue \o bytes
    /\ wrote' = bytes
    /\ UNCHANGED got

WriteNothing ==
  /\ Len(queue) = Capacity
  /\ wrote' = <<>>
  /\ UNCHANGED <<queue, got>>

Read ==
  \E n \in 1..Len(queue) :
    /\ got' = SubSeq(queue, 1, n)
    /\ queue' = SubSeq(queue, n + 1, Len(queue))
    /\ UNCHANGED wrote

Peek ==
  \E n \in 1..Len(queue) :
    /\ got' = SubSeq(queue, 1, n)
    /\ UNCHANGED <<queue, wrote>>

ReadNothing ==
  /\ queue = <<>>
  /\ got' = <<>>
  /\ UNCHANGED <<queue, wrote>>

Next == Write \/ WriteNothing \/ Read \/ Peek \/ ReadNothing

Spec == Init /\ [][Next]_vars
=============================================================================
