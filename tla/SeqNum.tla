------------------------------- MODULE SeqNum -------------------------------
(***************************************************************************)
(* Serial-number arithmetic on TCP sequence numbers.  SeqMod is the 2^32   *)
(* of the code; every comparison is of the distance between two numbers    *)
(* with half of the space.                                                 *)
(***************************************************************************)
EXTENDS Integers

CONSTANT SeqMod

ASSUME SeqAssumption == SeqMod \in Nat /\ SeqMod > 1 /\ SeqMod % 2 = 0

SeqNums == 0..(SeqMod - 1)

SeqAdd(s, n) == (s + n) % SeqMod

SeqDiff(s, other) == (s - other) % SeqMod

SeqLt(s, other) ==
  LET diff == SeqDiff(other, s)
  IN  diff # 0 /\ diff < (SeqMod \div 2)

SeqLe(s, other) == s = other \/ SeqLt(s, other)

SeqGt(s, other) == SeqLt(other, s)

SeqInRange(s, start, end) == SeqLe(start, s) /\ SeqLt(s, end)
=============================================================================
