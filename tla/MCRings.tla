------------------------------ MODULE MCRings -------------------------------
(***************************************************************************)
(* The two lock-free rings.  A behaviour exercises the byte ring (four     *)
(* slots whose positions wrap at eight, so that both the chunk split and   *)
(* the wrap happen; no bound on the number of operations) or the ring of   *)
(* items (two slots and two producers, so that a producer's copy of head   *)
(* can be a whole turn of the ring out of date).                           *)
(***************************************************************************)
EXTENDS ByteRing, MpscRing

VARIABLE ring    \* the ring in use

RingsInit == Init /\ MpscInit /\ ring \in {"bytes", "items"}

\* The ring of items is gone once it is dropped.
Gone == left = Drain /\ dpc = "idle" /\ UNCHANGED mpscVars

RingsNext ==
  /\ \/ ring = "bytes" /\ Next /\ UNCHANGED mpscVars
     \/ ring = "items" /\ (MpscNext \/ Gone) /\ UNCHANGED vars
  /\ UNCHANGED ring

RingsSpec == RingsInit /\ [][RingsNext]_<<vars, mpscVars, ring>>
=============================================================================
