------------------------------ MODULE Options -------------------------------
(***************************************************************************)
(* Rust's Option: a sequence that is empty or has one element.             *)
(***************************************************************************)
EXTENDS Naturals, Sequences

None == << >>
Some(x) == <<x>>
Option(S) == {o \in Seq(S) : Len(o) <= 1}
=============================================================================
