------------------------------- MODULE Octets -------------------------------
(***************************************************************************)
(* Octet strings and the one's-complement sums every codec of the stack is *)
(* built from.  A frame is a sequence of octets; offsets count from 0 as   *)
(* in the code, so the octet at offset o of f is f[o + 1].  32-bit fields  *)
(* (sequence numbers, time stamps) stay sequences of four octets.          *)
(***************************************************************************)
EXTENDS Integers, Sequences

\* Option<T> of the code.
None == << >>
Some(x) == <<x>>

U16(n) == <<(n \div 256) % 256, n % 256>>
U24(n) == <<(n \div 65536) % 256, (n \div 256) % 256, n % 256>>
Be16(f, o) == f[o + 1] * 256 + f[o + 2]
Be24(f, o) == f[o + 1] * 65536 + f[o + 2] * 256 + f[o + 3]
Octet(f, o) == f[o + 1]
Slice(f, o, n) == SubSeq(f, o + 1, o + n)
From(f, o) == SubSeq(f, o + 1, Len(f))
Zeros(n) == [i \in 1 .. n |-> 0]
Put16(f, o, n) == [f EXCEPT ![o + 1] = U16(n)[1], ![o + 2] = U16(n)[2]]
HighNibble(b) == b \div 16
LowNibble(b) == b % 16

\* The loop "while sum >> 16 != 0" on a 32-bit sum: two rounds reach 16 bits.
FoldSum(s) == LET t == (s % 65536) + (s \div 65536)
              IN  (t % 65536) + (t \div 65536)

\* The 16-bit words of data from offset o, every `step` octets, an odd last
\* octet padded with a zero.
WordAt(data, o) ==
  Octet(data, o) * 256 + (IF o + 1 < Len(data) THEN Octet(data, o + 1) ELSE 0)
WordSum(data, first, step) ==
  LET sum[o \in first .. Len(data) + step] ==
        IF o >= Len(data) THEN 0 ELSE WordAt(data, o) + sum[o + step]
  IN  IF first >= Len(data) THEN 0 ELSE sum[first]

ipv4_checksum(header) == 65535 - FoldSum(WordSum(header, 0, 2))

\* The 64-bit accumulator of 4-octet chunks, kept as its high part hi and the
\* sum lo of the low halves: acc = hi * 2^16 + lo.  The remainder of fewer than
\* four octets adds to the low part.
ones_complement_sum(data) ==
  LET whole == 4 * (Len(data) \div 4)
      chunks == Slice(data, 0, whole)
      hi == WordSum(chunks, 0, 4)
      lo == WordSum(chunks, 2, 4) + WordSum(From(data, whole), 0, 2)
  IN  FoldSum((lo % 65536) + hi + (lo \div 65536))

\* A checksum of 0 means "none" in UDP and is sent as 0xFFFF.
NonZero(c) == IF c = 0 THEN 65535 ELSE c
=============================================================================
