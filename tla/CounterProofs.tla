--------------------------- MODULE CounterProofs ----------------------------
(***************************************************************************)
(* Proofs about the counters that wrap.                                    *)
(* SpscByteRing, for every capacity, word size and set of bytes: the       *)
(* copies never race, no read or write is torn, and it implements the      *)
(* first-in first-out queue of ByteQueue.  MpscRing, for every capacity    *)
(* and any number of producers: no slot is ever shared, items come out     *)
(* once and in the order of the claims, enqueue refuses only when the ring *)
(* is full and drop leaves nothing behind.  SeqNum, for every even size of *)
(* the sequence space: serial-number arithmetic orders the numbers of a    *)
(* window shorter than half the space the way their offsets are ordered,   *)
(* wherever the window starts.                                             *)
(***************************************************************************)
EXTENDS ByteRing, MpscRing, SeqNum, TLAPS

-----------------------------------------------------------------------------
(* The remainder.                                                          *)

(* The remainder of a division by c is what is left of a multiple of c.    *)
LEMMA DivMod ==
  ASSUME NEW x \in Int, NEW c \in Nat \ {0}
  PROVE  /\ x % c \in 0..(c - 1)
         /\ x \div c \in Int
         /\ x = c * (x \div c) + (x % c)
  BY SMT

(* A multiple of c smaller than c in absolute value is zero.               *)
LEMMA SmallMultiple ==
  ASSUME NEW q \in Int, NEW c \in Nat \ {0}, c * q < c, -c < c * q
  PROVE  q = 0
  BY SMT

(* Two numbers less than c apart with the same remainder are equal.        *)
LEMMA ModInjective ==
  ASSUME NEW x \in Int, NEW y \in Int, NEW c \in Nat \ {0},
         x - y < c, y - x < c, x % c = y % c
  PROVE  x = y
  <1>1. x = c * (x \div c) + (x % c) /\ x \div c \in Int
    BY DivMod
  <1>2. y = c * (y \div c) + (y % c) /\ y \div c \in Int
    BY DivMod
  <1>3. ASSUME NEW a \in Int, NEW b \in Int, NEW r \in Int,
               x = c * a + r, y = c * b + r
        PROVE  x = y
    <2>1. c * (a - b) = x - y
      BY <1>3, SMT
    <2>2. a - b = 0
      BY <2>1, SmallMultiple
    <2> QED  BY <2>1, <2>2, SMT
  <1>4. x % c \in Int
    BY DivMod
  <1> QED  BY <1>1, <1>2, <1>3, <1>4, Zenon

(* A remainder is unchanged by adding a multiple of the divisor.           *)
LEMMA ModPlusMultiple ==
  ASSUME NEW x \in Int, NEW k \in Int, NEW c \in Nat \ {0}
  PROVE  (x + c * k) % c = x % c
  <1> DEFINE y == x + c * k
  <1>0. c * k \in Int /\ y \in Int
    BY SMT
  <1>1. x = c * (x \div c) + (x % c) /\ x \div c \in Int /\ x % c \in 0..(c - 1)
    BY DivMod
  <1>2. y = c * (y \div c) + (y % c) /\ y \div c \in Int /\ y % c \in 0..(c - 1)
    BY <1>0, DivMod, Zenon
  <1>3. ASSUME NEW a \in Int, NEW b \in Int, NEW r \in 0..(c - 1), NEW s \in 0..(c - 1),
               x = c * a + r, x + c * k = c * b + s
        PROVE  r = s
    <2>1. c * (b - a - k) = r - s
      BY <1>3, SMT
    <2>2. b - a - k = 0
      BY <2>1, SmallMultiple
    <2> QED  BY <2>1, <2>2, SMT
  <1>4. x % c = y % c
    BY <1>1, <1>2, <1>3, Zenon
  <1> QED  BY <1>4

(* Reducing by a multiple of the divisor first makes no difference.        *)
LEMMA ModOfMod ==
  ASSUME NEW x \in Int, NEW d \in Int, NEW c \in Nat \ {0}, NEW w \in Nat \ {0},
         w % c = 0
  PROVE  ((x % w) + d) % c = (x + d) % c
  <1>1. PICK k \in Int : w = c * k
    <2>1. w = c * (w \div c) /\ w \div c \in Int
      BY DivMod
    <2> QED  BY <2>1
  <1>2. PICK q \in Int : q = x \div w /\ x = w * q + (x % w)
    BY DivMod
  <1>3. x % w \in Int
    BY DivMod
  <1>4. x + d = ((x % w) + d) + c * (k * q)
    <2>1. ASSUME NEW r \in Int, x = w * q + r  PROVE x + d = (r + d) + c * (k * q)
      BY <1>1, <2>1, SMT
    <2> QED  BY <1>2, <1>3, <2>1
  <1>5. k * q \in Int /\ (x % w) + d \in Int
    BY <1>3, SMT
  <1>6. ASSUME NEW z \in Int, NEW m \in Int, x + d = z + c * m
        PROVE  z % c = (x + d) % c
    <2>1. (z + c * m) % c = z % c
      BY ModPlusMultiple, Zenon
    <2> QED  BY <1>6, <2>1, Zenon
  <1> QED  BY <1>4, <1>5, <1>6, Zenon

(* The instance with one divisor.                                          *)
LEMMA ModOfModSame ==
  ASSUME NEW x \in Int, NEW d \in Int, NEW c \in Nat \ {0}
  PROVE  ((x % c) + d) % c = (x + d) % c
  <1>1. c % c = 0
    BY SMT
  <1> QED  BY <1>1, ModOfMod, Zenon

(* The same for a subtracted remainder.                                    *)
LEMMA ModOfSubMod ==
  ASSUME NEW x \in Int, NEW d \in Int, NEW c \in Nat \ {0}
  PROVE  (d - (x % c)) % c = (d - x) % c
  <1>1. PICK q \in Int : x = c * q + (x % c)
    BY DivMod, Zenon
  <1>2. x % c \in Int
    BY DivMod
  <1>3. ASSUME NEW r \in Int, x = c * q + r
        PROVE  (d - r) % c = (d - x) % c
    <2>1. d - r = (d - x) + c * q
      BY <1>3, SMT
    <2>2. ((d - x) + c * q) % c = (d - x) % c
      <3>1. d - x \in Int
        BY SMT
      <3> QED  BY <3>1, ModPlusMultiple, Zenon
    <2> QED  BY <2>1, <2>2, Zenon
  <1> QED  BY <1>1, <1>2, <1>3, Zenon

(* A number below the divisor is its own remainder.                        *)
LEMMA ModSmall ==
  ASSUME NEW c \in Nat \ {0}, NEW x \in 0..(c - 1)
  PROVE  x % c = x
  BY SMT

-----------------------------------------------------------------------------
(* The sequence numbers.                                                   *)

\* The offsets of a window that the comparisons can order.
Offsets == 0 .. ((SeqMod \div 2) - 1)

(* The distance of two numbers of a window is that of their offsets,       *)
(* modulo the space.                                                       *)
LEMMA DiffOfOffsets ==
  ASSUME NEW a \in SeqNums, NEW m \in Offsets, NEW n \in Offsets
  PROVE  SeqDiff(SeqAdd(a, n), SeqAdd(a, m)) = (n - m) % SeqMod
  <1>1. SeqMod \in Nat \ {0}
    BY SeqAssumption
  <1>2. SeqMod \div 2 \in Int
    BY <1>1, DivMod
  <1>3. a \in Int /\ m \in Int /\ n \in Int /\ a + n \in Int /\ a + m \in Int
    BY <1>1, <1>2 DEF SeqNums, Offsets
  <1>4. (a + n) % SeqMod \in Int /\ (a + m) % SeqMod \in Int /\ -(a + m) \in Int
    BY <1>1, <1>3, DivMod
  <1>5. (((a + n) % SeqMod) - ((a + m) % SeqMod)) % SeqMod = (((a + n) % SeqMod) - (a + m)) % SeqMod
    BY <1>1, <1>3, <1>4, ModOfSubMod, Zenon
  <1>6. (((a + n) % SeqMod) + (-(a + m))) % SeqMod = ((a + n) + (-(a + m))) % SeqMod
    BY <1>1, <1>3, <1>4, ModOfModSame, Zenon
  <1>7. (a + n) + (-(a + m)) = n - m
    BY <1>3
  <1>8. ASSUME NEW r \in Int PROVE r + (-(a + m)) = r - (a + m)
    BY <1>3
  <1> QED  BY <1>4, <1>5, <1>6, <1>7, <1>8, Zenon DEF SeqDiff, SeqAdd

(* Within half the space: the distance is exact, and its sign decides.     *)
LEMMA DistanceInWindow ==
  ASSUME NEW m \in Offsets, NEW n \in Offsets
  PROVE  /\ m <= n => (n - m) % SeqMod = n - m
         /\ n < m => (n - m) % SeqMod = SeqMod - (m - n)
         /\ SeqMod \in Nat /\ SeqMod \div 2 \in Nat /\ SeqMod = 2 * (SeqMod \div 2)
  <1>1. SeqMod \in Nat \ {0} /\ 2 \in Nat \ {0} /\ SeqMod \in Int /\ SeqMod % 2 = 0
    BY SeqAssumption
  <1>2. SeqMod \div 2 \in Int /\ SeqMod = 2 * (SeqMod \div 2) + (SeqMod % 2)
    BY <1>1, DivMod, Zenon
  <1>3. SeqMod \div 2 \in Nat /\ SeqMod = 2 * (SeqMod \div 2)
    BY <1>1, <1>2
  <1> DEFINE half == SeqMod \div 2
  <1>4. m \in 0 .. (half - 1) /\ n \in 0 .. (half - 1)
    BY DEF Offsets
  <1> HIDE DEF half
  <1>5. half \in Nat /\ SeqMod = 2 * half
    BY <1>3 DEF half
  <1>6. ASSUME m <= n PROVE (n - m) % SeqMod = n - m
    <2>1. n - m \in 0 .. (SeqMod - 1)
      BY <1>1, <1>4, <1>5, <1>6
    <2> QED  BY <1>1, <2>1, ModSmall
  <1>7. ASSUME n < m PROVE (n - m) % SeqMod = SeqMod - (m - n)
    <2>1. SeqMod - (m - n) \in 0 .. (SeqMod - 1) /\ n - m \in Int /\ 1 \in Int
      BY <1>1, <1>4, <1>5, <1>7
    <2>2. ((n - m) + SeqMod * 1) % SeqMod = (n - m) % SeqMod
      BY <1>1, <2>1, ModPlusMultiple, Zenon
    <2>3. (n - m) + SeqMod * 1 = SeqMod - (m - n)
      BY <1>1, <1>4, <1>5
    <2>4. (SeqMod - (m - n)) % SeqMod = SeqMod - (m - n)
      BY <1>1, <2>1, ModSmall
    <2> QED  BY <2>2, <2>3, <2>4
  <1> QED  BY <1>1, <1>3, <1>6, <1>7

(* SeqNum::lt, le, diff and in_range agree with the offsets in a window of *)
(* less than half the space, also where the numbers wrap: this is what     *)
(* every acceptance test and acknowledgement of the engine relies on.      *)
THEOREM WindowOrder ==
  ASSUME NEW a \in SeqNums, NEW m \in Offsets, NEW n \in Offsets
  PROVE  /\ SeqLt(SeqAdd(a, m), SeqAdd(a, n)) <=> m < n
         /\ SeqLe(SeqAdd(a, m), SeqAdd(a, n)) <=> m <= n
         /\ m <= n => SeqDiff(SeqAdd(a, n), SeqAdd(a, m)) = n - m
  <1> DEFINE half == SeqMod \div 2
             d == SeqDiff(SeqAdd(a, n), SeqAdd(a, m))
  <1>1. /\ m <= n => d = n - m
        /\ n < m => d = SeqMod - (m - n)
        /\ SeqMod \in Nat /\ half \in Nat /\ SeqMod = 2 * half
    BY DiffOfOffsets, DistanceInWindow
  <1>2. m \in 0 .. (half - 1) /\ n \in 0 .. (half - 1)
    BY DEF Offsets
  <1>3. SeqLt(SeqAdd(a, m), SeqAdd(a, n)) <=> d # 0 /\ d < half
    BY DEF SeqLt
  <1> HIDE DEF d, half
  <1>4. d # 0 /\ d < half <=> m < n
    BY <1>1, <1>2
  <1>5. SeqAdd(a, m) = SeqAdd(a, n) <=> m = n
    <2>1. ASSUME SeqAdd(a, m) = SeqAdd(a, n) PROVE m = n
      <3>1. a \in Int /\ m \in Int /\ n \in Int /\ SeqMod \in Nat \ {0}
        BY <1>1, <1>2, SeqAssumption DEF SeqNums
      <3>2. (a + m) - (a + n) < SeqMod /\ (a + n) - (a + m) < SeqMod /\ a + m \in Int /\ a + n \in Int
        BY <1>1, <1>2, <3>1
      <3>3. a + m = a + n
        BY <2>1, <3>1, <3>2, ModInjective, Zenon DEF SeqAdd
      <3> QED  BY <3>1, <3>3
    <2> QED  BY <2>1
  <1>6. m \in Int /\ n \in Int /\ (m <= n <=> m = n \/ m < n)
    BY <1>1, <1>2
  <1> QED  BY <1>1, <1>3, <1>4, <1>5, <1>6 DEF SeqLe, d

(* SeqNum::in_range is membership of the window [start, end).              *)
THEOREM InRangeIsMembership ==
  ASSUME NEW a \in SeqNums, NEW m \in Offsets, NEW s \in Offsets, NEW e \in Offsets
  PROVE  SeqInRange(SeqAdd(a, m), SeqAdd(a, s), SeqAdd(a, e)) <=> m \in s .. (e - 1)
  <1>1. /\ SeqLe(SeqAdd(a, s), SeqAdd(a, m)) <=> s <= m
        /\ SeqLt(SeqAdd(a, m), SeqAdd(a, e)) <=> m < e
    BY WindowOrder
  <1>2. SeqMod \div 2 \in Nat
    BY DistanceInWindow
  <1>3. m \in Int /\ s \in Int /\ e \in Int
    BY <1>2 DEF Offsets
  <1> QED  BY <1>1, <1>3 DEF SeqInRange

-----------------------------------------------------------------------------
(* The byte ring.                                                          *)

IInv == TypeOK /\ Reserved /\ ReadStable /\ WriteInPlace

(* The chunked copy visits consecutive positions modulo the capacity.      *)
LEMMA SlotIsMod ==
  ASSUME NEW pos \in Nat, NEW n \in 0..Capacity, NEW i \in 0..(n - 1)
  PROVE  /\ Slot(pos, n, i) = (pos + i) % Capacity
         /\ Slot(pos, n, i) \in 0..(Capacity - 1)
  <1> DEFINE start == pos % Capacity
  <1>0. Capacity \in Nat \ {0}
    BY RingAssumption
  <1>1. start \in 0..(Capacity - 1)
    BY <1>0, DivMod
  <1>2. (start + i) % Capacity = (pos + i) % Capacity
    <2>1. pos \in Int /\ i \in Int
      BY <1>0
    <2> QED  BY <1>0, <2>1, ModOfModSame, Zenon
  <1> HIDE DEF start
  <1>3. CASE i < Lesser(n, Capacity - start)
    <2>1. Slot(pos, n, i) = start + i /\ start + i \in 0..(Capacity - 1)
      BY <1>0, <1>1, <1>3 DEF Slot, Lesser, start
    <2>2. (start + i) % Capacity = start + i
      BY <1>0, <2>1, ModSmall
    <2> QED  BY <1>2, <2>1, <2>2
  <1>4. CASE ~(i < Lesser(n, Capacity - start))
    <2>1. Lesser(n, Capacity - start) = Capacity - start
      BY <1>0, <1>1, <1>4 DEF Lesser
    <2>2. Slot(pos, n, i) = i - (Capacity - start)
      BY <1>4, <2>1 DEF Slot, start
    <2>3. i - (Capacity - start) \in 0..(Capacity - 1)
      BY <1>0, <1>1, <1>4, <2>1
    <2>4. ASSUME NEW r \in 0..(Capacity - 1), start + i = r + Capacity
          PROVE  r = (start + i) % Capacity
      <3>1. (r + Capacity * 1) % Capacity = r % Capacity
        <4>1. r \in Int /\ 1 \in Int
          BY <1>0
        <4> QED  BY <1>0, <4>1, ModPlusMultiple, Zenon
      <3>2. r % Capacity = r
        BY <1>0, ModSmall
      <3>3. Capacity * 1 = Capacity
        BY <1>0
      <3> QED  BY <2>4, <3>1, <3>2, <3>3
    <2>5. start + i = (i - (Capacity - start)) + Capacity
      BY <1>0, <1>1
    <2> QED  BY <1>2, <2>2, <2>3, <2>4, <2>5
  <1> QED  BY <1>3, <1>4

(* The write position is the read position advanced by the content.        *)
LEMMA HeadFromTail ==
  ASSUME TypeOK
  PROVE  /\ Available \in 0..(Word - 1)
         /\ head = (tail + Available) % Word
  <1>0. Word \in Nat \ {0}
    BY RingAssumption
  <1>1. head \in 0..(Word - 1) /\ tail \in 0..(Word - 1)
    BY DEF TypeOK
  <1>2. head - tail \in Int /\ head \in Int /\ tail \in Int
    BY <1>0, <1>1
  <1>3. Available \in 0..(Word - 1)
    <2>1. (head - tail) % Word \in 0..(Word - 1)
      BY <1>0, <1>2, DivMod, Zenon
    <2> QED  BY <2>1 DEF Available, WrappingSub
  <1>4. (((head - tail) % Word) + tail) % Word = ((head - tail) + tail) % Word
    BY <1>0, <1>2, ModOfModSame, Zenon
  <1>5. (head - tail) + tail = head
    BY <1>2
  <1>6. head % Word = head
    BY <1>0, <1>1, ModSmall
  <1>7. tail + Available = ((head - tail) % Word) + tail
    BY <1>2, <1>3 DEF Available, WrappingSub
  <1> QED  BY <1>3, <1>4, <1>5, <1>6, <1>7

(* Publishing a write of n bytes that fits grows the content by n.         *)
LEMMA ContentAfterWrite ==
  ASSUME TypeOK, NEW n \in Nat, Available + n <= Capacity
  PROVE  WrappingSub(WrappingAdd(head, n), tail) = Available + n
  <1>0. Word \in Nat \ {0} /\ Capacity < Word /\ Capacity \in Nat
    BY RingAssumption
  <1>1. head \in Int /\ tail \in Int /\ Available \in 0..(Word - 1)
    BY <1>0, HeadFromTail DEF TypeOK
  <1>2. n \in Int /\ head + n \in Int /\ -tail \in Int /\ head - tail \in Int
    BY <1>1
  <1>3. (((head + n) % Word) + (-tail)) % Word = ((head + n) + (-tail)) % Word
    BY <1>0, <1>2, ModOfModSame, Zenon
  <1>4. (((head - tail) % Word) + n) % Word = ((head - tail) + n) % Word
    BY <1>0, <1>2, ModOfModSame, Zenon
  <1>5. Available + n \in 0..(Word - 1)
    BY <1>0, <1>1
  <1>6. (Available + n) % Word = Available + n
    BY <1>0, <1>5, ModSmall
  <1>7. (head + n) + (-tail) = (head - tail) + n
    BY <1>1
  <1>8. (head + n) % Word \in Int
    BY <1>0, <1>2, DivMod
  <1>9. ((head + n) % Word) + (-tail) = ((head + n) % Word) - tail
    BY <1>1, <1>8
  <1> QED  BY <1>3, <1>4, <1>6, <1>7, <1>9 DEF Available, WrappingSub, WrappingAdd

(* Publishing a read of n bytes that are there shrinks the content by n.   *)
LEMMA ContentAfterRead ==
  ASSUME TypeOK, NEW n \in Nat, n <= Available
  PROVE  WrappingSub(head, WrappingAdd(tail, n)) = Available - n
  <1>0. Word \in Nat \ {0}
    BY RingAssumption
  <1>1. head \in Int /\ tail \in Int /\ Available \in 0..(Word - 1)
    BY <1>0, HeadFromTail DEF TypeOK
  <1>2. tail + n \in Int /\ -n \in Int /\ head - tail \in Int
    BY <1>1
  <1>3. (head - ((tail + n) % Word)) % Word = (head - (tail + n)) % Word
    BY <1>0, <1>1, <1>2, ModOfSubMod, Zenon
  <1>4. (((head - tail) % Word) + (-n)) % Word = ((head - tail) + (-n)) % Word
    BY <1>0, <1>2, ModOfModSame, Zenon
  <1>5. Available + (-n) \in 0..(Word - 1) /\ Available + (-n) = Available - n
    BY <1>0, <1>1
  <1>6. (Available + (-n)) % Word = Available + (-n)
    BY <1>0, <1>5, ModSmall
  <1>7. head - (tail + n) = (head - tail) + (-n)
    BY <1>1
  <1> QED  BY <1>3, <1>4, <1>5, <1>6, <1>7 DEF Available, WrappingSub, WrappingAdd

(* A position a given distance behind the write position, taken modulo the *)
(* capacity, is as far behind the read position plus the content.          *)
LEMMA SlotFromTail ==
  ASSUME TypeOK, NEW i \in Nat
  PROVE  (head + i) % Capacity = (tail + Available + i) % Capacity
  <1>0. /\ Capacity \in Nat \ {0} /\ Word \in Nat \ {0} /\ Word % Capacity = 0
        /\ head \in Nat /\ tail \in Nat
    BY RingAssumption DEF TypeOK
  <1>1. Available \in Nat /\ head = (tail + Available) % Word
    BY <1>0, HeadFromTail
  <1>2. tail + Available \in Int /\ i \in Int
    BY <1>0, <1>1
  <1>3. ASSUME NEW x \in Int, NEW d \in Int
        PROVE  ((x % Word) + d) % Capacity = (x + d) % Capacity
    <2>1. \A c, w \in Nat \ {0} : w % c = 0 => ((x % w) + d) % c = (x + d) % c
      BY ModOfMod, Zenon
    <2> QED  BY <1>0, <2>1, Zenon
  <1>4. (((tail + Available) % Word) + i) % Capacity = ((tail + Available) + i) % Capacity
    BY <1>2, <1>3, Zenon
  <1> QED  BY <1>1, <1>4

(* The room a write has reserved lies outside the content.                 *)
LEMMA RoomOutsideContent ==
  ASSUME TypeOK, Reserved, NEW i \in 0..(prod.n - 1), NEW j \in 0..(Available - 1)
  PROVE  (head + i) % Capacity # (tail + j) % Capacity
  <1>0. /\ Capacity \in Nat \ {0} /\ Word \in Nat \ {0}
        /\ head \in Nat /\ tail \in Nat
        /\ prod.n \in 0..Capacity
    BY RingAssumption DEF TypeOK, Transfer
  <1>1. Available \in Nat
    BY <1>0, HeadFromTail
  <1>2. i \in Nat /\ j \in Nat /\ i < prod.n /\ j < Available
    BY <1>0, <1>1
  <1>3. (head + i) % Capacity = (tail + Available + i) % Capacity
    BY <1>2, SlotFromTail
  <1>4. /\ tail + Available + i \in Int /\ tail + j \in Int
        /\ (tail + Available + i) - (tail + j) < Capacity
        /\ (tail + j) - (tail + Available + i) < Capacity
        /\ tail + Available + i # tail + j
    BY <1>0, <1>1, <1>2 DEF Reserved
  <1>5. (tail + Available + i) % Capacity # (tail + j) % Capacity
    BY <1>0, <1>4, ModInjective, Zenon
  <1> QED  BY <1>3, <1>5

(* The reservations keep the slots of the two threads apart.               *)
LEMMA ReservedNoRace ==
  ASSUME TypeOK, Reserved
  PROVE  NoCopyRace
  <1> SUFFICES ASSUME NEW i \in 0..(prod.n - 1), NEW j \in 0..(cons.n - 1)
               PROVE  Slot(head, prod.n, i) # Slot(tail, cons.n, j)
    BY DEF NoCopyRace
  <1>0. /\ Capacity \in Nat \ {0} /\ head \in Nat /\ tail \in Nat
        /\ prod.n \in 0..Capacity /\ cons.n \in 0..Capacity
    BY RingAssumption DEF TypeOK, Transfer
  <1>1. Available \in Nat
    BY <1>0, RingAssumption, HeadFromTail
  <1>2. Slot(head, prod.n, i) = (head + i) % Capacity
    BY <1>0, SlotIsMod, Zenon
  <1>3. Slot(tail, cons.n, j) = (tail + j) % Capacity
    BY <1>0, SlotIsMod, Zenon
  <1>4. j \in 0..(Available - 1)
    BY <1>0, <1>1 DEF Reserved
  <1>5. (head + i) % Capacity # (tail + j) % Capacity
    BY <1>4, RoomOutsideContent
  <1> QED  BY <1>2, <1>3, <1>5

(* The bytes of one write go to different slots.                           *)
LEMMA SlotsOfWriteDiffer ==
  ASSUME NEW pos \in Nat, NEW n \in 0..Capacity,
         NEW i \in 0..(n - 1), NEW j \in 0..(n - 1), i # j
  PROVE  Slot(pos, n, i) # Slot(pos, n, j)
  <1>0. Capacity \in Nat \ {0}
    BY RingAssumption
  <1>1. Slot(pos, n, i) = (pos + i) % Capacity
    BY SlotIsMod, Zenon
  <1>2. Slot(pos, n, j) = (pos + j) % Capacity
    BY SlotIsMod, Zenon
  <1>3. /\ pos + i \in Int /\ pos + j \in Int /\ pos + i # pos + j
        /\ (pos + i) - (pos + j) < Capacity /\ (pos + j) - (pos + i) < Capacity
    BY <1>0
  <1>4. (pos + i) % Capacity # (pos + j) % Capacity
    BY <1>0, <1>3, ModInjective, Zenon
  <1> QED  BY <1>1, <1>2, <1>4

(* The inductive invariant holds when the ring is created.                 *)
LEMMA InitIInv == Init => IInv
  <1> SUFFICES ASSUME Init PROVE IInv
    OBVIOUS
  <1>0. Capacity \in Nat \ {0} /\ Word \in Nat \ {0} /\ ZeroByte \in Byte
    BY RingAssumption
  <1>1. TypeOK
    BY <1>0 DEF Init, TypeOK, Transfer, Idle
  <1>2. Available = 0
    <2>1. 0 % Word = 0
      BY <1>0, ModSmall
    <2> QED  BY <2>1 DEF Init, Available, WrappingSub
  <1>3. Reserved
    BY <1>0, <1>2 DEF Init, Reserved, Idle
  <1>4. ReadStable /\ WriteInPlace
    BY DEF Init, ReadStable, WriteInPlace, Idle
  <1> QED  BY <1>1, <1>3, <1>4 DEF IInv

(* Every step of either thread preserves the inductive invariant.          *)
LEMMA NextIInv == IInv /\ [Next]_vars => IInv'
  <1> SUFFICES ASSUME IInv, [Next]_vars PROVE IInv'
    OBVIOUS
  <1> USE DEF IInv
  <1>0. /\ Capacity \in Nat \ {0} /\ Word \in Nat \ {0} /\ MaxLen \in Nat
        /\ head \in 0..(Word - 1) /\ tail \in 0..(Word - 1)
        /\ Available \in Nat
    BY RingAssumption, HeadFromTail DEF TypeOK
  <1>1. CASE WriteBegin
    <2>1. PICK data \in Slices :
            LET n == Lesser(Len(data), FreeSpace)
            IN  IF n = 0 THEN wrote' = <<>> /\ UNCHANGED prod
                ELSE /\ prod' = [op |-> "write", bytes |-> data, n |-> n, i |-> 0]
                     /\ UNCHANGED wrote
      BY <1>1 DEF WriteBegin
    <2>2. data \in Seq(Byte) /\ Len(data) \in Nat
      BY <1>0 DEF Slices
    <2>3. UNCHANGED <<buf, head, tail, cons, got>> /\ prod.op = "none"
      BY <1>1 DEF WriteBegin
    <2>4. Available' = Available
      BY <2>3 DEF Available, WrappingSub
    <2>5. CASE Lesser(Len(data), FreeSpace) = 0
      BY <2>1, <2>3, <2>4, <2>5 DEF TypeOK, Reserved, ReadStable, WriteInPlace, Slot
    <2>6. CASE Lesser(Len(data), FreeSpace) # 0
      <3>1. FreeSpace = Capacity - Available
        BY DEF FreeSpace, Available
      <3>2. PICK n \in 1..Capacity :
              /\ n <= Len(data) /\ Available + n <= Capacity
              /\ prod' = [op |-> "write", bytes |-> data, n |-> n, i |-> 0]
              /\ UNCHANGED wrote
        <4>1. Available <= Capacity
          BY <1>0 DEF Reserved, TypeOK, Transfer
        <4> QED  BY <1>0, <2>1, <2>2, <2>6, <3>1, <4>1 DEF Lesser
      <3>3. TypeOK'
        BY <1>0, <2>2, <2>3, <3>2, SMTT(30) DEF TypeOK, Transfer
      <3>4. Reserved'
        BY <2>3, <2>4, <3>2 DEF Reserved
      <3>5. ReadStable' /\ WriteInPlace'
        BY <2>3, <3>2 DEF ReadStable, WriteInPlace, Slot
      <3> QED  BY <3>3, <3>4, <3>5
    <2> QED  BY <2>5, <2>6
  <1>2. CASE WriteCopy
    <2>1. NoCopyRace
      BY ReservedNoRace
    <2>2. /\ prod.op = "write" /\ prod.i < prod.n
          /\ buf' = [buf EXCEPT ![Slot(head, prod.n, prod.i)] = prod.bytes[prod.i + 1]]
          /\ prod' = [prod EXCEPT !.i = @ + 1]
          /\ UNCHANGED <<head, tail, cons, wrote, got>>
      BY <1>2 DEF WriteCopy
    <2>3. prod.n \in 0..Capacity /\ prod.i \in 0..(prod.n - 1)
      BY <1>0, <2>2 DEF TypeOK, Transfer
    <2>4. prod.bytes[prod.i + 1] \in Byte
      BY <1>0, <2>3 DEF TypeOK, Transfer
    <2>5. TypeOK'
      <3>1. Slot(head, prod.n, prod.i) \in 0..(Capacity - 1)
        <4>1. head \in Nat
          BY <1>0
        <4> QED  BY <2>3, <4>1, SlotIsMod, Zenon
      <3>2. buf' \in [0..(Capacity - 1) -> Byte]
        BY <2>2, <2>4, <3>1 DEF TypeOK
      <3>3. prod' = [op |-> prod.op, bytes |-> prod.bytes, n |-> prod.n,
                     i |-> prod.i + 1]
        BY <2>2, Zenon DEF TypeOK, Transfer
      <3>4. prod.i + 1 \in 0..prod.n
        BY <1>0, <2>3
      <3>5. prod.op \in {"none", "write"} /\ prod.bytes \in Seq(Byte)
        BY DEF TypeOK, Transfer
      <3>6. /\ prod' \in Transfer({"none", "write"})
            /\ prod'.i <= prod'.n /\ prod'.n <= Len(prod'.bytes)
        BY <1>0, <2>3, <3>3, <3>4, <3>5 DEF TypeOK, Transfer
      <3> QED  BY <2>2, <3>2, <3>6 DEF TypeOK
    <2>6. Available' = Available
      BY <2>2 DEF Available, WrappingSub
    <2>7. Reserved'
      BY <2>2, <2>6 DEF Reserved, TypeOK, Transfer
    <2>8. ReadStable'
      <3> SUFFICES ASSUME NEW k \in 1..cons.i
                   PROVE  cons.bytes[k] = buf'[Slot(tail, cons.n, k - 1)]
        BY <2>2 DEF ReadStable, Slot
      <3>1. k - 1 \in 0..(cons.n - 1) /\ cons.n \in 0..Capacity /\ tail \in Nat
        BY <1>0 DEF TypeOK, Transfer
      <3>2. Slot(tail, cons.n, k - 1) \in 0..(Capacity - 1)
        BY <3>1, SlotIsMod, SMTT(30)
      <3>3. Slot(tail, cons.n, k - 1) # Slot(head, prod.n, prod.i)
        BY <2>1, <2>3, <3>1 DEF NoCopyRace
      <3>4. buf'[Slot(tail, cons.n, k - 1)] = buf[Slot(tail, cons.n, k - 1)]
        BY <2>2, <3>2, <3>3 DEF TypeOK
      <3> QED  BY <3>4 DEF ReadStable
    <2>9. WriteInPlace'
      <3>1. prod'.n = prod.n /\ prod'.bytes = prod.bytes /\ prod'.i = prod.i + 1
        BY <2>2 DEF TypeOK, Transfer
      <3> SUFFICES ASSUME NEW k \in 1..(prod.i + 1)
                   PROVE  buf'[Slot(head, prod.n, k - 1)] = prod.bytes[k]
        BY <2>2, <3>1 DEF WriteInPlace, Slot
      <3>2. k - 1 \in 0..(prod.n - 1) /\ k \in 1..prod.n /\ head \in Nat
        BY <1>0, <2>3
      <3>3. Slot(head, prod.n, k - 1) \in 0..(Capacity - 1)
        BY <2>3, <3>2, SlotIsMod, Zenon
      <3>4. CASE k = prod.i + 1
        <4>1. k - 1 = prod.i
          BY <2>3, <3>4
        <4> QED  BY <2>2, <3>3, <3>4, <4>1 DEF TypeOK
      <3>5. CASE k # prod.i + 1
        <4>1. k \in 1..prod.i /\ k - 1 # prod.i
          BY <2>3, <3>5
        <4>2. Slot(head, prod.n, k - 1) # Slot(head, prod.n, prod.i)
          BY <2>3, <3>2, <4>1, SlotsOfWriteDiffer
        <4>3. buf'[Slot(head, prod.n, k - 1)] = buf[Slot(head, prod.n, k - 1)]
          BY <2>2, <3>3, <4>2 DEF TypeOK
        <4> QED  BY <4>1, <4>3 DEF WriteInPlace
      <3> QED  BY <3>4, <3>5
    <2> QED  BY <2>5, <2>7, <2>8, <2>9
  <1>3. CASE WritePublish
    <2>1. prod.n \in Nat /\ Available + prod.n <= Capacity
      BY <1>0 DEF TypeOK, Transfer, Reserved
    <2>2. Available' = Available + prod.n
      BY <1>3, <2>1, ContentAfterWrite DEF WritePublish, Available, WrappingSub
    <2>3. head' \in 0..(Word - 1)
      <3>1. head + prod.n \in Int
        BY <1>0, <2>1
      <3>2. (head + prod.n) % Word \in 0..(Word - 1)
        BY <1>0, <3>1, DivMod, Zenon
      <3> QED  BY <1>3, <3>2 DEF WritePublish, WrappingAdd
    <2>4. SubSeq(prod.bytes, 1, prod.n) \in Seq(Byte)
      BY <2>1 DEF TypeOK, Transfer
    <2>5. TypeOK'
      BY <1>0, <1>3, <2>3, <2>4 DEF WritePublish, TypeOK, Transfer, Idle
    <2>6. Reserved'
      BY <1>0, <1>3, <2>1, <2>2, SMTT(30) DEF WritePublish, Reserved, Idle, TypeOK, Transfer
    <2>7. ReadStable' /\ WriteInPlace'
      BY <1>3 DEF WritePublish, ReadStable, WriteInPlace, Slot, Idle
    <2> QED  BY <2>5, <2>6, <2>7
  <1>4. ASSUME NEW op \in {"read", "peek"}, ReadBegin(op)
        PROVE  IInv'
    <2>1. /\ UNCHANGED <<buf, head, tail, prod, wrote>> /\ cons.op = "none"
          /\ cons = Idle
      BY <1>4 DEF ReadBegin, Reserved
    <2>2. Available' = Available
      BY <2>1 DEF Available, WrappingSub
    <2>3. CASE UNCHANGED cons /\ got' = <<>>
      BY <2>1, <2>2, <2>3 DEF TypeOK, Reserved, ReadStable, WriteInPlace, Slot
    <2>4. CASE ~(UNCHANGED cons /\ got' = <<>>)
      <3>0. Available <= Capacity
        BY <1>0, SMTT(30) DEF Reserved, TypeOK, Transfer
      <3>1. PICK n \in 1..Capacity :
              /\ n <= Available
              /\ cons' = [op |-> op, bytes |-> <<>>, n |-> n, i |-> 0]
              /\ UNCHANGED got
        BY <1>0, <1>4, <2>4, <3>0 DEF ReadBegin, Lesser
      <3>2. TypeOK'
        BY <1>0, <2>1, <3>1 DEF TypeOK, Transfer
      <3>3. Reserved'
        BY <2>1, <2>2, <3>1 DEF Reserved
      <3>4. ReadStable' /\ WriteInPlace'
        BY <2>1, <3>1 DEF ReadStable, WriteInPlace, Slot
      <3> QED  BY <3>2, <3>3, <3>4
    <2> QED  BY <2>3, <2>4
  <1>5. CASE ReadCopy
    <2> DEFINE b == buf[Slot(tail, cons.n, cons.i)]
    <2>1. /\ cons.op # "none" /\ cons.i < cons.n
          /\ cons' = [cons EXCEPT !.bytes = Append(@, b), !.i = @ + 1]
          /\ UNCHANGED <<buf, head, tail, prod, wrote, got>>
      BY <1>5 DEF ReadCopy
    <2>2. cons.n \in 0..Capacity /\ cons.i \in 0..(cons.n - 1) /\ tail \in Nat
      BY <1>0, <2>1, SMTT(30) DEF TypeOK, Transfer
    <2>3. b \in Byte
      BY <2>2, SlotIsMod, Zenon DEF TypeOK
    <2> HIDE DEF b
    <2>4. cons.bytes \in Seq(Byte) /\ Len(cons.bytes) = cons.i
      BY DEF TypeOK, Transfer
    <2>5. cons'.bytes = Append(cons.bytes, b) /\ cons'.i = cons.i + 1 /\ cons'.n = cons.n
          /\ cons'.op = cons.op
      BY <2>1 DEF TypeOK, Transfer
    <2>6. TypeOK'
      <3>1. cons' \in Transfer({"none", "read", "peek"})
        <4>1. cons' = [op |-> cons.op, bytes |-> Append(cons.bytes, b),
                       n |-> cons.n, i |-> cons.i + 1]
          BY <2>1, Zenon DEF TypeOK, Transfer
        <4>2. Append(cons.bytes, b) \in Seq(Byte) /\ cons.i + 1 \in 0..Capacity
          BY <1>0, <2>2, <2>3, <2>4
        <4>3. cons.op \in {"none", "read", "peek"}
          BY DEF TypeOK, Transfer
        <4> QED  BY <2>2, <4>1, <4>2, <4>3 DEF Transfer
      <3> QED  BY <1>0, <2>1, <2>2, <2>3, <2>4, <2>5, <3>1, SMTT(30) DEF TypeOK
    <2>7. Available' = Available
      BY <2>1 DEF Available, WrappingSub
    <2>8. Reserved'
      BY <2>1, <2>5, <2>7 DEF Reserved
    <2>9. ReadStable'
      <3> SUFFICES ASSUME NEW k \in 1..(cons.i + 1)
                   PROVE  Append(cons.bytes, b)[k] = buf[Slot(tail, cons.n, k - 1)]
        BY <2>1, <2>5, Zenon DEF ReadStable, Slot
      <3>1. CASE k = cons.i + 1
        BY <2>2, <2>4, <3>1 DEF b
      <3>2. CASE k # cons.i + 1
        <4>1. k \in 1..cons.i
          BY <2>2, <3>2
        <4>2. Append(cons.bytes, b)[k] = cons.bytes[k]
          BY <2>2, <2>4, <4>1
        <4> QED  BY <4>1, <4>2 DEF ReadStable
      <3> QED  BY <3>1, <3>2, Zenon
    <2>10. WriteInPlace'
      BY <2>1 DEF WriteInPlace, Slot
    <2> QED  BY <2>6, <2>8, <2>9, <2>10
  <1>6. CASE ReadPublish
    <2>1. cons.n \in Nat /\ cons.n <= Available
      BY <1>0 DEF TypeOK, Transfer, Reserved
    <2>2. Available' = Available - cons.n
      BY <1>6, <2>1, ContentAfterRead DEF ReadPublish, Available, WrappingSub
    <2>3. tail' \in 0..(Word - 1)
      <3>1. tail + cons.n \in Int
        BY <1>0, <2>1
      <3>2. (tail + cons.n) % Word \in 0..(Word - 1)
        BY <1>0, <3>1, DivMod, Zenon
      <3> QED  BY <1>6, <3>2 DEF ReadPublish, WrappingAdd
    <2>4. TypeOK'
      BY <1>0, <1>6, <2>3 DEF ReadPublish, TypeOK, Transfer, Idle
    <2>5. Reserved'
      BY <1>0, <1>6, <2>1, <2>2, SMTT(30) DEF ReadPublish, Reserved, Idle, TypeOK, Transfer
    <2>6. ReadStable' /\ WriteInPlace'
      BY <1>6 DEF ReadPublish, ReadStable, WriteInPlace, Slot, Idle
    <2> QED  BY <2>4, <2>5, <2>6
  <1>7. CASE PeekReturn
    <2>1. Available' = Available
      BY <1>7 DEF PeekReturn, Available, WrappingSub
    <2>2. TypeOK'
      BY <1>0, <1>7 DEF PeekReturn, TypeOK, Transfer, Idle
    <2>3. Reserved'
      BY <1>0, <1>7, <2>1 DEF PeekReturn, Reserved, Idle
    <2>4. ReadStable' /\ WriteInPlace'
      BY <1>7 DEF PeekReturn, ReadStable, WriteInPlace, Slot, Idle
    <2> QED  BY <2>2, <2>3, <2>4
  <1>8. CASE UNCHANGED vars
    BY <1>8 DEF vars, TypeOK, Reserved, ReadStable, WriteInPlace, Available, WrappingSub, Slot
  <1> QED  BY <1>1, <1>2, <1>3, <1>4, <1>5, <1>6, <1>7, <1>8 DEF Next

(* SpscByteRing is type correct: positions stay machine words and no       *)
(* transfer exceeds the ring, for every capacity and word size.            *)
THEOREM TypeCorrect == Spec => []TypeOK
  <1>1. IInv => TypeOK
    BY DEF IInv
  <1> QED  BY <1>1, InitIInv, NextIInv, PTL DEF Spec

(* The unsafe copies of write and read never touch the same slot.          *)
THEOREM CopiesNeverRace == Spec => []NoCopyRace
  <1>1. IInv => NoCopyRace
    BY ReservedNoRace DEF IInv
  <1> QED  BY <1>1, InitIInv, NextIInv, PTL DEF Spec

(* What a read or peek has copied is never overwritten before it returns.  *)
THEOREM ReadsAreStable == Spec => []ReadStable
  <1>1. IInv => ReadStable
    BY DEF IInv
  <1> QED  BY <1>1, InitIInv, NextIInv, PTL DEF Spec

(* What a write has copied is where the reader will look for it when the   *)
(* write is published.                                                     *)
THEOREM WritesAreInPlace == Spec => []WriteInPlace
  <1>1. IInv => WriteInPlace
    BY DEF IInv
  <1> QED  BY <1>1, InitIInv, NextIInv, PTL DEF Spec

-----------------------------------------------------------------------------
(* The refinement: the queue is the bytes between tail and head.           *)

ContentOK ==
  /\ Available \in 0..Capacity
  /\ Content \in Seq(Byte)
  /\ Len(Content) = Available
  /\ \A i \in 1..Available : Content[i] = buf[(tail + (i - 1)) % Capacity]

(* The content is a sequence of bytes that fits the ring.                  *)
LEMMA ContentIsSequence == IInv => ContentOK
  <1> SUFFICES ASSUME IInv PROVE ContentOK
    OBVIOUS
  <1>0. Capacity \in Nat \ {0} /\ tail \in Nat /\ prod.n \in Nat
    BY RingAssumption DEF IInv, TypeOK, Transfer
  <1>1. Available \in Nat
    BY HeadFromTail, RingAssumption DEF IInv
  <1>2. Available \in 0..Capacity
    BY <1>0, <1>1 DEF IInv, Reserved
  <1>3. ASSUME NEW i \in 1..Available
        PROVE  /\ Content[i] = buf[(tail + (i - 1)) % Capacity]
               /\ Content[i] \in Byte
    <2>1. tail + i - 1 = tail + (i - 1) /\ tail + (i - 1) \in Int
      BY <1>0, <1>1
    <2>2. (tail + (i - 1)) % Capacity \in 0..(Capacity - 1)
      BY <1>0, <2>1, DivMod, Zenon
    <2>3. buf \in [0..(Capacity - 1) -> Byte]
      BY DEF IInv, TypeOK
    <2>4. Content[i] = buf[(tail + i - 1) % Capacity]
      BY DEF Content
    <2> QED  BY <2>1, <2>2, <2>3, <2>4
  <1>4. Content \in [1..Available -> Byte]
    BY <1>3 DEF Content
  <1> QED  BY <1>1, <1>2, <1>3, <1>4 DEF ContentOK

(* The same in the next state.                                             *)
LEMMA NextContentIsSequence == IInv' => ContentOK'
  BY ContentIsSequence, PTL

(* Sequences of equal length with equal elements are equal.                *)
LEMMA SameElements ==
  ASSUME NEW S, NEW s \in Seq(S), NEW t \in Seq(S), Len(s) = Len(t),
         \A i \in 1..Len(s) : s[i] = t[i]
  PROVE  s = t
  BY SMT

(* The elements of a concatenation.                                        *)
LEMMA ConcatElements ==
  ASSUME NEW S, NEW s \in Seq(S), NEW t \in Seq(S)
  PROVE  /\ s \o t \in Seq(S)
         /\ Len(s \o t) = Len(s) + Len(t)
         /\ \A i \in 1..Len(s) : (s \o t)[i] = s[i]
         /\ \A j \in 1..Len(t) : (s \o t)[Len(s) + j] = t[j]
  BY SMT

(* The elements of a prefix.                                               *)
LEMMA PrefixElements ==
  ASSUME NEW S, NEW s \in Seq(S), NEW n \in 0..Len(s)
  PROVE  /\ SubSeq(s, 1, n) \in Seq(S)
         /\ Len(SubSeq(s, 1, n)) = n
         /\ \A i \in 1..n : SubSeq(s, 1, n)[i] = s[i]
  BY SMT

(* The elements of a suffix.                                               *)
LEMMA SuffixElements ==
  ASSUME NEW S, NEW s \in Seq(S), NEW n \in 0..Len(s)
  PROVE  /\ SubSeq(s, n + 1, Len(s)) \in Seq(S)
         /\ Len(SubSeq(s, n + 1, Len(s))) = Len(s) - n
         /\ \A i \in 1..(Len(s) - n) : SubSeq(s, n + 1, Len(s))[i] = s[n + i]
  BY SMT

(* The content when head, tail and the content's slots do not change.      *)
LEMMA SameContent ==
  ASSUME IInv, IInv', UNCHANGED <<head, tail>>,
         \A i \in 1..Available :
           buf'[(tail + (i - 1)) % Capacity] = buf[(tail + (i - 1)) % Capacity]
  PROVE  Content' = Content
  <1>1. Available' = Available
    BY DEF Available, WrappingSub
  <1>2. /\ Content \in Seq(Byte) /\ Len(Content) = Available
        /\ \A i \in 1..Available : Content[i] = buf[(tail + (i - 1)) % Capacity]
    BY ContentIsSequence DEF ContentOK
  <1>3. /\ Content' \in Seq(Byte) /\ Len(Content') = Available'
        /\ \A i \in 1..Available' : Content'[i] = buf'[(tail' + (i - 1)) % Capacity]
    BY NextContentIsSequence DEF ContentOK
  <1>4. \A i \in 1..Available : Content'[i] = Content[i]
    BY <1>1, <1>2, <1>3
  <1> QED  BY <1>1, <1>2, <1>3, <1>4, SameElements

(* Beginning an operation changes nothing the queue shows, unless there is *)
(* nothing to transfer: then the queue is full, or empty.                  *)
LEMMA WriteBeginStep ==
  ASSUME IInv, IInv', WriteBegin
  PROVE  Queue!WriteNothing \/ UNCHANGED Queue!vars
  <1>1. Content' = Content /\ UNCHANGED got
    BY SameContent DEF WriteBegin
  <1>2. PICK data \in Slices :
          LET n == Lesser(Len(data), FreeSpace)
          IN  IF n = 0 THEN wrote' = <<>> /\ UNCHANGED prod
              ELSE /\ prod' = [op |-> "write", bytes |-> data, n |-> n, i |-> 0]
                   /\ UNCHANGED wrote
    BY DEF WriteBegin
  <1>3. Len(data) \in Nat /\ Len(data) # 0
    BY RingAssumption DEF Slices
  <1>4. Available \in 0..Capacity /\ Len(Content) = Available /\ Capacity \in Nat
    BY ContentIsSequence, RingAssumption DEF ContentOK
  <1>5. CASE Lesser(Len(data), FreeSpace) = 0
    <2>1. Len(Content) = Capacity
      BY <1>3, <1>4, <1>5 DEF Lesser, FreeSpace, Available
    <2> QED  BY <1>1, <1>2, <1>5, <2>1 DEF Queue!WriteNothing
  <1>6. CASE Lesser(Len(data), FreeSpace) # 0
    BY <1>1, <1>2, <1>6 DEF Queue!vars
  <1> QED  BY <1>5, <1>6

(* A byte a write copies is not in the content yet.                        *)
LEMMA WriteCopyStep ==
  ASSUME IInv, IInv', WriteCopy
  PROVE  UNCHANGED Queue!vars
  <1>0. /\ Capacity \in Nat \ {0} /\ head \in Nat /\ tail \in Nat
        /\ prod.n \in 0..Capacity /\ prod.i \in 0..(prod.n - 1)
    BY RingAssumption DEF IInv, TypeOK, Transfer, WriteCopy
  <1>1. Available \in 0..Capacity
    BY ContentIsSequence DEF ContentOK
  <1>2. Slot(head, prod.n, prod.i) = (head + prod.i) % Capacity
    BY <1>0, SlotIsMod, Zenon
  <1>3. ASSUME NEW i \in 1..Available
        PROVE  buf'[(tail + (i - 1)) % Capacity] = buf[(tail + (i - 1)) % Capacity]
    <2>1. i - 1 \in 0..(Available - 1)
      BY <1>1
    <2>2. (head + prod.i) % Capacity # (tail + (i - 1)) % Capacity
      BY <1>0, <2>1, RoomOutsideContent DEF IInv
    <2> QED  BY <1>2, <2>2 DEF WriteCopy, IInv, TypeOK
  <1>4. Content' = Content
    BY <1>3, SameContent DEF WriteCopy
  <1> QED  BY <1>4 DEF WriteCopy, Queue!vars

(* Publishing a write appends the bytes it copied to the content.          *)
LEMMA WritePublishStep ==
  ASSUME IInv, IInv', WritePublish
  PROVE  Queue!Write
  <1> DEFINE n == prod.n
             bytes == SubSeq(prod.bytes, 1, n)
  <1>0. /\ Capacity \in Nat \ {0} /\ head \in Nat /\ tail \in Nat
        /\ n \in 1..Capacity /\ prod.i = n
        /\ prod.bytes \in Seq(Byte) /\ n <= Len(prod.bytes)
        /\ Available + n <= Capacity
    BY RingAssumption, SMTT(30) DEF IInv, TypeOK, Reserved, Transfer, WritePublish
  <1>1. /\ Available \in 0..Capacity /\ Content \in Seq(Byte) /\ Len(Content) = Available
        /\ \A i \in 1..Available : Content[i] = buf[(tail + (i - 1)) % Capacity]
    BY ContentIsSequence DEF ContentOK
  <1>2. Available' = Available + n
    BY <1>0, ContentAfterWrite DEF WritePublish, Available, IInv
  <1>3. /\ Content' \in Seq(Byte) /\ Len(Content') = Available + n
        /\ \A i \in 1..(Available + n) : Content'[i] = buf[(tail + (i - 1)) % Capacity]
    BY <1>2, NextContentIsSequence DEF ContentOK, WritePublish
  <1>4. /\ bytes \in Seq(Byte) /\ Len(bytes) = n
        /\ \A j \in 1..n : bytes[j] = prod.bytes[j]
        /\ bytes \in [1..n -> Byte]
    <2>1. n \in 0..Len(prod.bytes)
      BY <1>0
    <2>2. /\ bytes \in Seq(Byte) /\ Len(bytes) = n
          /\ \A j \in 1..n : bytes[j] = prod.bytes[j]
      BY <1>0, <2>1, PrefixElements
    <2> HIDE DEF bytes, n
    <2> QED  BY <2>2
  <1> HIDE DEF bytes, n
  <1>5. ASSUME NEW j \in 1..n
        PROVE  bytes[j] = Content'[Available + j]
    <2>1. j - 1 \in 0..(n - 1) /\ j - 1 \in Nat /\ n \in 0..Capacity
      BY <1>0
    <2>2. bytes[j] = buf[Slot(head, n, j - 1)]
      BY <1>0, <1>4 DEF IInv, WriteInPlace, n
    <2>3. Slot(head, n, j - 1) = (head + (j - 1)) % Capacity
      BY <1>0, <2>1, SlotIsMod, Zenon
    <2>4. (head + (j - 1)) % Capacity = (tail + Available + (j - 1)) % Capacity
      BY <2>1, SlotFromTail DEF IInv
    <2>5. /\ Available + j \in 1..(Available + n)
          /\ tail + Available + (j - 1) = tail + ((Available + j) - 1)
      BY <1>0, <1>1
    <2> QED  BY <1>3, <2>2, <2>3, <2>4, <2>5
  <1>6. /\ Content \o bytes \in Seq(Byte) /\ Len(Content \o bytes) = Available + n
        /\ \A i \in 1..Available : (Content \o bytes)[i] = Content[i]
        /\ \A j \in 1..n : (Content \o bytes)[Available + j] = bytes[j]
    <2>0. Content \in Seq(Byte) /\ bytes \in Seq(Byte)
      BY <1>1, <1>4
    <2>1. /\ Content \o bytes \in Seq(Byte)
          /\ Len(Content \o bytes) = Len(Content) + Len(bytes)
          /\ \A i \in 1..Len(Content) : (Content \o bytes)[i] = Content[i]
          /\ \A j \in 1..Len(bytes) : (Content \o bytes)[Len(Content) + j] = bytes[j]
      BY <2>0, ConcatElements
    <2> QED  BY <1>1, <1>4, <2>1, Zenon
  <1>7. ASSUME NEW i \in 1..(Available + n)
        PROVE  Content'[i] = (Content \o bytes)[i]
    <2>0. i \in Nat /\ Available \in Nat /\ i >= 1
      BY <1>0, <1>1
    <2>1. CASE i <= Available
      <3>1. i \in 1..Available
        BY <2>0, <2>1
      <3> QED  BY <1>1, <1>3, <1>6, <3>1, Zenon
    <2>2. CASE i > Available
      <3>1. PICK j \in 1..n : i = Available + j
        <4>1. i - Available \in 1..n /\ i = Available + (i - Available)
          BY <1>0, <1>1, <2>2
        <4> QED  BY <4>1
      <3> QED  BY <1>5, <1>6, <3>1
    <2>3. i <= Available \/ i > Available
      BY <2>0
    <2> QED  BY <2>1, <2>2, <2>3, Zenon
  <1>8. Content' = Content \o bytes
    BY <1>3, <1>6, <1>7, SameElements
  <1>9. wrote' = bytes /\ UNCHANGED got
    BY DEF WritePublish, bytes, n
  <1>10. Len(Content) + n <= Capacity
    BY <1>0, <1>1
  <1> QED  BY <1>0, <1>4, <1>8, <1>9, <1>10, Zenon DEF Queue!Write

(* Beginning a read or a peek, likewise.                                   *)
LEMMA ReadBeginStep ==
  ASSUME IInv, IInv', NEW op, ReadBegin(op)
  PROVE  Queue!ReadNothing \/ UNCHANGED Queue!vars
  <1>1. Content' = Content /\ UNCHANGED wrote
    BY SameContent DEF ReadBegin
  <1>2. PICK len \in 1..MaxLen :
          LET n == Lesser(len, Available)
          IN  IF n = 0 THEN got' = <<>> /\ UNCHANGED cons
              ELSE /\ cons' = [op |-> op, bytes |-> <<>>, n |-> n, i |-> 0]
                   /\ UNCHANGED got
    BY DEF ReadBegin
  <1>3. /\ Available \in Nat /\ Content \in Seq(Byte) /\ Len(Content) = Available
        /\ len \in Nat /\ len # 0
    BY ContentIsSequence, RingAssumption DEF ContentOK
  <1>4. CASE Lesser(len, Available) = 0
    <2>1. Content = <<>>
      <3>1. Len(Content) = 0
        BY <1>3, <1>4 DEF Lesser
      <3> QED  BY <1>3, <3>1
    <2> QED  BY <1>1, <1>2, <1>4, <2>1 DEF Queue!ReadNothing
  <1>5. CASE Lesser(len, Available) # 0
    BY <1>1, <1>2, <1>5 DEF Queue!vars
  <1> QED  BY <1>4, <1>5

(* What a completed copy of the consumer holds is a prefix of the content. *)
LEMMA CopyIsPrefix ==
  ASSUME IInv, cons.op # "none", cons.i = cons.n
  PROVE  /\ cons.n \in 1..Len(Content)
         /\ cons.bytes = SubSeq(Content, 1, cons.n)
  <1> DEFINE n == cons.n
  <1>0. /\ Capacity \in Nat \ {0} /\ tail \in Nat
        /\ n \in 1..Capacity /\ n <= Available
        /\ cons.bytes \in Seq(Byte) /\ Len(cons.bytes) = n
    BY RingAssumption DEF IInv, TypeOK, Reserved, Transfer
  <1>1. /\ Available \in 0..Capacity /\ Content \in Seq(Byte) /\ Len(Content) = Available
        /\ \A i \in 1..Available : Content[i] = buf[(tail + (i - 1)) % Capacity]
    BY ContentIsSequence DEF ContentOK
  <1>2. ASSUME NEW i \in 1..n
        PROVE  cons.bytes[i] = Content[i]
    <2>1. i - 1 \in 0..(n - 1) /\ n \in 0..Capacity /\ i \in 1..Available
      BY <1>0, <1>1
    <2>2. cons.bytes[i] = buf[Slot(tail, n, i - 1)]
      BY DEF IInv, ReadStable
    <2>3. Slot(tail, n, i - 1) = (tail + (i - 1)) % Capacity
      BY <1>0, <2>1, SlotIsMod, Zenon
    <2> QED  BY <1>1, <2>1, <2>2, <2>3
  <1> HIDE DEF n
  <1>3. /\ SubSeq(Content, 1, n) \in Seq(Byte) /\ Len(SubSeq(Content, 1, n)) = n
        /\ \A i \in 1..n : SubSeq(Content, 1, n)[i] = Content[i]
    BY <1>0, <1>1
  <1>4. cons.bytes = SubSeq(Content, 1, n)
    BY <1>0, <1>2, <1>3, SameElements
  <1>5. n \in 1..Len(Content)
    BY <1>0, <1>1
  <1> QED  BY <1>4, <1>5 DEF n

(* A byte copied by the consumer stays in the content.                     *)
LEMMA ReadCopyStep ==
  ASSUME IInv, IInv', ReadCopy
  PROVE  UNCHANGED Queue!vars
  <1>1. Content' = Content
    BY SameContent DEF ReadCopy
  <1> QED  BY <1>1 DEF ReadCopy, Queue!vars

(* Publishing a read removes the bytes it copied from the content.         *)
LEMMA ReadPublishStep ==
  ASSUME IInv, IInv', ReadPublish
  PROVE  Queue!Read
  <1> DEFINE n == cons.n
             rest == SubSeq(Content, n + 1, Len(Content))
  <1>1. n \in 1..Len(Content) /\ cons.bytes = SubSeq(Content, 1, n)
    BY CopyIsPrefix DEF ReadPublish
  <1>2. /\ Available \in 0..Capacity /\ Content \in Seq(Byte) /\ Len(Content) = Available
        /\ \A i \in 1..Available : Content[i] = buf[(tail + (i - 1)) % Capacity]
    BY ContentIsSequence DEF ContentOK
  <1>3. /\ Capacity \in Nat \ {0} /\ Word \in Nat \ {0} /\ Word % Capacity = 0
        /\ tail \in Nat /\ n \in Nat /\ n <= Available /\ Available \in Nat
    BY <1>1, <1>2, RingAssumption, SMTT(30) DEF IInv, TypeOK
  <1>4. Available' = Available - n
    BY <1>3, ContentAfterRead DEF ReadPublish, Available, IInv
  <1>5. /\ Content' \in Seq(Byte) /\ Len(Content') = Available - n
        /\ \A i \in 1..(Available - n) : Content'[i] = buf[(tail' + (i - 1)) % Capacity]
    BY <1>4, NextContentIsSequence DEF ContentOK, ReadPublish
  <1>6. /\ rest \in Seq(Byte) /\ Len(rest) = Available - n
        /\ \A i \in 1..(Available - n) : rest[i] = Content[n + i]
    <2>1. n \in 0..Len(Content)
      BY <1>1
    <2>2. /\ rest \in Seq(Byte) /\ Len(rest) = Len(Content) - n
          /\ \A i \in 1..(Len(Content) - n) : rest[i] = Content[n + i]
      BY <1>2, <2>1, SuffixElements, Zenon
    <2> HIDE DEF rest, n
    <2> QED  BY <1>2, <2>2, Zenon
  <1>7. tail' = (tail + n) % Word
    BY DEF ReadPublish, WrappingAdd
  <1> HIDE DEF rest, n
  <1>8. ASSUME NEW i \in 1..(Available - n)
        PROVE  Content'[i] = rest[i]
    <2>1. /\ n + i \in 1..Available /\ tail + n \in Int /\ i - 1 \in Int
          /\ (tail + n) + (i - 1) = tail + ((n + i) - 1)
      BY <1>3
    <2>2. (((tail + n) % Word) + (i - 1)) % Capacity = ((tail + n) + (i - 1)) % Capacity
      <3>1. ASSUME NEW x \in Int, NEW d \in Int
            PROVE  ((x % Word) + d) % Capacity = (x + d) % Capacity
        <4>1. \A c, w \in Nat \ {0} : w % c = 0 => ((x % w) + d) % c = (x + d) % c
          BY ModOfMod, Zenon
        <4> QED  BY <1>3, <4>1, Zenon
      <3> QED  BY <2>1, <3>1, Zenon
    <2>3. Content'[i] = buf[(((tail + n) % Word) + (i - 1)) % Capacity]
      BY <1>5, <1>7, Zenon
    <2>4. rest[i] = buf[(tail + ((n + i) - 1)) % Capacity]
      BY <1>2, <1>6, <2>1, Zenon
    <2> QED  BY <2>1, <2>2, <2>3, <2>4, Zenon
  <1>9. Content' = rest
    BY <1>5, <1>6, <1>8, SameElements
  <1>10. got' = SubSeq(Content, 1, n) /\ UNCHANGED wrote
    BY <1>1 DEF ReadPublish
  <1> QED  BY <1>1, <1>9, <1>10 DEF Queue!Read, rest

(* A peek returns a prefix of the content and leaves it in place.          *)
LEMMA PeekReturnStep ==
  ASSUME IInv, IInv', PeekReturn
  PROVE  Queue!Peek
  <1>1. cons.n \in 1..Len(Content) /\ cons.bytes = SubSeq(Content, 1, cons.n)
    BY CopyIsPrefix DEF PeekReturn
  <1>2. Content' = Content
    BY SameContent DEF PeekReturn
  <1> QED  BY <1>1, <1>2 DEF PeekReturn, Queue!Peek

(* Every step of the ring is a step of the queue or leaves it unchanged.   *)
LEMMA QueueStep == IInv /\ IInv' /\ [Next]_vars => [Queue!Next]_(Queue!vars)
  <1> SUFFICES ASSUME IInv, IInv', [Next]_vars
               PROVE  Queue!Next \/ UNCHANGED Queue!vars
    OBVIOUS
  <1>1. CASE WriteBegin
    BY <1>1, WriteBeginStep DEF Queue!Next
  <1>2. CASE WriteCopy
    BY <1>2, WriteCopyStep
  <1>3. CASE WritePublish
    BY <1>3, WritePublishStep DEF Queue!Next
  <1>4. CASE ReadBegin("read") \/ ReadBegin("peek")
    BY <1>4, ReadBeginStep DEF Queue!Next
  <1>5. CASE ReadCopy
    BY <1>5, ReadCopyStep
  <1>6. CASE ReadPublish
    BY <1>6, ReadPublishStep DEF Queue!Next
  <1>7. CASE PeekReturn
    BY <1>7, PeekReturnStep DEF Queue!Next
  <1>8. CASE UNCHANGED vars
    <2>1. Content' = Content
      BY <1>8, SameContent DEF vars
    <2> QED  BY <1>8, <2>1 DEF vars, Queue!vars
  <1> QED  BY <1>1, <1>2, <1>3, <1>4, <1>5, <1>6, <1>7, <1>8 DEF Next

(* A new ring is an empty queue.                                           *)
LEMMA QueueInit == Init => Queue!Init
  <1> SUFFICES ASSUME Init PROVE Queue!Init
    OBVIOUS
  <1>1. Available = 0
    <2>1. Word \in Nat \ {0} /\ 0 \in 0..(Word - 1)
      BY RingAssumption
    <2>2. 0 % Word = 0
      BY <2>1, ModSmall
    <2> QED  BY <2>2 DEF Init, Available, WrappingSub
  <1>2. Content \in Seq(Byte) /\ Len(Content) = 0
    BY <1>1, InitIInv, ContentIsSequence DEF ContentOK
  <1>3. Content = <<>>
    BY <1>2
  <1> QED  BY <1>3 DEF Init, Queue!Init

(* SpscByteRing implements the first-in first-out queue: no byte is lost,  *)
(* duplicated, reordered or made up between the writer and the reader, in  *)
(* any interleaving of the two threads and across the wrap of the slots    *)
(* and of the positions.                                                   *)
THEOREM RingImplementsQueue == Spec => ImplementsQueue
  BY InitIInv, NextIInv, QueueInit, QueueStep, PTL DEF Spec, ImplementsQueue, Queue!Spec

-----------------------------------------------------------------------------
(* The ring of many producers.                                             *)

\* The first position whose slot the consumer has not handed back.
Kept == IF dpc = "tail" THEN mtail + 1 ELSE mtail

\* The C positions from Kept on have a slot each: free, claimed by a producer
\* that has not published it, or published and not handed back.
FreeAt(i) == mhead <= i /\ mseq[Index(i)] = i /\ mdata[Index(i)] = << >>
ClaimedAt(i) == i < mhead /\ mseq[Index(i)] = i /\ \E p \in Producers : Owns(p) /\ ehead[p] = i
PublishedAt(i) ==
  /\ i < mhead /\ mseq[Index(i)] = i + 1
  /\ mdata[Index(i)] = <<claims[i + 1]>> \/ (i = mtail /\ dpc = "reset")
PositionsOK ==
  \A i \in Kept .. (Kept + MpscCapacity - 1) : FreeAt(i) \/ ClaimedAt(i) \/ PublishedAt(i)

BoundsOK == Kept <= mhead /\ mhead <= Kept + MpscCapacity

OwnerOK(p) ==
  /\ Kept <= ehead[p] /\ ehead[p] < mhead
  /\ mseq[Index(ehead[p])] = ehead[p]
  /\ claims[ehead[p] + 1] = Item(p)
  /\ mdata[Index(ehead[p])] = IF epc[p] = "write" THEN << >> ELSE <<Item(p)>>

ProducersOK ==
  \A p \in Producers :
    /\ ehead[p] <= mhead
    /\ epc[p] = "cas" /\ ehead[p] = mhead => mhead < Kept + MpscCapacity
    /\ Owns(p) => OwnerOK(p)

ConsumerOK ==
  /\ dpc \in {"read", "reset"} => mtail < mhead /\ mseq[Index(mtail)] = mtail + 1
  /\ dpc = "read" => mdata[Index(mtail)] = <<claims[mtail + 1]>>
  /\ dpc = "reset" => mdata[Index(mtail)] = << >>
  /\ dpc \in {"reset", "tail"} => item = <<claims[mtail + 1]>>
  /\ dpc # "idle" => left # 0

\* The histories: every claim is a call of its own.
Pending(p) == epc[p] \in {"seq", "load", "cas"}
ClaimsOK ==
  /\ claims \in Seq(Producers \X Nat) /\ Len(claims) = mhead
  /\ \A i \in 1 .. mhead : \A p \in Producers :
       claims[i][1] = p => claims[i][2] <= calls[p] /\ (Pending(p) => claims[i][2] < calls[p])
  /\ \A i, j \in 1 .. mhead : claims[i] = claims[j] => i = j
TakenOK ==
  taken \in Seq(Producers \X Nat) /\ Len(taken) = mtail /\ \A i \in 1 .. mtail : taken[i] = claims[i]

DropOK ==
  left = Drain => /\ \A p \in Producers : epc[p] = "idle"
                  /\ dpc = "idle" => mhead = mtail

MpscInv ==
  /\ MpscTypeOK /\ BoundsOK /\ PositionsOK /\ ProducersOK /\ ConsumerOK
  /\ ClaimsOK /\ TakenOK /\ DropOK

-----------------------------------------------------------------------------
(* The slots of C consecutive positions *)

(* A position has a slot.                                                  *)
LEMMA IndexType ==
  ASSUME NEW n \in Int
  PROVE  Index(n) \in 0 .. (MpscCapacity - 1)
  BY MpscAssumption, DivMod DEF Index

(* C consecutive positions have different slots.                           *)
LEMMA IndexInjective ==
  ASSUME NEW t \in Int, NEW i \in t .. (t + MpscCapacity - 1), NEW j \in t .. (t + MpscCapacity - 1),
         Index(i) = Index(j)
  PROVE  i = j
  <1>1. MpscCapacity \in Nat \ {0} /\ i \in Int /\ j \in Int
    BY MpscAssumption
  <1>2. i - j < MpscCapacity /\ j - i < MpscCapacity
    BY <1>1
  <1> QED  BY <1>1, <1>2, ModInjective, Zenon DEF Index

(* A position and the one a capacity further share their slot.             *)
LEMMA IndexTurn ==
  ASSUME NEW i \in Int
  PROVE  Index(i + MpscCapacity) = Index(i)
  <1>1. MpscCapacity \in Nat \ {0} /\ 1 \in Int /\ MpscCapacity * 1 = MpscCapacity
    BY MpscAssumption
  <1>2. (i + MpscCapacity * 1) % MpscCapacity = i % MpscCapacity
    BY <1>1, ModPlusMultiple, Zenon
  <1> QED  BY <1>1, <1>2 DEF Index

(* C consecutive positions cover every slot.                               *)
LEMMA IndexCover ==
  ASSUME NEW t \in Int, NEW h \in Int
  PROVE  \E i \in t .. (t + MpscCapacity - 1) : Index(i) = Index(h)
  <1>1. MpscCapacity \in Nat \ {0} /\ h - t \in Int
    BY MpscAssumption
  <1>2. (h - t) % MpscCapacity \in 0 .. (MpscCapacity - 1)
    BY <1>1, DivMod, Zenon
  <1>3. (((h - t) % MpscCapacity) + t) % MpscCapacity = ((h - t) + t) % MpscCapacity
    BY <1>1, ModOfModSame, Zenon
  <1>4. (h - t) + t = h
    BY <1>1
  <1>5. ((h - t) % MpscCapacity) + t \in t .. (t + MpscCapacity - 1)
    BY <1>1, <1>2
  <1> QED  BY <1>3, <1>4, <1>5 DEF Index

-----------------------------------------------------------------------------
(* The invariant holds of a new ring.                                      *)
LEMMA InitInv == MpscInit => MpscInv
  <1> SUFFICES ASSUME MpscInit PROVE MpscInv
    OBVIOUS
  <1> USE MpscAssumption DEF MpscInit
  <1>1. MpscTypeOK
    BY DEF MpscTypeOK, Drain
  <1>2. Kept = 0
    BY DEF Kept
  <1>3. BoundsOK
    BY <1>2 DEF BoundsOK
  <1>4. PositionsOK
    <2>1. ASSUME NEW i \in 0 .. (MpscCapacity - 1) PROVE Index(i) = i
      BY ModSmall, SMTT(30) DEF Index
    <2> QED  BY <1>2, <2>1 DEF PositionsOK, FreeAt
  <1>5. ProducersOK
    <2>1. ASSUME NEW p \in Producers PROVE epc[p] = "idle" /\ ehead[p] <= mhead
      <3>1. epc = [q \in Producers |-> "idle"] /\ ehead = [q \in Producers |-> 0] /\ mhead = 0
        OBVIOUS
      <3>2. epc[p] = "idle" /\ ehead[p] = 0
        BY <3>1, Zenon
      <3> QED  BY <3>1, <3>2
    <2> QED  BY <2>1 DEF ProducersOK, Owns
  <1>6. ConsumerOK
    BY DEF ConsumerOK
  <1>7. ClaimsOK /\ TakenOK
    BY DEF ClaimsOK, TakenOK
  <1>8. DropOK
    BY DEF DropOK, Drain
  <1> QED  BY <1>1, <1>3, <1>4, <1>5, <1>6, <1>7, <1>8 DEF MpscInv


-----------------------------------------------------------------------------
(* Steps outside the ring *)

(* A producer that owns no slot changes its place, its copy of head and    *)
(* its count of calls.                                                     *)
LEMMA ProducerMoves ==
  ASSUME MpscInv, NEW p \in Producers, NEW pc \in {"idle", "seq", "load", "cas"},
         NEW h \in Nat, NEW n \in Nat,
         ~Owns(p), left # Drain, h <= mhead, calls[p] <= n,
         pc = "cas" /\ h = mhead => mhead < Kept + MpscCapacity,
         pc # "idle" => Pending(p) \/ calls[p] < n,
         epc' = [epc EXCEPT ![p] = pc], ehead' = [ehead EXCEPT ![p] = h],
         calls' = [calls EXCEPT ![p] = n],
         UNCHANGED <<mhead, mtail, slotVars, consVars, claims, taken>>
  PROVE  MpscInv'
  <1> USE MpscAssumption
  <1>0. MpscTypeOK /\ BoundsOK /\ PositionsOK /\ ProducersOK /\ ConsumerOK /\ ClaimsOK /\ TakenOK /\ DropOK
    BY DEF MpscInv
  <1>1. /\ mhead' = mhead /\ mtail' = mtail /\ mseq' = mseq /\ mdata' = mdata /\ dpc' = dpc
        /\ left' = left /\ item' = item /\ claims' = claims /\ taken' = taken /\ Kept' = Kept
    BY DEF slotVars, consVars, Kept
  <1>2. MpscTypeOK'
    BY <1>0, <1>1 DEF MpscTypeOK
  <1>3. /\ epc'[p] = pc /\ ehead'[p] = h /\ calls'[p] = n /\ ~Owns(p)'
        /\ \A q \in Producers \ {p} : epc'[q] = epc[q] /\ ehead'[q] = ehead[q] /\ calls'[q] = calls[q]
    BY <1>0 DEF MpscTypeOK, Owns
  <1>4. BoundsOK' /\ ConsumerOK' /\ TakenOK'
    BY <1>0, <1>1 DEF BoundsOK, ConsumerOK, TakenOK
  <1>5. PositionsOK'
    <2> SUFFICES ASSUME NEW i \in Kept .. (Kept + MpscCapacity - 1)
                 PROVE  (FreeAt(i) \/ ClaimedAt(i) \/ PublishedAt(i))'
      BY <1>1, SMTT(30) DEF PositionsOK
    <2>1. FreeAt(i) => FreeAt(i)'
      BY <1>1 DEF FreeAt
    <2>2. PublishedAt(i) => PublishedAt(i)'
      BY <1>1 DEF PublishedAt
    <2>3. ClaimedAt(i) => ClaimedAt(i)'
      BY <1>1, <1>3 DEF ClaimedAt, Owns
    <2> QED  BY <1>0, <2>1, <2>2, <2>3 DEF PositionsOK
  <1>6. ProducersOK'
    <2> SUFFICES ASSUME NEW q \in Producers
                 PROVE  /\ ehead'[q] <= mhead'
                        /\ epc'[q] = "cas" /\ ehead'[q] = mhead' => mhead' < Kept' + MpscCapacity
                        /\ Owns(q)' => OwnerOK(q)'
      BY DEF ProducersOK
    <2>1. CASE q = p
      BY <1>1, <1>3, <2>1
    <2>2. CASE q # p
      <3>1. Owns(q)' => Owns(q)
        BY <1>3, <2>2 DEF Owns
      <3>2. Owns(q) => OwnerOK(q)
        BY <1>0, Zenon DEF ProducersOK
      <3>3. OwnerOK(q) => OwnerOK(q)'
        BY <1>1, <1>3, <2>2, ZenonT(30) DEF OwnerOK, Item
      <3> QED  BY <1>0, <1>1, <1>3, <2>2, <3>1, <3>2, <3>3 DEF ProducersOK
    <2> QED  BY <2>1, <2>2
  <1>7. ClaimsOK'
    <2> SUFFICES ASSUME NEW i \in 1 .. mhead, NEW q \in Producers, claims[i][1] = q
                 PROVE  claims[i][2] <= calls'[q] /\ (Pending(q)' => claims[i][2] < calls'[q])
      BY <1>0, <1>1, Zenon DEF ClaimsOK
    <2>1. claims[i][2] <= calls[q] /\ (Pending(q) => claims[i][2] < calls[q])
      BY <1>0, Zenon DEF ClaimsOK
    <2>2. claims[i][2] \in Nat /\ calls[q] \in Nat
      BY <1>0 DEF ClaimsOK, MpscTypeOK
    <2> QED  BY <1>3, <2>1, <2>2 DEF Pending
  <1>8. DropOK'
    BY <1>1 DEF DropOK
  <1> QED  BY <1>2, <1>4, <1>5, <1>6, <1>7, <1>8 DEF MpscInv

(* The consumer goes from one call to the next, or finds an item.          *)
LEMMA ConsumerMoves ==
  ASSUME MpscInv, dpc \in {"idle", "look"}, dpc' \in {"idle", "look", "read"},
         left' \in Nat \cup {Drain}, dpc' # "idle" => left' # 0,
         dpc' = "read" => mseq[Index(mtail)] = mtail + 1,
         left' = Drain => /\ \A p \in Producers : epc[p] = "idle"
                          /\ dpc' = "idle" => mhead = mtail,
         UNCHANGED <<mhead, mtail, slotVars, prodVars, item, claims, taken>>
  PROVE  MpscInv'
  <1> USE MpscAssumption
  <1>0. MpscTypeOK /\ BoundsOK /\ PositionsOK /\ ProducersOK /\ ConsumerOK /\ ClaimsOK /\ TakenOK /\ DropOK
    BY DEF MpscInv
  <1>1. /\ mhead' = mhead /\ mtail' = mtail /\ mseq' = mseq /\ mdata' = mdata /\ epc' = epc
        /\ ehead' = ehead /\ calls' = calls /\ item' = item /\ claims' = claims /\ taken' = taken
        /\ Kept = mtail /\ Kept' = mtail
    BY DEF slotVars, prodVars, Kept
  <1>2. MpscTypeOK'
    BY <1>0, <1>1 DEF MpscTypeOK
  <1>3. BoundsOK' /\ TakenOK'
    BY <1>0, <1>1 DEF BoundsOK, TakenOK
  <1>4. PositionsOK'
    <2> SUFFICES ASSUME NEW i \in Kept .. (Kept + MpscCapacity - 1)
                 PROVE  (FreeAt(i) \/ ClaimedAt(i) \/ PublishedAt(i))'
      BY <1>1 DEF PositionsOK
    <2>1. FreeAt(i) => FreeAt(i)'
      BY <1>1 DEF FreeAt
    <2>2. PublishedAt(i) => PublishedAt(i)'
      BY <1>1 DEF PublishedAt
    <2>3. ClaimedAt(i) => ClaimedAt(i)'
      BY <1>1, SMTT(30) DEF ClaimedAt, Owns
    <2> QED  BY <1>0, <2>1, <2>2, <2>3 DEF PositionsOK
  <1>5. ProducersOK'
    BY <1>0, <1>1, Zenon DEF ProducersOK, OwnerOK, Owns, Item
  <1>6. ConsumerOK'
    <2> SUFFICES ASSUME dpc' = "read"
                 PROVE  mtail < mhead /\ mdata[Index(mtail)] = <<claims[mtail + 1]>>
      BY <1>1 DEF ConsumerOK
    <2>1. mtail \in Kept .. (Kept + MpscCapacity - 1) /\ mtail \in Nat
      BY <1>0, <1>1 DEF MpscTypeOK
    <2>2. PublishedAt(mtail)
      BY <1>0, <2>1, SMTT(30) DEF PositionsOK, FreeAt, ClaimedAt
    <2> QED  BY <2>2, Zenon DEF PublishedAt
  <1>7. ClaimsOK'
    BY <1>0, <1>1 DEF ClaimsOK, Pending
  <1>8. DropOK'
    BY <1>1 DEF DropOK
  <1> QED  BY <1>2, <1>3, <1>4, <1>5, <1>6, <1>7, <1>8 DEF MpscInv


-----------------------------------------------------------------------------
(* Steps of the producers in the ring *)

(* Two producers never own the same position: its claim names one of them. *)
LEMMA OwnersDiffer ==
  ASSUME MpscInv, NEW p \in Producers, NEW q \in Producers, p # q, Owns(p), Owns(q)
  PROVE  ehead[p] # ehead[q] /\ Index(ehead[p]) # Index(ehead[q])
  <1> USE MpscAssumption
  <1>1. OwnerOK(p) /\ OwnerOK(q)
    BY SMTT(30) DEF MpscInv, ProducersOK
  <1>2. ehead[p] # ehead[q]
    BY <1>1, SMTT(30) DEF OwnerOK, Item
  <1>3. /\ Kept \in Int /\ ehead[p] \in Kept .. (Kept + MpscCapacity - 1)
        /\ ehead[q] \in Kept .. (Kept + MpscCapacity - 1)
    BY <1>1, SMTT(30) DEF OwnerOK, MpscInv, BoundsOK, MpscTypeOK, Kept
  <1> QED  BY <1>2, <1>3, IndexInjective

(* The position an owner has is one of the C positions in use, and not the *)
(* one the consumer reads.                                                 *)
LEMMA OwnerInRange ==
  ASSUME MpscInv, NEW p \in Producers, Owns(p)
  PROVE  /\ ehead[p] \in Kept .. (Kept + MpscCapacity - 1) /\ ehead[p] \in Nat /\ Kept \in Nat
         /\ \A i \in Kept .. (Kept + MpscCapacity - 1) : Index(i) = Index(ehead[p]) => i = ehead[p]
         /\ dpc \in {"read", "reset"} => ehead[p] # mtail /\ Index(ehead[p]) # Index(mtail)
  <1> USE MpscAssumption
  <1>1. OwnerOK(p)
    BY DEF MpscInv, ProducersOK
  <1>2. ehead[p] \in Kept .. (Kept + MpscCapacity - 1) /\ ehead[p] \in Nat /\ Kept \in Nat
    BY <1>1 DEF OwnerOK, MpscInv, BoundsOK, MpscTypeOK, Kept
  <1>3. \A i \in Kept .. (Kept + MpscCapacity - 1) : Index(i) = Index(ehead[p]) => i = ehead[p]
    BY <1>2, IndexInjective
  <1>4. ASSUME dpc \in {"read", "reset"}
        PROVE  ehead[p] # mtail /\ Index(ehead[p]) # Index(mtail)
    <2>1. mseq[Index(mtail)] = mtail + 1 /\ mtail \in Nat /\ Kept = mtail
      BY <1>4 DEF MpscInv, ConsumerOK, MpscTypeOK, Kept
    <2>2. ehead[p] # mtail
      BY <1>1, <2>1 DEF OwnerOK
    <2>3. mtail \in Kept .. (Kept + MpscCapacity - 1)
      BY <2>1
    <2> QED  BY <1>3, <2>2, <2>3
  <1> QED  BY <1>2, <1>3, <1>4

(* A compare-and-swap that succeeds finds a free slot.                     *)
LEMMA ClaimInv ==
  ASSUME MpscInv, NEW p \in Producers, Claim(p)
  PROVE  MpscInv'
  <1> USE MpscAssumption
  <1>0. MpscTypeOK /\ BoundsOK /\ PositionsOK /\ ProducersOK /\ ConsumerOK /\ ClaimsOK /\ TakenOK /\ DropOK
    BY DEF MpscInv
  <1>1. /\ mhead' = mhead + 1 /\ mtail' = mtail /\ mseq' = mseq /\ mdata' = mdata /\ dpc' = dpc
        /\ ehead' = ehead /\ calls' = calls /\ left' = left /\ item' = item /\ taken' = taken
        /\ claims' = Append(claims, <<p, calls[p]>>) /\ Kept' = Kept
        /\ epc[p] = "cas" /\ ehead[p] = mhead /\ epc' = [epc EXCEPT ![p] = "write"]
    BY Zenon DEF Claim, Item, slotVars, consVars, Kept
  <1>2. /\ mhead \in Nat /\ mtail \in Nat /\ Kept \in Nat /\ mtail <= Kept /\ Kept <= mhead
        /\ mhead < Kept + MpscCapacity /\ calls[p] \in Nat
        /\ claims \in Seq(Producers \X Nat) /\ Len(claims) = mhead
    BY <1>0, <1>1, SMTT(30) DEF MpscTypeOK, Kept, BoundsOK, ProducersOK, ClaimsOK
  <1>3. /\ claims' \in Seq(Producers \X Nat) /\ Len(claims') = mhead'
        /\ claims'[mhead + 1] = <<p, calls[p]>>
        /\ \A i \in 1 .. mhead : claims'[i] = claims[i]
    BY <1>1, <1>2
  <1>4. epc'[p] = "write" /\ \A q \in Producers \ {p} : epc'[q] = epc[q]
    BY <1>0, <1>1 DEF MpscTypeOK
  <1>5. MpscTypeOK' /\ BoundsOK'
    BY <1>0, <1>1, <1>2, SMTT(30) DEF MpscTypeOK, BoundsOK
  <1>6. FreeAt(mhead)
    BY <1>0, <1>2, SMTT(30) DEF PositionsOK, ClaimedAt, PublishedAt
  <1>7. PositionsOK'
    <2> SUFFICES ASSUME NEW i \in Kept .. (Kept + MpscCapacity - 1)
                 PROVE  (FreeAt(i) \/ ClaimedAt(i) \/ PublishedAt(i))'
      BY <1>1 DEF PositionsOK
    <2>1. CASE i = mhead
      BY <1>1, <1>2, <1>4, <1>6, <2>1 DEF FreeAt, ClaimedAt, Owns
    <2>2. CASE i # mhead
      <3>1. FreeAt(i) => FreeAt(i)'
        BY <1>1, <1>2, <2>2, SMTT(30) DEF FreeAt
      <3>2. ClaimedAt(i) => ClaimedAt(i)'
        BY <1>1, <1>2, <1>4 DEF ClaimedAt, Owns
      <3>3. PublishedAt(i) => PublishedAt(i)'
        BY <1>1, <1>2, <1>3, SMTT(30) DEF PublishedAt
      <3> QED  BY <1>0, <3>1, <3>2, <3>3, Zenon DEF PositionsOK
    <2> QED  BY <2>1, <2>2
  <1>8. ProducersOK'
    <2> SUFFICES ASSUME NEW q \in Producers
                 PROVE  /\ ehead'[q] <= mhead'
                        /\ epc'[q] = "cas" /\ ehead'[q] = mhead' => mhead' < Kept' + MpscCapacity
                        /\ Owns(q)' => OwnerOK(q)'
      BY DEF ProducersOK
    <2>1. CASE q = p
      <3>1. OwnerOK(p)'
        BY <1>1, <1>2, <1>3, <1>4, <1>6, SMTT(30) DEF OwnerOK, Item, FreeAt
      <3> QED  BY <1>1, <1>2, <1>4, <2>1, <3>1, SMTT(30)
    <2>2. CASE q # p
      <3>1. ehead[q] \in Nat /\ ehead[q] <= mhead /\ (Owns(q) => OwnerOK(q))
        BY <1>0 DEF ProducersOK, MpscTypeOK
      <3>2. Owns(q)' = Owns(q)
        BY <1>4, <2>2, ZenonT(30) DEF Owns
      <3>3. ASSUME OwnerOK(q) PROVE OwnerOK(q)'
        <4>1. ehead[q] < mhead /\ ehead[q] < mhead + 1 /\ ehead[q] + 1 \in 1 .. mhead
          BY <1>2, <3>1, <3>3, SMTT(30) DEF OwnerOK
        <4>2. claims'[ehead[q] + 1] = claims[ehead[q] + 1]
          BY <1>1, <1>2, <1>3, <4>1, SMTT(30)
        <4>3. epc'[q] = epc[q]
          BY <1>4, <2>2, Zenon
        <4> QED  BY <1>1, <3>3, <4>1, <4>2, <4>3, Zenon DEF OwnerOK, Item
      <3> QED  BY <1>1, <1>2, <3>1, <3>2, <3>3
    <2> QED  BY <2>1, <2>2
  <1>9. ConsumerOK'
    <2>1. dpc \in {"read", "reset", "tail"} => mtail < mhead
      BY <1>0, <1>2, SMTT(30) DEF ConsumerOK, Kept
    <2>2. dpc \in {"read", "reset", "tail"} => claims'[mtail + 1] = claims[mtail + 1]
      BY <1>2, <1>3, <2>1, SMTT(30)
    <2>3. mtail < mhead => mtail < mhead + 1
      BY <1>2
    <2> QED  BY <1>0, <1>1, <2>1, <2>2, <2>3, Zenon DEF ConsumerOK
  <1>10. ClaimsOK'
    <2>1. \A i \in 1 .. mhead : claims[i] # <<p, calls[p]>>
      <3> SUFFICES ASSUME NEW i \in 1 .. mhead, claims[i] = <<p, calls[p]>> PROVE FALSE
        OBVIOUS
      <3>1. claims[i][1] = p /\ claims[i][2] = calls[p]
        OBVIOUS
      <3> QED  BY <1>0, <1>1, <1>2, <3>1, SMTT(30) DEF ClaimsOK, Pending
    <2>2. ASSUME NEW i \in 1 .. mhead', NEW j \in 1 .. mhead', claims'[i] = claims'[j]
          PROVE  i = j
      BY <1>0, <1>1, <1>2, <1>3, <2>1, <2>2, SMTT(30) DEF ClaimsOK
    <2>3. ASSUME NEW i \in 1 .. mhead', NEW q \in Producers, claims'[i][1] = q
          PROVE  claims'[i][2] <= calls'[q] /\ (Pending(q)' => claims'[i][2] < calls'[q])
      <3>1. CASE i = mhead + 1
        BY <1>1, <1>2, <1>3, <1>4, <2>3, <3>1 DEF Pending
      <3>2. CASE i # mhead + 1
        <4>1. i \in 1 .. mhead /\ claims'[i] = claims[i]
          BY <1>1, <1>2, <1>3, <3>2
        <4>2. Pending(q)' => Pending(q)
          BY <1>4, SMTT(30) DEF Pending
        <4> QED  BY <1>0, <1>1, <2>3, <4>1, <4>2, Zenon DEF ClaimsOK
      <3> QED  BY <3>1, <3>2
    <2> QED  BY <1>3, <2>2, <2>3 DEF ClaimsOK
  <1>11. TakenOK'
    BY <1>0, <1>1, <1>2, <1>3 DEF TakenOK
  <1>12. DropOK'
    BY <1>0, <1>1 DEF DropOK
  <1> QED  BY <1>5, <1>7, <1>8, <1>9, <1>10, <1>11, <1>12 DEF MpscInv


(* An owner fills its own slot.                                            *)
LEMMA WriteDataInv ==
  ASSUME MpscInv, NEW p \in Producers, WriteData(p)
  PROVE  MpscInv'
  <1> USE MpscAssumption
  <1>0. MpscTypeOK /\ BoundsOK /\ PositionsOK /\ ProducersOK /\ ConsumerOK /\ ClaimsOK /\ TakenOK /\ DropOK
    BY DEF MpscInv
  <1>1. /\ mhead' = mhead /\ mtail' = mtail /\ mseq' = mseq /\ dpc' = dpc /\ ehead' = ehead
        /\ calls' = calls /\ left' = left /\ item' = item /\ taken' = taken /\ claims' = claims
        /\ Kept' = Kept /\ epc[p] = "write" /\ epc' = [epc EXCEPT ![p] = "publish"]
        /\ mdata' = [mdata EXCEPT ![Index(ehead[p])] = <<Item(p)>>]
    BY DEF WriteData, consVars, Kept
  <1>2. Owns(p) /\ OwnerOK(p)
    BY <1>0, <1>1 DEF Owns, ProducersOK
  <1>3. /\ ehead[p] \in Kept .. (Kept + MpscCapacity - 1) /\ ehead[p] \in Nat
        /\ \A i \in Kept .. (Kept + MpscCapacity - 1) : Index(i) = Index(ehead[p]) => i = ehead[p]
        /\ dpc \in {"read", "reset"} => Index(ehead[p]) # Index(mtail)
    BY <1>2, OwnerInRange
  <1>4. /\ mdata'[Index(ehead[p])] = <<Item(p)>>
        /\ \A s \in 0 .. (MpscCapacity - 1) : s # Index(ehead[p]) => mdata'[s] = mdata[s]
        /\ DOMAIN mdata' = DOMAIN mdata
    <2>1. Index(ehead[p]) \in DOMAIN mdata /\ DOMAIN mdata = 0 .. (MpscCapacity - 1)
      BY <1>0, <1>3, IndexType DEF MpscTypeOK
    <2> QED  BY <1>1, <2>1
  <1>5. epc'[p] = "publish" /\ \A q \in Producers \ {p} : epc'[q] = epc[q]
    BY <1>0, <1>1 DEF MpscTypeOK
  <1>6. \A q \in Producers : Owns(q)' = Owns(q)
    BY <1>1, <1>5, SMTT(30) DEF Owns
  <1>7. MpscTypeOK' /\ BoundsOK' /\ TakenOK' /\ DropOK'
    BY <1>0, <1>1, <1>4 DEF MpscTypeOK, BoundsOK, TakenOK, DropOK
  <1>8. PositionsOK'
    <2> SUFFICES ASSUME NEW i \in Kept .. (Kept + MpscCapacity - 1)
                 PROVE  (FreeAt(i) \/ ClaimedAt(i) \/ PublishedAt(i))'
      BY <1>1 DEF PositionsOK
    <2>1. CASE i = ehead[p]
      BY <1>1, <1>2, <1>6, <2>1, Zenon DEF OwnerOK, ClaimedAt
    <2>2. CASE i # ehead[p]
      <3>1. mdata'[Index(i)] = mdata[Index(i)]
        <4>1. i \in Int
          BY <1>0 DEF MpscTypeOK, Kept
        <4>2. Index(i) \in 0 .. (MpscCapacity - 1) /\ Index(i) # Index(ehead[p])
          BY <1>3, <2>2, <4>1, IndexType, SMTT(30)
        <4> QED  BY <1>4, <4>2
      <3>2. FreeAt(i) => FreeAt(i)'
        BY <1>1, <3>1 DEF FreeAt
      <3>3. ClaimedAt(i) => ClaimedAt(i)'
        BY <1>1, <1>6, SMTT(30) DEF ClaimedAt
      <3>4. PublishedAt(i) => PublishedAt(i)'
        BY <1>1, <3>1, SMTT(30) DEF PublishedAt
      <3> QED  BY <1>0, <3>2, <3>3, <3>4, SMTT(30) DEF PositionsOK
    <2> QED  BY <2>1, <2>2
  <1>9. ProducersOK'
    <2> SUFFICES ASSUME NEW q \in Producers
                 PROVE  /\ ehead'[q] <= mhead'
                        /\ epc'[q] = "cas" /\ ehead'[q] = mhead' => mhead' < Kept' + MpscCapacity
                        /\ Owns(q)' => OwnerOK(q)'
      BY DEF ProducersOK
    <2>1. CASE q = p
      BY <1>0, <1>1, <1>2, <1>4, <1>5, <2>1, Zenon DEF ProducersOK, OwnerOK, Item
    <2>2. CASE q # p
      <3>1. ASSUME Owns(q) PROVE OwnerOK(q)'
        <4>1. Index(ehead[q]) # Index(ehead[p])
          BY <1>2, <2>2, <3>1, OwnersDiffer
        <4>2. mdata'[Index(ehead[q])] = mdata[Index(ehead[q])]
          <5>1. Index(ehead[q]) \in 0 .. (MpscCapacity - 1)
            BY <1>0, IndexType DEF MpscTypeOK
          <5> QED  BY <1>4, <4>1, <5>1
        <4> QED  BY <1>0, <1>1, <1>5, <2>2, <3>1, <4>2, Zenon DEF ProducersOK, OwnerOK, Item
      <3> QED  BY <1>0, <1>1, <1>5, <1>6, <2>2, <3>1, SMTT(30) DEF ProducersOK
    <2> QED  BY <2>1, <2>2
  <1>10. ConsumerOK'
    <2>1. dpc \in {"read", "reset"} => mdata'[Index(mtail)] = mdata[Index(mtail)]
      BY <1>0, <1>3, <1>4, IndexType DEF MpscTypeOK
    <2> QED  BY <1>0, <1>1, <2>1, Zenon DEF ConsumerOK
  <1>11. ClaimsOK'
    <2>1. \A q \in Producers : Pending(q)' => Pending(q)
      BY <1>1, <1>5 DEF Pending
    <2> QED  BY <1>0, <1>1, <2>1, Zenon DEF ClaimsOK
  <1> QED  BY <1>7, <1>8, <1>9, <1>10, <1>11, SMTT(30) DEF MpscInv

(* An owner publishes its own slot.                                        *)
LEMMA PublishSeqInv ==
  ASSUME MpscInv, NEW p \in Producers, PublishSeq(p)
  PROVE  MpscInv'
  <1> USE MpscAssumption
  <1>0. MpscTypeOK /\ BoundsOK /\ PositionsOK /\ ProducersOK /\ ConsumerOK /\ ClaimsOK /\ TakenOK /\ DropOK
    BY DEF MpscInv
  <1>1. /\ mhead' = mhead /\ mtail' = mtail /\ mdata' = mdata /\ dpc' = dpc /\ ehead' = ehead
        /\ calls' = calls /\ left' = left /\ item' = item /\ taken' = taken /\ claims' = claims
        /\ Kept' = Kept /\ epc[p] = "publish" /\ epc' = [epc EXCEPT ![p] = "idle"]
        /\ mseq' = [mseq EXCEPT ![Index(ehead[p])] = ehead[p] + 1]
    BY DEF PublishSeq, consVars, Kept
  <1>2. Owns(p) /\ OwnerOK(p)
    BY <1>0, <1>1 DEF Owns, ProducersOK
  <1>3. /\ ehead[p] \in Kept .. (Kept + MpscCapacity - 1) /\ ehead[p] \in Nat
        /\ \A i \in Kept .. (Kept + MpscCapacity - 1) : Index(i) = Index(ehead[p]) => i = ehead[p]
        /\ dpc \in {"read", "reset"} => Index(ehead[p]) # Index(mtail)
    BY <1>2, OwnerInRange
  <1>4. /\ mseq'[Index(ehead[p])] = ehead[p] + 1
        /\ \A s \in 0 .. (MpscCapacity - 1) : s # Index(ehead[p]) => mseq'[s] = mseq[s]
        /\ mseq' \in [0 .. (MpscCapacity - 1) -> Nat]
    <2>1. Index(ehead[p]) \in 0 .. (MpscCapacity - 1)
      BY <1>3, IndexType
    <2> QED  BY <1>0, <1>1, <1>3, <2>1 DEF MpscTypeOK
  <1>5. epc'[p] = "idle" /\ \A q \in Producers \ {p} : epc'[q] = epc[q]
    BY <1>0, <1>1 DEF MpscTypeOK
  <1>6. MpscTypeOK' /\ BoundsOK' /\ TakenOK' /\ DropOK'
    BY <1>0, <1>1, <1>4, Zenon DEF MpscTypeOK, BoundsOK, TakenOK, DropOK
  <1>7. PositionsOK'
    <2> SUFFICES ASSUME NEW i \in Kept .. (Kept + MpscCapacity - 1)
                 PROVE  (FreeAt(i) \/ ClaimedAt(i) \/ PublishedAt(i))'
      BY <1>1 DEF PositionsOK
    <2>1. CASE i = ehead[p]
      BY <1>1, <1>2, <1>4, <2>1, Zenon DEF OwnerOK, PublishedAt, Item
    <2>2. CASE i # ehead[p]
      <3>1. mseq'[Index(i)] = mseq[Index(i)]
        <4>1. i \in Int
          BY <1>0 DEF MpscTypeOK, Kept
        <4>2. Index(i) \in 0 .. (MpscCapacity - 1) /\ Index(i) # Index(ehead[p])
          BY <1>3, <2>2, <4>1, IndexType
        <4> QED  BY <1>4, <4>2, Zenon
      <3>2. FreeAt(i) => FreeAt(i)'
        BY <1>1, <3>1 DEF FreeAt
      <3>3. ClaimedAt(i) => ClaimedAt(i)'
        BY <1>1, <1>5, <2>2, <3>1, Zenon DEF ClaimedAt, Owns
      <3>4. PublishedAt(i) => PublishedAt(i)'
        BY <1>1, <3>1 DEF PublishedAt
      <3> QED  BY <1>0, <3>2, <3>3, <3>4 DEF PositionsOK
    <2> QED  BY <2>1, <2>2
  <1>8. ProducersOK'
    <2> SUFFICES ASSUME NEW q \in Producers
                 PROVE  /\ ehead'[q] <= mhead'
                        /\ epc'[q] = "cas" /\ ehead'[q] = mhead' => mhead' < Kept' + MpscCapacity
                        /\ Owns(q)' => OwnerOK(q)'
      BY DEF ProducersOK
    <2>1. CASE q = p
      BY <1>0, <1>1, <1>5, <2>1 DEF ProducersOK, Owns
    <2>2. CASE q # p
      <3>1. ASSUME Owns(q) PROVE OwnerOK(q)'
        <4>1. Index(ehead[q]) # Index(ehead[p])
          BY <1>2, <2>2, <3>1, OwnersDiffer
        <4>2. mseq'[Index(ehead[q])] = mseq[Index(ehead[q])]
          <5>1. Index(ehead[q]) \in 0 .. (MpscCapacity - 1)
            BY <1>0, IndexType DEF MpscTypeOK
          <5> QED  BY <1>4, <4>1, <5>1, Zenon
        <4> QED  BY <1>0, <1>1, <1>5, <2>2, <3>1, <4>2, Zenon DEF ProducersOK, OwnerOK, Item
      <3>2. Owns(q)' = Owns(q)
        BY <1>5, <2>2, SMTT(30) DEF Owns
      <3> QED  BY <1>0, <1>1, <1>5, <2>2, <3>1, <3>2, ZenonT(30) DEF ProducersOK
    <2> QED  BY <2>1, <2>2
  <1>9. ConsumerOK'
    <2>1. dpc \in {"read", "reset"} => mseq'[Index(mtail)] = mseq[Index(mtail)]
      <3>1. mtail \in Int
        BY <1>0 DEF MpscTypeOK
      <3>2. Index(mtail) \in 0 .. (MpscCapacity - 1)
        BY <3>1, IndexType, Zenon
      <3> QED  BY <1>0, <1>3, <1>4, <3>1, <3>2, Zenon DEF MpscTypeOK
    <2> QED  BY <1>0, <1>1, <2>1, Zenon DEF ConsumerOK
  <1>10. ClaimsOK'
    <2>1. \A q \in Producers : Pending(q)' => Pending(q)
      BY <1>1, <1>5 DEF Pending
    <2> QED  BY <1>0, <1>1, <2>1, Zenon DEF ClaimsOK
  <1> QED  BY <1>6, <1>7, <1>8, <1>9, <1>10 DEF MpscInv


-----------------------------------------------------------------------------
(* Steps of the consumer in the ring *)

(* While the consumer is inside dequeue its position has a slot of its own. *)
LEMMA ConsumerAlone ==
  ASSUME MpscInv, dpc \in {"read", "reset"}
  PROVE  /\ Kept = mtail /\ mtail \in Nat /\ mtail < mhead /\ Index(mtail) \in 0 .. (MpscCapacity - 1)
         /\ \A i \in (mtail + 1) .. (mtail + MpscCapacity - 1) :
              Index(i) # Index(mtail) /\ Index(i) \in 0 .. (MpscCapacity - 1)
  <1> USE MpscAssumption
  <1>1. Kept = mtail /\ mtail \in Nat /\ mtail < mhead
    BY DEF MpscInv, ConsumerOK, MpscTypeOK, Kept
  <1>2. Index(mtail) \in 0 .. (MpscCapacity - 1)
    BY <1>1, IndexType
  <1>3. ASSUME NEW i \in (mtail + 1) .. (mtail + MpscCapacity - 1)
        PROVE  Index(i) # Index(mtail) /\ Index(i) \in 0 .. (MpscCapacity - 1)
    <2>1. i \in Int /\ i # mtail /\ i \in mtail .. (mtail + MpscCapacity - 1)
          /\ mtail \in mtail .. (mtail + MpscCapacity - 1) /\ mtail \in Int
      BY <1>1
    <2> QED  BY <2>1, IndexInjective, IndexType
  <1> QED  BY <1>1, <1>2, <1>3

(* The consumer moves an item out of its slot.                             *)
LEMMA ReadDataInv ==
  ASSUME MpscInv, ReadData
  PROVE  MpscInv'
  <1> USE MpscAssumption
  <1>0. MpscTypeOK /\ BoundsOK /\ PositionsOK /\ ProducersOK /\ ConsumerOK /\ ClaimsOK /\ TakenOK /\ DropOK
    BY DEF MpscInv
  <1>1. /\ mhead' = mhead /\ mtail' = mtail /\ mseq' = mseq /\ epc' = epc /\ ehead' = ehead
        /\ calls' = calls /\ left' = left /\ taken' = taken /\ claims' = claims
        /\ dpc = "read" /\ dpc' = "reset" /\ Kept' = Kept
        /\ item' = mdata[Index(mtail)] /\ mdata' = [mdata EXCEPT ![Index(mtail)] = << >>]
    BY DEF ReadData, prodVars, Kept
  <1>2. /\ Kept = mtail /\ mtail \in Nat /\ mtail < mhead /\ Index(mtail) \in 0 .. (MpscCapacity - 1)
        /\ \A i \in (mtail + 1) .. (mtail + MpscCapacity - 1) :
             Index(i) # Index(mtail) /\ Index(i) \in 0 .. (MpscCapacity - 1)
    BY <1>1, ConsumerAlone
  <1>3. /\ mdata'[Index(mtail)] = << >> /\ DOMAIN mdata' = DOMAIN mdata
        /\ \A s \in 0 .. (MpscCapacity - 1) : s # Index(mtail) => mdata'[s] = mdata[s]
    BY <1>0, <1>1, <1>2, SMTT(30) DEF MpscTypeOK
  <1>4. MpscTypeOK' /\ BoundsOK' /\ TakenOK' /\ DropOK'
    BY <1>0, <1>1, <1>3 DEF MpscTypeOK, BoundsOK, TakenOK, DropOK
  <1>5. PositionsOK'
    <2> SUFFICES ASSUME NEW i \in Kept .. (Kept + MpscCapacity - 1)
                 PROVE  (FreeAt(i) \/ ClaimedAt(i) \/ PublishedAt(i))'
      BY <1>1 DEF PositionsOK
    <2>1. CASE i = mtail
      BY <1>0, <1>1, <1>2, <2>1 DEF ConsumerOK, PublishedAt
    <2>2. CASE i # mtail
      <3>1. mdata'[Index(i)] = mdata[Index(i)]
        BY <1>2, <1>3, <2>2
      <3>2. FreeAt(i) => FreeAt(i)'
        BY <1>1, <3>1 DEF FreeAt
      <3>3. ClaimedAt(i) => ClaimedAt(i)'
        BY <1>1 DEF ClaimedAt, Owns
      <3>4. PublishedAt(i) => PublishedAt(i)'
        BY <1>1, <2>2, <3>1, Zenon DEF PublishedAt
      <3> QED  BY <1>0, <3>2, <3>3, <3>4 DEF PositionsOK
    <2> QED  BY <2>1, <2>2
  <1>6. ProducersOK'
    <2>1. ASSUME NEW q \in Producers, Owns(q) PROVE OwnerOK(q)'
      <3>1. OwnerOK(q)
        BY <1>0, <2>1 DEF ProducersOK
      <3>2. ehead[q] \in Nat /\ Index(ehead[q]) # Index(mtail)
        BY <1>1, <2>1, OwnerInRange
      <3>3. Index(ehead[q]) \in 0 .. (MpscCapacity - 1)
        BY <3>2, IndexType
      <3>4. mdata'[Index(ehead[q])] = mdata[Index(ehead[q])]
        BY <1>3, <3>2, <3>3
      <3> QED  BY <1>1, <3>1, <3>4 DEF OwnerOK, Item
    <2> QED  BY <1>0, <1>1, <2>1, ZenonT(30) DEF ProducersOK, Owns
  <1>7. ConsumerOK'
    BY <1>0, <1>1, <1>3, Zenon DEF ConsumerOK
  <1>8. ClaimsOK'
    BY <1>0, <1>1 DEF ClaimsOK, Pending
  <1> QED  BY <1>4, <1>5, <1>6, <1>7, <1>8 DEF MpscInv

(* The consumer hands its slot back: it becomes the free slot of the       *)
(* position one capacity further.                                          *)
LEMMA ResetSeqInv ==
  ASSUME MpscInv, ResetSeq
  PROVE  MpscInv'
  <1> USE MpscAssumption
  <1>0. MpscTypeOK /\ BoundsOK /\ PositionsOK /\ ProducersOK /\ ConsumerOK /\ ClaimsOK /\ TakenOK /\ DropOK
    BY DEF MpscInv
  <1>1. /\ mhead' = mhead /\ mtail' = mtail /\ mdata' = mdata /\ epc' = epc /\ ehead' = ehead
        /\ calls' = calls /\ left' = left /\ taken' = taken /\ claims' = claims /\ item' = item
        /\ dpc = "reset" /\ dpc' = "tail" /\ Kept' = mtail + 1
        /\ mseq' = [mseq EXCEPT ![Index(mtail)] = mtail + MpscCapacity]
    BY DEF ResetSeq, prodVars, Kept
  <1>2. /\ Kept = mtail /\ mtail \in Nat /\ mtail < mhead /\ Index(mtail) \in 0 .. (MpscCapacity - 1)
        /\ \A i \in (mtail + 1) .. (mtail + MpscCapacity - 1) :
             Index(i) # Index(mtail) /\ Index(i) \in 0 .. (MpscCapacity - 1)
    BY <1>1, ConsumerAlone
  <1>3. /\ mseq'[Index(mtail)] = mtail + MpscCapacity /\ mseq' \in [0 .. (MpscCapacity - 1) -> Nat]
        /\ \A s \in 0 .. (MpscCapacity - 1) : s # Index(mtail) => mseq'[s] = mseq[s]
    BY <1>0, <1>1, <1>2, SMTT(30) DEF MpscTypeOK
  <1>4. MpscTypeOK' /\ BoundsOK' /\ TakenOK' /\ DropOK'
    BY <1>0, <1>1, <1>2, <1>3 DEF MpscTypeOK, BoundsOK, TakenOK, DropOK
  <1>5. PositionsOK'
    <2> SUFFICES ASSUME NEW i \in (mtail + 1) .. (mtail + MpscCapacity)
                 PROVE  (FreeAt(i) \/ ClaimedAt(i) \/ PublishedAt(i))'
      BY <1>1, <1>2, SMTT(30) DEF PositionsOK
    <2>1. CASE i = mtail + MpscCapacity
      <3>1. Index(i) = Index(mtail)
        BY <1>2, <2>1, IndexTurn
      <3> QED  BY <1>0, <1>1, <1>2, <1>3, <2>1, <3>1 DEF FreeAt, BoundsOK, ConsumerOK
    <2>2. CASE i # mtail + MpscCapacity
      <3>1. mseq'[Index(i)] = mseq[Index(i)] /\ i \in Kept .. (Kept + MpscCapacity - 1) /\ i # mtail
        BY <1>2, <1>3, <2>2
      <3>2. FreeAt(i) => FreeAt(i)'
        BY <1>1, <3>1 DEF FreeAt
      <3>3. ClaimedAt(i) => ClaimedAt(i)'
        BY <1>1, <3>1 DEF ClaimedAt, Owns
      <3>4. PublishedAt(i) => PublishedAt(i)'
        BY <1>1, <3>1, Zenon DEF PublishedAt
      <3> QED  BY <1>0, <3>1, <3>2, <3>3, <3>4 DEF PositionsOK
    <2> QED  BY <2>1, <2>2
  <1>6. ProducersOK'
    <2>1. ASSUME NEW q \in Producers, Owns(q) PROVE OwnerOK(q)'
      <3>1. OwnerOK(q) /\ Index(ehead[q]) # Index(mtail) /\ Index(ehead[q]) \in 0 .. (MpscCapacity - 1)
            /\ ehead[q] # mtail /\ ehead[q] \in Nat
        BY <1>0, <1>1, <2>1, OwnerInRange, IndexType DEF ProducersOK
      <3>2. mseq'[Index(ehead[q])] = mseq[Index(ehead[q])]
        BY <1>3, <3>1
      <3> QED  BY <1>1, <1>2, <3>1, <3>2, SMTT(30) DEF OwnerOK, Item
    <2>2. mhead \in Nat
      BY <1>0 DEF MpscTypeOK
    <2> QED  BY <1>0, <1>1, <1>2, <2>1, <2>2, SMTT(30) DEF ProducersOK, Owns
  <1>7. ConsumerOK'
    BY <1>0, <1>1, SMTT(30) DEF ConsumerOK
  <1>8. ClaimsOK'
    BY <1>0, <1>1 DEF ClaimsOK, Pending
  <1> QED  BY <1>4, <1>5, <1>6, <1>7, <1>8 DEF MpscInv

(* The consumer advances tail and returns the item.                        *)
LEMMA AdvanceTailInv ==
  ASSUME MpscInv, AdvanceTail
  PROVE  MpscInv'
  <1> USE MpscAssumption
  <1>0. MpscTypeOK /\ BoundsOK /\ PositionsOK /\ ProducersOK /\ ConsumerOK /\ ClaimsOK /\ TakenOK /\ DropOK
    BY DEF MpscInv
  <1>1. /\ mhead' = mhead /\ mtail' = mtail + 1 /\ mseq' = mseq /\ mdata' = mdata /\ epc' = epc
        /\ ehead' = ehead /\ calls' = calls /\ claims' = claims /\ taken' = taken \o item
        /\ dpc = "tail" /\ dpc' = IF left = 1 THEN "idle" ELSE "look"
        /\ left' = IF left = Drain THEN Drain ELSE left - 1
    BY DEF AdvanceTail, slotVars, prodVars
  <1>2. /\ Kept = mtail + 1 /\ Kept' = mtail + 1 /\ mtail \in Nat /\ mhead \in Nat /\ mtail + 1 <= mhead
        /\ dpc' \in {"idle", "look"}
    BY <1>0, <1>1 DEF Kept, MpscTypeOK, BoundsOK
  <1>3. left' \in Nat \cup {Drain} /\ (dpc' # "idle" => left' # 0) /\ (left' = Drain => left = Drain /\ dpc' = "look")
    BY <1>0, <1>1 DEF MpscTypeOK, ConsumerOK, Drain
  <1>4. MpscTypeOK'
    BY <1>0, <1>1, <1>2, <1>3 DEF MpscTypeOK
  <1>5. BoundsOK'
    BY <1>0, <1>1, <1>2 DEF BoundsOK
  <1>6. PositionsOK'
    <2> SUFFICES ASSUME NEW i \in Kept .. (Kept + MpscCapacity - 1)
                 PROVE  (FreeAt(i) \/ ClaimedAt(i) \/ PublishedAt(i))'
      BY <1>2 DEF PositionsOK
    <2>1. FreeAt(i) => FreeAt(i)'
      BY <1>1 DEF FreeAt
    <2>2. ClaimedAt(i) => ClaimedAt(i)'
      BY <1>1 DEF ClaimedAt, Owns
    <2>3. PublishedAt(i) => PublishedAt(i)'
      BY <1>1 DEF PublishedAt
    <2> QED  BY <1>0, <2>1, <2>2, <2>3 DEF PositionsOK
  <1>7. ProducersOK'
    BY <1>0, <1>1, <1>2, Zenon DEF ProducersOK, Owns, OwnerOK, Item
  <1>8. ConsumerOK'
    BY <1>2, <1>3, SMTT(30) DEF ConsumerOK
  <1>9. ClaimsOK'
    BY <1>0, <1>1 DEF ClaimsOK, Pending
  <1>10. TakenOK'
    <2>1. /\ claims[mtail + 1] \in Producers \X Nat /\ item = <<claims[mtail + 1]>>
          /\ taken \in Seq(Producers \X Nat) /\ Len(taken) = mtail
      BY <1>0, <1>1, <1>2, SMTT(30) DEF ClaimsOK, ConsumerOK, TakenOK
    <2>2. /\ taken' \in Seq(Producers \X Nat) /\ Len(taken') = mtail + 1
          /\ taken'[mtail + 1] = claims[mtail + 1]
          /\ \A i \in 1 .. mtail : taken'[i] = taken[i]
      BY <1>1, <1>2, <2>1
    <2> QED  BY <1>0, <1>1, <1>2, <2>2, SMTT(30) DEF TakenOK
  <1>11. DropOK'
    BY <1>0, <1>1, <1>3 DEF DropOK
  <1> QED  BY <1>4, <1>5, <1>6, <1>7, <1>8, <1>9, <1>10, <1>11 DEF MpscInv


-----------------------------------------------------------------------------
(* What the sequence number of a slot tells a producer with an old copy of *)
(* head: it lies behind only if the ring is full, and a copy that is still *)
(* the head finds its own number only in a free slot.                      *)
LEMMA SeqTells ==
  ASSUME MpscInv, NEW h \in Nat, h <= mhead
  PROVE  /\ mseq[Index(h)] \in Nat
         /\ mseq[Index(h)] < h => mhead = Kept + MpscCapacity
         /\ mseq[Index(h)] = h /\ h = mhead => mhead < Kept + MpscCapacity
  <1> USE MpscAssumption
  <1>0. MpscTypeOK /\ BoundsOK /\ PositionsOK
    BY DEF MpscInv
  <1>1. Kept \in Nat /\ mhead \in Nat /\ Kept <= mhead /\ mhead <= Kept + MpscCapacity
    BY <1>0 DEF MpscTypeOK, BoundsOK, Kept
  <1>2. h \in Int /\ Kept \in Int /\ mseq[Index(h)] \in Nat
    <2>1. h \in Int /\ Kept \in Int
      BY <1>1
    <2>2. Index(h) \in 0 .. (MpscCapacity - 1)
      BY <2>1, IndexType
    <2> QED  BY <1>0, <2>1, <2>2 DEF MpscTypeOK
  <1>3. \A i \in Kept .. (Kept + MpscCapacity - 1) : mseq[Index(i)] \in {i, i + 1}
    BY <1>0 DEF PositionsOK, FreeAt, ClaimedAt, PublishedAt
  <1>4. CASE h < Kept
    <2>1. PICK i \in Kept .. (Kept + MpscCapacity - 1) : Index(i) = Index(h)
      BY <1>2, IndexCover, Zenon
    <2>2. mseq[Index(h)] > h
      BY <1>1, <1>3, <1>4, <2>1
    <2> QED  BY <1>1, <1>2, <1>4, <2>2
  <1>5. CASE Kept <= h /\ h < Kept + MpscCapacity
    <2>1. mseq[Index(h)] \in {h, h + 1}
      BY <1>1, <1>3, <1>5
    <2> QED  BY <1>1, <1>2, <1>5, <2>1
  <1>6. CASE h = Kept + MpscCapacity
    <2>1. Index(h) = Index(Kept)
      BY <1>1, <1>6, IndexTurn
    <2>2. Kept \in Kept .. (Kept + MpscCapacity - 1)
      BY <1>1
    <2>3. mseq[Index(h)] \in {Kept, Kept + 1}
      BY <1>3, <2>1, <2>2
    <2> QED  BY <1>1, <1>2, <1>6, <2>3
  <1> QED  BY <1>1, <1>4, <1>5, <1>6

(* Every step keeps the invariant.                                         *)
LEMMA StepInv == MpscInv /\ [MpscNext]_mpscVars => MpscInv'
  <1> SUFFICES ASSUME MpscInv, [MpscNext]_mpscVars PROVE MpscInv'
    OBVIOUS
  <1> USE MpscAssumption
  <1>0. MpscTypeOK /\ ProducersOK /\ ConsumerOK /\ DropOK /\ PositionsOK /\ BoundsOK
    BY DEF MpscInv
  <1>1. ASSUME NEW p \in Producers, EnqueueCall(p) PROVE MpscInv'
    <2>1. /\ mhead \in Nat /\ calls[p] \in Nat /\ calls[p] + 1 \in Nat /\ mhead <= mhead
          /\ calls[p] <= calls[p] + 1 /\ calls[p] < calls[p] + 1
      BY <1>0 DEF MpscTypeOK
    <2>2. /\ ~Owns(p) /\ left # Drain
          /\ epc' = [epc EXCEPT ![p] = "seq"] /\ ehead' = [ehead EXCEPT ![p] = mhead]
          /\ calls' = [calls EXCEPT ![p] = calls[p] + 1]
          /\ UNCHANGED <<mhead, mtail, slotVars, consVars, claims, taken>>
      BY <1>1 DEF EnqueueCall, Owns
    <2> QED  BY <2>1, <2>2, ProducerMoves, Zenon
  <1>2. ASSUME NEW p \in Producers, LoadSeq(p) PROVE MpscInv'
    <2> DEFINE pc == IF mseq[Index(ehead[p])] - ehead[p] = 0 THEN "cas"
                     ELSE IF mseq[Index(ehead[p])] - ehead[p] < 0 THEN "idle" ELSE "load"
    <2>1. ehead[p] \in Nat /\ calls[p] \in Nat /\ ehead[p] <= mhead /\ calls[p] <= calls[p]
      BY <1>0 DEF MpscTypeOK, ProducersOK
    <2>2. /\ ~Owns(p) /\ Pending(p) /\ left # Drain
          /\ epc' = [epc EXCEPT ![p] = pc]
          /\ UNCHANGED <<mhead, mtail, slotVars, consVars, claims, taken>>
      BY <1>0, <1>2, Zenon DEF LoadSeq, Owns, Pending, DropOK
    <2>3. ehead' = [ehead EXCEPT ![p] = ehead[p]] /\ calls' = [calls EXCEPT ![p] = calls[p]]
      BY <1>0, <1>2, Zenon DEF LoadSeq, MpscTypeOK
    <2>4. pc = "cas" /\ ehead[p] = mhead => mhead < Kept + MpscCapacity
      <3>1. mseq[Index(ehead[p])] \in Nat /\ (mseq[Index(ehead[p])] = ehead[p] /\ ehead[p] = mhead => mhead < Kept + MpscCapacity)
        BY <2>1, SeqTells
      <3> QED  BY <2>1, <3>1
    <2>5. pc \in {"idle", "seq", "load", "cas"}
      OBVIOUS
    <2> HIDE DEF pc
    <2> QED  BY <2>1, <2>2, <2>3, <2>4, <2>5, ProducerMoves, Zenon
  <1>3. ASSUME NEW p \in Producers, ReloadHead(p) \/ ClaimFails(p) PROVE MpscInv'
    <2>1. mhead \in Nat /\ calls[p] \in Nat /\ mhead <= mhead /\ calls[p] <= calls[p]
      BY <1>0 DEF MpscTypeOK
    <2>2. /\ ~Owns(p) /\ Pending(p) /\ left # Drain
          /\ epc' = [epc EXCEPT ![p] = "seq"] /\ ehead' = [ehead EXCEPT ![p] = mhead]
          /\ UNCHANGED <<mhead, mtail, slotVars, consVars, claims, taken>>
      BY <1>0, <1>3 DEF ReloadHead, ClaimFails, Owns, Pending, DropOK
    <2>3. calls' = [calls EXCEPT ![p] = calls[p]]
      BY <1>0, <1>3 DEF ReloadHead, ClaimFails, MpscTypeOK
    <2> QED  BY <2>1, <2>2, <2>3, ProducerMoves, Zenon
  <1>4. CASE DequeueCall
    <2>1. /\ dpc \in {"idle", "look"} /\ dpc' \in {"idle", "look", "read"} /\ dpc' # "read"
          /\ left' \in Nat \cup {Drain} /\ left' # 0 /\ left' # Drain
          /\ UNCHANGED <<mhead, mtail, slotVars, prodVars, item, claims, taken>>
      BY <1>4 DEF DequeueCall, Drain
    <2> QED  BY <2>1, ConsumerMoves
  <1>5. CASE Look
    <2>1. /\ dpc \in {"idle", "look"} /\ dpc' \in {"idle", "look", "read"}
          /\ dpc' = "read" => mseq[Index(mtail)] = mtail + 1
          /\ UNCHANGED <<mhead, mtail, slotVars, prodVars, item, claims, taken>>
      BY <1>5, SMTT(30) DEF Look
    <2>2. left' \in Nat \cup {Drain} /\ (dpc' # "idle" => left' # 0)
      BY <1>0, <1>5 DEF Look, MpscTypeOK, ConsumerOK, Drain
    <2>3. left' = Drain => left = Drain
      BY <1>5 DEF Look, Drain
    <2>4. ASSUME left' = Drain, dpc' = "idle" PROVE mhead = mtail
      <3>1. mseq[Index(mtail)] # mtail + 1 /\ Kept = mtail
        BY <1>5, <2>4 DEF Look, Kept
      <3>2. mtail \in Nat /\ mhead \in Nat /\ mtail <= mhead
        BY <1>0, <3>1 DEF MpscTypeOK, BoundsOK
      <3>3. \A p \in Producers : ~Owns(p)
        BY <1>0, <2>3, <2>4 DEF DropOK, Owns
      <3>4. FreeAt(mtail) \/ ClaimedAt(mtail) \/ PublishedAt(mtail)
        BY <1>0, <3>1, <3>2 DEF PositionsOK
      <3>5. FreeAt(mtail)
        BY <3>1, <3>3, <3>4 DEF ClaimedAt, PublishedAt
      <3> QED  BY <3>2, <3>5 DEF FreeAt
    <2> QED  BY <1>0, <2>1, <2>2, <2>3, <2>4, ConsumerMoves, Zenon DEF DropOK
  <1>6. CASE DropRing
    <2>1. /\ dpc \in {"idle", "look"} /\ dpc' = "look" /\ left' = Drain /\ Drain # 0
          /\ \A p \in Producers : epc[p] = "idle"
          /\ UNCHANGED <<mhead, mtail, slotVars, prodVars, item, claims, taken>>
      BY <1>6 DEF DropRing, Drain
    <2> QED  BY <2>1, ConsumerMoves
  <1>7. CASE UNCHANGED mpscVars
    <2> USE <1>7 DEF mpscVars
    <2>1. (MpscTypeOK /\ BoundsOK /\ TakenOK /\ DropOK)'
      BY Zenon DEF MpscInv, MpscTypeOK, BoundsOK, TakenOK, DropOK, Kept
    <2>2. PositionsOK'
      BY Zenon DEF MpscInv, PositionsOK, Kept, FreeAt, ClaimedAt, PublishedAt, Owns
    <2>3. ProducersOK'
      BY Zenon DEF MpscInv, ProducersOK, Kept, OwnerOK, Owns, Item
    <2>4. ConsumerOK' /\ ClaimsOK'
      BY DEF MpscInv, ConsumerOK, ClaimsOK, Pending
    <2> QED  BY <2>1, <2>2, <2>3, <2>4 DEF MpscInv
  <1> QED
    BY <1>1, <1>2, <1>3, <1>4, <1>5, <1>6, <1>7, ClaimInv, WriteDataInv, PublishSeqInv, ReadDataInv,
       ResetSeqInv, AdvanceTailInv
    DEF MpscNext, Producer, Consumer

(* The invariant holds of the ring.                                        *)
LEMMA RingInv == MpscSpec => []MpscInv
  BY InitInv, StepInv, PTL DEF MpscSpec

-----------------------------------------------------------------------------
(* No slot is touched by two threads at a time, for every capacity and any *)
(* number of producers.                                                    *)
THEOREM SlotsAreExclusive == MpscSpec => []SlotExclusive
  <1>1. MpscInv => SlotExclusive
    BY OwnersDiffer, OwnerInRange DEF SlotExclusive
  <1> QED  BY <1>1, RingInv, PTL

(* No item is overwritten before it is read, and nothing is read that was  *)
(* not written.                                                            *)
THEOREM SlotsAreFilledOnce == MpscSpec => []SlotFilledOnce
  <1>1. MpscInv => SlotFilledOnce
    <2> SUFFICES ASSUME MpscInv PROVE SlotFilledOnce
      OBVIOUS
    <2>1. ASSUME NEW p \in Producers, epc[p] = "write" PROVE mdata[Index(ehead[p])] = << >>
      <3>1. OwnerOK(p)
        BY <2>1 DEF MpscInv, ProducersOK, Owns
      <3> QED  BY <2>1, <3>1, Zenon DEF OwnerOK
    <2>2. ASSUME dpc = "read" PROVE mdata[Index(mtail)] # << >>
      <3>1. mdata[Index(mtail)] = <<claims[mtail + 1]>>
        BY <2>2 DEF MpscInv, ConsumerOK
      <3>2. \A x : <<x>> # << >>
        OBVIOUS
      <3> QED  BY <3>1, <3>2, Zenon
    <2> QED  BY <2>1, <2>2 DEF SlotFilledOnce
  <1> QED  BY <1>1, RingInv, PTL

(* Every accepted item is dequeued at most once and in the order of the    *)
(* claims, however publications overtake each other.                       *)
THEOREM ItemsComeInClaimOrder == MpscSpec => []DequeuedInClaimOrder
  <1>1. MpscInv => DequeuedInClaimOrder
    <2> SUFFICES ASSUME MpscInv PROVE DequeuedInClaimOrder
      OBVIOUS
    <2>1. /\ claims \in Seq(Producers \X Nat) /\ Len(claims) = mhead
          /\ \A i, j \in 1 .. mhead : claims[i] = claims[j] => i = j
          /\ taken \in Seq(Producers \X Nat) /\ Len(taken) = mtail
          /\ \A i \in 1 .. mtail : taken[i] = claims[i]
      BY DEF MpscInv, ClaimsOK, TakenOK
    <2>2. mtail \in Nat /\ mhead \in Nat /\ mtail <= mhead
      BY DEF MpscInv, MpscTypeOK, BoundsOK, Kept
    <2>3. taken = SubSeq(claims, 1, Len(taken))
      <3>1. SubSeq(claims, 1, mtail) \in Seq(Producers \X Nat) /\ Len(SubSeq(claims, 1, mtail)) = mtail
            /\ \A i \in 1 .. mtail : SubSeq(claims, 1, mtail)[i] = claims[i]
        BY <2>1, <2>2
      <3> QED  BY <2>1, <2>2, <3>1
    <2> QED  BY <2>1, <2>2, <2>3 DEF DequeuedInClaimOrder
  <1> QED  BY <1>1, RingInv, PTL

(* drop finds every item: when its loop ends the ring is empty.            *)
THEOREM DropDrains == MpscSpec => []DropLeavesNothing
  <1>1. MpscInv => DropLeavesNothing
    <2> SUFFICES ASSUME MpscInv, left = Drain, dpc = "idle"
                 PROVE  (\A s \in DOMAIN mdata : mdata[s] = << >>) /\ taken = claims
      BY DEF DropLeavesNothing
    <2>1. mhead = mtail /\ mtail \in Nat /\ Kept = mtail /\ DOMAIN mdata = 0 .. (MpscCapacity - 1)
      BY DEF MpscInv, DropOK, MpscTypeOK, Kept
    <2>2. taken = claims
      BY <2>1 DEF MpscInv, ClaimsOK, TakenOK
    <2>3. ASSUME NEW s \in 0 .. (MpscCapacity - 1) PROVE mdata[s] = << >>
      <3>1. Index(s) = s
        BY MpscAssumption, ModSmall DEF Index
      <3>2. PICK i \in mtail .. (mtail + MpscCapacity - 1) : Index(i) = Index(s)
        <4>1. mtail \in Int /\ s \in Int
          BY MpscAssumption, <2>1
        <4> QED  BY <4>1, IndexCover, Zenon
      <3>3. FreeAt(i)
        BY MpscAssumption, <2>1, <3>2 DEF MpscInv, PositionsOK, ClaimedAt, PublishedAt
      <3> QED  BY <3>1, <3>2, <3>3 DEF FreeAt
    <2> QED  BY <2>1, <2>2, <2>3, Zenon
  <1> QED  BY <1>1, RingInv, PTL

(* enqueue refuses an item only while every slot is taken, however old its *)
(* copy of head is.                                                        *)
THEOREM RefusalsAreRight == MpscSpec => RefusedOnlyWhenFull
  <1>1. MpscInv /\ [MpscNext]_mpscVars =>
          [\A p \in Producers :
             epc[p] = "seq" /\ epc'[p] = "idle" => mhead - mtail >= MpscCapacity]_mpscVars
    <2> SUFFICES ASSUME MpscInv, MpscNext, NEW p \in Producers, epc[p] = "seq", epc'[p] = "idle"
                 PROVE  mhead - mtail >= MpscCapacity
      OBVIOUS
    <2>0. MpscTypeOK /\ ProducersOK
      BY ZenonT(30) DEF MpscInv
    <2>1. LoadSeq(p)
      BY <2>0 DEF MpscNext, Producer, Consumer, EnqueueCall, ReloadHead, Claim, ClaimFails, WriteData,
                  PublishSeq, LoadSeq, DequeueCall, Look, ReadData, ResetSeq, AdvanceTail, DropRing, prodVars,
                  MpscTypeOK
    <2>2. ehead[p] \in Nat /\ ehead[p] <= mhead /\ mtail \in Nat /\ mhead \in Nat
      BY <2>0, SMTT(30) DEF MpscTypeOK, ProducersOK
    <2>3. /\ mseq[Index(ehead[p])] \in Nat
          /\ mseq[Index(ehead[p])] < ehead[p] => mhead = Kept + MpscCapacity
      BY <2>2, SeqTells, Zenon
    <2>4. mseq[Index(ehead[p])] - ehead[p] < 0
      BY <2>0, <2>1 DEF LoadSeq, MpscTypeOK
    <2> QED  BY MpscAssumption, <2>2, <2>3, <2>4 DEF Kept
  <1> QED  BY <1>1, RingInv, PTL DEF MpscSpec, RefusedOnlyWhenFull
=============================================================================
