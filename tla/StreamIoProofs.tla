--------------------------- MODULE StreamIoProofs ---------------------------
(***************************************************************************)
(* The theorems about StreamIo: the steps of the engine's thread, Init, and *)
(* what the invariant of StreamIoSteps gives.                              *)
(***************************************************************************)
EXTENDS StreamIoSteps

-----------------------------------------------------------------------------
(* What the engine's handlers call, in order. *)

Wakes == {"notify_all", "wake_read", "wake_write"}
Comes(ops, w) == \E i \in DOMAIN ops : ops[i].op = w

\* Calls that end with everyone woken.
WakesAll(ops) ==
  /\ ops \in Seq(Ops) /\ OpsOK(ops) /\ \A w \in Wakes : Comes(ops, w)
  /\ \A i \in DOMAIN ops : ops[i].op \notin Lasts

\* The elements of two sequences joined.
Joined(p, q, c) ==
  /\ c \in Seq(Ops) /\ Len(c) = Len(p) + Len(q)
  /\ \A i \in DOMAIN c : (i \in DOMAIN p /\ c[i] = p[i]) \/ \E k \in DOMAIN q : i = Len(p) + k /\ c[i] = q[k]
  /\ \A k \in DOMAIN q : Len(p) + k \in DOMAIN c /\ c[Len(p) + k] = q[k]

\* Concatenation joins.
LEMMA CatFacts == ASSUME NEW p \in Seq(Ops), NEW q \in Seq(Ops) PROVE Joined(p, q, p \o q)
<1>1. p \o q \in Seq(Ops) /\ Len(p \o q) = Len(p) + Len(q) OBVIOUS
<1>2. Len(p) \in Nat /\ Len(q) \in Nat OBVIOUS
<1>3. DOMAIN p = 1..Len(p) /\ DOMAIN q = 1..Len(q) /\ DOMAIN (p \o q) = 1..(Len(p) + Len(q)) BY <1>1
<1>4. ASSUME NEW i \in DOMAIN (p \o q)
      PROVE  \/ i \in DOMAIN p /\ (p \o q)[i] = p[i]
             \/ \E k \in DOMAIN q : i = Len(p) + k /\ (p \o q)[i] = q[k]
  <2>1. i \in Int /\ i >= 1 /\ i <= Len(p) + Len(q) BY <1>2, <1>3
  <2>2. CASE i <= Len(p)
    <3>1. i \in DOMAIN p BY <1>2, <1>3, <2>1, <2>2
    <3>2. (p \o q)[i] = p[i] BY <2>1, <2>2
    <3> QED BY <3>1, <3>2
  <2>3. CASE ~(i <= Len(p))
    <3>1. i - Len(p) \in DOMAIN q /\ i = Len(p) + (i - Len(p)) BY <1>2, <1>3, <2>1, <2>3
    <3>2. (p \o q)[i] = q[i - Len(p)] BY <2>1, <2>3
    <3> QED BY <3>1, <3>2
  <2> QED BY <2>2, <2>3
<1>5. ASSUME NEW k \in DOMAIN q PROVE Len(p) + k \in DOMAIN (p \o q) /\ (p \o q)[Len(p) + k] = q[k]
  <2>1. k \in Int /\ k >= 1 /\ k <= Len(q) BY <1>2, <1>3
  <2>2. Len(p) + k \in DOMAIN (p \o q) BY <1>2, <1>3, <2>1
  <2>3. (p \o q)[Len(p) + k] = q[(Len(p) + k) - Len(p)] BY <1>2, <2>1
  <2>4. (Len(p) + k) - Len(p) = k BY <1>2, <2>1
  <2> QED BY <2>2, <2>3, <2>4
<1> QED BY <1>1, <1>4, <1>5, Zenon DEF Joined

\* Calls before calls that wake everyone.
LEMMA WakesAfter ==
  ASSUME NEW p \in Seq(Ops), \A i \in DOMAIN p : p[i].op \notin Lasts, NEW q, WakesAll(q)
  PROVE  WakesAll(p \o q)
<1>1. q \in Seq(Ops) /\ OpsOK(q) /\ (\A w \in Wakes : Comes(q, w)) /\ \A i \in DOMAIN q : q[i].op \notin Lasts
  BY Zenon DEF WakesAll
<1> DEFINE c == p \o q
<1>c. c = p \o q OBVIOUS
<1> HIDE DEF c
<1>2. /\ c \in Seq(Ops) /\ Len(c) = Len(p) + Len(q)
      /\ \A i \in DOMAIN c : (i \in DOMAIN p /\ c[i] = p[i]) \/ \E k \in DOMAIN q : i = Len(p) + k /\ c[i] = q[k]
      /\ \A k \in DOMAIN q : Len(p) + k \in DOMAIN c /\ c[Len(p) + k] = q[k]
  <2>1. Joined(p, q, c) BY <1>1, <1>c, CatFacts, Zenon
  <2> QED BY <2>1, Zenon DEF Joined
<1>3. Len(p) \in Nat /\ Len(q) \in Nat /\ DOMAIN p = 1..Len(p) /\ DOMAIN q = 1..Len(q) BY <1>1
<1>4. ASSUME NEW w \in Wakes PROVE Comes(c, w)
  <2>1. PICK k \in DOMAIN q : q[k].op = w BY <1>1, Zenon DEF Comes
  <2> QED BY <1>2, <2>1, Zenon DEF Comes
<1>5. \A i \in DOMAIN c : c[i].op \notin Lasts BY <1>1, <1>2, Zenon
<1>6. ASSUME NEW i \in DOMAIN c, c[i].op \in Signals, NEW w \in Wakes
      PROVE  \E j \in DOMAIN c : j > i /\ c[j].op = w
  <2>1. CASE i \in DOMAIN p
    <3>1. PICK k \in DOMAIN q : q[k].op = w BY <1>1, Zenon DEF Comes
    <3>2. Len(p) + k > i BY <1>3, <2>1
    <3> QED BY <1>2, <3>1, <3>2, Zenon
  <2>2. CASE \E k \in DOMAIN q : i = Len(p) + k /\ c[i] = q[k]
    <3>1. PICK k \in DOMAIN q : i = Len(p) + k /\ c[i] = q[k] BY <2>2
    <3>2. q[k].op \in Signals BY <1>6, <3>1
    <3>3. PICK j \in DOMAIN q : j > k /\ q[j].op = w BY <1>1, <3>2, Zenon DEF OpsOK, Wakes
    <3>4. Len(p) + j > i BY <1>3, <3>1, <3>3
    <3> QED BY <1>2, <3>3, <3>4, Zenon
  <2> QED BY <1>2, <2>1, <2>2, Zenon
<1>7. OpsOK(c) BY <1>5, <1>6, Zenon DEF OpsOK, Wakes
<1> QED BY <1>2, <1>4, <1>5, <1>7, Zenon DEF WakesAll, c

\* A call after calls that wake everyone.
LEMMA WakesBefore ==
  ASSUME NEW q, WakesAll(q), NEW x \in Ops, x.op \notin Signals
  PROVE  q \o <<x>> \in Seq(Ops) /\ OpsOK(q \o <<x>>)
<1>1. q \in Seq(Ops) /\ OpsOK(q) /\ \A i \in DOMAIN q : q[i].op \notin Lasts BY Zenon DEF WakesAll
<1> DEFINE y == <<x>>
           c == q \o y
<1>2. y \in Seq(Ops) /\ Len(y) = 1 /\ DOMAIN y = {1} /\ y[1] = x OBVIOUS
<1> HIDE DEF y
<1>c. c = q \o y OBVIOUS
<1> HIDE DEF c
<1>3. /\ c \in Seq(Ops) /\ Len(c) = Len(q) + 1
      /\ \A i \in DOMAIN c : (i \in DOMAIN q /\ c[i] = q[i]) \/ (i = Len(q) + 1 /\ c[i] = x)
  <2>1. /\ c \in Seq(Ops) /\ Len(c) = Len(q) + Len(y)
        /\ \A i \in DOMAIN c : (i \in DOMAIN q /\ c[i] = q[i]) \/ \E k \in DOMAIN y : i = Len(q) + k /\ c[i] = y[k]
    <3>1. Joined(q, y, c) BY <1>1, <1>2, <1>c, CatFacts, Zenon
    <3> QED BY <3>1, Zenon DEF Joined
  <2> QED BY <1>2, <2>1
<1>4. Len(q) \in Nat /\ DOMAIN q = 1..Len(q) /\ DOMAIN c = 1..Len(c) BY <1>1, <1>3
<1>5. \A i \in DOMAIN q : i \in DOMAIN c /\ c[i] = q[i]
  <2> SUFFICES ASSUME NEW i \in DOMAIN q PROVE i \in DOMAIN c /\ c[i] = q[i] OBVIOUS
  <2>1. i \in DOMAIN c /\ i # Len(q) + 1 BY <1>3, <1>4
  <2> QED BY <1>3, <2>1, Zenon
<1>6. ASSUME NEW i \in DOMAIN c
      PROVE  /\ c[i].op \in Signals => \A w \in {"notify_all", "wake_read", "wake_write"} :
                                        \E j \in DOMAIN c : j > i /\ c[j].op = w
             /\ c[i].op \in Lasts => i = Len(c)
  <2>1. CASE i \in DOMAIN q /\ c[i] = q[i]
    <3>1. c[i].op \notin Lasts BY <1>1, <2>1, Zenon
    <3>2. ASSUME c[i].op \in Signals, NEW w \in {"notify_all", "wake_read", "wake_write"}
          PROVE  \E j \in DOMAIN c : j > i /\ c[j].op = w
      <4>1. q[i].op \in Signals BY <2>1, <3>2, Zenon
      <4>2. PICK j \in DOMAIN q : j > i /\ q[j].op = w BY <1>1, <2>1, <4>1, Zenon DEF OpsOK
      <4> QED BY <1>5, <4>2, Zenon
    <3> QED BY <3>1, <3>2, Zenon
  <2>2. CASE i = Len(q) + 1 /\ c[i] = x BY <1>3, <2>2, Zenon
  <2> QED BY <1>3, <2>1, <2>2, Zenon
<1> QED BY <1>3, <1>6, Zenon DEF OpsOK, c, y

\* The sequences of calls that the handlers use.
LEMMA HandlerOps ==
  /\ WakesAll(NotifyAll) /\ WakesAll(<<Do("write_rx")>> \o NotifyAll) /\ WakesAll(<<Do("set_eof")>> \o NotifyAll)
  /\ \A e \in Results : /\ DoWith("latch_error", e) \in Ops /\ DoWith("respond", e) \in Ops
                        /\ WakesAll(<<DoWith("latch_error", e)>> \o NotifyAll) /\ WakesAll(Abort(e))
<1> USE DEF Do, DoWith
<1>1. \A x \in OpNames : Do(x) \in Ops BY DEF Ops, None
<1>2. \A e \in Results : DoWith("latch_error", e) \in Ops /\ DoWith("respond", e) \in Ops BY DEF Ops, OpNames
<1>3. WakesAll(NotifyAll)
  <2>1. NotifyAll \in Seq(Ops) BY <1>1 DEF NotifyAll, OpNames
  <2>2. DOMAIN NotifyAll = {1, 2, 3} /\ NotifyAll[1].op = "notify_all" /\ NotifyAll[2].op = "wake_read"
        /\ NotifyAll[3].op = "wake_write"
    BY DEF NotifyAll
  <2>3. \A i \in DOMAIN NotifyAll : NotifyAll[i].op \notin Signals /\ NotifyAll[i].op \notin Lasts
    BY <2>2 DEF Signals, Lasts
  <2>4. \A w \in Wakes : Comes(NotifyAll, w) BY <2>2 DEF Wakes, Comes
  <2>5. OpsOK(NotifyAll) BY <2>3, Zenon DEF OpsOK
  <2> QED BY <2>1, <2>3, <2>4, <2>5, Zenon DEF WakesAll
<1>4. ASSUME NEW x \in Ops, x.op \notin Lasts PROVE WakesAll(<<x>> \o NotifyAll)
  <2>1. <<x>> \in Seq(Ops) /\ \A i \in DOMAIN <<x>> : <<x>>[i].op \notin Lasts BY <1>4
  <2> QED BY <1>3, <2>1, WakesAfter, Zenon
<1>5. WakesAll(<<Do("write_rx")>> \o NotifyAll) /\ WakesAll(<<Do("set_eof")>> \o NotifyAll)
  BY <1>1, <1>4 DEF OpNames, Lasts
<1>6. ASSUME NEW e \in Results PROVE WakesAll(<<DoWith("latch_error", e)>> \o NotifyAll)
  BY <1>2, <1>4, Zenon DEF Lasts
<1>7. ASSUME NEW e \in Results PROVE WakesAll(Abort(e))
  <2> DEFINE p == <<DoWith("latch_error", e), Do("set_eof")>>
  <2>1. p \in Seq(Ops)
    <3>1. \A x, y \in Ops : <<x, y>> \in Seq(Ops) OBVIOUS
    <3>2. "set_eof" \in OpNames BY DEF OpNames
    <3>3. DoWith("latch_error", e) \in Ops /\ Do("set_eof") \in Ops BY <1>1, <1>2, <3>2, Zenon
    <3> QED BY <3>1, <3>3, Zenon
  <2>2. \A i \in DOMAIN p : p[i].op \notin Lasts BY DEF Lasts
  <2> HIDE DEF p
  <2>3. WakesAll(p \o NotifyAll) BY <1>3, <2>1, <2>2, WakesAfter, Zenon
  <2> QED BY <2>3, Zenon DEF Abort, p
<1> QED BY <1>2, <1>3, <1>5, <1>6, <1>7, Zenon

\* What remains of a handler's calls after the first one.
LEMMA OpsTail ==
  ASSUME NEW ops \in Seq(Ops), ops # << >>, OpsOK(ops)
  PROVE  /\ Head(ops) \in Ops /\ Tail(ops) \in Seq(Ops) /\ OpsOK(Tail(ops))
         /\ \A w : Comes(ops, w) /\ w # Head(ops).op => Comes(Tail(ops), w)
         /\ Head(ops).op \in Signals => \A w \in Wakes : Comes(Tail(ops), w)
         /\ Head(ops).op \in Lasts => \A w : Comes(ops, w) => w = Head(ops).op
<1> DEFINE h == Head(ops)
           q == Tail(ops)
<1>1. /\ 1 \in DOMAIN ops /\ h = ops[1] /\ q \in Seq(Ops)
      /\ \A i \in DOMAIN q : i + 1 \in DOMAIN ops /\ q[i] = ops[i + 1] /\ i + 1 # 1
  BY TailFacts, Zenon
<1>2. Len(q) = Len(ops) - 1 /\ Len(ops) \in Nat /\ Len(ops) >= 1 /\ DOMAIN q = 1..(Len(ops) - 1) /\ DOMAIN ops = 1..Len(ops)
  OBVIOUS
<1>3. h \in Ops BY <1>1
<1> HIDE DEF h, q
<1>4. \A j \in DOMAIN ops : j # 1 => j - 1 \in DOMAIN q /\ ops[j] = q[j - 1]
  <2> SUFFICES ASSUME NEW j \in DOMAIN ops, j # 1 PROVE j - 1 \in DOMAIN q /\ ops[j] = q[j - 1] OBVIOUS
  <2>1. j - 1 \in DOMAIN q /\ (j - 1) + 1 = j BY <1>2
  <2> QED BY <1>1, <2>1
<1>5. \A w : Comes(ops, w) /\ w # h.op => Comes(q, w)
  <2> SUFFICES ASSUME NEW w, Comes(ops, w), w # h.op PROVE Comes(q, w) OBVIOUS
  <2>1. PICK j \in DOMAIN ops : ops[j].op = w BY Zenon DEF Comes
  <2>2. j # 1 BY <1>1, <2>1
  <2> QED BY <1>4, <2>1, <2>2, Zenon DEF Comes
<1>6. ASSUME h.op \in Signals, NEW w \in Wakes PROVE Comes(q, w)
  <2>1. ops[1].op \in Signals BY <1>1, <1>6, Zenon
  <2>2. PICK j \in DOMAIN ops : j > 1 /\ ops[j].op = w BY <1>1, <2>1, Zenon DEF OpsOK, Wakes
  <2>3. j # 1 BY <2>2
  <2> QED BY <1>4, <2>2, <2>3, Zenon DEF Comes
<1>7. ASSUME h.op \in Lasts, NEW w, Comes(ops, w) PROVE w = h.op
  <2>1. Len(ops) = 1 BY <1>1, <1>7, Zenon DEF OpsOK
  <2>2. DOMAIN ops = {1} BY <1>2, <2>1
  <2> QED BY <1>1, <1>7, <2>2, Zenon DEF Comes
<1>8. ASSUME NEW i \in DOMAIN q
      PROVE  /\ q[i].op \in Signals => \A w \in {"notify_all", "wake_read", "wake_write"} :
                                        \E j \in DOMAIN q : j > i /\ q[j].op = w
             /\ q[i].op \in Lasts => i = Len(q)
  <2>1. i + 1 \in DOMAIN ops /\ q[i] = ops[i + 1] BY <1>1
  <2>2. ASSUME q[i].op \in Signals, NEW w \in {"notify_all", "wake_read", "wake_write"}
        PROVE  \E j \in DOMAIN q : j > i /\ q[j].op = w
    <3>1. ops[i + 1].op \in Signals BY <2>1, <2>2, Zenon
    <3>2. PICK j \in DOMAIN ops : j > i + 1 /\ ops[j].op = w BY <2>1, <3>1, Zenon DEF OpsOK
    <3>3. j # 1 /\ j - 1 > i BY <1>2, <3>2
    <3> QED BY <1>4, <3>2, <3>3, Zenon
  <2>3. ASSUME q[i].op \in Lasts PROVE i = Len(q)
    <3>1. ops[i + 1].op \in Lasts BY <2>1, <2>3, Zenon
    <3>2. i + 1 = Len(ops) BY <2>1, <3>1, Zenon DEF OpsOK
    <3> QED BY <1>2, <3>2
  <2> QED BY <2>2, <2>3, Zenon
<1>9. OpsOK(q) BY <1>8, Zenon DEF OpsOK
<1> QED BY <1>1, <1>3, <1>5, <1>6, <1>7, <1>9, Zenon DEF h, q

HandlerOK(h) == h.state \in States /\ h.ops \in Seq(Ops) /\ OpsOK(h.ops)

\* A handler built from calls in order.
LEMMA HandlerFacts ==
  /\ \A s \in States : \A ops : WakesAll(ops) => HandlerOK(Handler(s, ops))
  /\ \A s \in States : HandlerOK(Handler(s, << >>)) /\ HandlerOK(Handler(s, <<Do("ack")>>))
  /\ \A s, ops : Handler(s, ops).state = s
<1>1. \A s, ops : Handler(s, ops).state = s /\ Handler(s, ops).ops = ops BY DEF Handler
<1>2. << >> \in Seq(Ops) /\ OpsOK(<< >>) BY DEF OpsOK
<1>3. <<Do("ack")>> \in Seq(Ops) /\ OpsOK(<<Do("ack")>>)
  <2>1. Do("ack") \in Ops BY DEF Do, Ops, OpNames
  <2>2. <<Do("ack")>> \in Seq(Ops) BY <2>1
  <2>3. \A i \in DOMAIN <<Do("ack")>> : i = Len(<<Do("ack")>>) /\ <<Do("ack")>>[i].op = "ack" BY DEF Do
  <2> QED BY <2>2, <2>3 DEF OpsOK, Signals
<1> QED BY <1>1, <1>2, <1>3, Zenon DEF HandlerOK, WakesAll

\* Every segment leads to a state and to calls in order.
LEMMA SegmentsOK == ASSUME NEW s \in States, NEW h \in Segments(s) PROVE HandlerOK(h)
<1>1. States = {"Absent", "SynSent", "SynReceived", "Established", "CloseWait", "FinWait1", "FinWait2",
                "Closing", "TimeWait", "LastAck"}
  BY DEF States
<1>2. \A next \in States : HandlerOK(PeerFin(next)) /\ HandlerOK(Data(next))
  BY HandlerFacts, HandlerOps, Zenon DEF PeerFin, Data
<1>3. {"ConnectionReset", "ConnectionRefused", "Ok"} \subseteq Results BY DEF Results
<1>4. \A e \in Results : /\ HandlerOK(Handler("Absent", <<DoWith("latch_error", e)>> \o NotifyAll))
                         /\ HandlerOK(Handler("Absent", Abort(e)))
  BY <1>1, HandlerFacts, HandlerOps, Zenon
<1>5. \A g \in Reset(s) : HandlerOK(g) BY <1>3, <1>4 DEF Reset
<1>6. HandlerOK(Handler("Established", NotifyAll \o <<DoWith("respond", "Ok")>>))
  <2>1. DoWith("respond", "Ok") \in Ops BY <1>3, HandlerOps, Zenon
  <2>2. DoWith("respond", "Ok").op \notin Signals BY DEF DoWith, Signals
  <2> QED BY <1>1, <2>1, <2>2, HandlerFacts, HandlerOps, WakesBefore DEF HandlerOK, Handler
<1>7. HandlerOK(Handler("Absent", <<DoWith("latch_error", "ConnectionRefused")>> \o NotifyAll
                                   \o <<DoWith("respond", "ConnectionRefused")>>))
  <2> DEFINE x == DoWith("respond", "ConnectionRefused")
             q == <<DoWith("latch_error", "ConnectionRefused")>> \o NotifyAll
  <2>1. x \in Ops /\ WakesAll(q) BY <1>3, HandlerOps
  <2>2. x.op \notin Signals BY DEF DoWith, Signals
  <2> HIDE DEF x, q
  <2>3. q \o <<x>> \in Seq(Ops) /\ OpsOK(q \o <<x>>) BY <2>1, <2>2, WakesBefore, Zenon
  <2> QED BY <1>1, <2>3 DEF HandlerOK, Handler, x, q
<1>8. HandlerOK(Handler("Established", NotifyAll \o <<Do("deliver_accept")>>))
  <2> DEFINE x == Do("deliver_accept")
  <2>1. x \in Ops /\ x.op \notin Signals BY DEF Do, Ops, OpNames, Signals
  <2> HIDE DEF x
  <2>2. NotifyAll \o <<x>> \in Seq(Ops) /\ OpsOK(NotifyAll \o <<x>>) BY <2>1, HandlerOps, WakesBefore, Zenon
  <2> QED BY <1>1, <2>2 DEF HandlerOK, Handler, x
<1>9. /\ HandlerOK(Handler("Absent", NotifyAll)) /\ HandlerOK(Handler("TimeWait", << >>))
      /\ HandlerOK(Handler("FinWait2", << >>)) /\ HandlerOK(Handler(s, <<Do("ack")>>))
  BY <1>1, HandlerFacts, HandlerOps
<1> QED BY <1>1, <1>2, <1>5, <1>6, <1>7, <1>8, <1>9 DEF Segments

\* Every timer ends the connection.
LEMMA TimersOK == ASSUME NEW s \in States, NEW h \in Timers(s) PROVE HandlerOK(h) /\ h.state = "Absent"
<1>1. "Absent" \in States /\ "TimedOut" \in Results BY DEF States, Results
<1>2. HandlerOK(PeerFin("Absent")) /\ HandlerOK(Handler("Absent", Abort("TimedOut")))
  BY <1>1, HandlerFacts, HandlerOps, Zenon DEF PeerFin
<1>3. h = PeerFin("Absent") \/ h = Handler("Absent", Abort("TimedOut")) BY DEF Timers
<1> QED BY <1>2, <1>3, HandlerFacts, Zenon DEF PeerFin

-----------------------------------------------------------------------------
(* The engine thread. *)

Tcbs == [state : States, fin_pending : BOOLEAN, unsent : Nat, flight : Nat, accept : {"none", "waiting", "queued"}]
Engines == [pc : EnginePcs, ops : Seq(Ops)]

\* What the engine tells the application it has told when everyone is about to be woken.
LEMMA WakeEngine ==
  ASSUME WakeInv, UNCHANGED <<th, waker, parked>>, OpsOK(eng'.ops),
         \/ \A w \in Wakes : Comes(eng'.ops, w)
         \/ UNCHANGED <<error, eof, rx_ring>> /\ \A w \in Wakes : Comes(eng.ops, w) => Comes(eng'.ops, w)
  PROVE  WakeInv'
<1>1. \A w : Coming(w) <=> Comes(eng.ops, w) BY Zenon DEF Coming, Comes
<1>2. \A w : Coming(w)' <=> Comes(eng'.ops, w) BY Zenon DEF Coming, Comes
<1>3. \A c : WakeOf(c) \in Wakes BY DEF WakeOf, Wakes
<1>4. {"notify_all", "wake_read", "wake_write"} \subseteq Wakes BY DEF Wakes
<1>5. ASSUME NEW u \in Threads PROVE PollOK(u, th[u])'
  <2>1. PollOK(u, th'[u]) BY Zenon DEF WakeInv
  <2>2. \A q : PollOK(u, q) => PollOK(u, q)'
    <3>1. CASE \A w \in Wakes : Comes(eng'.ops, w)
      BY <1>2, <1>3, <1>4, <3>1, Zenon DEF PollOK, Reads, Polls, WakeOf
    <3>2. CASE UNCHANGED <<error, eof, rx_ring>> /\ \A w \in Wakes : Comes(eng.ops, w) => Comes(eng'.ops, w)
      <4>1. \A w \in Wakes : Coming(w) => Coming(w)' BY <1>1, <1>2, <3>2, Zenon
      <4>2. \A q : Coming(WakeOf(q.call)) => Coming(WakeOf(q.call))' BY <1>3, <4>1, Zenon DEF WakeOf, Reads, Coming
      <4>3. Coming("wake_read") => Coming("wake_read")' BY <1>4, <4>1
      <4>4. Filled(rx_ring)' = Filled(rx_ring) BY <3>2, Zenon DEF Filled
      <4> QED BY <3>2, <4>2, <4>3, <4>4, Zenon DEF PollOK, Reads, Polls
    <3> QED BY <3>1, <3>2, Zenon
  <2>3. \A q : q = th'[u] => PollOK(u, q)' BY <2>1, <2>2, Zenon
  <2> QED BY <2>3, Zenon DEF PollOK, Coming, Filled, Reads, Polls, WakeOf
<1>6. ASSUME NEW u \in parked' PROVE th'[u].pc = "parked" /\ (Due(th[u].call)' => Coming("notify_all")')
  <2>1. th[u].pc = "parked" /\ (Due(th[u].call) => Coming("notify_all")) BY <1>6, Zenon DEF WakeInv
  <2>2. CASE \A w \in Wakes : Comes(eng'.ops, w) BY <1>2, <1>4, <2>1, <2>2
  <2>3. CASE UNCHANGED <<error, eof, rx_ring>> /\ \A w \in Wakes : Comes(eng.ops, w) => Comes(eng'.ops, w)
    <3>1. Coming("notify_all") => Coming("notify_all")' BY <1>1, <1>2, <1>4, <2>3
    <3>2. Due(th[u].call)' => Due(th[u].call) BY <2>3, Zenon DEF Due, Filled, Reads
    <3> QED BY <2>1, <3>1, <3>2, Zenon
  <2> QED BY <2>2, <2>3, Zenon
<1>7. OpsOK(eng.ops)' BY Zenon DEF OpsOK
<1> QED BY <1>5, <1>6, <1>7, Zenon DEF WakeInv

\* The types of what the engine changes.
LEMMA EngineTypes ==
  ASSUME StreamInv
  PROVE  /\ flag \in BOOLEAN /\ eof \in BOOLEAN /\ cmds \in Seq(Commands) /\ tcb \in Tcbs /\ eng \in Engines
         /\ rx_ring \in Ring /\ tx_ring \in Ring /\ eng.ops \in Seq(Ops) /\ eng.pc \in EnginePcs
         /\ tcb.state \in States /\ OpsOK(eng.ops)
<1>1. tcb \in Tcbs /\ eng \in Engines /\ flag \in BOOLEAN /\ eof \in BOOLEAN /\ cmds \in Seq(Commands)
      /\ rx_ring \in Ring /\ tx_ring \in Ring
  BY Zenon DEF StreamInv, TypeInv, Tcbs, Engines
<1>2. eng.ops \in Seq(Ops) /\ eng.pc \in EnginePcs /\ tcb.state \in States BY <1>1 DEF Tcbs, Engines
<1>3. OpsOK(eng.ops) BY Zenon DEF StreamInv, WakeInv
<1> QED BY <1>1, <1>2, <1>3, Zenon

\* A step of the engine that wakes nobody itself.
LEMMA EngineMove ==
  ASSUME StreamInv,
         UNCHANGED <<th, lock, wakeVars, app_refcount, linger, sent, scene, todo, objVars, logVars>>,
         flag' \in BOOLEAN, eof' \in BOOLEAN, cmds' \in Seq(Commands), tcb' \in Tcbs, eng' \in Engines,
         rx_ring' \in Ring, tx_ring' \in Ring, RingInv', SigInv', OpsOK(eng'.ops),
         \/ \A w \in Wakes : Comes(eng'.ops, w)
         \/ UNCHANGED <<error, eof, rx_ring>> /\ \A w \in Wakes : Comes(eng.ops, w) => Comes(eng'.ops, w)
  PROVE  StreamInv'
<1> USE DEF wakeVars, objVars, logVars
<1>1. TypeInv' BY Zenon DEF StreamInv, TypeInv, Tcbs, Engines
<1>2. LockInv' BY LockStays, Zenon DEF StreamInv
<1>3. HandleInv' BY HandleStays, Zenon DEF StreamInv
<1>4. WakeInv' BY WakeEngine, Zenon DEF StreamInv
<1> QED BY <1>1, <1>2, <1>3, <1>4, Zenon DEF StreamInv

\* A step between the calls of the handlers.
LEMMA EngineStays ==
  ASSUME StreamInv,
         UNCHANGED <<th, lock, wakeVars, app_refcount, linger, sent, scene, todo, objVars, logVars>>,
         UNCHANGED <<error, eof, rx_ring, tx_ring>>,
         flag' \in BOOLEAN, cmds' \in Seq(Commands), tcb' \in Tcbs, eng' \in Engines, SigInv', OpsOK(eng'.ops),
         eng.ops = << >> \/ eng'.ops = eng.ops
  PROVE  StreamInv'
<1>1. RingInv' BY RingStays, Zenon DEF StreamInv, logVars
<1>2. \A w \in Wakes : Comes(eng.ops, w) => Comes(eng'.ops, w)
  <2>1. CASE eng.ops = << >> BY <2>1 DEF Comes
  <2>2. CASE eng'.ops = eng.ops BY <2>2, Zenon
  <2> QED BY <2>1, <2>2
<1>3. eof' \in BOOLEAN /\ rx_ring' \in Ring /\ tx_ring' \in Ring BY EngineTypes, Zenon
<1> QED BY <1>1, <1>2, <1>3, EngineMove, Zenon

\* The engine's signals while it works.
LEMMA SigBusy == ASSUME eng'.pc \in {"frames", "commands"} PROVE SigInv' BY DEF SigInv, SignalNotLost

\* The engine goes from one phase to another.
LEMMA GotoEngine ==
  ASSUME StreamInv, NEW p \in EnginePcs, EngineGoto(p)
  PROVE  eng' \in Engines /\ eng'.pc = p /\ eng'.ops = eng.ops /\ OpsOK(eng'.ops)
<1>1. eng \in Engines /\ OpsOK(eng.ops) BY EngineTypes
<1>2. eng' \in Engines /\ eng'.pc = p /\ eng'.ops = eng.ops BY <1>1 DEF EngineGoto, Engines
<1> QED BY <1>1, <1>2, Zenon

\* wait
LEMMA WaitInv == ASSUME StreamInv, Wait PROVE StreamInv'
<1> USE DEF wakeVars, appVars, objVars, logVars
<1>1. /\ eng.pc = "top" /\ flag' = FALSE /\ EngineGoto(IF flag THEN "frames" ELSE "asleep")
      /\ UNCHANGED <<rx_ring, tx_ring, eof, error, lock, wakeVars, slot, tcb, th, events, appVars>>
  BY DEF Wait
<1> DEFINE p == IF flag THEN "frames" ELSE "asleep"
<1>2. p \in EnginePcs BY DEF EnginePcs
<1>3. eng' \in Engines /\ eng'.pc = p /\ eng'.ops = eng.ops /\ OpsOK(eng'.ops)
  <2> HIDE DEF p
  <2> QED BY <1>1, <1>2, GotoEngine DEF p
<1>4. SigInv'
  <2>1. CASE flag BY <1>3, <2>1, SigBusy
  <2>2. CASE ~flag
    <3>1. eng'.pc = "asleep" BY <1>3, <2>2, Zenon
    <3>2. eng.ops = << >> /\ (cmds # << >> \/ (SendsData(tcb.state) /\ Filled(tx_ring) > 0) => Signalling)
      BY <1>1 DEF StreamInv, SigInv
    <3>3. SignalNotLost' BY <1>1, <2>2, <3>2, Zenon DEF SignalNotLost, Signalling, SendsData, Filled
    <3> QED BY <1>3, <3>1, <3>2, <3>3 DEF SigInv
  <2> QED BY <2>1, <2>2
<1>5. flag' \in BOOLEAN /\ cmds' \in Seq(Commands) /\ tcb' \in Tcbs BY <1>1, EngineTypes, ZenonT(30)
<1> HIDE DEF p
<1> QED BY <1>1, <1>3, <1>4, <1>5, EngineStays

\* wait returns
LEMMA WaitReturnsInv == ASSUME StreamInv, WaitReturns \/ TryRecvAgain PROVE StreamInv'
<1> USE DEF wakeVars, appVars, objVars, logVars
<1>1. /\ flag' = FALSE /\ EngineGoto("frames")
      /\ UNCHANGED <<rx_ring, tx_ring, eof, error, lock, wakeVars, slot, tcb, th, events, appVars>>
  BY DEF WaitReturns, TryRecvAgain
<1>2. eng' \in Engines /\ eng'.pc = "frames" /\ eng'.ops = eng.ops /\ OpsOK(eng'.ops)
  BY <1>1, GotoEngine DEF EnginePcs
<1>3. SigInv' BY <1>2, SigBusy
<1>4. flag' \in BOOLEAN /\ cmds' \in Seq(Commands) /\ tcb' \in Tcbs BY <1>1, EngineTypes, Zenon
<1> QED BY <1>1, <1>2, <1>3, <1>4, EngineStays

\* try_recv
LEMMA TryRecvInv == ASSUME StreamInv, TryRecv PROVE StreamInv'
<1> USE DEF wakeVars, appVars, objVars, logVars
<1> DEFINE p == IF flag \/ scene.mode = "PollOnly" THEN "frames" ELSE "try_again"
<1>1. /\ eng.pc = "top" /\ flag' = FALSE /\ EngineGoto(p)
      /\ UNCHANGED <<rx_ring, tx_ring, eof, error, lock, wakeVars, slot, tcb, th, events, appVars>>
  BY DEF TryRecv
<1>2. p \in EnginePcs /\ p \in {"frames", "try_again"} BY DEF EnginePcs
<1> HIDE DEF p
<1>3. eng' \in Engines /\ eng'.pc = p /\ eng'.ops = eng.ops /\ OpsOK(eng'.ops) BY <1>1, <1>2, GotoEngine
<1>4. eng.ops = << >> BY <1>1 DEF StreamInv, SigInv
<1>5. SigInv' BY <1>2, <1>3, <1>4 DEF SigInv, SignalNotLost
<1>6. flag' \in BOOLEAN /\ cmds' \in Seq(Commands) /\ tcb' \in Tcbs BY <1>1, EngineTypes, Zenon
<1> QED BY <1>1, <1>3, <1>5, <1>6, EngineStays

\* The frames of a burst are done.
LEMMA FramesDoneInv == ASSUME StreamInv, FramesDone PROVE StreamInv'
<1> USE DEF wakeVars, appVars, objVars, logVars
<1>1. /\ EngineGoto("commands")
      /\ UNCHANGED <<rx_ring, tx_ring, eof, error, lock, wakeVars, flag, slot, tcb, th, events, appVars>>
  BY DEF FramesDone
<1>2. eng' \in Engines /\ eng'.pc = "commands" /\ eng'.ops = eng.ops /\ OpsOK(eng'.ops)
  BY <1>1, GotoEngine DEF EnginePcs
<1>3. SigInv' BY <1>2, SigBusy
<1>4. flag' \in BOOLEAN /\ cmds' \in Seq(Commands) /\ tcb' \in Tcbs BY <1>1, EngineTypes
<1> QED BY <1>1, <1>2, <1>3, <1>4, EngineStays

\* The commands are done.
LEMMA CommandsDoneInv == ASSUME StreamInv, CommandsDone PROVE StreamInv'
<1> USE DEF wakeVars, appVars, objVars, logVars
<1>1. /\ eng.ops = << >> /\ cmds = << >> /\ eng' = [pc |-> "tick", ops |-> << >>]
      /\ UNCHANGED <<rx_ring, tx_ring, eof, error, lock, wakeVars, flag, slot, tcb, th, events, appVars>>
  BY DEF CommandsDone
<1>2. eng' \in Engines /\ eng'.pc = "tick" /\ eng'.ops = << >> BY <1>1 DEF Engines, EnginePcs
<1>3. SigInv' BY <1>1, <1>2 DEF SigInv, SignalNotLost
<1>4. OpsOK(eng'.ops) BY <1>2 DEF OpsOK
<1>5. flag' \in BOOLEAN /\ cmds' \in Seq(Commands) /\ tcb' \in Tcbs BY <1>1, EngineTypes, SMTT(30)
<1> QED BY <1>1, <1>2, <1>3, <1>4, <1>5, EngineStays

\* on_tick is over.
LEMMA TickDoneInv == ASSUME StreamInv, TickDone PROVE StreamInv'
<1> USE DEF wakeVars, appVars, objVars, logVars
<1>1. /\ eng.pc = "finish" /\ eng.ops = << >> /\ EngineGoto("top")
      /\ UNCHANGED <<rx_ring, tx_ring, eof, error, lock, wakeVars, flag, slot, tcb, th, events, appVars>>
  BY DEF TickDone
<1>2. eng' \in Engines /\ eng'.pc = "top" /\ eng'.ops = eng.ops /\ OpsOK(eng'.ops)
  BY <1>1, GotoEngine DEF EnginePcs
<1>3. SigInv'
  <2>1. ~Coming("drain") BY <1>1 DEF Coming
  <2>2. (cmds # << >> => Signalling) /\ (SendsData(tcb.state) /\ Filled(tx_ring) > 0 => Signalling)
    BY <1>1, <2>1 DEF StreamInv, SigInv
  <2>3. Signalling => Signalling' BY <1>1, Zenon DEF Signalling
  <2>4. (cmds' # << >> => Signalling') /\ (SendsData(tcb'.state) /\ Filled(tx_ring') > 0 => Signalling')
    BY <1>1, <2>2, <2>3, Zenon
  <2>5. SignalNotLost' BY <1>2 DEF SignalNotLost
  <2>6. eng'.ops = << >> BY <1>1, <1>2
  <2> QED BY <2>4, <2>5, <2>6, Zenon DEF SigInv, SendsData, Filled
<1>4. flag' \in BOOLEAN /\ cmds' \in Seq(Commands) /\ tcb' \in Tcbs BY <1>1, EngineTypes
<1> QED BY <1>1, <1>2, <1>3, <1>4, EngineStays

\* on_tick drains and sends what there is to send.
LEMMA TickInv == ASSUME StreamInv, Tick PROVE StreamInv'
<1> USE DEF wakeVars, appVars, objVars, logVars
<1> DEFINE ops == IF SendsData(tcb.state) THEN <<Do("drain"), Do("transmit")>> ELSE << >>
<1>1. /\ eng.pc = "tick" /\ eng' = [pc |-> "finish", ops |-> ops]
      /\ UNCHANGED <<rx_ring, tx_ring, eof, error, lock, wakeVars, flag, slot, tcb, th, events, appVars>>
  BY DEF Tick
<1>2. eng.ops = << >> BY <1>1 DEF StreamInv, SigInv
<1>3. ops \in Seq(Ops) /\ OpsOK(ops) /\ (SendsData(tcb.state) => Comes(ops, "drain"))
  <2>1. CASE SendsData(tcb.state)
    <3> DEFINE q == <<Do("drain"), Do("transmit")>>
    <3>1. Do("drain") \in Ops /\ Do("transmit") \in Ops BY DEF Do, Ops, OpNames
    <3>2. \A x, y \in Ops : <<x, y>> \in Seq(Ops) OBVIOUS
    <3>3. q \in Seq(Ops) BY <3>1, <3>2, Zenon
    <3>4. DOMAIN q = {1, 2} /\ q[1].op = "drain" /\ q[2].op = "transmit" /\ Len(q) = 2 BY DEF Do
    <3>5. OpsOK(q) BY <3>4 DEF OpsOK, Signals, Lasts
    <3>6. Comes(q, "drain") BY <3>4 DEF Comes
    <3> QED BY <2>1, <3>3, <3>5, <3>6
  <2>2. CASE ~SendsData(tcb.state) BY <2>2, SMTT(30) DEF OpsOK
  <2> QED BY <2>1, <2>2
<1> HIDE DEF ops
<1>4. eng' \in Engines /\ eng'.pc = "finish" /\ eng'.ops = ops BY <1>1, <1>3 DEF Engines, EnginePcs
<1>5. SigInv'
  <2>1. cmds # << >> => Signalling BY <1>1 DEF StreamInv, SigInv
  <2>2. Signalling => Signalling' BY <1>1, Zenon DEF Signalling
  <2>3. cmds' # << >> => Signalling' BY <1>1, <2>1, <2>2, Zenon
  <2>4. ~Coming("drain")' => ~SendsData(tcb'.state) BY <1>1, <1>3, <1>4, Zenon DEF Coming, Comes
  <2> QED BY <1>4, <2>3, <2>4 DEF SigInv, SignalNotLost, SendsData
<1>6. flag' \in BOOLEAN /\ cmds' \in Seq(Commands) /\ tcb' \in Tcbs BY <1>1, EngineTypes
<1>7. OpsOK(eng'.ops) BY <1>3, <1>4, Zenon
<1> QED BY <1>1, <1>2, <1>4, <1>5, <1>6, <1>7, EngineStays

\* A timer ends the connection.
LEMMA TimerFiresInv == ASSUME StreamInv, TimerFires PROVE StreamInv'
<1> USE DEF wakeVars, appVars, objVars, logVars
<1>1. PICK h \in Timers(tcb.state) : eng' = [pc |-> "finish", ops |-> h.ops] /\ tcb' = [tcb EXCEPT !.state = h.state]
  BY Zenon DEF TimerFires
<1>2. /\ eng.pc = "tick"
      /\ UNCHANGED <<rx_ring, tx_ring, eof, error, lock, wakeVars, flag, slot, th, appVars>>
  BY DEF TimerFires
<1>3. eng.ops = << >> BY <1>2 DEF StreamInv, SigInv
<1>4. HandlerOK(h) /\ h.state = "Absent" BY EngineTypes, TimersOK
<1>5. eng' \in Engines /\ eng'.pc = "finish" /\ eng'.ops = h.ops BY <1>1, <1>4 DEF Engines, EnginePcs, HandlerOK
<1>6. tcb' \in Tcbs /\ tcb'.state = "Absent" BY <1>1, <1>4, EngineTypes DEF Tcbs, HandlerOK
<1>7. SigInv'
  <2>1. cmds # << >> => Signalling BY <1>2 DEF StreamInv, SigInv
  <2>2. Signalling => Signalling' BY <1>2, Zenon DEF Signalling
  <2>3. cmds' # << >> => Signalling' BY <1>2, <2>1, <2>2, Zenon
  <2> QED BY <1>5, <1>6, <2>3, Zenon DEF SigInv, SignalNotLost, SendsData
<1>8. flag' \in BOOLEAN /\ cmds' \in Seq(Commands) BY <1>2, EngineTypes
<1>9. OpsOK(eng'.ops) BY <1>4, <1>5, Zenon DEF HandlerOK
<1> QED BY <1>2, <1>3, <1>5, <1>6, <1>7, <1>8, <1>9, EngineStays

\* A segment.
LEMMA OnSegmentInv == ASSUME StreamInv, OnSegment PROVE StreamInv'
<1> USE DEF wakeVars, appVars, objVars, logVars
<1>1. PICK h \in Segments(tcb.state) : eng' = [eng EXCEPT !.ops = h.ops] /\ tcb' = [tcb EXCEPT !.state = h.state]
  BY Zenon DEF OnSegment
<1>2. /\ eng.pc = "frames" /\ eng.ops = << >>
      /\ UNCHANGED <<rx_ring, tx_ring, eof, error, lock, wakeVars, flag, slot, th, appVars>>
  BY DEF OnSegment
<1>3. HandlerOK(h) BY EngineTypes, SegmentsOK
<1>4. eng' \in Engines /\ eng'.pc = "frames" /\ eng'.ops = h.ops
  BY <1>1, <1>2, <1>3, EngineTypes, Zenon DEF Engines, EnginePcs, HandlerOK
<1>5. tcb' \in Tcbs BY <1>1, <1>3, EngineTypes, SMTT(30) DEF Tcbs, HandlerOK
<1>6. SigInv' BY <1>4, SigBusy
<1>7. flag' \in BOOLEAN /\ cmds' \in Seq(Commands) BY <1>2, EngineTypes
<1>8. OpsOK(eng'.ops) BY <1>3, <1>4, Zenon DEF HandlerOK
<1> QED BY <1>2, <1>4, <1>5, <1>6, <1>7, <1>8, EngineStays

\* Every command leads to a TCB and to calls in order.
LEMMA CommandsOK ==
  ASSUME StreamInv, NEW cmd \in Commands
  PROVE  Handle(cmd)[1] \in Tcbs /\ Handle(cmd)[2] \in Seq(Ops) /\ OpsOK(Handle(cmd)[2])
<1> DEFINE Good(x) == x[1] \in Tcbs /\ x[2] \in Seq(Ops) /\ OpsOK(x[2])
<1>1. tcb \in Tcbs BY EngineTypes
<1>2. \A b \in Tcbs, ops \in Seq(Ops) : OpsOK(ops) => Good(<<b, ops>>) OBVIOUS
<1>3. << >> \in Seq(Ops) /\ OpsOK(<< >>) BY DEF OpsOK
<1>4. /\ [tcb EXCEPT !.state = "SynSent"] \in Tcbs /\ [tcb EXCEPT !.accept = "none"] \in Tcbs
      /\ [tcb EXCEPT !.accept = "waiting"] \in Tcbs /\ [tcb EXCEPT !.state = "Absent"] \in Tcbs
      /\ [tcb EXCEPT !.fin_pending = TRUE] \in Tcbs
  BY <1>1, Zenon DEF Tcbs, States
<1>5. Good(<<[tcb EXCEPT !.state = "SynSent"], << >> >>) /\ Good(<<[tcb EXCEPT !.accept = "waiting"], << >> >>)
      /\ Good(<<tcb, << >> >>)
  BY <1>1, <1>2, <1>3, <1>4
<1>6. Good(<<[tcb EXCEPT !.accept = "none"], <<DoWith("respond", "Ok")>> >>)
  <2> DEFINE x == DoWith("respond", "Ok")
  <2>1. x \in Ops /\ x.op \notin Signals /\ x.op \notin Lasts BY DEF DoWith, Ops, OpNames, Results, Signals, Lasts
  <2> HIDE DEF x
  <2>2. <<x>> \in Seq(Ops) /\ DOMAIN <<x>> = {1} /\ <<x>>[1] = x BY <2>1
  <2>3. OpsOK(<<x>>) BY <2>1, <2>2, Zenon DEF OpsOK
  <2> QED BY <1>2, <1>4, <2>2, <2>3, Zenon DEF x
<1>7. Good(<<[tcb EXCEPT !.state = "Absent"], Abort("ConnectionAborted")>>)
  <2>1. WakesAll(Abort("ConnectionAborted")) BY HandlerOps DEF Results
  <2> QED BY <1>2, <1>4, <2>1, Zenon DEF WakesAll
<1>8. Good(<<tcb, <<Do("set_eof")>> \o NotifyAll>>) BY <1>1, <1>2, HandlerOps, Zenon DEF WakesAll
<1>9. Good(<<[tcb EXCEPT !.fin_pending = TRUE], <<Do("drain"), Do("fin_if_flushed")>> >>)
  <2> DEFINE q == <<Do("drain"), Do("fin_if_flushed")>>
  <2>1. Do("drain") \in Ops /\ Do("fin_if_flushed") \in Ops BY DEF Do, Ops, OpNames
  <2>2. \A x, y \in Ops : <<x, y>> \in Seq(Ops) OBVIOUS
  <2>3. q \in Seq(Ops) BY <2>1, <2>2, Zenon
  <2>4. DOMAIN q = {1, 2} /\ q[1].op = "drain" /\ q[2].op = "fin_if_flushed" BY DEF Do
  <2>5. OpsOK(q) BY <2>4 DEF OpsOK, Signals, Lasts
  <2> HIDE DEF q
  <2> QED BY <1>2, <1>4, <2>3, <2>5, Zenon DEF q
<1> HIDE DEF Good
<1>10. Good(Handle(cmd)) BY <1>5, <1>6, <1>7, <1>8, <1>9 DEF Handle
<1> QED BY <1>10, Zenon DEF Good

\* A command.
LEMMA OnCommandInv == ASSUME StreamInv, OnCommand PROVE StreamInv'
<1> USE DEF handleVars, wakeVars, objVars, logVars
<1> DEFINE cmd == Head(cmds)
<1>1. /\ eng.pc = "commands" /\ eng.ops = << >> /\ cmds # << >> /\ cmds' = Tail(cmds)
      /\ tcb' = Handle(cmd)[1] /\ eng' = [eng EXCEPT !.ops = Handle(cmd)[2]]
      /\ UNCHANGED <<rx_ring, tx_ring, handleVars, lock, wakeVars, flag, sent, slot, scene, todo, th,
                     events, objVars, logVars>>
  BY DEF OnCommand
<1>2. cmds \in Seq(Commands) BY EngineTypes
<1>3. cmd \in Commands /\ cmds' \in Seq(Commands) BY <1>1, <1>2
<1> HIDE DEF cmd
<1>4. tcb' \in Tcbs /\ Handle(cmd)[2] \in Seq(Ops) /\ OpsOK(Handle(cmd)[2]) BY <1>1, <1>3, CommandsOK
<1>5. eng' \in Engines /\ eng'.pc = "commands" /\ eng'.ops = Handle(cmd)[2]
  BY <1>1, <1>4, EngineTypes DEF Engines
<1>6. SigInv' BY <1>5, SigBusy
<1>7. flag' \in BOOLEAN BY <1>1, EngineTypes
<1>8. OpsOK(eng'.ops) BY <1>4, <1>5, Zenon
<1> QED BY <1>1, <1>3, <1>4, <1>5, <1>6, <1>7, <1>8, EngineStays, SMTT(30)

-----------------------------------------------------------------------------
(* The calls of the handlers. *)

\* A call of a handler leaves the engine where it is.
LEMMA SigOp ==
  ASSUME StreamInv, eng.ops # << >>, eng'.pc = eng.pc, UNCHANGED <<flag, cmds>>,
         \A u \in Threads : th[u].pc = "signal" => th'[u].pc = "signal",
         Comes(eng.ops, "drain") => Comes(eng'.ops, "drain") \/ Filled(tx_ring') = 0,
         SendsData(tcb'.state) => SendsData(tcb.state), tx_ring' = tx_ring \/ Filled(tx_ring') = 0
  PROVE  SigInv'
<1>1. SigInv BY Zenon DEF StreamInv
<1>2. eng.pc \notin {"top", "asleep", "notified", "try_again", "tick"} BY <1>1 DEF SigInv
<1>3. Signalling => Signalling' BY Zenon DEF Signalling
<1>4. eng'.pc = "finish" /\ cmds' # << >> => Signalling' BY <1>1, <1>3 DEF SigInv
<1>5. ASSUME eng'.pc = "finish", ~Comes(eng'.ops, "drain"), SendsData(tcb'.state), Filled(tx_ring') > 0
      PROVE  Signalling'
  <2>1. tx_ring' = tx_ring BY <1>5
  <2>2. ~Comes(eng.ops, "drain") BY <1>5
  <2>3. ~Coming("drain") BY <2>2, Zenon DEF Coming, Comes
  <2>4. SendsData(tcb.state) /\ Filled(tx_ring) > 0 BY <1>5, <2>1
  <2>5. eng.pc = "finish" BY <1>5
  <2> QED BY <1>1, <1>3, <2>3, <2>4, <2>5 DEF SigInv
<1>6. Coming("drain")' <=> Comes(eng'.ops, "drain") BY Zenon DEF Coming, Comes
<1>7. eng'.pc \notin {"top", "asleep", "notified", "try_again", "tick"} BY <1>2
<1>8. SignalNotLost' BY <1>7 DEF SignalNotLost
<1>9. eng'.pc = "top" \/ (eng'.pc = "finish" /\ ~Coming("drain")') =>
        (SendsData(tcb'.state) /\ Filled(tx_ring') > 0 => Signalling')
  BY <1>5, <1>6, <1>7
<1> QED BY <1>4, <1>7, <1>8, <1>9 DEF SigInv, SendsData, Filled

\* The first call of a handler is made; the others remain.
LEMMA DoneFacts ==
  ASSUME StreamInv, NEW x, Doing(x), OpDone
  PROVE  /\ eng' \in Engines /\ eng'.pc = eng.pc /\ OpsOK(eng'.ops) /\ eng.ops # << >>
         /\ \A w : Comes(eng.ops, w) /\ w # x => Comes(eng'.ops, w)
         /\ x \in Signals => \A w \in Wakes : Comes(eng'.ops, w)
<1>1. eng.ops # << >> /\ Head(eng.ops).op = x /\ eng' = [eng EXCEPT !.ops = Tail(@)] BY DEF Doing, OpDone
<1>2. eng \in Engines /\ eng.ops \in Seq(Ops) /\ OpsOK(eng.ops) BY EngineTypes
<1> DEFINE ops == eng.ops
<1> HIDE DEF ops
<1>3. /\ Tail(ops) \in Seq(Ops) /\ OpsOK(Tail(ops))
      /\ \A w : Comes(ops, w) /\ w # Head(ops).op => Comes(Tail(ops), w)
      /\ Head(ops).op \in Signals => \A w \in Wakes : Comes(Tail(ops), w)
  <2>1. ops \in Seq(Ops) /\ ops # << >> /\ OpsOK(ops) BY <1>1, <1>2, Zenon DEF ops
  <2> QED BY <2>1, OpsTail, Zenon
<1>4. eng' \in Engines /\ eng'.pc = eng.pc /\ eng'.ops = Tail(ops) BY <1>1, <1>2, <1>3 DEF Engines, ops
<1> QED BY <1>1, <1>3, <1>4, Zenon DEF ops

\* The last call of a handler is replaced by others.
LEMMA LastFacts ==
  ASSUME StreamInv, NEW x \in Lasts, Doing(x)
  PROVE  eng.ops # << >> /\ \A w : Comes(eng.ops, w) => w = x
<1>1. eng.ops # << >> /\ Head(eng.ops).op = x BY DEF Doing
<1>2. eng.ops \in Seq(Ops) /\ OpsOK(eng.ops) BY EngineTypes
<1> DEFINE ops == eng.ops
<1> HIDE DEF ops
<1>3. ops \in Seq(Ops) /\ ops # << >> /\ OpsOK(ops) /\ Head(ops).op \in Lasts BY <1>1, <1>2, Zenon DEF ops
<1>4. \A w : Comes(ops, w) => w = Head(ops).op BY <1>3, OpsTail, Zenon
<1> QED BY <1>1, <1>4, Zenon DEF ops

\* A call that leaves the rings alone.
LEMMA OpInv ==
  ASSUME StreamInv, eng.ops # << >>,
         UNCHANGED <<rx_ring, tx_ring, lock, wakeVars, flag, th, app_refcount, linger, cmds, sent, scene, todo, objVars,
                     logVars>>,
         eof' \in BOOLEAN, eng' \in Engines, eng'.pc = eng.pc, OpsOK(eng'.ops), tcb' \in Tcbs,
         SendsData(tcb'.state) => SendsData(tcb.state), Comes(eng.ops, "drain") => Comes(eng'.ops, "drain"),
         \/ \A w \in Wakes : Comes(eng'.ops, w)
         \/ UNCHANGED <<error, eof>> /\ \A w \in Wakes : Comes(eng.ops, w) => Comes(eng'.ops, w)
  PROVE  StreamInv'
<1> USE DEF logVars
<1>1. RingInv' BY RingStays, Zenon DEF StreamInv
<1>2. SigInv'
  <2>1. \A u \in Threads : th[u].pc = "signal" => th'[u].pc = "signal" BY Zenon
  <2> QED BY <2>1, SigOp, Zenon
<1>3. cmds' \in Seq(Commands) /\ flag' \in BOOLEAN /\ rx_ring' \in Ring /\ tx_ring' \in Ring BY EngineTypes, Zenon
<1> QED BY <1>1, <1>2, <1>3, EngineMove, Zenon

\* set_eof comes before everyone is woken.
LEMMA SetEofInv == ASSUME StreamInv, SetEof PROVE StreamInv'
<1> USE DEF appVars
<1>1. /\ Doing("set_eof") /\ OpDone /\ eof' = TRUE
      /\ UNCHANGED <<rx_ring, tx_ring, error, lock, wakeVars, flag, slot, tcb, th, events, appVars>>
  BY DEF SetEof
<1>2. /\ eng' \in Engines /\ eng'.pc = eng.pc /\ OpsOK(eng'.ops) /\ eng.ops # << >>
      /\ \A w : Comes(eng.ops, w) /\ w # "set_eof" => Comes(eng'.ops, w)
      /\ "set_eof" \in Signals => \A w \in Wakes : Comes(eng'.ops, w)
  BY <1>1, DoneFacts, Zenon
<1>3. "set_eof" \in Signals /\ "drain" # "set_eof" BY DEF Signals
<1>4. (\A w \in Wakes : Comes(eng'.ops, w)) /\ (Comes(eng.ops, "drain") => Comes(eng'.ops, "drain")) BY <1>2, <1>3, Zenon
<1>5. tcb' \in Tcbs /\ eof' \in BOOLEAN /\ (SendsData(tcb'.state) => SendsData(tcb.state)) BY <1>1, EngineTypes
<1> QED BY <1>1, <1>2, <1>4, <1>5, OpInv, Zenon

\* latch_error comes before everyone is woken.
LEMMA LatchErrorInv == ASSUME StreamInv, latch_error PROVE StreamInv'
<1> USE DEF appVars
<1>1. /\ Doing("latch_error") /\ OpDone
      /\ UNCHANGED <<rx_ring, tx_ring, eof, lock, wakeVars, flag, slot, tcb, th, events, appVars>>
  BY DEF latch_error
<1>2. /\ eng' \in Engines /\ eng'.pc = eng.pc /\ OpsOK(eng'.ops) /\ eng.ops # << >>
      /\ \A w : Comes(eng.ops, w) /\ w # "latch_error" => Comes(eng'.ops, w)
      /\ "latch_error" \in Signals => \A w \in Wakes : Comes(eng'.ops, w)
  BY <1>1, DoneFacts, Zenon
<1>3. "latch_error" \in Signals /\ "drain" # "latch_error" BY DEF Signals
<1>4. (\A w \in Wakes : Comes(eng'.ops, w)) /\ (Comes(eng.ops, "drain") => Comes(eng'.ops, "drain")) BY <1>2, <1>3, Zenon
<1>5. tcb' \in Tcbs /\ eof' \in BOOLEAN /\ (SendsData(tcb'.state) => SendsData(tcb.state)) BY <1>1, EngineTypes, Zenon
<1> QED BY <1>1, <1>2, <1>4, <1>5, OpInv

\* respond
LEMMA RespondInv == ASSUME StreamInv, Respond PROVE StreamInv'
<1> USE DEF appVars
<1>1. /\ Doing("respond") /\ OpDone
      /\ UNCHANGED <<rx_ring, tx_ring, eof, error, lock, wakeVars, flag, tcb, th, events, appVars>>
  BY DEF Respond
<1>2. /\ eng' \in Engines /\ eng'.pc = eng.pc /\ OpsOK(eng'.ops) /\ eng.ops # << >>
      /\ \A w : Comes(eng.ops, w) /\ w # "respond" => Comes(eng'.ops, w)
  BY <1>1, DoneFacts, Zenon
<1>3. "respond" \notin Wakes /\ "drain" # "respond" BY DEF Wakes
<1>4. (\A w \in Wakes : Comes(eng.ops, w) => Comes(eng'.ops, w)) /\ (Comes(eng.ops, "drain") => Comes(eng'.ops, "drain"))
  BY <1>2, <1>3, Zenon
<1>5. tcb' \in Tcbs /\ eof' \in BOOLEAN /\ (SendsData(tcb'.state) => SendsData(tcb.state)) BY <1>1, EngineTypes
<1> QED BY <1>1, <1>2, <1>4, <1>5, OpInv, Zenon

\* The FIN that handle_shutdown sends.
LEMMA FinIfFlushedInv == ASSUME StreamInv, FinIfFlushed PROVE StreamInv'
<1> USE DEF appVars
<1>1. /\ Doing("fin_if_flushed") /\ OpDone
      /\ tcb' = IF tcb.unsent = 0 THEN [tcb EXCEPT !.state = AfterFin(@), !.fin_pending = FALSE] ELSE tcb
      /\ UNCHANGED <<rx_ring, tx_ring, eof, error, lock, wakeVars, flag, slot, th, events, appVars>>
  BY DEF FinIfFlushed
<1>2. /\ eng' \in Engines /\ eng'.pc = eng.pc /\ OpsOK(eng'.ops) /\ eng.ops # << >>
      /\ \A w : Comes(eng.ops, w) /\ w # "fin_if_flushed" => Comes(eng'.ops, w)
  BY <1>1, DoneFacts, Zenon
<1>3. "fin_if_flushed" \notin Wakes /\ "drain" # "fin_if_flushed" BY DEF Wakes
<1>4. (\A w \in Wakes : Comes(eng.ops, w) => Comes(eng'.ops, w)) /\ (Comes(eng.ops, "drain") => Comes(eng'.ops, "drain"))
  BY <1>2, <1>3, Zenon
<1>5. tcb' \in Tcbs /\ (SendsData(tcb'.state) => SendsData(tcb.state))
  <2>1. tcb \in Tcbs BY EngineTypes
  <2> QED BY <1>1, <2>1, Zenon DEF Tcbs, AfterFin, States, SendsData
<1>6. eof' \in BOOLEAN BY <1>1, EngineTypes
<1> QED BY <1>1, <1>2, <1>4, <1>5, <1>6, OpInv

\* Calls that replace the last call of a handler.
LEMMA NewOps ==
  ASSUME StreamInv, NEW x \in Lasts, Doing(x), NEW ops \in Seq(Ops), OpsOK(ops), eng' = [eng EXCEPT !.ops = ops]
  PROVE  /\ eng' \in Engines /\ eng'.pc = eng.pc /\ eng'.ops = ops /\ OpsOK(eng'.ops) /\ eng.ops # << >>
         /\ Comes(eng.ops, "drain") => Comes(eng'.ops, "drain")
         /\ \A w \in Wakes : Comes(eng.ops, w) => Comes(eng'.ops, w)
<1>1. eng \in Engines BY EngineTypes
<1>2. eng' \in Engines /\ eng'.pc = eng.pc /\ eng'.ops = ops BY <1>1 DEF Engines
<1>3. eng.ops # << >> /\ \A w : Comes(eng.ops, w) => w = x BY LastFacts, Zenon
<1>4. x # "drain" /\ x \notin Wakes BY DEF Lasts, Wakes
<1> QED BY <1>2, <1>3, <1>4, Zenon

\* One call, or none.
LEMMA ShortOps ==
  /\ << >> \in Seq(Ops) /\ OpsOK(<< >>)
  /\ <<DoWith("respond", "Ok")>> \in Seq(Ops) /\ OpsOK(<<DoWith("respond", "Ok")>>)
  /\ <<Do("wake_write")>> \in Seq(Ops) /\ OpsOK(<<Do("wake_write")>>)
  /\ NotifyWriters \in Seq(Ops) /\ OpsOK(NotifyWriters)
<1>1. << >> \in Seq(Ops) /\ OpsOK(<< >>) BY DEF OpsOK
<1>2. ASSUME NEW x \in Ops, x.op \notin Signals, x.op \notin Lasts PROVE <<x>> \in Seq(Ops) /\ OpsOK(<<x>>)
  <2>1. <<x>> \in Seq(Ops) /\ DOMAIN <<x>> = {1} /\ <<x>>[1] = x OBVIOUS
  <2> QED BY <1>2, <2>1, Zenon DEF OpsOK
<1>3. DoWith("respond", "Ok") \in Ops /\ DoWith("respond", "Ok").op = "respond" BY DEF DoWith, Ops, OpNames, Results
<1>4. Do("wake_write") \in Ops /\ Do("wake_write").op = "wake_write" BY DEF Do, Ops, OpNames
<1>5. {"respond", "wake_write"} \cap (Signals \cup Lasts) = {} BY DEF Signals, Lasts
<1>6. <<DoWith("respond", "Ok")>> \in Seq(Ops) /\ OpsOK(<<DoWith("respond", "Ok")>>) BY <1>2, <1>3, <1>5
<1>7. <<Do("wake_write")>> \in Seq(Ops) /\ OpsOK(<<Do("wake_write")>>) BY <1>2, <1>4, <1>5
<1>8. NotifyWriters \in Seq(Ops) /\ OpsOK(NotifyWriters)
  <2>1. Do("notify_all") \in Ops BY DEF Do, Ops, OpNames
  <2>2. \A x, y \in Ops : <<x, y>> \in Seq(Ops) OBVIOUS
  <2>3. NotifyWriters \in Seq(Ops) BY <1>4, <2>1, <2>2, Zenon DEF NotifyWriters
  <2>4. DOMAIN NotifyWriters = {1, 2} /\ NotifyWriters[1].op = "wake_write" /\ NotifyWriters[2].op = "notify_all"
    BY DEF NotifyWriters, Do
  <2>5. OpsOK(NotifyWriters) BY <2>4 DEF OpsOK, Signals, Lasts
  <2> QED BY <2>3, <2>5
<1> QED BY <1>1, <1>6, <1>7, <1>8

\* A completed passive open is delivered.
LEMMA DeliverAcceptInv == ASSUME StreamInv, DeliverAccept PROVE StreamInv'
<1> USE DEF appVars
<1> DEFINE ops == IF tcb.accept = "waiting" THEN <<DoWith("respond", "Ok")>> ELSE << >>
<1>1. /\ Doing("deliver_accept") /\ eng' = [eng EXCEPT !.ops = ops]
      /\ tcb' = [tcb EXCEPT !.accept = IF @ = "waiting" THEN "none" ELSE "queued"]
      /\ UNCHANGED <<rx_ring, tx_ring, eof, error, lock, wakeVars, flag, slot, th, events, appVars>>
  BY DEF DeliverAccept
<1>2. ops \in Seq(Ops) /\ OpsOK(ops) BY ShortOps
<1>3. "deliver_accept" \in Lasts BY DEF Lasts
<1> HIDE DEF ops
<1>4. /\ eng' \in Engines /\ eng'.pc = eng.pc /\ OpsOK(eng'.ops) /\ eng.ops # << >>
      /\ Comes(eng.ops, "drain") => Comes(eng'.ops, "drain")
      /\ \A w \in Wakes : Comes(eng.ops, w) => Comes(eng'.ops, w)
  BY <1>1, <1>2, <1>3, NewOps, Zenon
<1>5. tcb' \in Tcbs /\ (SendsData(tcb'.state) => SendsData(tcb.state))
  <2>1. tcb \in Tcbs BY EngineTypes
  <2> QED BY <1>1, <2>1 DEF Tcbs
<1>6. eof' \in BOOLEAN BY <1>1, EngineTypes
<1> QED BY <1>1, <1>4, <1>5, <1>6, OpInv

\* An acknowledgement.
LEMMA AckInv == ASSUME StreamInv, Ack PROVE StreamInv'
<1> USE DEF appVars
<1> DEFINE ops == <<Do("wake_write")>>
<1>1. /\ Doing("ack") /\ eng' = [eng EXCEPT !.ops = ops] /\ tcb' = [tcb EXCEPT !.flight = 0]
      /\ UNCHANGED <<rx_ring, tx_ring, eof, error, lock, wakeVars, flag, slot, th, events, appVars>>
  BY DEF Ack
<1>2. ops \in Seq(Ops) /\ OpsOK(ops) BY ShortOps
<1>3. "ack" \in Lasts BY DEF Lasts
<1> HIDE DEF ops
<1>4. /\ eng' \in Engines /\ eng'.pc = eng.pc /\ OpsOK(eng'.ops) /\ eng.ops # << >>
      /\ Comes(eng.ops, "drain") => Comes(eng'.ops, "drain")
      /\ \A w \in Wakes : Comes(eng.ops, w) => Comes(eng'.ops, w)
  BY <1>1, <1>2, <1>3, NewOps, Zenon
<1>5. tcb' \in Tcbs /\ (SendsData(tcb'.state) => SendsData(tcb.state))
  <2>1. tcb \in Tcbs BY EngineTypes
  <2> QED BY <1>1, <2>1 DEF Tcbs
<1>6. eof' \in BOOLEAN BY <1>1, EngineTypes
<1> QED BY <1>1, <1>4, <1>5, <1>6, OpInv

\* What on_tick sends.
LEMMA TransmitInv == ASSUME StreamInv, Transmit PROVE StreamInv'
<1> USE DEF appVars
<1> DEFINE n == Smaller(tcb.unsent, IF tcb.flight >= Window THEN 0 ELSE Window - tcb.flight)
           left == tcb.unsent - n
           fin == tcb.fin_pending /\ left = 0 /\ Filled(tx_ring) = 0
           ops == IF tcb.flight + n < Window /\ Space(tx_ring) > 0 THEN NotifyWriters ELSE << >>
<1>1. /\ Doing("transmit")
      /\ IF fin THEN /\ tcb' = [tcb EXCEPT !.unsent = 0, !.flight = @ + n, !.fin_pending = FALSE, !.state = AfterFin(@)]
                     /\ OpDone
         ELSE tcb' = [tcb EXCEPT !.unsent = left, !.flight = @ + n] /\ eng' = [eng EXCEPT !.ops = ops]
      /\ UNCHANGED <<rx_ring, tx_ring, eof, error, lock, wakeVars, flag, slot, th, events, appVars>>
  BY DEF Transmit
<1>2. tcb \in Tcbs /\ Window \in Nat BY EngineTypes, StreamAssumption
<1>3. n \in Nat /\ n <= tcb.unsent BY <1>2 DEF Tcbs, Smaller
<1>4. left \in Nat BY <1>2, <1>3 DEF Tcbs
<1>5. ops \in Seq(Ops) /\ OpsOK(ops) BY ShortOps
<1> HIDE DEF n, left, fin, ops
<1>6. "transmit" \in Lasts BY DEF Lasts
<1>7. eof' \in BOOLEAN BY <1>1, EngineTypes
<1>8. tcb' \in Tcbs /\ (SendsData(tcb'.state) => SendsData(tcb.state))
  <2>0. tcb.flight + n \in Nat BY <1>2, <1>3 DEF Tcbs
  <2>1. CASE fin
    <3>1. tcb' = [tcb EXCEPT !.unsent = 0, !.flight = @ + n, !.fin_pending = FALSE, !.state = AfterFin(@)] BY <1>1, <2>1
    <3>2. AfterFin(tcb.state) \in States /\ ~SendsData(AfterFin(tcb.state)) BY <1>2 DEF Tcbs, AfterFin, States, SendsData
    <3>3. tcb'.state = AfterFin(tcb.state) BY <1>2, <3>1 DEF Tcbs
    <3>4. tcb' \in Tcbs BY <1>2, <2>0, <3>1, <3>2, Zenon DEF Tcbs
    <3> QED BY <3>2, <3>3, <3>4
  <2>2. CASE ~fin
    <3>1. tcb' = [tcb EXCEPT !.unsent = left, !.flight = @ + n] BY <1>1, <2>2
    <3> QED BY <1>2, <1>4, <2>0, <3>1, Zenon DEF Tcbs
  <2> QED BY <2>1, <2>2
<1>9. /\ eng' \in Engines /\ eng'.pc = eng.pc /\ OpsOK(eng'.ops) /\ eng.ops # << >>
      /\ Comes(eng.ops, "drain") => Comes(eng'.ops, "drain")
      /\ \A w \in Wakes : Comes(eng.ops, w) => Comes(eng'.ops, w)
  <2>1. CASE fin
    <3>1. OpDone BY <1>1, <2>1
    <3>2. /\ eng' \in Engines /\ eng'.pc = eng.pc /\ OpsOK(eng'.ops) /\ eng.ops # << >>
          /\ \A w : Comes(eng.ops, w) /\ w # "transmit" => Comes(eng'.ops, w)
      BY <1>1, <3>1, DoneFacts, Zenon
    <3>3. "transmit" \notin Wakes /\ "drain" # "transmit" BY DEF Wakes
    <3> QED BY <3>2, <3>3, Zenon
  <2>2. CASE ~fin
    <3>1. eng' = [eng EXCEPT !.ops = ops] BY <1>1, <2>2
    <3> QED BY <1>1, <1>5, <1>6, <3>1, NewOps, Zenon
  <2> QED BY <2>1, <2>2
<1> QED BY <1>1, <1>7, <1>8, <1>9, OpInv

\* The engine adds bytes to rx_ring and takes them from tx_ring.
LEMMA RingGrows ==
  ASSUME TypeInv, RingInv, UNCHANGED <<th, consumed, accepted>>, rx_ring' \in Ring, tx_ring' \in Ring,
         RingOK(rx_ring'), RingOK(tx_ring'), rx_ring'.tail = rx_ring.tail, tx_ring'.head = tx_ring.head,
         rx_ring'.head >= rx_ring.head, tx_ring'.tail >= tx_ring.tail
  PROVE  RingInv'
<1>1. rx_ring \in Ring /\ tx_ring \in Ring /\ Capacity \in Nat BY StreamAssumption DEF TypeInv
<1>2. ASSUME NEW u \in Threads PROVE PublishOK(th[u])'
  <2>1. PublishOK(th[u]) BY Zenon DEF RingInv
  <2>2. th'[u] = th[u] /\ th[u].n \in Nat
    <3>1. th[u] \in Regs BY DEF TypeInv
    <3> QED BY <3>1 DEF Regs
  <2>3. CASE th[u].pc = "publish" /\ Reads(th[u].call)
    <3>1. th[u].base = rx_ring.tail /\ th[u].n <= Filled(rx_ring) BY <2>1, <2>3, SMTT(30) DEF PublishOK
    <3>2. th[u].base = rx_ring'.tail /\ th[u].n <= Filled(rx_ring') BY <1>1, <2>2, <3>1 DEF Filled, Ring
    <3> QED BY <2>2, <2>3, <3>2, Zenon DEF PublishOK, Reads, Filled
  <2>4. CASE th[u].pc = "publish" /\ ~Reads(th[u].call)
    <3>1. th[u].base = tx_ring.head /\ th[u].n <= Space(tx_ring) BY <2>1, <2>4 DEF PublishOK
    <3>2. th[u].base = tx_ring'.head /\ th[u].n <= Space(tx_ring') BY <1>1, <2>2, <3>1 DEF Filled, Space, Ring
    <3> QED BY <2>2, <2>4, <3>2, Zenon DEF PublishOK, Reads, Filled, Space
  <2>5. CASE th[u].pc # "publish" BY <2>2, <2>5, Zenon DEF PublishOK
  <2> QED BY <2>3, <2>4, <2>5, Zenon
<1>3. Len(consumed)' = rx_ring'.tail /\ accepted' = tx_ring'.head BY Zenon DEF RingInv
<1>4. \A i \in DOMAIN consumed' : consumed'[i] = i BY Zenon DEF RingInv
<1>5. RingOK(rx_ring)' /\ RingOK(tx_ring)' BY Zenon DEF RingOK
<1> QED BY <1>2, <1>3, <1>4, <1>5, Zenon DEF RingInv

\* A payload goes into rx_ring, as far as there is room.
LEMMA WriteRxInv == ASSUME StreamInv, WriteRx PROVE StreamInv'
<1> USE DEF appVars, logVars
<1>1. /\ Doing("write_rx") /\ OpDone /\ rx_ring' = [rx_ring EXCEPT !.head = @ + Smaller(1, Space(rx_ring))]
      /\ UNCHANGED <<tx_ring, eof, error, lock, wakeVars, flag, slot, tcb, th, events, appVars>>
  BY DEF WriteRx
<1>2. /\ eng' \in Engines /\ eng'.pc = eng.pc /\ OpsOK(eng'.ops) /\ eng.ops # << >>
      /\ \A w : Comes(eng.ops, w) /\ w # "write_rx" => Comes(eng'.ops, w)
      /\ "write_rx" \in Signals => \A w \in Wakes : Comes(eng'.ops, w)
  BY <1>1, DoneFacts, Zenon
<1>3. "write_rx" \in Signals /\ "drain" # "write_rx" BY DEF Signals
<1>4. (\A w \in Wakes : Comes(eng'.ops, w)) /\ (Comes(eng.ops, "drain") => Comes(eng'.ops, "drain")) BY <1>2, <1>3, Zenon
<1>5. rx_ring \in Ring /\ tx_ring \in Ring /\ Capacity \in Nat /\ RingOK(rx_ring) /\ RingOK(tx_ring)
  BY EngineTypes, StreamAssumption DEF StreamInv, RingInv
<1>6. /\ rx_ring' \in Ring /\ RingOK(rx_ring') /\ rx_ring'.tail = rx_ring.tail /\ rx_ring'.head >= rx_ring.head
  <2> DEFINE n == Smaller(1, Space(rx_ring))
  <2>1. n \in Nat /\ n <= Capacity - (rx_ring.head - rx_ring.tail) BY <1>5 DEF Smaller, Space, Filled, Ring, RingOK
  <2>2. rx_ring' = [rx_ring EXCEPT !.head = @ + n] BY <1>1
  <2> HIDE DEF n
  <2>3. rx_ring'.tail = rx_ring.tail /\ rx_ring'.head = rx_ring.head + n BY <1>5, <2>2 DEF Ring
  <2>4. rx_ring' \in Ring BY <1>5, <2>1, <2>2 DEF Ring
  <2> QED BY <1>5, <2>1, <2>3, <2>4 DEF RingOK, Ring
<1>7. tx_ring' \in Ring /\ RingOK(tx_ring') /\ tx_ring'.head = tx_ring.head /\ tx_ring'.tail >= tx_ring.tail
  BY <1>1, <1>5 DEF Ring
<1>8. RingInv' BY <1>1, <1>6, <1>7, RingGrows DEF StreamInv
<1>9. SigInv' BY <1>1, <1>2, <1>4, SigOp
<1>10. tcb' \in Tcbs /\ eof' \in BOOLEAN /\ flag' \in BOOLEAN /\ cmds' \in Seq(Commands) BY <1>1, EngineTypes
<1> QED BY <1>1, <1>2, <1>4, <1>6, <1>7, <1>8, <1>9, <1>10, EngineMove, SMTT(30)

\* drain_tx_ring empties tx_ring.
LEMMA DrainInv == ASSUME StreamInv, Drain PROVE StreamInv'
<1> USE DEF appVars, logVars
<1>1. /\ Doing("drain") /\ tx_ring' = [tx_ring EXCEPT !.tail = tx_ring.head]
      /\ tcb' = [tcb EXCEPT !.unsent = @ + Filled(tx_ring)]
      /\ OpDone \/ UNCHANGED eng
      /\ UNCHANGED <<rx_ring, eof, error, lock, wakeVars, flag, slot, th, events, appVars>>
  BY DEF Drain
<1>2. eng.ops # << >> /\ eng \in Engines /\ OpsOK(eng.ops) BY <1>1, EngineTypes DEF Doing
<1>3. /\ eng' \in Engines /\ eng'.pc = eng.pc /\ OpsOK(eng'.ops)
      /\ \A w : Comes(eng.ops, w) /\ w # "drain" => Comes(eng'.ops, w)
  <2>1. CASE OpDone BY <1>1, <2>1, DoneFacts, Zenon
  <2>2. CASE UNCHANGED eng BY <1>2, <2>2, Zenon
  <2> QED BY <1>1, <2>1, <2>2
<1>4. "drain" \notin Wakes BY DEF Wakes
<1>5. \A w \in Wakes : Comes(eng.ops, w) => Comes(eng'.ops, w) BY <1>3, <1>4, Zenon
<1>6. rx_ring \in Ring /\ tx_ring \in Ring /\ Capacity \in Nat /\ RingOK(rx_ring) /\ RingOK(tx_ring) /\ tcb \in Tcbs
  BY EngineTypes, StreamAssumption DEF StreamInv, RingInv
<1>7. /\ tx_ring' \in Ring /\ RingOK(tx_ring') /\ tx_ring'.head = tx_ring.head /\ tx_ring'.tail >= tx_ring.tail
      /\ Filled(tx_ring') = 0
  BY <1>1, <1>6 DEF Ring, RingOK, Filled
<1>8. rx_ring' \in Ring /\ RingOK(rx_ring') /\ rx_ring'.tail = rx_ring.tail /\ rx_ring'.head >= rx_ring.head
  BY <1>1, <1>6 DEF Ring
<1>9. RingInv' BY <1>1, <1>7, <1>8, RingGrows DEF StreamInv
<1>10. tcb' \in Tcbs /\ (SendsData(tcb'.state) => SendsData(tcb.state))
  <2>1. tcb.unsent + Filled(tx_ring) \in Nat BY <1>6 DEF Tcbs, Filled, Ring, RingOK
  <2>2. tcb' = [tcb EXCEPT !.unsent = tcb.unsent + Filled(tx_ring)] BY <1>1, <1>6 DEF Tcbs
  <2> QED BY <1>6, <2>1, <2>2 DEF Tcbs
<1>11. SigInv' BY <1>1, <1>2, <1>3, <1>7, <1>10, SigOp
<1>12. eof' \in BOOLEAN /\ flag' \in BOOLEAN /\ cmds' \in Seq(Commands) BY <1>1, EngineTypes
<1> QED BY <1>1, <1>3, <1>5, <1>7, <1>8, <1>9, <1>10, <1>11, <1>12, EngineMove, Zenon

\* The first call x wakes the thread waker[d], or every parked thread: who still sleeps is
\* woken by another call.
LEMMA WakeUp ==
  ASSUME TypeInv, WakeInv, NEW d, NEW x, OpsOK(eng'.ops), UNCHANGED <<error, eof, rx_ring>>,
         \A w : Comes(eng.ops, w) /\ w # x => Comes(eng'.ops, w),
         \A u \in Threads : d # "none" /\ waker[d] = u =>
           th'[u].resched \/ th'[u].pc \notin {"error", "ring", "publish", "eof", "wait", "pending"},
         \A u \in Threads : d = "none" \/ waker[d] # u => th'[u] = th[u],
         \A e \in {"read", "write"} : e # d => waker'[e] = waker[e],
         \A e \in {"read", "write"} : e # d => (IF e = "read" THEN "wake_read" ELSE "wake_write") # x,
         x = "notify_all" => parked' = {},
         parked' \subseteq parked, \A u \in parked' : th'[u].pc = th[u].pc /\ th'[u].call = th[u].call
  PROVE  WakeInv'
<1>1. \A w : Coming(w) <=> Comes(eng.ops, w) BY Zenon DEF Coming, Comes
<1>2. \A w : Coming(w)' <=> Comes(eng'.ops, w) BY Zenon DEF Coming, Comes
<1>3. \A w : Coming(w) /\ w # x => Coming(w)' BY <1>1, <1>2, Zenon
<1>4. ASSUME NEW u \in Threads PROVE PollOK(u, th[u])'
  <2> SUFFICES ASSUME NEW q, q = th'[u],
                      q.pc \in {"error", "ring", "publish", "eof", "wait", "pending"}, Polls(q.call), ~q.resched
               PROVE  /\ waker'[IF Reads(q.call) THEN "read" ELSE "write"] = u
                      /\ q.pc # "error" /\ error # None => Coming(WakeOf(q.call))'
                      /\ q.pc \in {"eof", "wait", "pending"} /\ Reads(q.call) /\ Filled(rx_ring) > 0 => Coming("wake_read")'
                      /\ q.pc \in {"wait", "pending"} /\ Reads(q.call) /\ eof => Coming("wake_read")'
    BY Zenon DEF PollOK, Coming, Filled, Reads, Polls, WakeOf
  <2>1. d = "none" \/ waker[d] # u OBVIOUS
  <2>2. q = th[u] BY <2>1
  <2>3. PollOK(u, q) BY <2>2, Zenon DEF WakeInv
  <2> DEFINE e == IF Reads(q.call) THEN "read" ELSE "write"
  <2>4. waker[e] = u BY <2>3, SMTT(30) DEF PollOK
  <2>5. e \in {"read", "write"} OBVIOUS
  <2>6. e # d BY <2>1, <2>4, <2>5, Zenon
  <2>7. waker'[e] = u BY <2>4, <2>5, <2>6, SMTT(30)
  <2>8. WakeOf(q.call) # x BY <2>5, <2>6, SMTT(30) DEF WakeOf
  <2>9. Reads(q.call) => WakeOf(q.call) = "wake_read" BY DEF WakeOf
  <2>10. Coming(WakeOf(q.call)) => Coming(WakeOf(q.call))'
    <3> DEFINE w == WakeOf(q.call)
    <3>1. \A v : v = w => (Coming(v) => Coming(v)') BY <1>3, <2>8, Zenon
    <3> QED BY <3>1, ZenonT(30) DEF Coming, WakeOf, Reads
  <2>11. Reads(q.call) /\ Coming("wake_read") => Coming("wake_read")' BY <1>3, <2>8, <2>9, Zenon
  <2> QED BY <2>3, <2>7, <2>10, <2>11 DEF PollOK
<1>5. ASSUME NEW u \in parked' PROVE th'[u].pc = "parked" /\ (Due(th[u].call)' => Coming("notify_all")')
  <2>1. u \in parked /\ x # "notify_all" /\ th'[u].pc = th[u].pc /\ th'[u].call = th[u].call BY <1>5
  <2>2. th[u].pc = "parked" /\ (Due(th[u].call) => Coming("notify_all")) BY <2>1, Zenon DEF WakeInv
  <2>3. Coming("notify_all") => Coming("notify_all")' BY <1>3, <2>1, Zenon
  <2>4. Due(th[u].call)' => Due(th[u].call) BY <2>1, Zenon DEF Due, Filled, Reads
  <2> QED BY <2>1, <2>2, <2>3, <2>4
<1>6. OpsOK(eng.ops)' BY Zenon DEF OpsOK
<1> QED BY <1>4, <1>5, <1>6, Zenon DEF WakeInv

\* notify_all
LEMMA NotifyAllInv == ASSUME StreamInv, notify_all PROVE StreamInv'
<1> USE DEF appVars, logVars, objVars
<1>1. /\ Doing("notify_all") /\ OpDone /\ parked' = {}
      /\ UNCHANGED <<rx_ring, tx_ring, eof, error, lock, waker, flag, slot, tcb, th, events, appVars>>
  BY DEF notify_all
<1>2. /\ eng' \in Engines /\ eng'.pc = eng.pc /\ OpsOK(eng'.ops) /\ eng.ops # << >>
      /\ \A w : Comes(eng.ops, w) /\ w # "notify_all" => Comes(eng'.ops, w)
  BY <1>1, DoneFacts, Zenon
<1>3. WakeInv'
  <2>1. PICK d, x : d = "none" /\ x = "notify_all" OBVIOUS
  <2>2. \A u \in Threads : d # "none" /\ waker[d] = u =>
          th'[u].resched \/ th'[u].pc \notin {"error", "ring", "publish", "eof", "wait", "pending"}
    BY <2>1
  <2>3. \A u \in Threads : d = "none" \/ waker[d] # u => th'[u] = th[u] BY <1>1
  <2>4. \A e \in {"read", "write"} : e # d => waker'[e] = waker[e] BY <1>1
  <2>5. \A e \in {"read", "write"} : e # d => (IF e = "read" THEN "wake_read" ELSE "wake_write") # x BY <2>1
  <2>6. x = "notify_all" => parked' = {} BY <1>1
  <2>7. parked' \subseteq parked BY <1>1
  <2>8. \A u \in parked' : th'[u].pc = th[u].pc /\ th'[u].call = th[u].call BY <1>1
  <2>9. \A w : Comes(eng.ops, w) /\ w # x => Comes(eng'.ops, w) BY <1>2, <2>1, Zenon
  <2>10. TypeInv /\ WakeInv /\ OpsOK(eng'.ops) /\ UNCHANGED <<error, eof, rx_ring>> BY <1>1, <1>2 DEF StreamInv
  <2> QED BY <2>2, <2>3, <2>4, <2>5, <2>6, <2>7, <2>8, <2>9, <2>10, WakeUp, SMTT(30)
<1>4. "drain" # "notify_all" BY Zenon
<1>5. SigInv' BY <1>1, <1>2, <1>4, SigOp, SMTT(30)
<1>6. TypeInv'
  <2>1. parked' \in SUBSET Threads BY <1>1
  <2> QED BY <1>1, <1>2, <2>1, Zenon DEF StreamInv, TypeInv, Engines
<1>7. LockInv' BY <1>1, LockStays, Zenon DEF StreamInv
<1>8. HandleInv' BY <1>1, HandleStays, Zenon DEF StreamInv
<1>9. RingInv' BY <1>1, RingStays, Zenon DEF StreamInv
<1> QED BY <1>3, <1>5, <1>6, <1>7, <1>8, <1>9, Zenon DEF StreamInv

\* AtomicWaker::wake
LEMMA WakeStepInv == ASSUME StreamInv, NEW d \in {"read", "write"}, Wake(d) PROVE StreamInv'
<1> USE DEF appVars, logVars, objVars
<1> DEFINE x == IF d = "read" THEN "wake_read" ELSE "wake_write"
           v == waker[d]
<1>1. /\ Doing(x) /\ OpDone /\ th' = Woken(d) /\ waker' = [waker EXCEPT ![d] = Nobody]
      /\ UNCHANGED <<rx_ring, tx_ring, eof, error, lock, parked, flag, slot, tcb, events, appVars>>
  BY ZenonT(30) DEF Wake
<1>2. waker \in [{"read", "write"} -> Threads \cup {Nobody}] /\ TypeInv /\ WakeInv /\ parked \subseteq Threads
  BY DEF StreamInv, TypeInv
<1>3. waker' \in [{"read", "write"} -> Threads \cup {Nobody}] /\ \A e \in {"read", "write"} : e # d => waker'[e] = waker[e]
  BY <1>1, <1>2
<1>4. x \in {"wake_read", "wake_write"} /\ x # "notify_all" /\ x # "drain"
      /\ \A e \in {"read", "write"} : e # d => (IF e = "read" THEN "wake_read" ELSE "wake_write") # x
  OBVIOUS
<1>5. v \in Threads \cup {Nobody} /\ d # "none" BY <1>2
<1> HIDE DEF x
<1>6. /\ eng' \in Engines /\ eng'.pc = eng.pc /\ OpsOK(eng'.ops) /\ eng.ops # << >>
      /\ \A w : Comes(eng.ops, w) /\ w # x => Comes(eng'.ops, w)
  BY <1>1, DoneFacts, ZenonT(30)
<1>7. /\ th' \in [Threads -> Regs] /\ LockInv' /\ HandleInv' /\ RingInv'
      /\ \A u \in Threads : v = u => th'[u].resched \/ th'[u].pc \notin {"error", "ring", "publish", "eof", "wait", "pending"}
      /\ \A u \in Threads : v # u => th'[u] = th[u]
      /\ \A u \in Threads : th'[u].pc = th[u].pc \/ th[u].pc = "pending"
      /\ \A u \in Threads : th'[u].call = th[u].call
  <2>1. CASE v = Nobody
    <3>1. th' = th BY <1>1, <2>1 DEF Woken
    <3>2. LockInv' BY <1>1, <3>1, LockStays, Zenon DEF StreamInv
    <3>3. HandleInv' BY <1>1, <3>1, HandleStays, Zenon DEF StreamInv
    <3>4. RingInv' BY <1>1, <3>1, RingStays, Zenon DEF StreamInv
    <3>5. Nobody \notin Threads /\ th \in [Threads -> Regs] BY StreamAssumption, Zenon DEF StreamInv, TypeInv
    <3> QED BY <2>1, <3>1, <3>2, <3>3, <3>4, <3>5, Zenon
  <2>2. CASE v # Nobody
    <3>1. v \in Threads BY <1>5, <2>2, Zenon
    <3>2. th[v] \in Regs /\ RegOK(th[v]) /\ th \in [Threads -> Regs] BY <3>1, InvRegs, ZenonT(30) DEF StreamInv, TypeInv
    <3> DEFINE r == IF th[v].pc = "pending" THEN [th[v] EXCEPT !.pc = th[v].call.op] ELSE [th[v] EXCEPT !.resched = TRUE]
    <3>3. th[v].pc = "pending" => th[v].call.op \in {"poll_read", "poll_write"} BY <3>2 DEF RegOK, Polls
    <3>4. r \in Regs /\ r.call = th[v].call /\ r.then = th[v].then /\ r.base = th[v].base /\ r.n = th[v].n
      BY <3>2, <3>3, Zenon DEF Regs, Steps, Calls
    <3>5. \/ th[v].pc = "pending" /\ r.pc = th[v].call.op /\ r.pc \in {"poll_read", "poll_write"}
          \/ th[v].pc # "pending" /\ r.pc = th[v].pc /\ r.resched
      BY <3>2, <3>3 DEF Regs
    <3>6. Moves(v, r) BY <1>1, <2>2, <3>1, <3>2, Zenon DEF Moves, Woken
    <3> HIDE DEF r, v
    <3>7. RegOK(r) BY <3>2, <3>4, <3>5, Zenon DEF RegOK, Moving, Calls, Polls, Reads, Writes
    <3>8. \A m \in Mutexes : Holds(r, m) <=> Holds(th[v], m) BY <3>4, <3>5, Zenon DEF Holds, Mutexes
    <3>9. LockInv' BY <1>1, <1>2, <3>1, <3>4, <3>6, <3>7, <3>8, LockSame, Zenon DEF StreamInv
    <3>10. r.pc = "idle" \/ (Busy(th[v]) /\ SameCall(r, th[v])) BY <3>4, <3>5, Zenon DEF Busy, SameCall, ClosingRec
    <3>11. HandleInv' BY <1>1, <1>2, <3>1, <3>4, <3>6, <3>10, HandleMove, ZenonT(30) DEF StreamInv
    <3>12. PublishOK(r)
      <4>1. PublishOK(th[v]) BY <3>1, Zenon DEF StreamInv, RingInv
      <4> QED BY <3>4, <3>5, <4>1 DEF PublishOK
    <3>13. RingInv' BY <1>1, <1>2, <3>1, <3>4, <3>6, <3>12, RingMove, Zenon DEF StreamInv
    <3>14. th' \in [Threads -> Regs] /\ th'[v] = r /\ \A u \in Threads \ {v} : th'[u] = th[u]
      BY <1>2, <3>1, <3>4, <3>6, MoveFacts, ZenonT(30)
    <3>15. r.resched \/ r.pc \notin {"error", "ring", "publish", "eof", "wait", "pending"} BY <3>5
    <3> QED BY <3>1, <3>4, <3>5, <3>9, <3>11, <3>13, <3>14, <3>15, Zenon
  <2> QED BY <2>1, <2>2
<1>8. WakeInv'
  <2>1. \A u \in parked' : th'[u].pc = th[u].pc /\ th'[u].call = th[u].call
    <3> TAKE u \in parked'
    <3>1. u \in Threads /\ th[u].pc = "parked" BY <1>1, <1>2 DEF WakeInv
    <3> QED BY <1>7, <3>1
  <2>2. parked' \subseteq parked BY <1>1
  <2>3. /\ \A u \in Threads : d # "none" /\ waker[d] = u =>
             th'[u].resched \/ th'[u].pc \notin {"error", "ring", "publish", "eof", "wait", "pending"}
        /\ \A u \in Threads : d = "none" \/ waker[d] # u => th'[u] = th[u]
    BY <1>5, <1>7, Zenon
  <2>4. UNCHANGED <<error, eof, rx_ring>> BY <1>1, Zenon
  <2> HIDE DEF v
  <2> QED BY <1>2, <1>3, <1>4, <1>6, <2>1, <2>2, <2>3, <2>4, WakeUp, ZenonT(30)
<1>9. SigInv'
  <2>1. \A u \in Threads : th[u].pc = "signal" => th'[u].pc = "signal" BY <1>7
  <2> QED BY <1>1, <1>4, <1>6, <2>1, SigOp, Zenon
<1>10. TypeInv' BY <1>1, <1>3, <1>6, <1>7, Zenon DEF StreamInv, TypeInv, Engines
<1> QED BY <1>7, <1>8, <1>9, <1>10, Zenon DEF StreamInv

-----------------------------------------------------------------------------
(* The invariant, and what follows from it. *)

\* Every scene starts in the invariant.
LEMMA InitInv == ASSUME Init PROVE StreamInv
<1> USE DEF Init
<1>1. /\ scene \in Scenes /\ SceneOK(scene) /\ Capacity \in Nat /\ Nobody \notin Threads
      /\ scene \in [start : {"connected", "listening", "connect"}, mode : {"Fd", "PollOnly", "Condvar"},
                    calls : [Threads -> Seq(AllCalls)]]
  BY StreamAssumption
<1>2. \A t \in Threads : th[t] = Idle BY Zenon
<1>3. TypeInv
  <2>1. rx_ring \in Ring /\ tx_ring \in Ring BY DEF Empty, Ring
  <2>2. lock \in [Mutexes -> Threads \cup {Nobody}] /\ waker \in [{"read", "write"} -> Threads \cup {Nobody}]
    OBVIOUS
  <2>3. tcb \in [state : States, fin_pending : BOOLEAN, unsent : Nat, flight : Nat, accept : {"none", "waiting", "queued"}]
    BY DEF States
  <2>4. eng \in [pc : EnginePcs, ops : Seq(Ops)] BY DEF EnginePcs
  <2>5. th \in [Threads -> Regs] BY IdleReg
  <2>6. todo \in [Threads -> Seq(AllCalls)] BY <1>1
  <2>7. owed \in BOOLEAN
    <3>1. owed = (scene.start = "listening") OBVIOUS
    <3> QED BY <3>1, Zenon
  <2>8. eof \in BOOLEAN /\ flag \in BOOLEAN /\ parked \in SUBSET Threads /\ app_refcount \in Int /\ accepted \in Nat
    <3>1. eof = FALSE /\ flag = FALSE /\ parked = {} /\ app_refcount = 1 /\ accepted = 0 OBVIOUS
    <3>2. eof \in BOOLEAN /\ flag \in BOOLEAN BY <3>1, Zenon
    <3>3. parked \in SUBSET Threads /\ app_refcount \in Int /\ accepted \in Nat BY <3>1
    <3> QED BY <3>2, <3>3
  <2>9. linger = << >> /\ cmds = << >> /\ sent = << >> /\ consumed = << >> BY DEF None
  <2>10. linger \in Seq(STRING) /\ cmds \in Seq(Commands) /\ sent \in Seq(Kinds) /\ consumed \in Seq(Nat)
    <3>1. \A S : << >> \in Seq(S) OBVIOUS
    <3> QED BY <2>9, <3>1, Zenon
  <2> QED BY <1>1, <2>1, <2>2, <2>3, <2>4, <2>5, <2>6, <2>7, <2>8, <2>10, Zenon DEF TypeInv
<1>4. LockInv
  <2>1. \A m \in Mutexes : lock[m] = Nobody /\ ~Holds(Idle, m) BY IdleReg DEF Holds
  <2> QED BY <1>1, <1>2, <2>1, IdleReg, Zenon DEF LockInv
<1>5. \A t \in Threads : ~Busy(th[t]) /\ th[t].pc # "close" BY <1>2, IdleReg DEF Busy
<1>6. CallInv
  <2>1. live \in Lives BY DEF Lives
  <2>2. \A t \in Threads : \A i \in DOMAIN todo[t] : todo[t][i] \in Planned(scene, t) BY DEF Planned
  <2> QED BY <1>5, <2>1, <2>2, Zenon DEF CallInv
<1>7. RequestInv
  <2>1. \A t, u \in Threads : \A i \in DOMAIN todo[t], j \in DOMAIN todo[u] :
          IsRequest(todo[t][i]) => scene.start # "connected" /\ (IsRequest(todo[u][j]) => t = u /\ i = j)
    <3>1. todo = scene.calls OBVIOUS
    <3> SUFFICES ASSUME NEW t \in Threads, NEW u \in Threads, NEW i \in DOMAIN scene.calls[t],
                        NEW j \in DOMAIN scene.calls[u], IsRequest(scene.calls[t][i])
                 PROVE  scene.start # "connected" /\ (IsRequest(scene.calls[u][j]) => t = u /\ i = j)
      BY <3>1
    <3> QED BY <1>1 DEF SceneOK
  <2>2. \A t, u \in Threads : \A i \in DOMAIN todo[t], j \in DOMAIN todo[u] :
          IsRequest(todo[t][i]) /\ IsRequest(todo[u][j]) => t = u /\ i = j
    <3> TAKE t, u \in Threads
    <3> TAKE i \in DOMAIN todo[t], j \in DOMAIN todo[u]
    <3> QED BY <2>1
  <2>3. \A t \in Threads : (\E i \in DOMAIN todo[t] : IsRequest(todo[t][i])) => live = {} /\ app_refcount = 1
    BY <2>1
  <2> QED BY <1>5, <2>2, <2>3, Zenon DEF RequestInv
<1>8. CountInv
  <2>1. DOMAIN sent = {} OBVIOUS
  <2>2. app_refcount \in 0..2 /\ (owed => live = {} /\ app_refcount = 1)
    <3>1. owed = (scene.start = "listening") /\ app_refcount = 1 OBVIOUS
    <3>2. scene.start = "listening" => live = {} OBVIOUS
    <3>3. owed => live = {} BY <3>1, <3>2, Zenon
    <3> QED BY <3>1, <3>3
  <2>3. live # {} => app_refcount = IF live = {"read_half", "write_half"} THEN 2 ELSE 1 OBVIOUS
  <2> QED BY <1>5, <2>1, <2>2, <2>3 DEF CountInv
<1>9. RingInv
  <2>1. \A t \in Threads : PublishOK(th[t]) BY <1>2, IdleReg DEF PublishOK
  <2> QED BY <1>1, <2>1 DEF RingInv, RingOK, Empty
<1>10. WakeInv
  <2>1. OpsOK(eng.ops) BY ShortOps
  <2>2. \A t \in Threads : PollOK(t, th[t]) BY <1>2, IdleReg DEF PollOK
  <2> QED BY <2>1, <2>2 DEF WakeInv
<1>11. SigInv BY DEF SigInv, SignalNotLost, Filled, Empty
<1> QED BY <1>3, <1>4, <1>6, <1>7, <1>8, <1>9, <1>10, <1>11, Zenon DEF StreamInv, HandleInv

\* A step that changes nothing.
LEMMA StutterInv == ASSUME StreamInv, UNCHANGED vars PROVE StreamInv'
<1> USE DEF vars, handleVars, wakeVars, chanVars, objVars, logVars
<1>1. TypeInv' BY Zenon DEF StreamInv, TypeInv
<1>2. LockInv' BY LockStays, Zenon DEF StreamInv
<1>3. HandleInv' BY HandleStays, Zenon DEF StreamInv
<1>4. RingInv' BY RingStays, Zenon DEF StreamInv
<1>5. WakeInv' BY WakeStays, Zenon DEF StreamInv
<1>6. SigInv' BY Zenon DEF StreamInv, SigInv, SignalNotLost, Signalling, Coming, SendsData, Filled
<1> QED BY <1>1, <1>2, <1>3, <1>4, <1>5, <1>6, Zenon DEF StreamInv

\* Every step of a thread keeps the invariant.
LEMMA AppStepInv == ASSUME StreamInv, NEW t \in Threads, AppStep(t) PROVE StreamInv'
<1>1. CASE Call(t) BY <1>1, CallStepInv, Zenon
<1>2. CASE Enter(t) BY <1>2, EnterInv, Zenon
<1>3. CASE CheckError(t) BY <1>3, CheckErrorInv, Zenon
<1>4. CASE RingBegin(t) BY <1>4, RingBeginInv, Zenon
<1>5. CASE RingPublish(t) BY <1>5, ReadPublishInv, WritePublishInv, ZenonT(30)
<1>6. CASE CheckEof(t) BY <1>6, CheckEofInv, Zenon
<1>7. CASE WouldBlock(t) BY <1>7, WouldBlockInv, Zenon
<1>8. CASE LockNotify(t) BY <1>8, LockNotifyInv, Zenon
<1>9. CASE Recheck(t) BY <1>9, RecheckInv, Zenon
<1>10. CASE Unpark(t) BY <1>10, UnparkInv, Zenon
<1>11. CASE Register(t) BY <1>11, RegisterInv, Zenon
<1>12. CASE Pending(t) BY <1>12, PendingInv, Zenon
<1>13. CASE SignalFlag(t) BY <1>13, SignalFlagInv, Zenon
<1>14. CASE SignalNotify(t) BY <1>14, SignalNotifyInv, Zenon
<1>15. CASE Shutdown(t) BY <1>15, ShutdownInv, Zenon
<1>16. CASE SetOption(t) BY <1>16, SetOptionInv, Zenon
<1>17. CASE IntoSplit(t) BY <1>17, IntoSplitInv, Zenon
<1>18. CASE DropWriteHalf(t) BY <1>18, DropWriteHalfInv, Zenon
<1>19. CASE DropRef(t) BY <1>19, DropRefInv, Zenon
<1>20. CASE SendClose(t) BY <1>20, SendCloseInv, Zenon
<1>21. CASE Request(t) BY <1>21, RequestStepInv, Zenon
<1>22. CASE Receive(t) BY <1>22, ReceiveInv, Zenon
<1>23. CASE ReceiveTimesOut(t) BY <1>23, ReceiveTimesOutInv, Zenon
<1> QED BY <1>1, <1>2, <1>3, <1>4, <1>5, <1>6, <1>7, <1>8, <1>9, <1>10, <1>11, <1>12, <1>13, <1>14, <1>15,
           <1>16, <1>17, <1>18, <1>19, <1>20, <1>21, <1>22, <1>23, ZenonT(30) DEF AppStep

\* Every step of the engine keeps it.
LEMMA EngineStepInv == ASSUME StreamInv, EngineStep PROVE StreamInv'
<1>1. CASE Wait BY <1>1, WaitInv, Zenon
<1>2. CASE WaitReturns \/ TryRecvAgain BY <1>2, WaitReturnsInv, ZenonT(30)
<1>3. CASE TryRecv BY <1>3, TryRecvInv, Zenon
<1>4. CASE FramesDone BY <1>4, FramesDoneInv, Zenon
<1>5. CASE OnCommand BY <1>5, OnCommandInv, Zenon
<1>6. CASE CommandsDone BY <1>6, CommandsDoneInv, Zenon
<1>7. CASE Tick BY <1>7, TickInv, Zenon
<1>8. CASE TickDone BY <1>8, TickDoneInv, Zenon
<1>9. CASE EngineOp
  <2>1. CASE \E d \in {"read", "write"} : Wake(d) BY <2>1, WakeStepInv, Zenon
  <2> QED BY <1>9, <2>1, WriteRxInv, SetEofInv, LatchErrorInv, NotifyAllInv, RespondInv, DeliverAcceptInv, AckInv,
             DrainInv, FinIfFlushedInv, TransmitInv, Zenon DEF EngineOp
<1> QED BY <1>1, <1>2, <1>3, <1>4, <1>5, <1>6, <1>7, <1>8, <1>9, Zenon DEF EngineStep

\* The invariant holds whatever the threads call, the peer sends and the timers do, for any
\* number of threads and rings of any capacity.
THEOREM StreamInvariant == Spec => []StreamInv
<1>1. Init => StreamInv BY InitInv
<1>2. StreamInv /\ [Next]_vars => StreamInv'
  <2> SUFFICES ASSUME StreamInv, [Next]_vars PROVE StreamInv' OBVIOUS
  <2>1. CASE \E t \in Threads : AppStep(t) BY <2>1, AppStepInv, Zenon
  <2>2. CASE EngineStep BY <2>2, EngineStepInv, Zenon
  <2>3. CASE OnSegment BY <2>3, OnSegmentInv, Zenon
  <2>4. CASE TimerFires BY <2>4, TimerFiresInv, Zenon
  <2>5. CASE UNCHANGED vars BY <2>5, StutterInv, Zenon
  <2> QED BY <2>1, <2>2, <2>3, <2>4, <2>5, Zenon DEF Next
<1> QED BY <1>1, <1>2, PTL DEF Spec

\* Reads by any number of threads and tasks take the bytes of a stream in order and once
\* each, writes put theirs after one another, and the rings keep their bounds.
THEOREM StreamIsSerialised == Spec => []StreamSerialised
<1>1. StreamInv => StreamSerialised
  <2> SUFFICES ASSUME StreamInv PROVE TypeOK /\ RingsSerialised BY DEF StreamSerialised
  <2>1. RingsSerialised BY DEF StreamInv, RingInv, RingsSerialised
  <2>2. \A r \in {rx_ring, tx_ring} : r.tail <= r.head /\ Filled(r) <= Capacity
    BY DEF StreamInv, RingInv, RingOK, Filled
  <2>3. parked \subseteq {t \in Threads : At(t, "parked")} BY Zenon DEF StreamInv, TypeInv, WakeInv, At
  <2>4. live \subseteq {"stream", "read_half", "write_half"} BY Zenon DEF StreamInv, HandleInv, CallInv, Lives
  <2>5. \A t \in Threads : th[t].pc \in Steps
    <3> TAKE t \in Threads
    <3> QED BY InvRegs DEF Regs
  <2>6. ASSUME NEW d \in {"read", "write"}, lock[d] # Nobody PROVE Blocking(lock[d]) /\ Direction(lock[d]) = d
    <3>1. d \in Mutexes /\ lock \in [Mutexes -> Threads \cup {Nobody}] BY DEF Mutexes, StreamInv, TypeInv
    <3>2. PICK t \in Threads : lock[d] = t BY <2>6, <3>1
    <3>3. Holds(th[t], d) BY <3>1, <3>2, Zenon DEF StreamInv, LockInv
    <3> QED BY <3>2, <3>3, SMTT(30) DEF Holds, Blocking, Direction, Op
  <2>7. /\ eof \in BOOLEAN /\ flag \in BOOLEAN /\ owed \in BOOLEAN
        /\ lock \in [Mutexes -> Threads \cup {Nobody}] /\ waker \in [{"read", "write"} -> Threads \cup {Nobody}]
        /\ app_refcount \in 0..2
    BY Zenon DEF StreamInv, TypeInv, HandleInv, CountInv
  <2> QED BY <2>1, <2>2, <2>3, <2>4, <2>5, <2>6, <2>7, Zenon DEF TypeOK
<1> QED BY <1>1, StreamInvariant, PTL

\* No wake-up is lost between the check of a ring and the sleep, for blocked threads and for
\* tasks, whatever the engine does meanwhile.
THEOREM WakeupsAreKept == Spec => []NoLostWakeup
<1>1. StreamInv => NoLostWakeup
  <2> SUFFICES ASSUME StreamInv, NEW t \in Threads, Sleeps(t),
                      IF Direction(t) = "read" THEN Ready("read") ELSE error # None
               PROVE  WakeComing(t)
    BY DEF NoLostWakeup
  <2>1. th[t] \in Regs /\ RegOK(th[t]) BY InvRegs
  <2>2. Direction(t) = "read" <=> Reads(th[t].call) BY DEF Direction, Op, Reads
  <2>3. Due(th[t].call) BY <2>2 DEF Due, Ready
  <2>4. CASE t \in parked BY <2>3, <2>4, Zenon DEF StreamInv, WakeInv, WakeComing
  <2>5. CASE t \notin parked
    <3>1. th[t].pc = "pending" BY <2>5, ZenonT(30) DEF Sleeps, At
    <3>2. Polls(th[t].call) /\ th[t].resched = FALSE BY <2>1, <3>1 DEF RegOK
    <3>3. PollOK(t, th[t]) BY Zenon DEF StreamInv, WakeInv
    <3>4. Coming(WakeOf(th[t].call)) BY <2>3, <3>1, <3>2, <3>3, ZenonT(30) DEF PollOK, Due, WakeOf
    <3> QED BY <2>2, <2>5, <3>4 DEF WakeComing, WakeOf
  <2> QED BY <2>4, <2>5
<1> QED BY <1>1, StreamInvariant, PTL

\* The engine never sleeps on a command or on bytes to send without a signal on its way.
THEOREM SignalsAreKept == Spec => []SignalNotLost
<1>1. StreamInv => SignalNotLost BY DEF StreamInv, SigInv
<1> QED BY <1>1, StreamInvariant, PTL

\* The last of a stream's handles, whole or split and whichever thread drops it, closes the
\* connection, once and as its last command.
THEOREM LastDropCloses == Spec => []LastHandleCloses
<1>1. StreamInv => LastHandleCloses
  <2> SUFFICES ASSUME StreamInv PROVE HandlesCounted /\ CloseIsLast BY DEF LastHandleCloses
  <2>1. CountInv /\ live \in Lives BY DEF StreamInv, HandleInv, CallInv
  <2>2. HandlesCounted
    <3>1. owed \in BOOLEAN /\ (owed => live = {} /\ app_refcount = 1)
          /\ (live # {} => app_refcount = IF live = {"read_half", "write_half"} THEN 2 ELSE 1)
      BY <2>1, Zenon DEF StreamInv, TypeInv, CountInv
    <3>2. CASE owed
      <4>1. live = {} /\ app_refcount = 1 BY <3>1, <3>2, Zenon
      <4> QED BY <3>2, <4>1 DEF HandlesCounted
    <3>3. CASE ~owed /\ live # {} BY <2>1, <3>1, <3>3 DEF Lives, HandlesCounted
    <3>4. CASE ~owed /\ live = {} BY <3>4 DEF HandlesCounted
    <3> QED BY <3>2, <3>3, <3>4
  <2>3. CloseIsLast
    <3>1. sent \in Seq(Kinds) BY DEF StreamInv, TypeInv
    <3>2. sent # << >> => Len(sent) \in DOMAIN sent BY <3>1
    <3> QED BY <2>1, <3>2, SMTT(30) DEF CloseIsLast, CountInv
  <2> QED BY <2>2, <2>3, Zenon
<1> QED BY <1>1, StreamInvariant, PTL
=============================================================================
