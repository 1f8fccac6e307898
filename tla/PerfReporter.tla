---------------------------- MODULE PerfReporter ----------------------------
(***************************************************************************)
(* The performance counters of a UDP socket, its latency sampler and the   *)
(* background thread that reports them (dpdk-stdlib-udp/src/perf.rs, and   *)
(* the calls of UdpSocket that start, stop and read it).                   *)
(*                                                                         *)
(* The receiving thread, which holds rx_state, counts and samples; every   *)
(* load and every store of an atomic it shares with the reporter is a step *)
(* of its own.  rx_packets stands for the counters, which are all counted  *)
(* and reported alike; the sums of which averages are made are left out.   *)
(***************************************************************************)
EXTENDS Options, Integers, FiniteSets, TLC

CONSTANTS Users,         \* threads that start, stop and read the reporter
          Capacity,      \* capacity of the latency sampler
          SampleRate,    \* every how many bursts is one sampled
          Latencies      \* the latencies that can be measured

ASSUME SamplerAssumption ==
  Capacity \in Nat \ {0} /\ SampleRate \in Nat \ {0} /\ Latencies \subseteq Nat

VARIABLES rx_packets,
          latency_max,   \* latency_max_ns
          sampler,       \* [samples, count, write_idx, packet_count]
          imissed,       \* what the NIC counts
          reporter,      \* perf_reporter: the index of its thread in loops, None
          guard,         \* who holds the lock of perf_reporter
          loops,         \* the reporter threads that were started
          recv,          \* registers of the receiving thread
          user,          \* thread -> where it is in its call, and the samples it has read
          plan,          \* [calls, bursts, drops, failures, stats]: what is left to happen,
                         \* and whether the socket has a port that counts
          latest         \* the samples since the last reset of latency_max

countVars == <<rx_packets, latency_max, sampler, imissed, latest>>
perfVars == <<countVars, reporter, guard, loops, recv, user, plan>>

NewLoop == [pc |-> "start", shutdown |-> FALSE, prev |-> 0, cur |-> 0, nic |-> None, nicCur |-> None,
            first |-> 0, reported |-> 0, baseline |-> None, deltas |-> 0, gap |-> FALSE, final |-> None]
NoSnapshot == [pc |-> "idle", count |-> 0, loaded |-> << >>, percentiles |-> None]
Receiving == [pc |-> "idle", ns |-> 0, idx |-> 0, seen |-> 0]

PerfInit(p) ==
  /\ rx_packets = 0 /\ latency_max = 0 /\ imissed = 0
  /\ sampler = [samples |-> [i \in 0..Capacity-1 |-> 0], count |-> 0, write_idx |-> 0, packet_count |-> 0]
  /\ reporter = None /\ guard = None /\ loops = << >>
  /\ recv = Receiving
  /\ user = [u \in Users |-> NoSnapshot]
  /\ plan = p
  /\ latest = {}

-----------------------------------------------------------------------------
\* The receiving thread.

\* perf_inc!, and perf_should_sample!.
Burst ==
  /\ recv.pc = "idle" /\ plan.bursts > 0
  /\ plan' = [plan EXCEPT !.bursts = @ - 1]
  /\ rx_packets' = rx_packets + 1
  /\ sampler' = [sampler EXCEPT !.packet_count = (@ + 1) % SampleRate]
  /\ IF sampler.packet_count % SampleRate = 0
     THEN \E ns \in Latencies : recv' = [recv EXCEPT !.pc = "record", !.ns = ns]
     ELSE UNCHANGED recv
  /\ UNCHANGED <<latency_max, imissed, latest, reporter, guard, loops, user>>

\* LatencySampler::record.
RecordSlot ==
  /\ recv.pc = "record"
  /\ recv' = [recv EXCEPT !.pc = "store", !.idx = sampler.write_idx % Capacity]
  /\ sampler' = [sampler EXCEPT !.write_idx = @ + 1]
  /\ UNCHANGED <<rx_packets, latency_max, imissed, latest, reporter, guard, loops, user, plan>>

RecordStore ==
  /\ recv.pc = "store"
  /\ sampler' = [sampler EXCEPT !.samples[recv.idx] = recv.ns]
  /\ recv' = [recv EXCEPT !.pc = "count"]
  /\ UNCHANGED <<rx_packets, latency_max, imissed, latest, reporter, guard, loops, user, plan>>

SamplerHasRoom(n) == n < Capacity

RecordCount ==
  /\ recv.pc = "count"
  /\ recv' = [recv EXCEPT !.pc = IF SamplerHasRoom(sampler.count) THEN "store_count" ELSE "max", !.seen = sampler.count]
  /\ UNCHANGED <<countVars, reporter, guard, loops, user, plan>>

RecordCounted ==
  /\ recv.pc = "store_count"
  /\ sampler' = [sampler EXCEPT !.count = recv.seen + 1]
  /\ recv' = [recv EXCEPT !.pc = "max"]
  /\ UNCHANGED <<rx_packets, latency_max, imissed, latest, reporter, guard, loops, user, plan>>

\* update_latency_max: the load, and the compare-and-exchange, which may fail
\* spuriously.
MaxLoad ==
  /\ recv.pc = "max"
  /\ IF recv.ns > latency_max
     THEN recv' = [recv EXCEPT !.pc = "cas", !.seen = latency_max] /\ UNCHANGED latest
     ELSE recv' = Receiving /\ latest' = latest \cup {recv.ns}
  /\ UNCHANGED <<rx_packets, latency_max, sampler, imissed, reporter, guard, loops, user, plan>>

MaxExchange ==
  /\ recv.pc = "cas"
  /\ \/ /\ latency_max = recv.seen
        /\ latency_max' = recv.ns /\ latest' = latest \cup {recv.ns}
        /\ recv' = Receiving
     \/ /\ UNCHANGED latency_max
        /\ IF recv.ns > latency_max
           THEN recv' = [recv EXCEPT !.seen = latency_max] /\ UNCHANGED latest
           ELSE recv' = Receiving /\ latest' = latest \cup {recv.ns}
  /\ UNCHANGED <<rx_packets, sampler, imissed, reporter, guard, loops, user, plan>>

Receiver == Burst \/ RecordSlot \/ RecordStore \/ RecordCount \/ RecordCounted \/ MaxLoad \/ MaxExchange

\* The NIC has no descriptor for a frame.
NicDrops ==
  /\ plan.drops > 0 /\ plan' = [plan EXCEPT !.drops = @ - 1]
  /\ imissed' = imissed + 1
  /\ UNCHANGED <<rx_packets, latency_max, sampler, latest, reporter, guard, loops, recv, user>>

-----------------------------------------------------------------------------
\* The reporter thread: reporter_loop.

LoopAt(i, pc) == loops[i].pc = pc
LoopSet(i, r) == loops' = [loops EXCEPT ![i] = r]

\* NicStatsFn: None without a port, and when the port cannot be read.
ReadNic(n) == \/ plan.stats /\ n = Some(imissed) /\ UNCHANGED plan
              \/ ~plan.stats /\ n = None /\ UNCHANGED plan
              \/ /\ plan.stats /\ plan.failures > 0 /\ n = None
                 /\ plan' = [plan EXCEPT !.failures = @ - 1]

LoopStart(i) ==
  /\ LoopAt(i, "start")
  /\ LoopSet(i, [loops[i] EXCEPT !.pc = "baseline", !.prev = rx_packets, !.first = rx_packets])
  /\ UNCHANGED <<countVars, reporter, guard, recv, user, plan>>

Baseline(i) ==
  /\ LoopAt(i, "baseline")
  /\ \E n \in {None, Some(imissed)} :
       ReadNic(n) /\ LoopSet(i, [loops[i] EXCEPT !.pc = "top", !.nic = n, !.baseline = n, !.gap = (n = None)])
  /\ UNCHANGED <<countVars, reporter, guard, recv, user>>

\* The loop condition, and the sleep with the second look at `shutdown`; a tick
\* that comes too early is skipped.
LoopTop(i) ==
  /\ LoopAt(i, "top")
  /\ LoopSet(i, [loops[i] EXCEPT !.pc = IF loops[i].shutdown THEN "final" ELSE "sleep"])
  /\ UNCHANGED <<countVars, reporter, guard, recv, user, plan>>

LoopWakes(i) ==
  /\ LoopAt(i, "sleep")
  /\ \/ loops[i].shutdown /\ LoopSet(i, [loops[i] EXCEPT !.pc = "final"])
     \/ ~loops[i].shutdown /\ LoopSet(i, [loops[i] EXCEPT !.pc = "snapshot"])
     \/ ~loops[i].shutdown /\ LoopSet(i, [loops[i] EXCEPT !.pc = "top"])
  /\ UNCHANGED <<countVars, reporter, guard, recv, user, plan>>

Snapshot(i) ==
  /\ LoopAt(i, "snapshot")
  /\ LoopSet(i, [loops[i] EXCEPT !.pc = "report", !.cur = rx_packets])
  /\ UNCHANGED <<countVars, reporter, guard, recv, user, plan>>

\* The NIC's counters as deltas; without two successive reads there is none.
NicDelta(r, n) ==
  IF r.nic # None /\ n # None
  THEN [r EXCEPT !.deltas = @ + n[1] - r.nic[1], !.nic = n]
  ELSE [r EXCEPT !.gap = TRUE, !.nic = n]

\* The [PERF] line.
Report(i) ==
  /\ LoopAt(i, "report")
  /\ \E n \in {None, Some(imissed)} :
       /\ ReadNic(n)
       /\ LoopSet(i, [NicDelta(loops[i], n) EXCEPT !.pc = "reset_max",
                        !.reported = @ + loops[i].cur - loops[i].prev])
  /\ UNCHANGED <<countVars, reporter, guard, recv, user>>

\* reset_interval and LatencySampler::reset.
ResetMax(i) ==
  /\ LoopAt(i, "reset_max")
  /\ latency_max' = 0 /\ latest' = {}
  /\ LoopSet(i, [loops[i] EXCEPT !.pc = "reset_count"])
  /\ UNCHANGED <<rx_packets, sampler, imissed, reporter, guard, recv, user, plan>>

ResetSampler(i) ==
  /\ \/ /\ LoopAt(i, "reset_count") /\ sampler' = [sampler EXCEPT !.count = 0]
        /\ LoopSet(i, [loops[i] EXCEPT !.pc = "reset_idx"])
     \/ /\ LoopAt(i, "reset_idx") /\ sampler' = [sampler EXCEPT !.write_idx = 0]
        /\ LoopSet(i, [loops[i] EXCEPT !.pc = "again"])
  /\ UNCHANGED <<rx_packets, latency_max, imissed, latest, reporter, guard, recv, user, plan>>

\* Mutant: the next interval starts where this one did.
AgainFromPrev(i) ==
  /\ LoopAt(i, "again")
  /\ LoopSet(i, [loops[i] EXCEPT !.pc = "top"])
  /\ UNCHANGED <<countVars, reporter, guard, recv, user, plan>>

\* prev_snapshot is taken anew after the reset.
Again(i) ==
  /\ LoopAt(i, "again")
  /\ LoopSet(i, [loops[i] EXCEPT !.pc = "top", !.prev = rx_packets])
  /\ UNCHANGED <<countVars, reporter, guard, recv, user, plan>>

Final(i) ==
  /\ LoopAt(i, "final")
  /\ \E n \in {None, Some(imissed)} : ReadNic(n) /\ LoopSet(i, [loops[i] EXCEPT !.pc = "done", !.final = n])
  /\ UNCHANGED <<countVars, reporter, guard, recv, user>>

Loop(i) ==
  \/ LoopStart(i) \/ Baseline(i) \/ LoopTop(i) \/ LoopWakes(i) \/ Snapshot(i) \/ Report(i)
  \/ ResetMax(i) \/ ResetSampler(i) \/ Again(i) \/ Final(i)

-----------------------------------------------------------------------------
\* The calls of the application.

PerfCall(u, op) == user[u].pc = "idle" /\ plan.calls[u] # << >> /\ Head(plan.calls[u]) = op
Called(u) == plan' = [plan EXCEPT !.calls[u] = Tail(@)]
UserAt(u, pc) == user' = [user EXCEPT ![u].pc = pc]

StartReporter ==
  /\ loops' = Append(loops, NewLoop)
  /\ reporter' = Some(Len(loops) + 1)

\* enable_perf_reporting: under the lock, unless one runs.
enable_perf_reporting(u) ==
  /\ PerfCall(u, "enable") /\ guard = None
  /\ Called(u)
  /\ IF reporter = None THEN StartReporter ELSE UNCHANGED <<loops, reporter>>
  /\ UNCHANGED <<countVars, guard, recv, user>>

\* disable_perf_reporting: the reporter is taken, told to stop and joined, all
\* under the lock.
DisableTake(u) ==
  /\ PerfCall(u, "disable") /\ guard = None
  /\ Called(u)
  /\ IF reporter = None THEN UNCHANGED <<loops, reporter, guard, user>>
     ELSE /\ loops' = [loops EXCEPT ![reporter[1]].shutdown = TRUE]
          /\ reporter' = None
          /\ guard' = Some(u) /\ UserAt(u, "join")
  /\ UNCHANGED <<countVars, recv>>

DisableJoined(u) ==
  /\ user[u].pc = "join" /\ \A i \in DOMAIN loops : reporter # Some(i) => LoopAt(i, "done")
  /\ guard' = None /\ UserAt(u, "idle")
  /\ UNCHANGED <<countVars, reporter, loops, recv, plan>>

\* perf_snapshot, without a lock: the counters, then percentiles, which reads the
\* count and as many samples, and sorts them.
perf_snapshot(u) ==
  /\ PerfCall(u, "snapshot")
  /\ Called(u) /\ user' = [user EXCEPT ![u] = [NoSnapshot EXCEPT !.pc = "count"]]
  /\ UNCHANGED <<countVars, reporter, guard, loops, recv>>

SnapshotCount(u) ==
  /\ user[u].pc = "count"
  /\ user' = [user EXCEPT ![u].count = sampler.count, ![u].pc = IF sampler.count = 0 THEN "idle" ELSE "load"]
  /\ UNCHANGED <<countVars, reporter, guard, loops, recv, plan>>

\* The index of a percentile, given in thousandths, among n sorted samples, rounded.
PercentileRank(permille, n) == (2 * permille * (n - 1) + 1000) \div 2000
percentiles(samples) ==
  LET sorted == SortSeq(samples, LAMBDA a, b : a < b)
      p(permille) == sorted[1 + PercentileRank(permille, Len(sorted))]
  IN  [p50 |-> p(500), p95 |-> p(950), p99 |-> p(990), p999 |-> p(999), max |-> sorted[Len(sorted)]]

SnapshotLoad(u) ==
  LET r == user[u]
      loaded == Append(r.loaded, sampler.samples[Len(r.loaded)])
  IN
  /\ r.pc = "load"
  /\ user' = [user EXCEPT ![u] =
       IF Len(loaded) < r.count THEN [r EXCEPT !.loaded = loaded]
       ELSE [NoSnapshot EXCEPT !.percentiles = Some(percentiles(loaded))]]
  /\ UNCHANGED <<countVars, reporter, guard, loops, recv, plan>>

User(u) ==
  \/ enable_perf_reporting(u) \/ DisableTake(u) \/ DisableJoined(u)
  \/ perf_snapshot(u) \/ SnapshotCount(u) \/ SnapshotLoad(u)

PerfNext ==
  \/ Receiver \/ NicDrops
  \/ \E i \in DOMAIN loops : Loop(i)
  \/ \E u \in Users : User(u)

-----------------------------------------------------------------------------
\* A socket has at most one reporter thread, and none once disable_perf_reporting
\* has returned: a thread that runs is the registered one, or is being joined by
\* the thread that holds the lock.
ReporterJoined ==
  /\ Cardinality({i \in DOMAIN loops : ~LoopAt(i, "done")}) <= 1
  /\ \A i \in DOMAIN loops : LoopAt(i, "done") \/ reporter = Some(i) \/ guard # None

\* No packet is reported twice: what a reporter has added up is at most what was
\* counted since it started, and what it may still add to it starts after it.
ReportedOnce ==
  \A i \in DOMAIN loops :
    LoopAt(i, "start") \/ (loops[i].first + loops[i].reported <=
      (IF loops[i].pc \in {"reset_max", "reset_count", "reset_idx", "again"} THEN loops[i].cur ELSE loops[i].prev))

\* The deltas of the NIC counters telescope: as long as every read succeeded, the
\* baseline and the deltas reported add up to the last value read, so that none
\* is lost or counted twice between two lines.
NicDeltasTelescope ==
  \A i \in DOMAIN loops :
    loops[i].baseline # None /\ ~loops[i].gap =>
      loops[i].baseline[1] + loops[i].deltas = loops[i].nic[1]

\* The sampler never counts more samples than it holds, whatever reset does
\* between the load and the store of the count: percentiles stays in bounds.
SamplerInBounds == sampler.count <= Capacity /\ recv.idx < Capacity

\* The reported maximum covers every sample taken since the last reset, whenever
\* the reset comes in the compare-and-exchange loop of update_latency_max.
LatencyMaxCovers == \A ns \in latest : ns <= latency_max

\* As long as no reporter resets the sampler, the percentiles of a snapshot are
\* latencies that were measured, in order, although the receiving thread records
\* while they are read.
SnapshotMeasured ==
  \A u \in Users : loops = << >> /\ user[u].percentiles # None =>
    LET s == user[u].percentiles[1] IN
    /\ {s.p50, s.p95, s.p99, s.p999, s.max} \subseteq latest \cup {recv.ns}
    /\ s.p50 <= s.p95 /\ s.p95 <= s.p99 /\ s.p99 <= s.p999 /\ s.p999 <= s.max

\* disable_perf_reporting returns: the reporter sees `shutdown` at the end of its
\* sleep at the latest.
DisableReturns == \A u \in Users : user[u].pc = "join" ~> user[u].pc = "idle"

\* What the reporter prints is true although nothing stops while it reads: packets and NIC
\* deltas are counted once, and latencies are ones that were measured since the reset.
ReportsTrue ==
  ReportedOnce /\ NicDeltasTelescope /\ SamplerInBounds /\ LatencyMaxCovers /\ SnapshotMeasured
=============================================================================
