------------------------------ MODULE AsyncUdp ------------------------------
(***************************************************************************)
(* The asynchronous UDP sockets over the socket of module UdpSocket        *)
(* (dpdk-stdlib-tokio: compat/tokio.rs, socket.rs, idle_backoff.rs).       *)
(*                                                                         *)
(* A task makes its calls one after the other.  A worker thread of the     *)
(* runtime polls a task that is ready: what the poll does to the socket is *)
(* a call of module UdpSocket by that thread, and when it returns the      *)
(* future is finished, yields or sleeps.  connect runs in a thread of the  *)
(* blocking pool.  A future that is not being polled may be dropped        *)
(* (select!, timeout), which does not stop a blocking call that started.   *)
(***************************************************************************)
EXTENDS UdpSocket

CONSTANTS MIN_IDLE_THRESHOLD, SLEEP_STEP,
          OFF            \* the sentinel of IdleBackoff, above every duration

\* The blocking pool has threads of its own.
ASSUME PoolAssumption == \A s \in Scenes : s.workers \cap s.pool = {}

VARIABLES task,          \* task -> its registers
          run,           \* thread -> the task it works for, None when it has none
          jobs,          \* the queue of the blocking pool: [task, call]
          idle_backoff,  \* socket -> the configured duration, OFF by default
          mirror,        \* socket -> connected_addr of DpdkUdpSocket
          now,
          abandoned,     \* sockets with a connect whose future was dropped
          given          \* socket -> datagrams that receive futures handed to tasks, in order

asyncVars == <<task, run, jobs, idle_backoff, mirror, now, abandoned, given>>
allVars == <<vars, asyncVars>>

\* Of a scene: tasks, each [sock, facade, calls]; workers, pool: the threads of
\* the runtime and of its blocking pool; clock, the bound on its ticks.
Tasks == DOMAIN scene.tasks
TSock(k) == scene.tasks[k].sock
Doing(k, op) == task[k].call # None /\ task[k].call[1].op = op

NoFuture(calls) == [state |-> "idle", calls |-> calls, call |-> None, first |-> TRUE, threshold |-> OFF,
                    since |-> 0, wake |-> 0, began |-> 0]

AsyncInit ==
  /\ Init
  /\ task = [k \in Tasks |-> NoFuture(scene.tasks[k].calls)]
  /\ run = [t \in DOMAIN Threads |-> None]
  /\ jobs = << >>
  /\ idle_backoff = OnSockets(OFF)
  /\ mirror = OnSockets(None)
  /\ now = 0 /\ abandoned = {}
  /\ given = OnSockets(<< >>)

\* IdleBackoff::threshold.
threshold(s) ==
  IF idle_backoff[s] = OFF THEN OFF
  ELSE IF idle_backoff[s] < MIN_IDLE_THRESHOLD THEN MIN_IDLE_THRESHOLD ELSE idle_backoff[s]

\* The future of a call is finished, or dropped.
Finished(k) == NoFuture(task[k].calls)

Tick ==
  /\ now < scene.clock
  /\ now' = now + 1
  /\ UNCHANGED <<vars, task, run, jobs, idle_backoff, mirror, abandoned, given>>

\* A task makes its next call.  set_idle_backoff is a store; connect hands a
\* closure to spawn_blocking; the others begin with a poll of the socket.
Starts(k, op) == task[k].state = "idle" /\ task[k].calls # << >> /\ Head(task[k].calls).op = op
Started(k) == [task[k] EXCEPT !.calls = Tail(@), !.call = Some(Head(task[k].calls)), !.began = now]

set_idle_backoff(k) ==
  /\ Starts(k, "set_idle_backoff")
  /\ idle_backoff' = [idle_backoff EXCEPT ![TSock(k)] = Head(task[k].calls).idle]
  /\ task' = [task EXCEPT ![k].calls = Tail(@)]
  /\ UNCHANGED <<vars, run, jobs, mirror, now, abandoned, given>>

AsyncConnect(k) ==
  /\ Starts(k, "connect")
  /\ jobs' = Append(jobs, [task |-> k, call |-> Head(task[k].calls), id |-> Len(task[k].calls) - 1])
  /\ task' = [task EXCEPT ![k] = [Started(k) EXCEPT !.state = "awaiting"]]
  /\ UNCHANGED <<vars, run, idle_backoff, mirror, now, abandoned, given>>

StartCall(k) ==
  /\ \E op \in {"recv_from", "send", "try_recv_from"} : Starts(k, op)
  /\ task' = [task EXCEPT ![k] = [Started(k) EXCEPT !.state = "ready"]]
  /\ UNCHANGED <<vars, run, jobs, idle_backoff, mirror, now, abandoned, given>>

\* try_recv_from and try_recv fail instead of waiting, as do try_send_to and
\* try_send, sends with `blocking` FALSE.
TryCall(c) == IF c.op = "try_recv_from" THEN [op |-> "nb"] ELSE c

\* The call of the socket that a poll makes.
SocketCall(c) == IF c.op = "recv_from" THEN [op |-> "try"] ELSE TryCall(c)

\* A worker polls a task that is ready or whose sleep is over.
Poll(k, t) ==
  /\ t \in scene.workers /\ Sock(t) = TSock(k) /\ At(t, "idle") /\ todo[t] = << >> /\ run[t] = None
  /\ task[k].state = "ready" \/ (task[k].state = "sleeping" /\ now >= task[k].wake)
  /\ todo' = [todo EXCEPT ![t] = <<SocketCall(task[k].call[1])>>]
  /\ run' = [run EXCEPT ![t] = Some([task |-> k, id |-> Len(task[k].calls)])]
  /\ task' = [task EXCEPT ![k].state = "polling"]
  /\ UNCHANGED <<nicVars, holder, cacheVars, queueVars, connVars, errVars, logVars, scene, th>>
  /\ UNCHANGED <<jobs, idle_backoff, mirror, now, abandoned, given>>

\* A thread of the blocking pool takes a job.
TakeJob(t) ==
  /\ t \in scene.pool /\ At(t, "idle") /\ todo[t] = << >> /\ run[t] = None /\ jobs # << >>
  /\ todo' = [todo EXCEPT ![t] = <<Head(jobs).call>>]
  /\ run' = [run EXCEPT ![t] = Some([task |-> Head(jobs).task, id |-> Head(jobs).id])]
  /\ jobs' = Tail(jobs)
  /\ UNCHANGED <<nicVars, holder, cacheVars, queueVars, connVars, errVars, logVars, scene, th>>
  /\ UNCHANGED <<task, idle_backoff, mirror, now, abandoned, given>>

\* recv_with_backoff after an empty poll: the threshold is read once, after the
\* first one, and the idle clock starts there.
Pace(k) ==
  LET r == IF task[k].first
           THEN [task[k] EXCEPT !.first = FALSE, !.threshold = threshold(TSock(k)), !.since = now]
           ELSE task[k]
  IN  IF r.threshold # OFF /\ now - r.since >= r.threshold
      THEN [r EXCEPT !.state = "sleeping", !.wake = now + SLEEP_STEP]
      ELSE [r EXCEPT !.state = "ready"]

\* The poll returns: a datagram finishes the future.
PollReturns(k) ==
  LET s == TSock(k)
      got == SubSeq(returned'[s], Len(returned[s]) + 1, Len(returned'[s]))
  IN
  /\ task' = [task EXCEPT ![k] = IF Doing(k, "recv_from") /\ got = << >> THEN Pace(k) ELSE Finished(k)]
  /\ given' = [given EXCEPT ![s] = @ \o got]

\* The blocking call returns: the task that still awaits this one can go on.
JobReturns(k, id) ==
  /\ task' = [task EXCEPT ![k].state = IF @ = "awaiting" /\ Len(task[k].calls) = id THEN "woken" ELSE @]
  /\ UNCHANGED given

\* What the return of the socket call of thread t means for the task it works for.
Returns(t) ==
  IF run[t] = None \/ th'[t].pc # "idle" THEN UNCHANGED asyncVars
  ELSE /\ IF t \in scene.pool THEN JobReturns(run[t][1].task, run[t][1].id)
          ELSE PollReturns(run[t][1].task)
       /\ run' = [run EXCEPT ![t] = None]
       /\ UNCHANGED <<jobs, idle_backoff, mirror, now, abandoned>>

\* The await of connect ends; DpdkUdpSocket then keeps the address.
Connected(k) ==
  /\ task[k].state = "woken"
  /\ mirror' = [mirror EXCEPT ![TSock(k)] =
       IF scene.tasks[k].facade = "DpdkUdpSocket" THEN Some(task[k].call[1].peer) ELSE @]
  /\ task' = [task EXCEPT ![k] = Finished(k)]
  /\ UNCHANGED <<vars, run, jobs, idle_backoff, now, abandoned, given>>

\* A future is dropped at an await.
DropFuture(k) ==
  /\ task[k].state \in {"ready", "sleeping", "awaiting", "woken"} /\ ~Doing(k, "try_recv_from")
  /\ task' = [task EXCEPT ![k] = Finished(k)]
  /\ abandoned' = abandoned \cup (IF Doing(k, "connect") THEN {TSock(k)} ELSE {})
  /\ UNCHANGED <<vars, run, jobs, idle_backoff, mirror, now, given>>

AsyncNext ==
  \/ (Arrive \/ Expire) /\ UNCHANGED asyncVars
  \/ Tick
  \/ \E t \in DOMAIN Threads : \/ Call(t) /\ UNCHANGED asyncVars
                               \/ Step(t) /\ Returns(t)
                               \/ TakeJob(t)
  \/ \E k \in Tasks : \/ set_idle_backoff(k) \/ AsyncConnect(k) \/ StartCall(k)
                      \/ Connected(k) \/ DropFuture(k)
                      \/ \E t \in DOMAIN Threads : Poll(k, t)

AsyncSpec == AsyncInit /\ [][AsyncNext]_allVars

-----------------------------------------------------------------------------
\* Dropping a receive future loses no datagram: what the socket's calls returned
\* to the runtime's workers was handed to a task, whenever the future was dropped
\* (recv_with_backoff has no await between the poll and its return).
CancelLosesNothing ==
  \A s \in DOMAIN Sockets : scene.tasks # << >> /\ (\A t \in DOMAIN Threads : scene.calls[t] = << >>)
    => given[s] = returned[s]

\* A loaded receiver never sleeps: a receive sleeps only when the backoff was on
\* and its call is at least MIN_IDLE_THRESHOLD old, however small the duration
\* that was configured, and it polls the socket once more before each sleep.
SleepersWereIdle ==
  \A k \in Tasks : task[k].state = "sleeping" =>
    /\ task[k].threshold # OFF
    /\ task[k].wake - task[k].began >= MIN_IDLE_THRESHOLD + SLEEP_STEP

\* A connect that succeeded took effect: when its blocking call has returned, and
\* no other task connects the socket and no connect was abandoned, the socket is
\* connected to the address asked for; and DpdkUdpSocket's own copy of the
\* address is never set before the socket is connected.
ConnectTookEffect ==
  \A k \in Tasks :
    LET s == TSock(k) IN
    /\ /\ task[k].state = "woken" /\ s \notin abandoned
       /\ \A j \in Tasks \ {k} : TSock(j) = s => ~Doing(j, "connect")
       => is_connected[s] /\ connected_addr[s] = Some(task[k].call[1].peer)
    /\ mirror[s] # None => is_connected[s]

\* Polling never blocks a runtime: a nonblocking receive can always take its next
\* step, whatever other threads hold, and only a call that was idle long enough sleeps.
PollsNeverWait == NonblockingNeverWaits /\ SleepersWereIdle

\* Every datagram a socket accepted is handed out once or counted as dropped, those
\* of one peer in their order (see PeerInOrder), whichever thread or dropped future
\* received it.
ReceivedOnceInOrder == DatagramsAccounted /\ PeerInOrder /\ CancelLosesNothing

\* What is read without the lock agrees with what is kept under it: the flags of the
\* fast paths, the receive queue's byte count, and the address a connect installed.
CachesHonest ==
  /\ TypeOK /\ FlagsHonest /\ ConnectTookEffect
  /\ \A s \in DOMAIN Sockets :
       queue[s].current_bytes = SumFunction([i \in DOMAIN queue[s].packets |-> queue[s].packets[i].len])
=============================================================================
