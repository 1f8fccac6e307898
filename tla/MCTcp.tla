------------------------------- MODULE MCTcp -------------------------------
(***************************************************************************)
(* Scenes for TcpEngine.                                                   *)
(***************************************************************************)
EXTENDS TcpEngine

CONSTANTS c1, c2

\* Initial sequence numbers in the lower half of the space, and at its end.
HighIss == [h \in Hosts |-> IF h = "client" THEN SeqMod - 1 ELSE SeqMod - 2]
LowIss == [h \in Hosts |-> IF h = "client" THEN 1 ELSE 6]

Client(x, y) == [h \in Hosts |-> IF h = "client" THEN x ELSE y]

\* The client sends, and closes when it likes; the server closes when it has
\* read EOF.
Sending(bytes, len) ==
  [Conns |-> {c1}, Iss |-> LowIss, MaxRetries |-> 1, MaxTcbs |-> 1,
   AppOps |-> Client({"close"}, {"close_at_eof"}), MaxBytes |-> Client(bytes, 0),
   WriteLen |-> len, ReadLen |-> 4, MaxAccepts |-> 1,
   Expiring |-> {"rto", "delayed_ack", "time_wait"}, FaultKinds |-> {}, MaxFaults |-> 0, MaxProbes |-> 0]

Transfer == [Sending(5, 3) EXCEPT !.FaultKinds = {"lose", "duplicate", "delay"}, !.MaxFaults = 2]

\* Both ends send, and nobody closes; one end turns Nagle off, or both change
\* an option.
Echo == [Sending(3, 3) EXCEPT
  !.AppOps = Client({"nodelay"}, {}), !.MaxBytes = Client(3, 1),
  !.Expiring = {"rto", "delayed_ack"}, !.FaultKinds = {"lose"}, !.MaxFaults = 1]
Resize == [Echo EXCEPT !.AppOps = Client({"nodelay"}, {"recv_buf_size"}), !.MaxBytes = Client(2, 2)]

\* Every way to end a connection, of either end.
Teardown == [Sending(0, 1) EXCEPT
  !.Iss = HighIss, !.MaxAccepts = 2, !.Expiring = {"time_wait", "fin_wait2", "keepalive"},
  !.AppOps = Client({"close", "close_linger0", "shutdown_write", "keepalive"},
                    {"close", "close_linger0", "shutdown_write", "shutdown_read"}),
  !.FaultKinds = {"lose", "duplicate", "delay"}, !.MaxFaults = 2]

\* Two connections race for the listener.
Race == [Sending(0, 1) EXCEPT
  !.Conns = {c1, c2}, !.Iss = HighIss, !.MaxTcbs = 2, !.MaxAccepts = 2,
  !.AppOps = Client({"close", "close_linger0"}, {"close", "close_linger0"}),
  !.Expiring = {"time_wait", "fin_wait2"}, !.FaultKinds = {"lose", "duplicate", "switched"}, !.MaxFaults = 1]

\* The window closes, and the persist timer runs out.
Probing == [Sending(5, 3) EXCEPT !.Expiring = {"persist", "delayed_ack", "time_wait"}, !.MaxProbes = 1]

TransferScenes == {Transfer, Echo, Resize}
TeardownScenes == {Teardown, Race, Probing}

\* Bytes written one at a time on a network without faults, and a network that
\* loses two segments.
Quiet == [Sending(6, 1) EXCEPT !.Expiring = {"delayed_ack", "time_wait"}]
Lossy == [Sending(5, 3) EXCEPT !.MaxRetries = 2, !.FaultKinds = {"lose"}, !.MaxFaults = 2]
LiveScenes == {Quiet, Lossy}

\* The client half-closes, and the server goes on writing.
HalfClose == {[Sending(2, 1) EXCEPT
  !.AppOps = Client({"shutdown_write"}, {}), !.MaxBytes = Client(2, 2), !.Expiring = {"rto", "delayed_ack"}]}
=============================================================================
