----------------------------- MODULE MCStreamIo -----------------------------
(***************************************************************************)
(* StreamIo for TLC: two application threads and the engine.               *)
(***************************************************************************)
EXTENDS StreamIo

AppThreads == {"t1", "t2"}

Scene(start, mode, a, b) == [start |-> start, mode |-> mode, calls |-> [t1 |-> a, t2 |-> b]]

\* Two threads read one stream through &TcpStream, then one of them drops it.
Readers == Scene("connected", "PollOnly", <<TcpStream_ref_read, DpdkTcpStream_drop>>,
                 <<TcpStream_ref_read, DpdkTcpStream_read(TRUE, FALSE)>>)
\* Two threads write, one with a timeout.
Writers == Scene("connected", "Fd", <<TcpStream_ref_write, DpdkTcpStream_write(TRUE, FALSE)>>,
                 <<TcpStream_ref_write, DpdkTcpStream_write(FALSE, TRUE)>>)
\* The blocking halves.
Halves == Scene("connected", "Fd", <<into_split, OwnedReadHalf_read, OwnedReadHalf_drop>>,
                <<OwnedWriteHalf_write, OwnedWriteHalf_write, OwnedWriteHalf_drop>>)
\* The async halves.
Tasks == Scene("connected", "PollOnly", <<into_split, OwnedReadHalf_poll_read, OwnedReadHalf_drop>>,
               <<OwnedWriteHalf_poll_write, OwnedWriteHalf_drop>>)
\* One task that fills the send ring, and reads.
Task == Scene("connected", "Fd",
              <<TcpStream_poll_write, TcpStream_poll_write, TcpStream_poll_read, DpdkTcpStream_drop>>,
              << >>)
\* A client, with a reader that times out.
Client == Scene("connect", "Condvar",
                <<connect, DpdkTcpStream_read(FALSE, TRUE), poll_shutdown("stream"),
                  DpdkTcpStream_read(FALSE, FALSE), DpdkTcpStream_drop>>,
                << >>)
\* A server that resets its connection when it drops it.
Server == Scene("listening", "Fd", <<accept, set_linger("zero"), DpdkTcpStream_drop>>,
                <<set_nodelay, DpdkTcpStream_read(FALSE, FALSE), shutdown("Read")>>)
\* connect_timeout
ImpatientClient == Scene("connect", "PollOnly", <<connect_timeout, DpdkTcpStream_drop>>, << >>)

AllScenes == {Readers, Writers, Halves, Tasks, Task, Client, Server, ImpatientClient}
=============================================================================
