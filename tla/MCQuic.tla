------------------------------- MODULE MCQuic -------------------------------
(***************************************************************************)
(* QuicProvider for TLC: one scene per backend and for the ways start and  *)
(* shutdown can meet.                                                      *)
(***************************************************************************)
EXTENDS QuicProvider

Buffers == {"m1", "m2", "m3"}

Frame(t, ip, port, tos, len) ==
  [t |-> t, id |-> 0, ip |-> ip, port |-> port, tos |-> tos, len |-> len, cut |-> FALSE]

Datagram == Frame("udp", "us", "ours", 2, 1)
ToAlias == Frame("udp", "alias", "ours", 187, 1)
ToOther == Frame("udp", "us", "other", 0, 1)
Jumbo == Frame("udp", "us", "ours", 1, 2)
Ping == Frame("ping", "us", "none", 0, 1)
PingOther == Frame("ping", "alias", "none", 0, 1)

Message(n, ecn) == [segments |-> n, ip |-> "peer", port |-> "other", ecn |-> ecn]
ToSelf(n) == [segments |-> n, ip |-> "us", port |-> "ours", ecn |-> 2]

Config ==
  [v6 |-> FALSE, injected |-> "none", backend_type |-> "Auto", port |-> 443, seed |-> 0,
   counter |-> 0, gateway |-> "none", routes |-> <<[dst |-> "lan", gw |-> "none"], [dst |-> "default", gw |-> "gw"]>>,
   arp |-> <<[ip |-> "gw", mac |-> "stale", complete |-> FALSE], [ip |-> "gw", mac |-> "gwmac", complete |-> TRUE]>>,
   ring |-> [frame_size |-> 2048, frame_count |-> 1]]

Scene(config, tr, ms, ends, stops) ==
  [config |-> config, traffic |-> tr, msgs |-> ms, ends |-> ends, stops |-> stops,
   controls |-> {}]

\* Three buffers for both directions: the pool, and the transmit queue, run out.
Dpdk == Scene(Config, <<Datagram, Ping, ToAlias>>, <<Message(3, 2)>>, FALSE, FALSE)
DpdkStops == Scene(Config, <<Datagram>>, <<Message(2, 0)>>, FALSE, TRUE)
\* Two slots each (one is asked for, a block holds two); both rings wrap.
Ring == Scene([Config EXCEPT !.backend_type = "RawSocketMmap", !.gateway = "mac"],
              <<Datagram, Jumbo, ToAlias>>, <<Message(3, 1)>>, FALSE, FALSE)
RingPing == Scene([Config EXCEPT !.backend_type = "RawSocketMmap",
                                 !.ring = [frame_size |-> 8192, frame_count |-> 2]],
                  <<Ping, ToOther, Datagram>>, <<Message(2, 0)>>, TRUE, FALSE)
Basic == Scene([Config EXCEPT !.backend_type = "RawSocket"],
               <<PingOther, Ping, Datagram, ToAlias>>, <<Message(0, 0), Message(2, 3)>>, TRUE, FALSE)
\* Port 0: the counter is fresh, or about to wrap.
Loopback == Scene([Config EXCEPT !.injected = "loopback", !.port = 0, !.seed = 2, !.arp = << >>],
                  << >>, <<ToSelf(3), Message(1, 1)>>, TRUE, TRUE)
Wrapped == Scene([Config EXCEPT !.injected = "loopback", !.port = 0, !.counter = 7,
                                !.routes = << >>],
                 << >>, <<ToSelf(1)>>, TRUE, TRUE)
\* The application injects what create_backend found.
Fallback == [Scene([Config EXCEPT !.injected = "Auto"], <<Datagram>>, <<Message(1, 1)>>, TRUE, TRUE)
             EXCEPT !.controls = {"allmulticast"}]
Control == [Scene([Config EXCEPT !.injected = "RawSocket"], <<Datagram>>, << >>, TRUE, TRUE)
            EXCEPT !.controls = Modes]
V6 == Scene([Config EXCEPT !.v6 = TRUE], << >>, << >>, FALSE, TRUE)

AllScenes == {Dpdk, DpdkStops, Ring, RingPing, Basic, Loopback, Wrapped, Fallback, Control, V6}
=============================================================================
