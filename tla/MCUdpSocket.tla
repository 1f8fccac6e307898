---------------------------- MODULE MCUdpSocket ----------------------------
(***************************************************************************)
(* Two UDP sockets on one port for TLC: "a", an IPv4 socket that one       *)
(* thread receives on and another sends with, and "b", an IPv6 socket      *)
(* polled by an event loop; and the tasks of an asynchronous runtime.       *)
(***************************************************************************)
EXTENDS AsyncUdp, TLC

HereIp == <<10, 0, 0, 1>>
PeerIp == <<10, 0, 0, 2>>
GatewayIp == <<10, 0, 0, 9>>
NearIp == <<10, 0, 0, 3>>
FarIp == <<10, 1, 0, 2>>
Here == <<0, U32(HereIp)>>
Peer == <<0, U32(PeerIp)>>
Gateway == <<0, U32(GatewayIp)>>
Here6 == <<1, 1>>
Peer6 == <<1, 2>>
Far == <<0, U32(FarIp)>>
AllAddresses == {Here, Peer, <<0, U32(NearIp)>>, Gateway, Far, Here6, Peer6}
AllMacs == {1, 2, 3}

TwoSockets == [a |-> [family |-> "v4", ip |-> Here, port |-> 1],
               b |-> [family |-> "v6", ip |-> Here6, port |-> 2]]
FourThreads == <<"a", "a", "b", "a">>

Datagram(ip, mac, port, len) ==
  [id |-> 0, kind |-> "udp", family |-> IF ip[1] = 0 THEN "v4" ELSE "v6", ip |-> ip, mac |-> mac,
   port |-> port, len |-> len, good |-> TRUE, target |-> ip]
Control(kind, ip, mac, target) ==
  [Datagram(ip, mac, 0, 0) EXCEPT !.kind = kind, !.target = target]
ErrorAbout(ip, mac, port) == [Datagram(ip, mac, port, 0) EXCEPT !.kind = "error"]

recv == [op |-> "recv", timeout |-> TRUE]
nb == [op |-> "nb"]
try == [op |-> "try"]
send(ip, blocking) == [op |-> "send", family |-> IF Len(ip) = 4 THEN "v4" ELSE "v6", dst |-> ip,
                       blocking |-> blocking]
connect_to(ip) == [op |-> "connect", peer |-> ip]
takeError == [op |-> "take_error"]
setBuffer(n) == [op |-> "set_recv_buffer_size", bytes |-> n]

addEntry(ip, mac) == [op |-> "add_arp_entry", ip |-> ip, mac |-> mac]
removeEntry(ip) == [op |-> "remove", ip |-> ip]
purge == [op |-> "purge_expired"]

\* The kernel's tables: the subnet and a default gateway, a line for another
\* subnet and one that does not parse; two neighbours, and lines that are skipped,
\* of another device or incomplete.
Route(iface, destination, gateway, mask, mtu_) ==
  [columns |-> 11, iface |-> iface, destination |-> <<destination>>, gateway |-> <<gateway>>,
   mask |-> mask, mtu |-> mtu_]
Neighbour(ip, flags, mac, device) ==
  [columns |-> 6, ip |-> <<ip>>, flags |-> flags, mac |-> <<mac>>, device |-> device]
Header == [columns |-> 0]
Kernel ==
  [route |-> <<Header,
               Route("eth0", <<0, 0, 0, 10>>, UNSPECIFIED, << <<0, 255, 255, 255>> >>, << >>),
               Route("eth0", <<0, 0, 0, 10>>, UNSPECIFIED, << >>, <<9000>>),
               Route("eth1", <<0, 0, 0, 10>>, UNSPECIFIED, << <<0, 0, 0, 255>> >>, <<1300>>),
               Route("eth0", UNSPECIFIED, le_hex_to_ipv4(PeerIp), << UNSPECIFIED >>, <<1400>>)>>,
   arp |-> <<Header,
             Neighbour(PeerIp, 2, 2, "eth0"), Neighbour(NearIp, 2, 3, "eth0"), Neighbour(FarIp, 0, 1, "eth1"), Neighbour(HereIp, 2, 1, "eth1")>>,
   sysfs_mtu |-> 1500]
NoKernel == [route |-> <<Header>>, arp |-> <<Header>>, sysfs_mtu |-> 0]
Known == [local_ip |-> HereIp, kernel |-> Kernel]
Unknown == [local_ip |-> HereIp, kernel |-> NoKernel]

\* The table bind builds, with two static routes to the far net, the longer of
\* them through the gateway.
Routed == <<[BindTable(HereIp, Kernel, 1500)[1] EXCEPT
  !.static_routes = <<[network |-> <<10, 1, 0, 0>>, prefix_len |-> 16, gateway |-> GatewayIp],
                      [network |-> <<10, 0, 0, 0>>, prefix_len |-> 8, gateway |-> PeerIp]>>]>>

\* Two threads receive on a socket that a third one connects and drains errors of.
Receiving ==
  Unknown @@
  [table |-> << >>, tasks |-> << >>, workers |-> {}, pool |-> {}, clock |-> 0, expiring |-> {},
   calls |-> << <<recv, nb>>, <<connect_to(Peer), takeError, setBuffer(1), recv>>, <<try>>, << >> >>,
   frames |-> {Datagram(Peer, 2, 1, 1), Datagram(Gateway, 3, 1, 2), ErrorAbout(Gateway, 3, 1)}]

\* A send resolves its next hop while the others receive.
Resolution ==
  Known @@
  [table |-> Routed, tasks |-> << >>, workers |-> {}, pool |-> {}, clock |-> 0, expiring |-> {Gateway},
   calls |-> << <<recv, recv>>, <<send(FarIp, TRUE)>>, <<nb>>, << >> >>,
   frames |-> {Datagram(Peer, 2, 1, 1), Datagram(Gateway, 3, 2, 1), Control("tell", Gateway, 3, Here)}]

\* Sends and automatic replies meet at the transmit queue.
Transmission ==
  Known @@
  [table |-> BindTable(HereIp, Kernel, 1500), tasks |-> << >>, workers |-> {}, pool |-> {}, clock |-> 0, expiring |-> {},
   calls |-> << <<recv, send(BROADCAST, FALSE)>>, <<connect_to(Peer), send(PeerIp, FALSE)>>, <<nb, send(Peer6, FALSE), nb>>, << >> >>,
   frames |-> {Control("ask", Peer, 2, Here), Control("ask", Peer6, 2, Here6), Datagram(Peer6, 3, 2, 1)}]

\* The application edits the ARP cache while entries expire.
Editing ==
  Unknown @@
  [table |-> << >>, tasks |-> << >>, workers |-> {}, pool |-> {}, clock |-> 0, expiring |-> {Peer},
   calls |-> << <<addEntry(Peer, 2), removeEntry(Peer)>>, <<send(PeerIp, TRUE)>>, <<addEntry(Gateway, 3), purge>>, << >> >>,
   frames |-> {Datagram(Peer, 2, 1, 1)}]

recvFrom == [op |-> "recv_from"]
tryRecvFrom == [op |-> "try_recv_from"]
setIdle(d) == [op |-> "set_idle_backoff", idle |-> d]
ByTasks(tasks) == Unknown @@ [table |-> << >>, expiring |-> {}, calls |-> << << >>, << >>, << >>, << >> >>,
                   tasks |-> tasks]

\* Two tasks receive, the first one with the backoff on, and can be dropped.
AsyncReceiving ==
  ByTasks(<<[sock |-> "a", facade |-> "compat", calls |-> <<setIdle(1), recvFrom>>],
            [sock |-> "a", facade |-> "compat", calls |-> <<recvFrom, tryRecvFrom>>]>>)
  @@ [workers |-> {1, 2}, pool |-> {}, clock |-> 3, frames |-> {Datagram(Peer, 2, 1, 1)}]

\* A task connects twice and then sends, while frames arrive for another one.
AsyncConnecting ==
  ByTasks(<<[sock |-> "a", facade |-> "DpdkUdpSocket",
             calls |-> <<connect_to(Peer), connect_to(Gateway), send(BROADCAST, TRUE)>>]>>)
  @@ [workers |-> {1}, pool |-> {2, 4}, clock |-> 0, frames |-> {Datagram(Peer, 2, 1, 1)}]

AllScenes == {Receiving, Resolution, Transmission, Editing, AsyncReceiving, AsyncConnecting}
=============================================================================
