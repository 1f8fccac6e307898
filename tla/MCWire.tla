------------------------------- MODULE MCWire -------------------------------
(***************************************************************************)
(* Instances of Wire: pairs of sockets for every encapsulation, VLAN mode  *)
(* and set of offloads, and payloads at the limits of each.                *)
(***************************************************************************)
EXTENDS Wire

Addr4A == <<10, 0, 0, 1>>
Addr4B == <<10, 0, 0, 2>>
MacA == <<2, 0, 0, 0, 0, 10>>
MacB == <<2, 0, 0, 0, 0, 11>>
Ip6A == <<253, 0>> \o Zeros(13) \o <<1>>
Ip6B == <<253, 0>> \o Zeros(10) \o <<9, 8, 7, 6>>

Plain(mac, ip, port) ==
  [family |-> IF Len(ip) = 4 THEN "v4" ELSE "v6", mac |-> mac, ips |-> {ip}, port |-> port,
   ttl |-> 64, mtu |-> 100, vlan |-> None, force_software |-> FALSE,
   gue |-> None, vxlan |-> None, geneve |-> None,
   auto_arp |-> TRUE, auto_icmp |-> TRUE, only_v6 |-> FALSE,
   tx_offload |-> {}, rx_strip |-> FALSE]

A4 == Plain(MacA, Ip4A, 40000)
B4 == Plain(MacB, Ip4B, 9000)
A6 == Plain(MacA, Ip6A, 40000)
B6 == Plain(MacB, Ip6B, 9000)

Offloading(s) == [s EXCEPT !.tx_offload = {"ip", "udp", "vlan"}, !.rx_strip = TRUE]
InVlan(s, mode, vid) ==
  [s EXCEPT !.vlan = Some([vlan_id |-> vid, priority |-> 5, dei |-> TRUE, mode |-> mode,
                           allowed |-> {vid}, native |-> None])]
Native(s) == [s EXCEPT !.vlan = Some([s.vlan[1] EXCEPT !.native = Some(s.vlan[1].vlan_id)])]

Tunnel(remote, port, vni) ==
  Some([remote_ip |-> remote, local_port |-> port, remote_port |-> port, vni |-> vni,
        inner_src_mac |-> <<2, 0, 0, 0, 1, 1>>, inner_dst_mac |-> <<2, 0, 0, 0, 1, 2>>])
Gue(s, remote) == [s EXCEPT !.gue = Tunnel(remote, 6080, 0)]
Vxlan(s, remote, vni) == [s EXCEPT !.vxlan = Tunnel(remote, 4789, vni)]
Geneve(s, remote, vni) == [s EXCEPT !.geneve = Tunnel(remote, 6081, vni)]

Pair(x, y) == [a |-> x, b |-> y]
Tags == {"access", "trunk", "port_tagging"}

PlainLinks == {Pair(A4, B4), Pair(Offloading(A4), Offloading(B4)),
               Pair(A6, B6), Pair(Offloading(A6), B6), Pair(A4, B6)}
VlanLinks ==
  {Pair(InVlan(A4, "port_tagging", 100), InVlan(B4, mode, vid)) :
     mode \in Tags, vid \in {100, 101}}
  \cup {Pair(Offloading(InVlan(A4, "trunk", 100)), Offloading(InVlan(B4, mode, 100))) :
          mode \in Tags}
  \cup {Pair(InVlan(A4, "access", 100), InVlan(B4, "trunk", 100)),
        Pair(InVlan(A4, "access", 100), Native(InVlan(B4, "trunk", 100)))}
TunnelLinks ==
  {Pair(Gue(A4, Ip4B), Gue(B4, Ip4A)), Pair(Vxlan(A4, Ip4B, 70000), Vxlan(B4, Ip4A, 70000)),
   Pair(Geneve(A4, Ip4B, 70000), Geneve(B4, Ip4A, 70000)),
   Pair(Vxlan(A4, Ip4B, 70000), Vxlan(B4, Ip4A, 70001)),
   Pair(Offloading(Vxlan(A4, Ip4B, 3)), Vxlan(Gue(B4, Ip4A), Ip4A, 3)),
   Pair(Gue(A4, Ip4B), B4)}
AllLinks == PlainLinks \cup VlanLinks \cup TunnelLinks
OffloadLinks == {Pair(A4, Offloading(B4))}

Ramp(n) == [i \in 1 .. n |-> (37 * i + 200) % 256]
\* The payload of a datagram from A4 to B4 whose checksum computes to zero.
ZeroSum == U16(udp_checksum(Ip4A, Ip4B, write_udp_header(40000, 9000, 10), <<0, 0>>))
Lengths == {0, 1, 18, 19, 22, 23, 32, 40, 41, 52, 53, 72, 73}
AllPayloads == {Ramp(n) : n \in Lengths} \cup {ZeroSum, [i \in 1 .. 20 |-> 255]}
NoisyPayloads == {Ramp(0), Ramp(19), ZeroSum}
NoPayloads == {}
Pings == {Ramp(18)}

Opt == [mss |-> Some(1400), window_scale |-> Some(3), sack_permitted |-> TRUE,
        timestamps |-> Some(<<<<0, 1, 2, 3>>, <<255, 254, 253, 252>>>>),
        sack_blocks |-> <<<<Zeros(4), <<0, 0, 5, 220>>>>>>]
Seg(flags, options) ==
  [src_port |-> 40000, dst_port |-> 80, seq |-> <<255, 255, 255, 254>>, ack |-> <<0, 0, 1, 0>>,
   flags |-> flags, window |-> 65535, options |-> options]
AllSegments ==
  {Seg(SYN, NoOptions), Seg(SYN + ACK, [Opt EXCEPT !.sack_blocks = << >>]),
   Seg(ACK, NoOptions), Seg(ACK + PSH, [NoOptions EXCEPT !.window_scale = Some(2)]),
   Seg(FIN + ACK, [NoOptions EXCEPT !.timestamps = Opt.timestamps,
                                    !.sack_blocks = Opt.sack_blocks]),
   Seg(RST, [NoOptions EXCEPT !.sack_permitted = TRUE, !.mss = Some(536)])}
NoSegments == {}

AllBounces == {[v4 |-> <<3, 3>>, v6 |-> <<1, 4>>], [v4 |-> <<11, 0>>, v6 |-> <<3, 0>>],
               [v4 |-> <<3, 4>>, v6 |-> <<2, 0>>], [v4 |-> <<3, 13>>, v6 |-> <<1, 1>>],
               [v4 |-> <<12, 0>>, v6 |-> <<4, 1>>]}
AllCrafts == {"mbuf", "vec", "gue", "vxlan", "geneve"}
NoCrafts == {}
TwoOptions ==
  [version |-> 0, options_len |-> 12, oam |-> FALSE, critical |-> TRUE,
   protocol_type |-> GENEVE_INNER_ETYPE_ETH, vni |-> 70000,
   options |-> <<[class |-> 259, type |-> 129, data |-> << >>],
                 [class |-> 1, type |-> 2, data |-> <<9, 8, 7, 6>>]>>]
NoBounces == {}
EveryBit == {1, 2, 4, 8, 16, 32, 64, 128}

=============================================================================
