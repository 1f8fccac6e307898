---------------------------- MODULE UdpDispatch ----------------------------
(***************************************************************************)
(* What a UDP socket puts on the wire for a send and what it makes of a    *)
(* received frame (dpdk-stdlib-udp/src/lib.rs), as functions of the        *)
(* socket's configuration.  A socket is a record                           *)
(*   [family, mac, ips, port, ttl, mtu, vlan, force_software, gue, vxlan,  *)
(*    geneve, auto_arp, auto_icmp, only_v6, tx_offload, rx_strip]          *)
(* where vlan, gue, vxlan and geneve are options.  A tunnel is             *)
(* [remote_ip, local_port, remote_port, vni, inner_src_mac,                *)
(* inner_dst_mac].                                                         *)
(***************************************************************************)
EXTENDS ControlFrames, TunnelFrames, FiniteSets

LocalIp(s, family) ==
  IF family = s.family THEN CHOOSE ip \in s.ips : Len(ip) = (IF family = "v4" THEN 4 ELSE 16)
  ELSE Zeros(4)

SaturatingSub(a, b) == IF a > b THEN a - b ELSE 0

-----------------------------------------------------------------------------
\* Sending.

max_udp_payload(s) == SaturatingSub(s.mtu, IPV4_HEADER_LEN + UDP_HEADER_LEN)

MaxPayload4(s) ==
  SaturatingSub(max_udp_payload(s),
    CASE s.vxlan # None -> VXLAN_ENCAP_OVERHEAD
      [] s.vxlan = None /\ s.geneve # None -> GENEVE_ENCAP_OVERHEAD
      [] s.vxlan = None /\ s.geneve = None /\ s.gue # None -> GUE_ENCAP_OVERHEAD
      [] OTHER -> 0)

has_hw_vlan_insert(s) == "vlan" \in s.tx_offload

Outgoing(frame, tci) == Some([frame |-> frame, tci |-> tci])

\* The frame, and the tag left to the NIC; None when the send is refused.
\* dst_mac is what neighbour resolution found for the next hop.
send_to_v4(s, dst_ip, dst_port, dst_mac, buf) ==
  LET inner == [src_mac |-> s.mac, dst_mac |-> dst_mac, src_ip |-> LocalIp(s, "v4"),
                dst_ip |-> dst_ip, src_port |-> s.port, dst_port |-> dst_port,
                payload |-> buf, ttl |-> s.ttl]
      tunnel == IF s.vxlan # None THEN s.vxlan ELSE IF s.geneve # None THEN s.geneve ELSE s.gue
      t == tunnel[1]
      outer == [inner EXCEPT !.dst_ip = t.remote_ip, !.src_port = t.local_port,
                             !.dst_port = t.remote_port]
      framed == [inner EXCEPT !.src_mac = t.inner_src_mac, !.dst_mac = t.inner_dst_mac]
      header == [version |-> 0, options_len |-> 0, oam |-> FALSE, critical |-> FALSE,
                 protocol_type |-> GENEVE_INNER_ETYPE_ETH, vni |-> t.vni, options |-> << >>]
      should_tag == s.vlan # None /\ tags_on_tx(s.vlan[1])
      use_hw == has_hw_vlan_insert(s) /\ ~s.force_software
      built == IF should_tag /\ ~use_hw THEN build_udp_frame_into_vlan(inner, s.vlan[1])
               ELSE build_udp_frame_into(inner)
  IN  IF Len(buf) > MaxPayload4(s) THEN None
      ELSE IF s.vxlan # None THEN Outgoing(build_vxlan_frame_into(outer, t.vni, framed), None)
      ELSE IF s.geneve # None THEN Outgoing(build_geneve_frame_into(outer, header, framed), None)
      ELSE IF s.gue # None THEN Outgoing(build_gue_frame_into(outer, inner), None)
      ELSE IF built = None THEN None
      ELSE Outgoing(built[1], IF should_tag /\ use_hw THEN Some(encode_tci(s.vlan[1])) ELSE None)

send_to_v6(s, dst_ip, dst_port, dst_mac, buf) ==
  LET p == [src_mac |-> s.mac, dst_mac |-> dst_mac, src_ip |-> LocalIp(s, "v6"),
            dst_ip |-> dst_ip, src_port |-> s.port, dst_port |-> dst_port,
            payload |-> buf, ttl |-> s.ttl]
      built == build_udp6_frame_into(p)
  IN  IF \/ s.family = "v4"
         \/ Len(buf) > SaturatingSub(s.mtu, IPV6_HEADER_LEN + UDP_HEADER_LEN)
         \/ built = None
      THEN None
      ELSE Outgoing(built[1], None)

\* The mbuf handed to the port: data with the checksum fields prepared for
\* the offloads the port has active, and the offload flags.
send_frame_mode(s, frame, tci) ==
  LET udp_off == ETH_HEADER_LEN + IPV4_HEADER_LEN
      udp6_off == ETH_HEADER_LEN + IPV6_HEADER_LEN
      v4 == Be16(frame, 12) = ETH_TYPE_IPV4 /\ Len(frame) >= TOTAL_HEADER_LEN
      v6 == Be16(frame, 12) = ETH_TYPE_IPV6 /\ Len(frame) >= TOTAL_HEADER_LEN_V6
      ip_cksum == v4 /\ "ip" \in s.tx_offload
      udp_cksum == v4 /\ "udp" \in s.tx_offload
      udp6_cksum == v6 /\ "udp" \in s.tx_offload
      zeroed == IF ip_cksum THEN Put16(frame, ETH_HEADER_LEN + 10, 0) ELSE frame
      data == IF udp_cksum
              THEN Put16(zeroed, udp_off + 6,
                     udp_pseudo_header_checksum(Slice(frame, ETH_HEADER_LEN + 12, 4),
                       Slice(frame, ETH_HEADER_LEN + 16, 4), Be16(frame, udp_off + 4)))
              ELSE IF udp6_cksum
              THEN Put16(frame, udp6_off + 6,
                     udp6_pseudo_header_checksum(Slice(frame, ETH_HEADER_LEN + 8, 16),
                       Slice(frame, ETH_HEADER_LEN + 24, 16), Be16(frame, udp6_off + 4)))
              ELSE zeroed
  IN  [data |-> data, ip_cksum |-> ip_cksum, udp_cksum |-> udp_cksum \/ udp6_cksum,
       l3_len |-> IF ip_cksum \/ udp_cksum THEN IPV4_HEADER_LEN
                  ELSE IF udp6_cksum THEN IPV6_HEADER_LEN ELSE 0,
       tci |-> IF tci # None /\ "vlan" \in s.tx_offload THEN tci ELSE None]

-----------------------------------------------------------------------------
\* The NIC (not part of this repository): completes the checksums the flags
\* ask for, inserts the tag, pads to 60 octets; strips the tag on reception.

NicTransmit(m) ==
  LET l4 == ETH_HEADER_LEN + m.l3_len
      ip == IF m.ip_cksum
            THEN Put16(m.data, ETH_HEADER_LEN + 10,
                       ipv4_checksum(Slice(m.data, ETH_HEADER_LEN, m.l3_len)))
            ELSE m.data
      l4sum == FoldSum(WordSum(From(ip, l4), 0, 2))
      udp == IF m.udp_cksum THEN Put16(ip, l4 + 6, NonZero(65535 - l4sum)) ELSE ip
  IN  IF m.tci = None THEN udp
      ELSE Slice(udp, 0, 12) \o U16(ETH_TYPE_VLAN) \o U16(m.tci[1]) \o From(udp, 12)

Pad(f) == IF Len(f) < 60 THEN f \o Zeros(60 - Len(f)) ELSE f

NicReceive(s, f) ==
  IF s.rx_strip /\ Be16(f, 12) = ETH_TYPE_VLAN /\ Len(f) >= 18
  THEN [frame |-> Slice(f, 0, 12) \o From(f, 16), tci |-> Some(Be16(f, 14))]
  ELSE [frame |-> f, tci |-> None]

-----------------------------------------------------------------------------
\* Receiving.

Effect(learns, reply, error, datagram) ==
  [learns |-> learns, reply |-> reply, error |-> error, datagram |-> datagram]
Dropped == Effect({}, None, None, None)
Deliver(learns, p) ==
  Effect(learns, None, None,
         Some([src_ip |-> p.src_ip, src_port |-> p.src_port, payload |-> p.payload]))
Host(s) == [mac |-> s.mac, ips |-> s.ips]

\* Mutant: no port.
ErrorPortNone(s) == 0
\* The port ICMP errors are matched against.
ErrorPort4(s) == IF s.family = "v4" THEN s.port ELSE 0

\* The first configured tunnel that decapsulates the frame.
Decap(s, f, l3) ==
  LET gue == IF s.gue = None THEN None ELSE try_decap_gue(f, l3, s.gue[1].local_port)
      vxlan == IF s.vxlan = None THEN None
               ELSE try_decap_vxlan(f, l3, s.vxlan[1].local_port, Some(s.vxlan[1].vni))
      geneve == IF s.geneve = None THEN None
                ELSE try_decap_geneve(f, l3, s.geneve[1].local_port, Some(s.geneve[1].vni))
  IN  IF gue # None THEN gue ELSE IF vxlan # None THEN vxlan ELSE geneve

HandleIcmp(s, action, port, v6) ==
  LET io_error(type, code) == IF v6 THEN icmpv6_io_error(type, code) ELSE icmp_io_error(type, code)
  IN  Effect({}, IF s.auto_icmp THEN action.reply ELSE None,
             IF action.error # None /\ action.error[1].original_src_port = port
             THEN Some(io_error(action.error[1].type, action.error[1].code)) ELSE None,
             None)

\* One frame, with the tag hw the NIC stripped from it.
process_frame_zerocopy(s, f, hw) ==
  LET found == detect_vlan(f, hw)
      layout == found[1]
      l3 == layout.l3
      v4 == layout.ethertype = ETH_TYPE_IPV4
      v6 == layout.ethertype = ETH_TYPE_IPV6
      arp == process_arp(Host(s), f)
      ndp == process_ndp(Host(s), f)
      nh == walk_extension_headers(From(f, l3))
      inner == Decap(s, f, l3)
      udp == parse_udp_packet_ref(f)
      udp6 == parse_udp6_packet_ref(f)
      learnt(p) == {<<p.src_ip, p.src_mac>>}
  IN  IF found = None THEN Dropped
      ELSE IF s.vlan # None /\ ~accepts_frame(s.vlan[1], VlanId(layout)) THEN Dropped
      ELSE IF layout.ethertype = ETH_TYPE_ARP /\ s.auto_arp
        THEN Effect(arp.learns, arp.reply, None, None)
      ELSE IF v4 /\ Len(f) > l3 + 9 /\ Octet(f, l3 + 9) = IP_PROTO_ICMP
        THEN HandleIcmp(s, process_icmp_full(Host(s), f), ErrorPort4(s), FALSE)
      ELSE IF /\ v6 /\ s.auto_arp
              /\ Len(f) > ETH_HEADER_LEN + IPV6_HEADER_LEN
              /\ Octet(f, ETH_HEADER_LEN + 6) = IP_PROTO_ICMPV6
              /\ Octet(f, ETH_HEADER_LEN + IPV6_HEADER_LEN)
                   \in {NEIGHBOR_SOLICITATION, NEIGHBOR_ADVERTISEMENT}
        THEN Effect(ndp.learns, ndp.reply, None, None)
      ELSE IF v6 /\ Len(f) > l3 + IPV6_HEADER_LEN /\ nh # None
              /\ nh[1].protocol = IP_PROTO_ICMPV6
        THEN HandleIcmp(s, process_icmpv6_full(Host(s), f), s.port, TRUE)
      ELSE IF v4 /\ inner # None
        THEN IF inner[1].dst_port = s.port THEN Deliver({}, inner[1]) ELSE Dropped
      ELSE IF ~s.only_v6 /\ udp # None
        THEN IF ~verify_ipv4_checksum(f) \/ ~verify_udp_checksum(f) THEN Dropped
             ELSE IF udp[1].dst_port # s.port THEN [Dropped EXCEPT !.learns = learnt(udp[1])]
             ELSE Deliver(learnt(udp[1]), udp[1])
      ELSE IF udp6 # None
        THEN IF ~verify_udp6_checksum(f) THEN Dropped
             ELSE IF udp6[1].dst_port # s.port THEN [Dropped EXCEPT !.learns = learnt(udp6[1])]
             ELSE Deliver(learnt(udp6[1]), udp6[1])
      ELSE Dropped

=============================================================================
