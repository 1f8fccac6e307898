---------------------------- MODULE TunnelFrames ----------------------------
(***************************************************************************)
(* The GUE, VXLAN and GENEVE tunnel endpoints (gue.rs, vxlan.rs,           *)
(* geneve.rs).  An encapsulation takes the outer addressing (a datagram    *)
(* record without payload) and the inner datagram; a decapsulation returns *)
(* None or the inner datagram with the outer source and the header.        *)
(***************************************************************************)
EXTENDS UdpFrames

GUE_HEADER_LEN == 4
VXLAN_HEADER_LEN == 8
GENEVE_BASE_HEADER_LEN == 8
GUE_PROTO_IPV4 == 4
GENEVE_INNER_ETYPE_ETH == 25944
INNER_TTL == 64

\* Octets a tunnel adds to the inner payload, per outer address family.
GUE_ENCAP_OVERHEAD == IPV4_HEADER_LEN + UDP_HEADER_LEN + GUE_HEADER_LEN
GUE_ENCAP_OVERHEAD_V6 == IPV6_HEADER_LEN + UDP_HEADER_LEN + GUE_HEADER_LEN
VXLAN_ENCAP_OVERHEAD == IPV4_HEADER_LEN + UDP_HEADER_LEN + VXLAN_HEADER_LEN + ETH_HEADER_LEN
VXLAN_ENCAP_OVERHEAD_V6 == IPV6_HEADER_LEN + UDP_HEADER_LEN + VXLAN_HEADER_LEN + ETH_HEADER_LEN
GENEVE_ENCAP_OVERHEAD ==
  IPV4_HEADER_LEN + UDP_HEADER_LEN + GENEVE_BASE_HEADER_LEN + ETH_HEADER_LEN
GENEVE_ENCAP_OVERHEAD_V6 ==
  IPV6_HEADER_LEN + UDP_HEADER_LEN + GENEVE_BASE_HEADER_LEN + ETH_HEADER_LEN

-----------------------------------------------------------------------------
\* Tunnel headers.

gue_encode(h) ==
  <<h.version * 64 + (IF h.c_flag THEN 32 ELSE 0) + (h.hlen % 32), h.proto>> \o U16(h.flags)

gue_parse(data) ==
  LET b == Octet(data, 0)
      h == [version |-> b \div 64, c_flag |-> (b \div 32) % 2 = 1, hlen |-> b % 32,
            proto |-> Octet(data, 1), flags |-> Be16(data, 2)]
  IN  IF \/ Len(data) < GUE_HEADER_LEN
         \/ h.version # 0
         \/ Len(data) < GUE_HEADER_LEN + h.hlen * 4
      THEN None
      ELSE Some(h)

vxlan_encode(vni) == <<8, 0, 0, 0>> \o U24(vni) \o <<0>>

vxlan_parse(data) ==
  IF \/ Len(data) < VXLAN_HEADER_LEN
     \/ (Octet(data, 0) \div 8) % 2 = 0
  THEN None
  ELSE Some([vni |-> Be24(data, 4)])

\* A GENEVE option is [class, type, data]; data is a multiple of 4 octets.
GeneveOption(o) == U16(o.class) \o <<o.type, (Len(o.data) \div 4) % 32>> \o o.data
GeneveOptions(h) ==
  LET enc[i \in 0 .. Len(h.options)] ==
        IF i = 0 THEN << >> ELSE enc[i - 1] \o GeneveOption(h.options[i])
  IN  enc[Len(h.options)]
header_len(h) == GENEVE_BASE_HEADER_LEN + h.options_len

geneve_encode(h) ==
  <<(h.version % 4) * 64 + ((h.options_len \div 4) % 64),
    (IF h.oam THEN 128 ELSE 0) + (IF h.critical THEN 64 ELSE 0)>>
    \o U16(h.protocol_type) \o U24(h.vni) \o <<0>> \o GeneveOptions(h)

\* The options between offsets o and end: None when one overruns.
RECURSIVE GeneveTlvs(_, _, _, _)
GeneveTlvs(data, o, end, acc) ==
  LET n == (Octet(data, o + 3) % 32) * 4
  IN  IF o + 4 > end THEN Some(acc)
      ELSE IF o + 4 + n > end THEN None
      ELSE GeneveTlvs(data, o + 4 + n, end,
                      Append(acc, [class |-> Be16(data, o), type |-> Octet(data, o + 2),
                                   data |-> Slice(data, o + 4, n)]))

geneve_parse(data) ==
  LET options_len == (Octet(data, 0) % 64) * 4
      total == GENEVE_BASE_HEADER_LEN + options_len
      options == GeneveTlvs(data, GENEVE_BASE_HEADER_LEN, total, << >>)
  IN  IF \/ Len(data) < GENEVE_BASE_HEADER_LEN
         \/ Octet(data, 0) \div 64 # 0
         \/ Len(data) < total
         \/ Be16(data, 2) # GENEVE_INNER_ETYPE_ETH
         \/ options = None
      THEN None
      ELSE Some([version |-> 0, options_len |-> options_len,
                 oam |-> Octet(data, 1) \div 128 = 1,
                 critical |-> (Octet(data, 1) \div 64) % 2 = 1,
                 protocol_type |-> GENEVE_INNER_ETYPE_ETH, vni |-> Be24(data, 4),
                 options |-> options[1]])

-----------------------------------------------------------------------------
\* Encapsulation.

InnerPacket(p) ==
  Ipv4Packet(p.src_ip, p.dst_ip, p.src_port, p.dst_port, p.payload, INNER_TTL, 0)
InnerFrame(p) == Ethernet(p, ETH_TYPE_IPV4) \o InnerPacket(p)

Outer4(o, body) == Ethernet(o, ETH_TYPE_IPV4)
                     \o Ipv4Packet(o.src_ip, o.dst_ip, o.src_port, o.dst_port, body, o.ttl, 0)
Outer6(o, body) == Ethernet(o, ETH_TYPE_IPV6)
                     \o write_ipv6_header(o.src_ip, o.dst_ip, UDP_HEADER_LEN + Len(body),
                                          IP_PROTO_UDP, o.ttl)
                     \o UdpSegment6(o.src_ip, o.dst_ip, o.src_port, o.dst_port, body)

GueData == [version |-> 0, c_flag |-> FALSE, hlen |-> 0, proto |-> GUE_PROTO_IPV4, flags |-> 0]

build_gue_frame_into(o, p) == Outer4(o, gue_encode(GueData) \o InnerPacket(p))
build_gue_frame_into_v6(o, p) == Outer6(o, gue_encode(GueData) \o InnerPacket(p))
build_vxlan_frame_into(o, vni, p) == Outer4(o, vxlan_encode(vni) \o InnerFrame(p))
build_vxlan_frame_into_v6(o, vni, p) == Outer6(o, vxlan_encode(vni) \o InnerFrame(p))
build_geneve_frame_into(o, h, p) == Outer4(o, geneve_encode(h) \o InnerFrame(p))
build_geneve_frame_into_v6(o, h, p) == Outer6(o, geneve_encode(h) \o InnerFrame(p))

-----------------------------------------------------------------------------
\* Decapsulation: l3 is the offset of the outer IP header.

\* Where the tunnel header starts behind an outer UDP/IPv4 (or IPv6) header
\* addressed to `port`, and the outer source address; or None.
TunnelAt4(f, l3, port) ==
  LET udp == l3 + LowNibble(Octet(f, l3)) * 4
  IN  IF \/ Len(f) < l3 + IPV4_HEADER_LEN
         \/ Octet(f, l3 + 9) # IP_PROTO_UDP
         \/ udp < l3 + 20
         \/ Len(f) < udp + UDP_HEADER_LEN
         \/ Be16(f, udp + 2) # port
      THEN None
      ELSE Some([body |-> udp + UDP_HEADER_LEN, src_ip |-> Slice(f, l3 + 12, 4)])

TunnelAt6(f, l3, port) ==
  LET udp == l3 + IPV6_HEADER_LEN
  IN  IF \/ Len(f) < udp
         \/ HighNibble(Octet(f, l3)) # 6
         \/ Octet(f, l3 + 6) # IP_PROTO_UDP
         \/ Len(f) < udp + UDP_HEADER_LEN
         \/ Be16(f, udp + 2) # port
      THEN None
      ELSE Some([body |-> udp + UDP_HEADER_LEN, src_ip |-> Slice(f, l3 + 8, 16)])

\* The UDP datagram of the inner IPv4 packet at offset ip.
InnerUdp(f, ip, outer, header) ==
  LET udp == ip + LowNibble(Octet(f, ip)) * 4
      udp_len == Be16(f, udp + 4)
  IN  IF \/ Len(f) < ip + IPV4_HEADER_LEN
         \/ HighNibble(Octet(f, ip)) # 4
         \/ udp < ip + 20
         \/ Octet(f, ip + 9) # IP_PROTO_UDP
         \/ Len(f) < udp + UDP_HEADER_LEN
         \/ udp_len < UDP_HEADER_LEN
         \/ Len(f) < udp + udp_len
      THEN None
      ELSE Some([src_ip |-> Slice(f, ip + 12, 4), dst_ip |-> Slice(f, ip + 16, 4),
                 src_port |-> Be16(f, udp), dst_port |-> Be16(f, udp + 2),
                 payload |-> Slice(f, udp + UDP_HEADER_LEN, udp_len - UDP_HEADER_LEN),
                 outer_src_ip |-> outer.src_ip, header |-> header])

\* The same behind an inner Ethernet header of type IPv4.
InnerEthUdp(f, eth, outer, header) ==
  IF \/ Len(f) < eth + ETH_HEADER_LEN
     \/ Be16(f, eth + 12) # ETH_TYPE_IPV4
  THEN None
  ELSE InnerUdp(f, eth + ETH_HEADER_LEN, outer, header)

DecapGue(f, at) ==
  LET h == gue_parse(From(f, at[1].body))
  IN  IF at = None \/ h = None THEN None
      ELSE IF h[1].c_flag \/ h[1].proto # GUE_PROTO_IPV4 THEN None
      ELSE InnerUdp(f, at[1].body + GUE_HEADER_LEN + h[1].hlen * 4, at[1], h[1])

\* vni is None (accept any) or the expected one.
DecapVxlan(f, at, vni) ==
  LET h == vxlan_parse(From(f, at[1].body))
  IN  IF at = None \/ h = None THEN None
      ELSE IF vni # None /\ vni # Some(h[1].vni) THEN None
      ELSE InnerEthUdp(f, at[1].body + VXLAN_HEADER_LEN, at[1], h[1])

DecapGeneve(f, at, vni) ==
  LET h == geneve_parse(From(f, at[1].body))
  IN  IF at = None \/ h = None THEN None
      ELSE IF vni # None /\ vni # Some(h[1].vni) THEN None
      ELSE InnerEthUdp(f, at[1].body + header_len(h[1]), at[1], h[1])

try_decap_gue(f, l3, port) == DecapGue(f, TunnelAt4(f, l3, port))
try_decap_gue_v6(f, l3, port) == DecapGue(f, TunnelAt6(f, l3, port))
try_decap_vxlan(f, l3, port, vni) == DecapVxlan(f, TunnelAt4(f, l3, port), vni)
try_decap_vxlan_v6(f, l3, port, vni) == DecapVxlan(f, TunnelAt6(f, l3, port), vni)
try_decap_geneve(f, l3, port, vni) == DecapGeneve(f, TunnelAt4(f, l3, port), vni)
try_decap_geneve_v6(f, l3, port, vni) == DecapGeneve(f, TunnelAt6(f, l3, port), vni)

=============================================================================
