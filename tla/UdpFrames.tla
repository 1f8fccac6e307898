----------------------------- MODULE UdpFrames -----------------------------
(***************************************************************************)
(* The UDP/IPv4 and UDP/IPv6 codecs: 802.1Q layout and filtering, header   *)
(* and segment checksums, the frame builders and the frame parsers of      *)
(* dpdk-stdlib-udp (lib.rs, ipv6.rs).                                      *)
(*                                                                         *)
(* A datagram is a record [src_mac, dst_mac, src_ip, dst_ip, src_port,     *)
(* dst_port, payload, ttl]; addresses are sequences of octets.  A builder  *)
(* returns None for PayloadTooLarge.                                       *)
(***************************************************************************)
EXTENDS Octets, TLC

CONSTANT MAX_FRAME_SIZE      \* 14 + 9001 in the code

ETH_HEADER_LEN == 14
VLAN_TAG_LEN == 4
IPV4_HEADER_LEN == 20
IPV6_HEADER_LEN == 40
UDP_HEADER_LEN == 8
TOTAL_HEADER_LEN == ETH_HEADER_LEN + IPV4_HEADER_LEN + UDP_HEADER_LEN
TOTAL_HEADER_LEN_VLAN == TOTAL_HEADER_LEN + VLAN_TAG_LEN
TOTAL_HEADER_LEN_V6 == ETH_HEADER_LEN + IPV6_HEADER_LEN + UDP_HEADER_LEN
ETH_TYPE_IPV4 == 2048
ETH_TYPE_ARP == 2054
ETH_TYPE_VLAN == 33024
ETH_TYPE_IPV6 == 34525
IP_PROTO_ICMP == 1
IP_PROTO_TCP == 6
IP_PROTO_UDP == 17
IP_PROTO_ICMPV6 == 58

-----------------------------------------------------------------------------
\* 802.1Q.  A VLAN configuration is [vlan_id, priority, dei, mode, allowed,
\* native]; mode is "access", "trunk" or "port_tagging".

encode_tci(vlan) ==
  (vlan.priority % 8) * 8192 + (IF vlan.dei THEN 4096 ELSE 0) + (vlan.vlan_id % 4096)

tags_on_tx(vlan) == vlan.mode # "access"

accepts_frame(vlan, vid) ==
  CASE vlan.mode = "access" -> vid = None \/ vid = Some(vlan.vlan_id)
    [] vlan.mode = "trunk" ->
         IF vid = None THEN vlan.native # None ELSE vid[1] \in vlan.allowed
    [] vlan.mode = "port_tagging" -> vid = Some(vlan.vlan_id)

\* The layout of a frame; hw is the tag the NIC stripped, if any.
detect_vlan(f, hw) ==
  IF Len(f) < ETH_HEADER_LEN THEN None
  ELSE IF Be16(f, 12) # ETH_TYPE_VLAN
    THEN Some([ethertype |-> Be16(f, 12), l3 |-> ETH_HEADER_LEN, tci |-> hw])
  ELSE IF Len(f) < ETH_HEADER_LEN + VLAN_TAG_LEN THEN None
  ELSE Some([ethertype |-> Be16(f, 16), l3 |-> ETH_HEADER_LEN + VLAN_TAG_LEN,
             tci |-> Some(Be16(f, 14))])

VlanId(layout) == IF layout.tci = None THEN None ELSE Some(layout.tci[1] % 4096)

-----------------------------------------------------------------------------
\* Checksums.

PseudoSum4(src, dst, len) ==
  Be16(src, 0) + Be16(src, 2) + Be16(dst, 0) + Be16(dst, 2) + IP_PROTO_UDP + len

\* udp_header is summed without its checksum field.
HeaderSum(udp_header) == Be16(udp_header, 0) + Be16(udp_header, 2) + Be16(udp_header, 4)

udp_checksum(src, dst, udp_header, payload) ==
  NonZero(65535 - FoldSum(PseudoSum4(src, dst, UDP_HEADER_LEN + Len(payload))
                          + HeaderSum(udp_header) + ones_complement_sum(payload)))

\* Mutant: the sum is complemented, as in a whole checksum.
PseudoChecksumComplemented(src, dst, udp_len) == 65535 - FoldSum(PseudoSum4(src, dst, udp_len))
udp_pseudo_header_checksum(src, dst, udp_len) == FoldSum(PseudoSum4(src, dst, udp_len))

PseudoSum6(src, dst, len) ==
  ones_complement_sum(src) + ones_complement_sum(dst)
    + (len \div 65536) + (len % 65536) + IP_PROTO_UDP

udp6_checksum(src, dst, udp_header, payload) ==
  NonZero(65535 - FoldSum(PseudoSum6(src, dst, UDP_HEADER_LEN + Len(payload))
                          + HeaderSum(udp_header) + ones_complement_sum(payload)))

udp6_pseudo_header_checksum(src, dst, udp_len) == FoldSum(PseudoSum6(src, dst, udp_len))

verify_ipv4_checksum(f) ==
  LET layout == detect_vlan(f, None)
      l3 == layout[1].l3
      hlen == LowNibble(Octet(f, l3)) * 4
  IN  /\ layout # None
      /\ Len(f) >= l3 + IPV4_HEADER_LEN
      /\ hlen >= 20
      /\ Len(f) >= l3 + hlen
      /\ FoldSum(WordSum(Slice(f, l3, hlen), 0, 2)) = 65535

\* Mutant: the checksum is trusted.
TrustUdpChecksum(f) == TRUE

verify_udp_checksum(f) ==
  LET layout == detect_vlan(f, None)
      l3 == layout[1].l3
      udp == l3 + LowNibble(Octet(f, l3)) * 4
      udp_len == Be16(f, udp + 4)
  IN  /\ layout # None
      /\ Len(f) >= l3 + IPV4_HEADER_LEN + UDP_HEADER_LEN
      /\ Len(f) >= udp + UDP_HEADER_LEN
      /\ \/ Be16(f, udp + 6) = 0
         \/ /\ Len(f) >= udp + udp_len
            /\ FoldSum(PseudoSum4(Slice(f, l3 + 12, 4), Slice(f, l3 + 16, 4), udp_len)
                       + ones_complement_sum(Slice(f, udp, udp_len))) = 65535

-----------------------------------------------------------------------------
\* Builders.

Ethernet(p, type) == p.dst_mac \o p.src_mac \o U16(type)

\* A 20-octet header, DF set, its checksum filled in.
Ipv4Header(src, dst, proto, ttl, tos, total) ==
  LET h == <<69, tos>> \o U16(total) \o <<0, 0, 64, 0, ttl, proto, 0, 0>> \o src \o dst
  IN  Put16(h, 10, ipv4_checksum(h))

write_ipv6_header(src, dst, payload_length, next_header, hop_limit) ==
  <<96, 0, 0, 0>> \o U16(payload_length) \o <<next_header, hop_limit>> \o src \o dst

write_udp_header(src_port, dst_port, udp_len) ==
  U16(src_port) \o U16(dst_port) \o U16(udp_len) \o <<0, 0>>

UdpSegment4(src, dst, src_port, dst_port, payload) ==
  LET h == write_udp_header(src_port, dst_port, UDP_HEADER_LEN + Len(payload))
  IN  Put16(h, 6, udp_checksum(src, dst, h, payload)) \o payload

UdpSegment6(src, dst, src_port, dst_port, payload) ==
  LET h == write_udp_header(src_port, dst_port, UDP_HEADER_LEN + Len(payload))
  IN  Put16(h, 6, udp6_checksum(src, dst, h, payload)) \o payload

Ipv4Packet(src, dst, src_port, dst_port, payload, ttl, tos) ==
  Ipv4Header(src, dst, IP_PROTO_UDP, ttl, tos,
             IPV4_HEADER_LEN + UDP_HEADER_LEN + Len(payload))
    \o UdpSegment4(src, dst, src_port, dst_port, payload)

Udp4(p, tos) == Ipv4Packet(p.src_ip, p.dst_ip, p.src_port, p.dst_port, p.payload, p.ttl, tos)

build_udp_frame_into_with_tos(p, tos) ==
  IF Len(p.payload) > MAX_FRAME_SIZE - TOTAL_HEADER_LEN THEN None
  ELSE Some(Ethernet(p, ETH_TYPE_IPV4) \o Udp4(p, tos))

build_udp_frame_into(p) ==
  IF Len(p.payload) > MAX_FRAME_SIZE - TOTAL_HEADER_LEN THEN None
  ELSE Some(Ethernet(p, ETH_TYPE_IPV4) \o Udp4(p, 0))

build_udp_frame(p) ==
  IF Len(p.payload) > MAX_FRAME_SIZE - TOTAL_HEADER_LEN THEN None
  ELSE Some(Ethernet(p, ETH_TYPE_IPV4) \o Udp4(p, 0))

\* Written into an mbuf of `room` octets.
build_udp_packet(p, room) ==
  IF \/ Len(p.payload) > MAX_FRAME_SIZE - TOTAL_HEADER_LEN
     \/ room < TOTAL_HEADER_LEN + Len(p.payload)
  THEN None
  ELSE Some(Ethernet(p, ETH_TYPE_IPV4) \o Udp4(p, 0))

build_udp_frame_into_vlan(p, vlan) ==
  IF Len(p.payload) > MAX_FRAME_SIZE - TOTAL_HEADER_LEN_VLAN THEN None
  ELSE Some(Ethernet(p, ETH_TYPE_VLAN) \o U16(encode_tci(vlan)) \o U16(ETH_TYPE_IPV4)
            \o Udp4(p, 0))

Udp6(p) ==
  LET seg == UdpSegment6(p.src_ip, p.dst_ip, p.src_port, p.dst_port, p.payload)
  IN  write_ipv6_header(p.src_ip, p.dst_ip, Len(seg), IP_PROTO_UDP, p.ttl) \o seg

build_udp6_frame(p) ==
  IF Len(p.payload) > MAX_FRAME_SIZE - TOTAL_HEADER_LEN_V6 THEN None
  ELSE Some(Ethernet(p, ETH_TYPE_IPV6) \o Udp6(p))

build_udp6_frame_into(p) ==
  IF Len(p.payload) > MAX_FRAME_SIZE - TOTAL_HEADER_LEN_V6 THEN None
  ELSE Some(Ethernet(p, ETH_TYPE_IPV6) \o Udp6(p))

-----------------------------------------------------------------------------
\* Parsers: None, or the datagram found in the frame.

\* Mutant: the payload runs to the end of the frame.
UdpAtToFrameEnd(f, udp, src, dst, layout) ==
  IF Len(f) < udp + UDP_HEADER_LEN THEN None
  ELSE Some([src_mac |-> Slice(f, 6, 6), src_ip |-> src, dst_ip |-> dst,
             src_port |-> Be16(f, udp), dst_port |-> Be16(f, udp + 2),
             payload |-> From(f, udp + UDP_HEADER_LEN), vlan_id |-> VlanId(layout)])

\* The addresses and the payload of the UDP segment at offset udp.
UdpAt(f, udp, src, dst, layout) ==
  LET udp_len == Be16(f, udp + 4)
  IN  IF \/ Len(f) < udp + UDP_HEADER_LEN
         \/ udp_len < UDP_HEADER_LEN
         \/ Len(f) < udp + udp_len
      THEN None
      ELSE Some([src_mac |-> Slice(f, 6, 6), src_ip |-> src, dst_ip |-> dst,
                 src_port |-> Be16(f, udp), dst_port |-> Be16(f, udp + 2),
                 payload |-> Slice(f, udp + UDP_HEADER_LEN, udp_len - UDP_HEADER_LEN),
                 vlan_id |-> VlanId(layout)])

parse_udp_packet_ref(f) ==
  LET found == detect_vlan(f, None)
      layout == found[1]
      l3 == layout.l3
      hlen == LowNibble(Octet(f, l3)) * 4
  IN  IF \/ found = None
         \/ Len(f) < l3 + IPV4_HEADER_LEN + UDP_HEADER_LEN
         \/ layout.ethertype # ETH_TYPE_IPV4
         \/ HighNibble(Octet(f, l3)) # 4
         \/ hlen < 20
         \/ Octet(f, l3 + 9) # IP_PROTO_UDP
      THEN None
      ELSE UdpAt(f, l3 + hlen, Slice(f, l3 + 12, 4), Slice(f, l3 + 16, 4), layout)

parse_udp_packet(f) ==
  LET r == parse_udp_packet_ref(f)
  IN  IF r = None THEN None
      ELSE Some([dst_mac |-> Slice(f, 0, 6)] @@ r[1])

parse_udp_from_mbuf(data) == IF data = None THEN None ELSE parse_udp_packet(data[1])

\* Skips hop-by-hop (0), routing (43), destination options (60) and fragment
\* (44) headers from offset o on, the next header being nh.
RECURSIVE SkipExtensions(_, _, _)
SkipExtensions(data, nh, o) ==
  LET ext_len == IF nh = 44 THEN 8 ELSE (Octet(data, o + 1) + 1) * 8
  IN  IF nh \notin {0, 43, 44, 60} THEN Some([protocol |-> nh, payload_offset |-> o])
      ELSE IF o + 2 > Len(data) THEN None
      ELSE IF o + ext_len > Len(data) THEN None
      ELSE SkipExtensions(data, Octet(data, o), o + ext_len)

walk_extension_headers(data) ==
  IF Len(data) < IPV6_HEADER_LEN THEN None
  ELSE SkipExtensions(data, Octet(data, 6), IPV6_HEADER_LEN)

parse_udp6_packet_ref(f) ==
  LET found == detect_vlan(f, None)
      layout == found[1]
      l3 == layout.l3
      nh == walk_extension_headers(From(f, l3))
  IN  IF \/ found = None
         \/ layout.ethertype # ETH_TYPE_IPV6
         \/ Len(f) < l3 + IPV6_HEADER_LEN
         \/ HighNibble(Octet(f, l3)) # 6
         \/ nh = None
         \/ nh[1].protocol # IP_PROTO_UDP
      THEN None
      ELSE UdpAt(f, l3 + nh[1].payload_offset,
                 Slice(f, l3 + 8, 16), Slice(f, l3 + 24, 16), layout)

parse_udp6_packet(f) ==
  LET r == parse_udp6_packet_ref(f)
  IN  IF r = None THEN None
      ELSE Some([dst_mac |-> Slice(f, 0, 6)] @@ r[1])

verify_udp6_checksum(f) ==
  LET found == detect_vlan(f, None)
      l3 == found[1].l3
      nh == walk_extension_headers(From(f, l3))
      udp == l3 + nh[1].payload_offset
      udp_len == Be16(f, udp + 4)
  IN  /\ found # None
      /\ found[1].ethertype = ETH_TYPE_IPV6
      /\ Len(f) >= l3 + IPV6_HEADER_LEN
      /\ nh # None
      /\ nh[1].protocol = IP_PROTO_UDP
      /\ Len(f) >= udp + UDP_HEADER_LEN
      /\ Be16(f, udp + 6) # 0
      /\ udp_len >= UDP_HEADER_LEN
      /\ Len(f) >= udp + udp_len
      /\ udp6_checksum(Slice(f, l3 + 8, 16), Slice(f, l3 + 24, 16),
                       Slice(f, udp, UDP_HEADER_LEN),
                       Slice(f, udp + UDP_HEADER_LEN, udp_len - UDP_HEADER_LEN))
           = Be16(f, udp + 6)

=============================================================================
