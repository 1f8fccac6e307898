--------------------------- MODULE ControlFrames ---------------------------
(***************************************************************************)
(* ARP, NDP, ICMP and ICMPv6 (arp.rs, ndp.rs, icmp.rs, icmpv6.rs,          *)
(* ipv6_addr.rs): codecs and the handlers that answer a received frame.    *)
(* A handler is a function of the frame and of the host, a record          *)
(* [mac, ips] (local_mac, local_ips); it returns what it learns, a set of  *)
(* at most one pair <<ip, mac>> for the neighbour cache, and its reply.    *)
(***************************************************************************)
EXTENDS UdpFrames

BROADCAST_MAC == [i \in 1 .. 6 |-> 255]
Answer(learns, reply) == [learns |-> learns, reply |-> reply]
Nothing == Answer({}, None)

-----------------------------------------------------------------------------
\* ARP.

ARP_OP_REQUEST == 1
ARP_OP_REPLY == 2

ArpRequest(mac, ip, target_ip) ==
  [operation |-> ARP_OP_REQUEST, sender_mac |-> mac, sender_ip |-> ip,
   target_mac |-> Zeros(6), target_ip |-> target_ip]

ArpReply(mac, ip, target_mac, target_ip) ==
  [operation |-> ARP_OP_REPLY, sender_mac |-> mac, sender_ip |-> ip,
   target_mac |-> target_mac, target_ip |-> target_ip]

build_arp_frame(src_mac, dst_mac, arp) ==
  dst_mac \o src_mac \o U16(ETH_TYPE_ARP)
    \o U16(1) \o U16(ETH_TYPE_IPV4) \o <<6, 4>> \o U16(arp.operation)
    \o arp.sender_mac \o arp.sender_ip \o arp.target_mac \o arp.target_ip

build_arp_request(mac, ip, target_ip) ==
  build_arp_frame(mac, BROADCAST_MAC, ArpRequest(mac, ip, target_ip))

build_gratuitous_arp(mac, ip) ==
  build_arp_frame(mac, BROADCAST_MAC, ArpRequest(mac, ip, ip))

build_arp_reply(mac, ip, dst_mac, dst_ip) ==
  build_arp_frame(mac, dst_mac, ArpReply(mac, ip, dst_mac, dst_ip))

parse_arp_packet(f) ==
  LET tagged == Be16(f, 12) = ETH_TYPE_VLAN /\ Len(f) >= 18
      ethertype == IF tagged THEN Be16(f, 16) ELSE Be16(f, 12)
      arp == From(f, IF tagged THEN 18 ELSE 14)
  IN  IF \/ Len(f) < 14
         \/ ethertype # ETH_TYPE_ARP
         \/ Len(arp) < 28
         \/ Be16(arp, 0) # 1 \/ Be16(arp, 2) # ETH_TYPE_IPV4
         \/ Octet(arp, 4) # 6 \/ Octet(arp, 5) # 4
      THEN None
      ELSE Some([operation |-> Be16(arp, 6),
                 sender_mac |-> Slice(arp, 8, 6), sender_ip |-> Slice(arp, 14, 4),
                 target_mac |-> Slice(arp, 18, 6), target_ip |-> Slice(arp, 24, 4)])

\* Learns from every ARP packet; answers a request for a local address.
process_arp(host, f) ==
  LET found == parse_arp_packet(f)
      arp == found[1]
      asked == arp.operation = ARP_OP_REQUEST /\ arp.target_ip \in host.ips
  IN  IF found = None THEN Nothing
      ELSE Answer({<<arp.sender_ip, arp.sender_mac>>},
                  IF asked
                  THEN Some(build_arp_reply(host.mac, arp.target_ip, arp.sender_mac, arp.sender_ip))
                  ELSE None)

-----------------------------------------------------------------------------
\* ICMP.  A packet is [src_mac, dst_mac, src_ip, dst_ip, ttl, type, code,
\* identifier, sequence, payload].

ICMP_HEADER_LEN == 8
MIN_ICMP_ERROR_PAYLOAD == IPV4_HEADER_LEN + UDP_HEADER_LEN
IcmpErrors == {3, 5, 11, 12}

icmp_checksum(data) == 65535 - FoldSum(WordSum(data, 0, 2))

IcmpMessage(p) ==
  <<p.type, p.code, 0, 0>> \o U16(p.identifier) \o U16(p.sequence) \o p.payload

build_icmp_frame(p) ==
  LET m == IcmpMessage(p)
  IN  Ethernet(p, ETH_TYPE_IPV4)
        \o Ipv4Header(p.src_ip, p.dst_ip, IP_PROTO_ICMP, p.ttl, 0, IPV4_HEADER_LEN + Len(m))
        \o Put16(m, 2, icmp_checksum(m))

is_echo_request(p) == p.type = 8 /\ p.code = 0

build_echo_request(p) == build_icmp_frame([p EXCEPT !.ttl = 64, !.type = 8, !.code = 0])

make_echo_reply(p, mac) ==
  [p EXCEPT !.src_mac = mac, !.dst_mac = p.src_mac, !.src_ip = p.dst_ip,
            !.dst_ip = p.src_ip, !.ttl = 64, !.type = 0, !.code = 0]

\* The payload runs to the end of the frame.
parse_icmp_packet(f) ==
  LET found == detect_vlan(f, None)
      l3 == found[1].l3
      hlen == LowNibble(Octet(f, l3)) * 4
      icmp == From(f, l3 + hlen)
  IN  IF \/ found = None
         \/ found[1].ethertype # ETH_TYPE_IPV4
         \/ Len(f) < l3 + IPV4_HEADER_LEN + ICMP_HEADER_LEN
         \/ HighNibble(Octet(f, l3)) # 4
         \/ hlen < 20
         \/ Octet(f, l3 + 9) # IP_PROTO_ICMP
         \/ Len(f) < l3 + hlen + ICMP_HEADER_LEN
      THEN None
      ELSE Some([src_mac |-> Slice(f, 6, 6), dst_mac |-> Slice(f, 0, 6),
                 src_ip |-> Slice(f, l3 + 12, 4), dst_ip |-> Slice(f, l3 + 16, 4),
                 ttl |-> Octet(f, l3 + 8), type |-> Octet(icmp, 0), code |-> Octet(icmp, 1),
                 identifier |-> Be16(icmp, 4), sequence |-> Be16(icmp, 6),
                 payload |-> From(icmp, ICMP_HEADER_LEN)])

parse_icmp_error(f) ==
  LET found == detect_vlan(f, None)
      l3 == found[1].l3
      hlen == LowNibble(Octet(f, l3)) * 4
      icmp == From(f, l3 + hlen)
      orig == From(icmp, ICMP_HEADER_LEN)
      orig_hlen == LowNibble(Octet(orig, 0)) * 4
  IN  IF \/ found = None
         \/ found[1].ethertype # ETH_TYPE_IPV4
         \/ Len(f) < l3 + IPV4_HEADER_LEN + ICMP_HEADER_LEN + MIN_ICMP_ERROR_PAYLOAD
         \/ HighNibble(Octet(f, l3)) # 4
         \/ hlen < 20
         \/ Octet(f, l3 + 9) # IP_PROTO_ICMP
         \/ Len(f) < l3 + hlen + ICMP_HEADER_LEN + MIN_ICMP_ERROR_PAYLOAD
         \/ Octet(icmp, 0) \notin IcmpErrors
         \/ HighNibble(Octet(orig, 0)) # 4
         \/ orig_hlen < 20
         \/ Octet(orig, 9) # IP_PROTO_UDP
         \/ Len(orig) < orig_hlen + 4
      THEN None
      ELSE Some([type |-> Octet(icmp, 0), code |-> Octet(icmp, 1),
                 error_source |-> Slice(f, l3 + 12, 4),
                 original_src_ip |-> Slice(orig, 12, 4), original_dst_ip |-> Slice(orig, 16, 4),
                 original_src_port |-> Be16(orig, orig_hlen),
                 original_dst_port |-> Be16(orig, orig_hlen + 2),
                 mtu |-> IF Octet(icmp, 0) = 3 /\ Octet(icmp, 1) = 4 THEN Slice(icmp, 6, 2)
                         ELSE <<0, 0>>])

\* The io::ErrorKind an ICMP error becomes.
icmp_io_error(type, code) ==
  CASE type = 3 /\ code \in {2, 3} -> "ConnectionRefused"
    [] type = 3 /\ code = 13 -> "PermissionDenied"
    [] type = 11 /\ code \in {0, 1} -> "TimedOut"
    [] type = 12 -> "InvalidData"
    [] OTHER -> "Other"

process_icmp(host, f) ==
  LET found == parse_icmp_packet(f)
  IN  IF found # None /\ is_echo_request(found[1]) /\ found[1].dst_ip \in host.ips
      THEN Some(build_icmp_frame(make_echo_reply(found[1], host.mac)))
      ELSE None

\* Reply, error about one of our datagrams, or nothing.
process_icmp_full(host, f) ==
  LET reply == process_icmp(host, f)
      error == parse_icmp_error(f)
  IN  [reply |-> reply,
       error |-> IF reply = None /\ error # None /\ error[1].original_src_ip \in host.ips
                 THEN error ELSE None]

-----------------------------------------------------------------------------
\* ICMPv6.

ICMPV6_HEADER_LEN == 8
Icmpv6Errors == 1 .. 4

icmpv6_checksum(src, dst, data) ==
  NonZero(65535 - FoldSum(WordSum(src, 0, 2) + WordSum(dst, 0, 2)
                          + (Len(data) \div 65536) + (Len(data) % 65536) + IP_PROTO_ICMPV6
                          + WordAt(data, 0) + WordSum(data, 4, 2)))

build_icmpv6_frame(p) ==
  LET m == IcmpMessage(p)
  IN  Ethernet(p, ETH_TYPE_IPV6)
        \o write_ipv6_header(p.src_ip, p.dst_ip, Len(m), IP_PROTO_ICMPV6, p.ttl)
        \o Put16(m, 2, icmpv6_checksum(p.src_ip, p.dst_ip, m))

is_echo6_request(p) == p.type = 128 /\ p.code = 0

build_echo6_request(p) == build_icmpv6_frame([p EXCEPT !.ttl = 64, !.type = 128, !.code = 0])

make_echo6_reply(p, mac) ==
  [p EXCEPT !.src_mac = mac, !.dst_mac = p.src_mac, !.src_ip = p.dst_ip,
            !.dst_ip = p.src_ip, !.ttl = 64, !.type = 129, !.code = 0]

\* The layout of an IPv6 frame whose upper layer is `proto`: None, or its
\* [l3, upper] offsets.
Ipv6Upper(f, proto) ==
  LET found == detect_vlan(f, None)
      l3 == found[1].l3
      nh == walk_extension_headers(From(f, l3))
  IN  IF \/ found = None
         \/ found[1].ethertype # ETH_TYPE_IPV6
         \/ Len(f) < l3 + IPV6_HEADER_LEN
         \/ HighNibble(Octet(f, l3)) # 6
         \/ nh = None
         \/ nh[1].protocol # proto
      THEN None
      ELSE Some([l3 |-> l3, upper |-> l3 + nh[1].payload_offset])

parse_icmpv6_packet(f) ==
  LET at == Ipv6Upper(f, IP_PROTO_ICMPV6)
      l3 == at[1].l3
      icmp == From(f, at[1].upper)
  IN  IF \/ at = None
         \/ Len(icmp) < ICMPV6_HEADER_LEN
         \/ Octet(icmp, 0) \notin {128, 129}
      THEN None
      ELSE Some([src_mac |-> Slice(f, 6, 6), dst_mac |-> Slice(f, 0, 6),
                 src_ip |-> Slice(f, l3 + 8, 16), dst_ip |-> Slice(f, l3 + 24, 16),
                 ttl |-> Octet(f, l3 + 7), type |-> Octet(icmp, 0), code |-> Octet(icmp, 1),
                 identifier |-> Be16(icmp, 4), sequence |-> Be16(icmp, 6),
                 payload |-> From(icmp, ICMPV6_HEADER_LEN)])

parse_icmpv6_error(f) ==
  LET at == Ipv6Upper(f, IP_PROTO_ICMPV6)
      l3 == at[1].l3
      icmp == From(f, at[1].upper)
      orig == From(icmp, ICMPV6_HEADER_LEN)
      nh == walk_extension_headers(orig)
      udp == nh[1].payload_offset
  IN  IF \/ at = None
         \/ Len(icmp) < ICMPV6_HEADER_LEN
         \/ Octet(icmp, 0) \notin Icmpv6Errors
         \/ Len(orig) < IPV6_HEADER_LEN + UDP_HEADER_LEN
         \/ HighNibble(Octet(orig, 0)) # 6
         \/ nh = None
         \/ nh[1].protocol # IP_PROTO_UDP
         \/ Len(orig) < udp + 4
      THEN None
      ELSE Some([type |-> Octet(icmp, 0), code |-> Octet(icmp, 1),
                 error_source |-> Slice(f, l3 + 8, 16),
                 original_src_ip |-> Slice(orig, 8, 16), original_dst_ip |-> Slice(orig, 24, 16),
                 original_src_port |-> Be16(orig, udp), original_dst_port |-> Be16(orig, udp + 2),
                 mtu |-> IF Octet(icmp, 0) = 2 THEN Slice(icmp, 4, 4) ELSE <<0, 0, 0, 0>>])

icmpv6_io_error(type, code) ==
  CASE type = 1 /\ code = 1 -> "PermissionDenied"
    [] type = 1 /\ code = 4 -> "ConnectionRefused"
    [] type = 3 /\ code \in {0, 1} -> "TimedOut"
    [] type = 4 -> "InvalidData"
    [] OTHER -> "Other"

process_icmpv6(host, f) ==
  LET found == parse_icmpv6_packet(f)
  IN  IF found # None /\ is_echo6_request(found[1]) /\ found[1].dst_ip \in host.ips
      THEN Some(build_icmpv6_frame(make_echo6_reply(found[1], host.mac)))
      ELSE None

process_icmpv6_full(host, f) ==
  LET reply == process_icmpv6(host, f)
      error == parse_icmpv6_error(f)
  IN  [reply |-> reply,
       error |-> IF reply = None /\ error # None /\ error[1].original_src_ip \in host.ips
                 THEN error ELSE None]

-----------------------------------------------------------------------------
\* NDP.

NDP_HOP_LIMIT == 255
NDP_MIN_BODY_LEN == 24
NEIGHBOR_SOLICITATION == 135
NEIGHBOR_ADVERTISEMENT == 136
NA_FLAG_OVERRIDE == <<32, 0, 0, 0>>
NA_FLAG_SOLICITED_OVERRIDE == <<96, 0, 0, 0>>

solicited_node_multicast_addr(ip) ==
  <<255, 2>> \o Zeros(9) \o <<1, 255>> \o Slice(ip, 13, 3)

solicited_node_multicast_mac(ip) == <<51, 51, 255>> \o Slice(ip, 13, 3)

ipv6_multicast_mac(ip) == <<51, 51>> \o Slice(ip, 12, 4)

ALL_NODES == <<255, 2>> \o Zeros(13) \o <<1>>

NdpFrame(src_mac, dst_mac, src_ip, dst_ip, type, flags, target, option) ==
  LET m == <<type, 0, 0, 0>> \o flags \o target \o <<option, 1>> \o src_mac
  IN  dst_mac \o src_mac \o U16(ETH_TYPE_IPV6)
        \o write_ipv6_header(src_ip, dst_ip, Len(m), IP_PROTO_ICMPV6, NDP_HOP_LIMIT)
        \o Put16(m, 2, icmpv6_checksum(src_ip, dst_ip, m))

build_neighbor_solicitation(mac, ip, target) ==
  LET snm == solicited_node_multicast_addr(target)
  IN  NdpFrame(mac, ipv6_multicast_mac(snm), ip, snm, NEIGHBOR_SOLICITATION, Zeros(4), target, 1)

build_neighbor_advertisement(mac, ip, dst_mac, dst_ip, flags) ==
  NdpFrame(mac, dst_mac, ip, dst_ip, NEIGHBOR_ADVERTISEMENT, flags, ip, 2)

build_gratuitous_na(mac, ip) ==
  build_neighbor_advertisement(mac, ip, ipv6_multicast_mac(ALL_NODES), ALL_NODES,
                               NA_FLAG_OVERRIDE)

\* The first link-layer address option of type `want` at or after offset o.
RECURSIVE parse_ndp_ll_option(_, _, _)
parse_ndp_ll_option(f, o, want) ==
  LET opt_bytes == Octet(f, o + 1) * 8
  IN  IF \/ o + 2 > Len(f)
         \/ opt_bytes = 0
         \/ o + opt_bytes > Len(f)
      THEN None
      ELSE IF Octet(f, o) = want THEN Some(Slice(f, o + 2, 6))
      ELSE parse_ndp_ll_option(f, o + opt_bytes, want)

\* Untagged frames only, no extension headers.
parse_ndp_packet(f) ==
  LET l3 == ETH_HEADER_LEN
      icmp == l3 + IPV6_HEADER_LEN
      type == Octet(f, icmp)
  IN  IF \/ Len(f) < icmp + NDP_MIN_BODY_LEN
         \/ Be16(f, 12) # ETH_TYPE_IPV6
         \/ HighNibble(Octet(f, l3)) # 6
         \/ Octet(f, l3 + 6) # IP_PROTO_ICMPV6
         \/ Octet(f, l3 + 7) # NDP_HOP_LIMIT
         \/ type \notin {NEIGHBOR_SOLICITATION, NEIGHBOR_ADVERTISEMENT}
         \/ Octet(f, icmp + 1) # 0
      THEN None
      ELSE Some([src_mac |-> Slice(f, 6, 6), src_ip |-> Slice(f, l3 + 8, 16), type |-> type,
                 flags |-> IF type = NEIGHBOR_ADVERTISEMENT THEN Slice(f, icmp + 4, 4)
                           ELSE Zeros(4),
                 target |-> Slice(f, icmp + 8, 16),
                 link_layer_addr |->
                   parse_ndp_ll_option(f, icmp + 24, IF type = NEIGHBOR_SOLICITATION THEN 1 ELSE 2)])

process_ndp(host, f) ==
  LET found == parse_ndp_packet(f)
      p == found[1]
      solicits == p.type = NEIGHBOR_SOLICITATION
      named == IF solicits THEN p.src_ip ELSE p.target
  IN  IF found = None THEN Nothing
      ELSE Answer(IF p.link_layer_addr = None \/ (solicits /\ p.src_ip = Zeros(16)) THEN {}
                  ELSE {<<named, p.link_layer_addr[1]>>},
                  IF solicits /\ p.target \in host.ips
                  THEN Some(build_neighbor_advertisement(host.mac, p.target, p.src_mac, p.src_ip,
                                                         NA_FLAG_SOLICITED_OVERRIDE))
                  ELSE None)

=============================================================================
