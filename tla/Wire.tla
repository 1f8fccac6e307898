-------------------------------- MODULE Wire --------------------------------
(***************************************************************************)
(* Two stacks and the wire between them, octet by octet.  An application   *)
(* of link.a sends a datagram to link.b, pings it, resolves its address or *)
(* sends it a TCP segment; the frame is built, goes through the offloads   *)
(* of the sending NIC, may be padded, damaged in one bit, cut short or     *)
(* returned in an ICMP error by a router, and is handled by the receiving  *)
(* socket, whose answer travels back the same way.                         *)
(***************************************************************************)
EXTENDS UdpDispatch, TcpFrames

CONSTANTS
  Links,          \* [a, b]: the two sockets' configurations
  Payloads,       \* payloads of datagrams, pings and segments
  Segments,       \* TCP segments (their payload comes from Payloads)
  Noisy,          \* the payloads whose frames may be damaged, by noise or a cut
  Bits,           \* the bits of an octet that noise may flip
  Crafts,         \* frames applications build themselves
  GeneveHead,     \* the GENEVE header they use
  Ip4A, Ip4B,     \* the addresses inside their tunnels
  Bounces         \* ICMP errors of a router: [v4, v6], each <<type, code>>

VARIABLES
  link,           \* the link in use
  stage,          \* "idle", "flying", "bounced", "handled", "done"
  sent,           \* None, or what the application sent: [kind, payload]
  clean,          \* the frame a build without any offload puts on the wire
  air,            \* None, or the frame in flight
  fault,          \* "none", "flip", "cut" or "bounce"
  got,            \* what link.b made of the frame
  back            \* what link.a made of the answer or of the ICMP error

vars == <<link, stage, sent, clean, air, fault, got, back>>

a == link.a
b == link.b
Ip(s) == CHOOSE ip \in s.ips : TRUE
Software(s) == [s EXCEPT !.tx_offload = {}]
Transmit(s, frame, tci) == NicTransmit(send_frame_mode(s, frame, tci))
\* The frame as it arrives: padded by the sending NIC, unless its tail is lost.
Incoming == IF fault = "cut" THEN air[1] ELSE Pad(air[1])
Handle(s) ==
  LET r == NicReceive(s, Incoming) IN process_frame_zerocopy(s, r.frame, r.tci)

Init ==
  /\ link \in Links
  /\ stage = "idle" /\ sent = None /\ clean = None /\ air = None
  /\ fault = "none" /\ got = Dropped /\ back = Dropped

\* Nothing but send_to checks the families: the other operations take
\* addresses of one family.
Fly(kind, payload, without, with) ==
  /\ kind # "datagram" => a.family = b.family
  /\ sent' = Some([kind |-> kind, payload |-> payload])
  /\ stage' = "flying"
  /\ clean' = Some(without)
  /\ air' = Some(with)
  /\ UNCHANGED <<link, fault, got, back>>

SendTo(s, payload) ==
  IF b.family = "v4" THEN send_to_v4(s, Ip(b), b.port, b.mac, payload)
  ELSE send_to_v6(s, Ip(b), b.port, b.mac, payload)

SendDatagram(payload) ==
  LET out == SendTo(a, payload)
      plain == SendTo(Software(a), payload)
  IN  /\ stage = "idle"
      /\ out # None
      /\ Fly("datagram", payload, plain[1].frame, Transmit(a, out[1].frame, out[1].tci))

\* The send is refused; nothing leaves.
Refuse(payload) ==
  /\ stage = "idle"
  /\ SendTo(a, payload) = None
  /\ sent' = Some([kind |-> "refused", payload |-> payload])
  /\ stage' = "done"
  /\ UNCHANGED <<link, clean, air, fault, got, back>>

EchoRequest(payload) ==
  LET p == [src_mac |-> a.mac, dst_mac |-> b.mac, src_ip |-> Ip(a), dst_ip |-> Ip(b),
            ttl |-> 0, type |-> 0, code |-> 0, identifier |-> 4660, sequence |-> 7,
            payload |-> payload]
  IN  IF b.family = "v4" THEN build_echo_request(p) ELSE build_echo6_request(p)

SendEcho(payload) ==
  stage = "idle" /\ Fly("echo", payload, EchoRequest(payload), EchoRequest(payload))

Solicitation ==
  IF b.family = "v4" THEN build_arp_request(a.mac, Ip(a), Ip(b))
  ELSE build_neighbor_solicitation(a.mac, Ip(a), Ip(b))

\* make_request, make_solicitation: a asks for b's hardware address.
Solicit == stage = "idle" /\ Fly("solicit", << >>, Solicitation, Solicitation)

\* make_gratuitous_arp, make_gratuitous_na: a announces its own.
Announcement ==
  IF a.family = "v4" THEN build_gratuitous_arp(a.mac, Ip(a))
  ELSE build_gratuitous_na(a.mac, Ip(a))

Announce == stage = "idle" /\ Fly("announce", << >>, Announcement, Announcement)

Segment(seg, payload) ==
  [src_mac |-> a.mac, dst_mac |-> b.mac, src_ip |-> Ip(a), dst_ip |-> Ip(b),
   payload |-> payload, ttl |-> 64] @@ seg

\* Applications that build and parse frames themselves: plain datagrams with
\* the mbuf builder, tunnels over IPv6 with the _v6 encapsulations.
Datagram(payload) ==
  [src_mac |-> a.mac, dst_mac |-> b.mac, src_ip |-> Ip4A, dst_ip |-> Ip4B,
   src_port |-> a.port, dst_port |-> b.port, payload |-> payload, ttl |-> 64]

Crafted(how, payload) ==
  LET p == Datagram(payload)
      o == [p EXCEPT !.src_ip = Ip(a), !.dst_ip = Ip(b), !.src_port = 5000, !.dst_port = 6000]
  IN  CASE how = "mbuf" -> build_udp_packet(p, MAX_FRAME_SIZE)
        [] how = "vec" -> build_udp_frame(p)
        [] how = "gue" -> Some(build_gue_frame_into_v6(o, p))
        [] how = "vxlan" -> Some(build_vxlan_frame_into_v6(o, 70000, p))
        [] how = "geneve" -> Some(build_geneve_frame_into_v6(o, GeneveHead, p))

SendCrafted(how, payload) ==
  LET f == Crafted(how, payload)
  IN  /\ stage = "idle"
      /\ a.family = IF how \in {"mbuf", "vec"} THEN "v4" ELSE "v6"
      /\ f # None
      /\ Fly(how, payload, f[1], f[1])

ParseCrafted(how, f) ==
  CASE how = "mbuf" -> parse_udp_from_mbuf(Some(f))
    [] how = "vec" -> parse_udp_packet(f)
    [] how = "gue" -> try_decap_gue_v6(f, ETH_HEADER_LEN, 6000)
    [] how = "vxlan" -> try_decap_vxlan_v6(f, ETH_HEADER_LEN, 6000, Some(70000))
    [] how = "geneve" -> try_decap_geneve_v6(f, ETH_HEADER_LEN, 6000, None)

\* Built into a vector, or in place into an mbuf.
SendSegment(seg, payload, mbuf) ==
  LET f == IF mbuf THEN build_tcp_packet(Segment(seg, payload), MAX_FRAME_SIZE)
           ELSE build_tcp_frame(Segment(seg, payload))
  IN  /\ stage = "idle"
      /\ f # None
      /\ Fly("segment", Segment(seg, payload), f[1], f[1])

-----------------------------------------------------------------------------
\* The network.

Undisturbed == stage = "flying" /\ fault = "none"

FlippedBit(f, o, bit) ==
  [f EXCEPT ![o + 1] = IF (@ \div bit) % 2 = 1 THEN @ - bit ELSE @ + bit]

\* Noise behind the Ethernet addresses, which no checksum covers.
Flip ==
  /\ Undisturbed
  /\ sent[1].kind = "datagram" /\ sent[1].payload \in Noisy
  /\ \E o \in 12 .. Len(air[1]) - 1, bit \in Bits : air' = Some(FlippedBit(air[1], o, bit))
  /\ fault' = "flip"
  /\ UNCHANGED <<link, stage, sent, clean, got, back>>

\* Only the first n octets arrive (the first segment of an mbuf chain).
Cut ==
  /\ Undisturbed
  /\ sent[1].kind \in {"datagram"} \cup Crafts /\ sent[1].payload \in Noisy
  /\ \E n \in 14 .. Len(air[1]) - 1 : air' = Some(Slice(air[1], 0, n))
  /\ fault' = "cut"
  /\ UNCHANGED <<link, stage, sent, clean, got, back>>

\* A router answers a datagram with an ICMP error that quotes it.
Bounce(errors) ==
  LET f == air[1]
      l3 == detect_vlan(f, None)[1].l3
      ethernet == Slice(f, 6, 6) \o Slice(f, 0, 6) \o Slice(f, 12, l3 - 12)
      quoted == From(f, l3)
      m4 == <<errors.v4[1], errors.v4[2], 0, 0, 0, 0, 0, 0>> \o Slice(quoted, 0, 28)
      m6 == <<errors.v6[1], errors.v6[2], 0, 0, 0, 0, 0, 0>> \o quoted
  IN  /\ Undisturbed
      /\ sent[1].kind = "datagram"
      /\ air' = Some(ethernet \o
           IF b.family = "v4"
           THEN Ipv4Header(Ip(b), Ip(a), IP_PROTO_ICMP, 64, 0, 20 + Len(m4))
                  \o Put16(m4, 2, icmp_checksum(m4))
           ELSE write_ipv6_header(Ip(b), Ip(a), Len(m6), IP_PROTO_ICMPV6, 64)
                  \o Put16(m6, 2, icmpv6_checksum(Ip(b), Ip(a), m6)))
      /\ fault' = "bounce"
      /\ stage' = "bounced"
      /\ sent' = Some([kind |-> "bounced",
                       payload |-> IF b.family = "v4" THEN errors.v4 ELSE errors.v6])
      /\ UNCHANGED <<link, clean, got, back>>

-----------------------------------------------------------------------------
\* The ends.

Receive ==
  /\ stage = "flying"
  /\ LET effect == IF sent[1].kind = "segment"
                   THEN [Dropped EXCEPT !.datagram = parse_tcp_packet(Incoming)]
                   ELSE IF sent[1].kind \in Crafts
                   THEN [Dropped EXCEPT !.datagram = ParseCrafted(sent[1].kind, Incoming)]
                   ELSE Handle(b)
     IN  /\ got' = effect
         /\ IF effect.reply = None
            THEN stage' = "done" /\ UNCHANGED air
            ELSE stage' = "handled" /\ air' = Some(Transmit(b, effect.reply[1], None))
  /\ UNCHANGED <<link, sent, clean, fault, back>>

\* The answer to a ping is parsed by the application that sent it.
ReceiveBack ==
  /\ stage \in {"handled", "bounced"}
  /\ back' = IF sent[1].kind # "echo" THEN Handle(a)
             ELSE [Dropped EXCEPT !.datagram =
                     IF a.family = "v4" THEN parse_icmp_packet(Incoming)
                     ELSE parse_icmpv6_packet(Incoming)]
  /\ stage' = "done"
  /\ UNCHANGED <<link, sent, clean, air, fault, got>>

Again ==
  /\ stage = "done"
  /\ stage' = "idle" /\ sent' = None /\ clean' = None /\ air' = None
  /\ fault' = "none" /\ got' = Dropped /\ back' = Dropped
  /\ UNCHANGED link

Next ==
  \/ \E p \in Payloads : SendDatagram(p) \/ Refuse(p) \/ SendEcho(p)
  \/ Solicit \/ Announce
  \/ \E how \in Crafts, p \in Payloads : SendCrafted(how, p)
  \/ \E seg \in Segments, p \in Payloads, mbuf \in BOOLEAN : SendSegment(seg, p, mbuf)
  \/ Flip \/ Cut
  \/ \E e \in Bounces : Bounce(e)
  \/ Receive \/ ReceiveBack \/ Again

Spec == Init /\ [][Next]_vars

-----------------------------------------------------------------------------
TypeOK ==
  /\ link \in Links
  /\ stage \in {"idle", "flying", "bounced", "handled", "done"}
  /\ fault \in {"none", "flip", "cut", "bounce"}
  /\ \A f \in {clean, air} : f # None => \A i \in 1 .. Len(f[1]) : f[1][i] \in 0 .. 255

Arrived(kind) == stage \in {"handled", "done"} /\ sent # None /\ sent[1].kind = kind
Tunnelled(s) == s.gue # None \/ s.vxlan # None \/ s.geneve # None

\* Is the tag b sees one it accepts, and the tunnel the one it terminates?
TagOf(s) == IF s.vlan # None /\ tags_on_tx(s.vlan[1]) /\ ~Tunnelled(s) /\ s.family = "v4"
            THEN Some(s.vlan[1].vlan_id) ELSE None
Terminates == /\ b.vxlan = None => a.vxlan = None
              /\ b.geneve = None => a.geneve = None
              /\ b.gue = None => a.gue = None
              /\ (a.vxlan # None /\ b.vxlan # None) => a.vxlan[1].vni = b.vxlan[1].vni
              /\ (a.geneve # None /\ b.geneve # None) => a.geneve[1].vni = b.geneve[1].vni
Reachable == Terminates /\ (b.vlan # None => accepts_frame(b.vlan[1], TagOf(a)))

Original == Some([src_ip |-> Ip(a), src_port |-> a.port, payload |-> sent[1].payload])

\* A datagram that send_to accepted and the network carried unharmed reaches
\* the receiver's application with its payload, without the padding, and with
\* the sender's address exactly when the receiver is on the sender's VLAN and
\* terminates its tunnel (same VNI); through every combination of checksum and
\* VLAN offloads of the two NICs.
DatagramArrives ==
  Arrived("datagram") /\ fault = "none" =>
    got.datagram = IF Reachable THEN Original ELSE None

\* A bit flipped on the wire never changes what an application receives: the
\* frame is dropped by a checksum or a bound, or the datagram is the one sent.
\* Tunnel decapsulation checks no checksum and is left out.
NoiseIsNeverDelivered ==
  Arrived("datagram") /\ fault = "flip" /\ ~Tunnelled(a) => got.datagram \in {None, Original}

\* A frame that lost its tail is never delivered, in no encapsulation.
TruncationIsNeverDelivered ==
  stage = "done" /\ fault = "cut" => got.datagram = None

\* A crafted frame parses back to the datagram it was built from, tunnel
\* header, options and outer address included, without the padding.
CraftedParses ==
  stage = "done" /\ fault = "none" /\ sent[1].kind \in Crafts =>
    LET p == Datagram(sent[1].payload)
        d == got.datagram[1]
    IN  /\ got.datagram # None
        /\ \A x \in {"src_ip", "dst_ip", "src_port", "dst_port", "payload"} : d[x] = p[x]
        /\ sent[1].kind \in {"mbuf", "vec"} => d.dst_mac = b.mac /\ d.src_mac = a.mac
        /\ sent[1].kind = "geneve" => d.header = GeneveHead
        /\ sent[1].kind \notin {"mbuf", "vec"} => d.outer_src_ip = Ip(a)

\* With every offload the frame on the wire is, octet for octet, the frame a
\* build without offloads sends.
OffloadIsTransparent ==
  stage = "flying" /\ fault = "none" /\ sent[1].kind = "datagram" => air = clean

\* send_to refuses exactly the payloads that do not fit the MTU, and no frame
\* of an accepted one is longer than the MTU plus the link header.
FitsMtu ==
  /\ stage = "flying" /\ fault = "none" /\ sent[1].kind = "datagram" =>
       Len(air[1]) <= ETH_HEADER_LEN + a.mtu + (IF TagOf(a) = None THEN 0 ELSE VLAN_TAG_LEN)
  /\ sent # None /\ sent[1].kind = "refused" =>
       \/ a.family # b.family
       \/ a.mtu < Len(sent[1].payload) + UDP_HEADER_LEN
                    + (IF b.family = "v4" THEN IPV4_HEADER_LEN ELSE IPV6_HEADER_LEN)
                    + (IF a.vxlan # None \/ a.geneve # None THEN VXLAN_ENCAP_OVERHEAD
                       ELSE IF a.gue # None THEN GUE_ENCAP_OVERHEAD ELSE 0)

\* An ICMP error about a datagram comes back as an io error of the socket that
\* sent it, of the kind to_io_error gives its type and code, and nothing else
\* happens; an error about a tunnel's outer packet is not the socket's.
ErrorReachesSender ==
  stage = "done" /\ fault = "bounce" =>
    /\ back.datagram = None /\ back.reply = None
    /\ back.error =
         IF Tunnelled(a) \/ (a.vlan # None /\ ~accepts_frame(a.vlan[1], TagOf(a))) THEN None
         ELSE Some((IF a.family = "v4" THEN icmp_io_error(sent[1].payload[1], sent[1].payload[2])
                    ELSE icmpv6_io_error(sent[1].payload[1], sent[1].payload[2])))

\* After an undisturbed ARP request or neighbour solicitation each end knows
\* the other's hardware address; an announcement teaches it without an answer.
NeighboursLearnt ==
  /\ stage = "done" /\ Arrived("solicit") /\ fault = "none" /\ a.vlan = None /\ b.vlan = None =>
       /\ got.learns = {<<Ip(a), a.mac>>}
       /\ back.learns = {<<Ip(b), b.mac>>}
       /\ back.reply = None
  /\ Arrived("announce") /\ fault = "none" /\ b.vlan = None =>
       got.learns = {<<Ip(a), a.mac>>} /\ got.reply = None

Mirrored ==
  /\ back.datagram # None
  /\ back.datagram[1].identifier = 4660 /\ back.datagram[1].sequence = 7
  /\ back.datagram[1].payload = sent[1].payload
  /\ back.datagram[1].src_ip = Ip(b)
Answered == stage = "done" /\ Arrived("echo") /\ fault = "none" /\ b.vlan = None

\* The pinger gets its own identifier, sequence number and payload back.
EchoMirrors == Answered => Mirrored

\* The same where no frame needs padding and the responder offloads nothing.
EchoMirrorsUnpadded ==
  Answered /\ Len(clean[1]) >= 60 /\ b.tx_offload = {} => Mirrored

\* The segment parsed is the segment built, whatever its options and however
\* the frame was padded; a SYN carries every option, defaults filled in.
SegmentArrives ==
  Arrived("segment") /\ fault = "none" =>
    LET s == sent[1].payload
        d == got.datagram[1]
        syn == contains(s.flags, SYN)
    IN  /\ got.datagram # None
        /\ \A x \in {"src_ip", "dst_ip", "src_port", "dst_port", "seq", "ack", "flags",
                     "window", "payload"} : d[x] = s[x]
        /\ d.options = [mss |-> IF syn /\ s.options.mss = None THEN Some(1460) ELSE s.options.mss,
                        window_scale |-> IF syn /\ s.options.window_scale = None THEN Some(7)
                                         ELSE s.options.window_scale,
                        sack_permitted |-> syn \/ s.options.sack_permitted,
                        timestamps |-> IF syn /\ s.options.timestamps = None
                                       THEN Some(<<Zeros(4), Zeros(4)>>)
                                       ELSE s.options.timestamps,
                        sack_blocks |-> s.options.sack_blocks]

\* What one side builds the other parses: datagrams, crafted frames and TCP
\* segments come out as they went in, within the MTU, through every
\* encapsulation and combination of offloads.
BuiltIsParsed == TypeOK /\ FitsMtu /\ DatagramArrives /\ CraftedParses /\ SegmentArrives

\* A damaged frame is dropped or harmless: neither a flipped bit nor a lost
\* tail changes what an application receives.
DamageIsNeverDelivered == NoiseIsNeverDelivered /\ TruncationIsNeverDelivered

\* The control traffic the socket answers or reads in passing does its work:
\* ICMP errors reach the sending socket, ARP and NDP teach both ends, and an
\* echo comes back unchanged where no padding or offload is in its way.
ControlAnswered == ErrorReachesSender /\ NeighboursLearnt /\ EchoMirrorsUnpadded
=============================================================================
