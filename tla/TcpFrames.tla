----------------------------- MODULE TcpFrames -----------------------------
(***************************************************************************)
(* The TCP codec (codec.rs).  Sequence numbers and timestamps are 4-octet  *)
(* sequences; flags are the octet of the header.  A segment is a record    *)
(* [src_mac, dst_mac, src_ip, dst_ip, src_port, dst_port, seq, ack, flags, *)
(* window, options, payload, ttl]; options are [mss, window_scale,         *)
(* sack_permitted, timestamps, sack_blocks].                               *)
(***************************************************************************)
EXTENDS UdpFrames

TCP_HEADER_LEN == 20
FIN == 1
SYN == 2
RST == 4
PSH == 8
ACK == 16

contains(flags, flag) == (flags \div flag) % 2 = 1

NoOptions == [mss |-> None, window_scale |-> None, sack_permitted |-> FALSE,
              timestamps |-> None, sack_blocks |-> << >>]

tcp_checksum(src, dst, segment) ==
  65535 - FoldSum(WordSum(src, 0, 2) + WordSum(dst, 0, 2) + IP_PROTO_TCP + Len(segment)
                  + WordSum(segment, 0, 2))

SackBlocks(blocks) ==
  LET enc[i \in 0 .. Len(blocks)] ==
        IF i = 0 THEN << >> ELSE enc[i - 1] \o blocks[i][1] \o blocks[i][2]
  IN  enc[Len(blocks)]

\* A SYN carries every option, with a default for the ones not given.
serialize_options(o, flags) ==
  LET syn == contains(flags, SYN)
      mss == IF o.mss # None THEN <<2, 4>> \o U16(o.mss[1])
             ELSE IF syn THEN <<2, 4>> \o U16(1460) ELSE << >>
      scale == IF o.window_scale # None THEN <<1, 3, 3, o.window_scale[1]>>
               ELSE IF syn THEN <<1, 3, 3, 7>> ELSE << >>
      permitted == IF o.sack_permitted \/ syn THEN <<1, 1, 4, 2>> ELSE << >>
      stamps == IF o.timestamps # None
                THEN <<1, 1, 8, 10>> \o o.timestamps[1][1] \o o.timestamps[1][2]
                ELSE IF syn THEN <<1, 1, 8, 10>> \o Zeros(8) ELSE << >>
      sack == IF o.sack_blocks = << >> THEN << >>
              ELSE <<1, 1, 5, 2 + Len(o.sack_blocks) * 8>> \o SackBlocks(o.sack_blocks)
      all == mss \o scale \o permitted \o stamps \o sack
  IN  all \o Zeros((4 - (Len(all) % 4)) % 4)

\* The options read from octet i on, added to those found before it.
RECURSIVE ParseFrom(_, _, _)
ParseFrom(data, i, opts) ==
  LET kind == Octet(data, i)
      len == Octet(data, i + 1)
      \* The option fits and has the length its kind calls for.
      sized(n) == i + n <= Len(data) /\ len = n
      blocks == [b \in 1 .. (len - 2) \div 8 |->
                   <<Slice(data, i + 2 + (b - 1) * 8, 4), Slice(data, i + 6 + (b - 1) * 8, 4)>>]
  IN  IF i >= Len(data) \/ kind = 0 THEN opts
      ELSE IF kind = 1 THEN ParseFrom(data, i + 1, opts)
      ELSE IF kind = 2 /\ sized(4)
        THEN ParseFrom(data, i + 4, [opts EXCEPT !.mss = Some(Be16(data, i + 2))])
      ELSE IF kind = 3 /\ sized(3)
        THEN ParseFrom(data, i + 3, [opts EXCEPT !.window_scale = Some(Octet(data, i + 2))])
      ELSE IF kind = 4 /\ sized(2)
        THEN ParseFrom(data, i + 2, [opts EXCEPT !.sack_permitted = TRUE])
      ELSE IF kind = 8 /\ sized(10)
        THEN ParseFrom(data, i + 10,
               [opts EXCEPT !.timestamps = Some(<<Slice(data, i + 2, 4), Slice(data, i + 6, 4)>>)])
      ELSE IF kind \in {2, 3, 4, 8} \/ i + 1 >= Len(data) THEN opts
      ELSE IF len < 2 \/ i + len > Len(data) THEN opts
      ELSE ParseFrom(data, i + len,
             IF kind = 5 THEN [opts EXCEPT !.sack_blocks = @ \o blocks] ELSE opts)

parse_options(data) == ParseFrom(data, 0, NoOptions)

write_frame(s, options) ==
  LET hlen == TCP_HEADER_LEN + Len(options)
      segment == U16(s.src_port) \o U16(s.dst_port) \o s.seq \o s.ack
                   \o <<((hlen \div 4) * 16) % 256, s.flags>> \o U16(s.window) \o Zeros(4)
                   \o options \o s.payload
  IN  Ethernet(s, ETH_TYPE_IPV4)
        \o Ipv4Header(s.src_ip, s.dst_ip, IP_PROTO_TCP, s.ttl, 0, IPV4_HEADER_LEN + Len(segment))
        \o Put16(segment, 16, tcp_checksum(s.src_ip, s.dst_ip, segment))

\* Only IPv4 addresses are supported.
build_tcp_frame(s) ==
  IF Len(s.src_ip) # 4 \/ Len(s.dst_ip) # 4 THEN None
  ELSE Some(write_frame(s, serialize_options(s.options, s.flags)))

\* The same into an mbuf with `room` octets.
build_tcp_packet(s, room) ==
  LET f == build_tcp_frame(s)
  IN  IF f = None \/ room < Len(f[1]) THEN None ELSE f

\* The payload ends with the IPv4 packet, not with the frame.
PayloadEnd(f, ip) ==
  IF ip + Be16(f, ip + 2) < Len(f) THEN ip + Be16(f, ip + 2) ELSE Len(f)

parse_tcp_packet(f) ==
  LET ip == ETH_HEADER_LEN
      tcp == ip + LowNibble(Octet(f, ip)) * 4
      hlen == HighNibble(Octet(f, tcp + 12)) * 4
      end == PayloadEnd(f, ip)
      start == tcp + hlen
  IN  IF \/ Len(f) < ETH_HEADER_LEN + IPV4_HEADER_LEN + TCP_HEADER_LEN
         \/ Be16(f, 12) # ETH_TYPE_IPV4
         \/ Octet(f, ip + 9) # IP_PROTO_TCP
         \/ Len(f) < tcp + TCP_HEADER_LEN
         \/ hlen < 20
         \/ Len(f) < tcp + hlen
      THEN None
      ELSE Some([src_ip |-> Slice(f, ip + 12, 4), dst_ip |-> Slice(f, ip + 16, 4),
                 src_port |-> Be16(f, tcp), dst_port |-> Be16(f, tcp + 2),
                 seq |-> Slice(f, tcp + 4, 4), ack |-> Slice(f, tcp + 8, 4),
                 flags |-> Octet(f, tcp + 13), window |-> Be16(f, tcp + 14),
                 options |-> parse_options(Slice(f, tcp + TCP_HEADER_LEN, hlen - TCP_HEADER_LEN)),
                 payload |-> IF end > start THEN Slice(f, start, end - start) ELSE << >>])

=============================================================================
