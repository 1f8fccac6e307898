---------------------------- MODULE KernelTables ----------------------------
(***************************************************************************)
(* What bind learns from the kernel: the routing table and the neighbours  *)
(* of /proc/net/route and /proc/net/arp (dpdk-stdlib-udp/src/routing.rs,   *)
(* lib.rs).  A file is a sequence of lines, the first a header; a line is  *)
(* a record of its fields, `columns` of them, each << >> when it does not  *)
(* parse.  An address of the route table is four octets in the order they  *)
(* are printed, which is the reverse of an address's own.                  *)
(***************************************************************************)
EXTENDS NeighborCache, Routing, Functions

le_hex_to_ipv4(v) == [i \in 1 .. 4 |-> v[5 - i]]

\* The leading ones of a mask.
LeadingOnes(octet) == CHOOSE n \in 0 .. 8 :
  octet \div 2 ^ (8 - n) = 2 ^ n - 1 /\ (n = 8 \/ (octet \div 2 ^ (7 - n)) % 2 = 0)
mask_to_prefix_len(mask) ==
  LET m == le_hex_to_ipv4(mask)
      ones[i \in 1 .. 5] == IF i = 5 \/ LeadingOnes(m[i]) < 8
                            THEN (IF i = 5 THEN 0 ELSE LeadingOnes(m[i])) ELSE 8 + ones[i + 1]
  IN  ones[1]

\* Lines that are too short or do not parse are skipped; without a column for
\* it, or with one that does not parse, the MTU is 0.
parse_proc_route(lines) ==
  LET parses(l) == l.columns >= 8 /\ l.destination # << >> /\ l.gateway # << >> /\ l.mask # << >>
      entry(l) == [iface |-> l.iface, destination |-> le_hex_to_ipv4(l.destination[1]),
                   gateway |-> le_hex_to_ipv4(l.gateway[1]),
                   prefix_len |-> mask_to_prefix_len(l.mask[1]),
                   mtu |-> IF l.columns >= 9 /\ l.mtu # << >> THEN l.mtu[1] ELSE 0]
      kept == SelectSeq(Tail(lines), parses)
  IN  [i \in DOMAIN kept |-> entry(kept[i])]

\* Incomplete neighbours are not left out here.
parse_proc_arp(lines) ==
  LET parses(l) == l.columns >= 6 /\ l.ip # << >> /\ l.mac # << >> IN
  SelectSeq(Tail(lines), parses)

\* The last default route wins; the subnet is the longest one holding local_ip;
\* the MTU is the first one set on that subnet's interface, or the interface's.
detect_from_os(local_ip, route_lines, arp_lines, sysfs_mtu) ==
  LET routes == parse_proc_route(route_lines)
      idx == DOMAIN routes
      defaults == {i \in idx : routes[i].prefix_len = 0 /\ routes[i].destination = UNSPECIFIED
                               /\ routes[i].gateway # UNSPECIFIED}
      subnets == {i \in idx : routes[i].prefix_len # 0
                              /\ PrefixEq(local_ip, routes[i].destination, routes[i].prefix_len)}
      local == CHOOSE i \in subnets :
                 \A j \in subnets : \/ routes[j].prefix_len < routes[i].prefix_len
                                    \/ routes[j].prefix_len = routes[i].prefix_len /\ i <= j
      iface == routes[local].iface
      sized == {i \in idx : routes[i].iface = iface /\ routes[i].mtu > 0}
      last == CHOOSE i \in defaults : \A j \in defaults : j <= i
      first == CHOOSE i \in sized : \A j \in sized : i <= j
      here(l) == l.device = iface
  IN  IF subnets = {} THEN << >>
      ELSE <<[config |-> [NewConfig(local_ip, routes[local].prefix_len) EXCEPT
                 !.default_gateway = IF defaults = {} THEN @ ELSE <<routes[last].gateway>>,
                 !.mtu = IF sized # {} THEN routes[first].mtu
                         ELSE IF sysfs_mtu > 0 THEN sysfs_mtu ELSE @],
              arp |-> SelectSeq(parse_proc_arp(arp_lines), here)]>>

\* ArpCache::insert of each of a file's lines.
Seed(cache, lines) ==
  LET insert(c, l) == InsertEntry(StoreMac(StoreLo(c, <<0, U32(l.ip[1])>>), l.mac[1]),
                                  <<0, U32(l.ip[1])>>, l.mac[1])
      after[n \in 0 .. Len(lines)] == IF n = 0 THEN cache ELSE insert(after[n - 1], lines[n])
  IN  after[Len(lines)]

\* The cache of the port: complete entries only.
seed_arp_cache_from_kernel(cache, lines) ==
  LET complete(l) == l.columns >= 4 /\ l.flags # 0 /\ l.ip # << >> /\ l.mac # << >> IN
  Seed(cache, SelectSeq(Tail(lines), complete))

\* auto_detect_routing, and the seeding it does on the same cache.
auto_detect_routing(local_ip, kernel) ==
  IF local_ip = UNSPECIFIED THEN << >>
  ELSE detect_from_os(local_ip, kernel.route, kernel.arp, kernel.sysfs_mtu)

BindArp(local_ip, kernel) ==
  LET detected == auto_detect_routing(local_ip, kernel)
      cache == seed_arp_cache_from_kernel(NewCache, kernel.arp)
  IN  IF detected = << >> THEN cache ELSE Seed(cache, detected[1].arp)

\* bind: the table of the OS; the port's MTU when it is larger.
BindTable(local_ip, kernel, port_mtu) ==
  LET detected == auto_detect_routing(local_ip, kernel)
      table == IF detected = << >> THEN << >> ELSE <<detected[1].config>>
  IN  IF mtu(table) < port_mtu THEN set_mtu(table, port_mtu) ELSE table
=============================================================================
