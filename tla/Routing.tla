------------------------------ MODULE Routing ------------------------------
(***************************************************************************)
(* Next-hop selection (dpdk-stdlib-udp/src/routing.rs).  An address is a   *)
(* sequence of four octets; a configuration is an option of                *)
(* [local_ip, prefix_len, default_gateway, static_routes, mtu], a route    *)
(* [network, prefix_len, gateway].                                         *)
(***************************************************************************)
EXTENDS Integers, Sequences

BROADCAST == <<255, 255, 255, 255>>
UNSPECIFIED == <<0, 0, 0, 0>>

\* The first `len` bits of two addresses are equal: (a & mask) == (b & mask).
PrefixEq(a, b, len) ==
  \A i \in 1..4 :
    LET bits == IF len >= 8 * i THEN 8 ELSE IF len <= 8 * (i - 1) THEN 0 ELSE len - 8 * (i - 1)
        unit == 2 ^ (8 - bits)
    IN  a[i] \div unit = b[i] \div unit

matches(route, addr) == PrefixEq(addr, route.network, route.prefix_len)
is_local(config, addr) == config.prefix_len # 0 /\ PrefixEq(config.local_ip, addr, config.prefix_len)

LinkLocal(ip) == ip[1] = 169 /\ ip[2] = 254
Multicast(ip) == ip[1] \in 224..239

\* Mutant: the comparison is the wrong way round, a shorter route replaces the best.
BestRouteLast(routes, ip) ==
  LET best[i \in 0..Len(routes)] ==
        IF i = 0 THEN 0
        ELSE IF matches(routes[i], ip)
                /\ (best[i - 1] = 0 \/ routes[i].prefix_len <= routes[best[i - 1]].prefix_len)
             THEN i ELSE best[i - 1]
  IN  best[Len(routes)]

\* The scan for the longest matching prefix: the index of the route, 0 for none.
BestRoute(routes, ip) ==
  LET best[i \in 0..Len(routes)] ==
        IF i = 0 THEN 0
        ELSE IF matches(routes[i], ip)
                /\ (best[i - 1] = 0 \/ routes[i].prefix_len > routes[best[i - 1]].prefix_len)
             THEN i ELSE best[i - 1]
  IN  best[Len(routes)]

\* RoutingTable::lookup.  The subnet-directed broadcast is already local.
lookup(table, ip) ==
  LET config == table[1]
      best == BestRoute(config.static_routes, ip)
  IN  IF \/ ip = BROADCAST
         \/ table = << >>
         \/ LinkLocal(ip)
         \/ Multicast(ip)
         \/ is_local(config, ip)
      THEN ip
      ELSE IF best # 0 THEN config.static_routes[best].gateway
      ELSE IF config.default_gateway # << >> THEN config.default_gateway[1]
      ELSE ip

NewConfig(local_ip, len) ==
  [local_ip |-> local_ip, prefix_len |-> len, default_gateway |-> << >>, static_routes |-> << >>,
   mtu |-> 1500]

mtu(table) == IF table = << >> THEN 1500 ELSE table[1].mtu
set_mtu(table, m) ==
  IF table = << >> THEN <<[NewConfig(UNSPECIFIED, 0) EXCEPT !.mtu = m]>>
  ELSE <<[table[1] EXCEPT !.mtu = m]>>

\* u32::from(ip), for the addresses a neighbour cache is asked for.
U32(ip) == ((ip[1] * 256 + ip[2]) * 256 + ip[3]) * 256 + ip[4]
=============================================================================
