--------------------------- MODULE NeighborCache ---------------------------
(***************************************************************************)
(* The neighbour caches of the UDP sockets: ArpCache                       *)
(* (dpdk-stdlib-udp/src/arp.rs) and NdpCache (ndp.rs).  Behind a           *)
(* reader-writer lock is a map from addresses to entries that expire; in   *)
(* front of it the most recently seen pair is kept in separate relaxed     *)
(* atomics, which are stored and loaded one at a time.  An address is a    *)
(* pair <<hi, lo>> of the two words NdpCache stores; ArpCache has only the *)
(* second, and an IPv4 address is <<0, n>>.  0 is the empty value of every *)
(* word.                                                                   *)
(***************************************************************************)
EXTENDS Naturals

CONSTANTS Addresses,      \* addresses that occur
          Macs            \* hardware addresses that occur, positive numbers

ASSUME AddressAssumption ==
  /\ Addresses \subseteq Nat \X Nat
  /\ Macs \subseteq Nat \ {0}

NoEntry == [mac |-> 0, expired |-> TRUE]
Caches == [entries : [Addresses -> [mac : Macs \cup {0}, expired : BOOLEAN]],
           hi : Nat, lo : Nat, mac : Macs \cup {0}]

NewCache == [entries |-> [a \in Addresses |-> NoEntry], hi |-> 0, lo |-> 0, mac |-> 0]

\* The stores of insert and of insert_if_changed, in order: for an IPv6
\* address StoreHi, then StoreLo, StoreMac and the map under its lock.
StoreHi(c, ip) == [c EXCEPT !.hi = ip[1]]
StoreLo(c, ip) == [c EXCEPT !.lo = ip[2]]
StoreMac(c, mac) == [c EXCEPT !.mac = mac]
InsertEntry(c, ip, mac) == [c EXCEPT !.entries[ip] = [mac |-> mac, expired |-> FALSE]]

\* insert_if_changed returns early when the fast pair already says so.
Unchanged(c, ip, mac) == c.hi = ip[1] /\ c.lo = ip[2] /\ c.mac = mac

\* remove: the fast pair is cleared word by word when it was of the removed
\* address.
FastIs(c, ip) == c.lo = ip[2]
ClearLo(c) == [c EXCEPT !.lo = 0]
ClearMac(c) == [c EXCEPT !.mac = 0]
RemoveEntry(c, ip) == [c EXCEPT !.entries[ip] = NoEntry]

\* lookup: the fast address, then the fast MAC, otherwise the map.
FastHit(c, ip) == c.lo # 0 /\ c.lo = ip[2]
FastHit6(hi, c, ip) == (hi # 0 \/ c.lo # 0) /\ hi = ip[1] /\ c.lo = ip[2]
is_expired(e) == e.expired
SlowHit(c, ip) == c.entries[ip].mac # 0 /\ ~is_expired(c.entries[ip])

purge_expired(c) ==
  [c EXCEPT !.entries = [a \in Addresses |-> IF is_expired(@[a]) THEN NoEntry ELSE @[a]]]
Age(c, ip) == [c EXCEPT !.entries[ip].expired = TRUE]
=============================================================================
