-------------------------------- MODULE MCPools --------------------------------
(* Instances of ThreadPool and of AddressPool for TLC: the pools share        *)
(* nothing, so a behaviour is one of the first or one of the second.          *)
(* Bytes have 2 values, so IPv4 has 2 and IPv6 3 bits; the upper half of each *)
(* family is multicast.                                                       *)
EXTENDS ThreadPool, AddressPool

CONSTANTS u1, u2, t1, t2, MinPort, MaxPort

VARIABLE which

MCMulticast ==
    {<<SIZE4, a>> : a \in BYTE ^ (SIZE4 - 1) .. BYTE ^ SIZE4 - 1}
    \cup {<<SIZE6, a>> : a \in BYTE ^ (SIZE6 - 1) .. BYTE ^ SIZE6 - 1}

Block(size, min, max, ttl) ==
    [size |-> size, min |-> min, max |-> max,
     min_port |-> MinPort, max_port |-> MaxPort, ttl |-> ttl]

\* Valid ranges, one that starts as unicast and ends as multicast, and one
\* whose addresses are the wrong way round.
MCOffered ==
    {Block(SIZE4, 0, 1, 0), Block(SIZE4, 2, 3, 5), Block(SIZE6, 4, 6, 5),
     Block(SIZE4, 1, 2, 5), Block(SIZE4, 1, 0, 0)}

MCWanted ==
    [size : {SIZE4}, a : {1, 2}, port : MinPort .. MaxPort, ttl : {0, 5}]
    \cup [size : {SIZE6}, a : {5}, port : {MinPort}, ttl : {5}]

MCFlags == {{"ipv4"}, {"ipv6", "even"}, {"unicast", "even"}, {"multicast"}}

PoolsInit == Init /\ RangesInit /\ which \in {"threads", "addresses"}

PoolsNext ==
    \/ which = "threads" /\ Next /\ UNCHANGED <<rangeVars, which>>
    \/ which = "addresses" /\ RangesNext /\ UNCHANGED <<vars, which>>

PoolsSpec == PoolsInit /\ [][PoolsNext]_<<vars, rangeVars, which>> /\ Fairness
================================================================================
