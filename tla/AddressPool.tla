----------------------------- MODULE AddressPool -----------------------------
(***************************************************************************)
(* GstRTSPAddressPool (rtsp-address-pool.c): the addresses and ports the   *)
(* server may send from (unicast) or to (multicast).                       *)
(*                                                                         *)
(* A range is a block of consecutive addresses, each with the same ports.  *)
(* An address is a number of `size' bytes; a byte has BYTE values.  Taking *)
(* an address out of a range splits it, and what is left goes back to the  *)
(* head of the free list; releasing does not merge.                        *)
(***************************************************************************)
EXTENDS Integers, Sequences, FiniteSets, SequencesExt

CONSTANTS
    BYTE,           \* values of a byte
    SIZE4, SIZE6,   \* bytes of an IPv4 and of an IPv6 address
    Multicast,      \* the multicast addresses, as <<size, number>>
    Offered,        \* the ranges the application tries to add
    Wanted,         \* the addresses reserve_address is asked for
    Flags,          \* the flags acquire_address is called with
    PortCounts,     \* the numbers of ports asked for
    MaxAdds,        \* bound: successful calls of add_range
    MaxRanges       \* bound: ranges the pool is split into

\* Addr and AddrRange
AddrRange ==
    [size : {SIZE4, SIZE6}, min : Nat, max : Nat,
     min_port : Nat, max_port : Nat, ttl : Nat]

ASSUME AddressPoolAssumption ==
    /\ BYTE \in Nat \ {0, 1}
    /\ SIZE4 \in Nat \ {0}
    /\ SIZE6 \in Nat \ {0, SIZE4}
    /\ Offered \subseteq AddrRange
    /\ \A r \in Offered : r.max < BYTE ^ r.size
    \* the guint that carries in inc_address does not overflow
    /\ \A r \in Offered : r.max - r.min + BYTE <= BYTE ^ 4
    /\ \A w \in Wanted : w.size \in {SIZE4, SIZE6} /\ w.a \in Nat /\ w.port \in Nat
    /\ PortCounts \subseteq Nat \ {0}
    /\ MaxAdds \in Nat
    /\ MaxRanges \in Nat

\* What the provers do not know of powers.
ASSUME PowersAssumption ==
    /\ BYTE ^ 0 = 1
    /\ \A k \in 0 .. SIZE4 + SIZE6 : BYTE ^ k > 0 /\ BYTE ^ (k + 1) = BYTE * BYTE ^ k

VARIABLES
    addresses,      \* the list of free ranges
    allocated,      \* the list of ranges that are taken
    has_unicast_addresses,
    clearing,       \* clear found nothing allocated, before it takes the lock
    owned,          \* every address and port in the pool (history)
    added           \* successful calls of add_range (history)

rangeVars == <<addresses, allocated, has_unicast_addresses, clearing, owned, added>>

\* The addresses and ports a range stands for.
Points(r) == {r.size} \X (r.min .. r.max) \X (r.min_port .. r.max_port)

RangesTypeOK ==
    /\ addresses \in Seq(AddrRange) /\ allocated \in Seq(AddrRange)
    /\ \A i \in DOMAIN addresses : addresses[i].min <= addresses[i].max
    /\ has_unicast_addresses \in BOOLEAN
    /\ clearing \in BOOLEAN
    /\ owned \subseteq {SIZE4, SIZE6} \X Nat \X Nat
    /\ added \in Nat

RangesInit ==
    /\ addresses = <<>>
    /\ allocated = <<>>
    /\ has_unicast_addresses = FALSE
    /\ clearing = FALSE
    /\ owned = {}
    /\ added = 0

-----------------------------------------------------------------------------
\* gst_rtsp_address_pool_add_range

\* fill_address fails when the kind of the address and the ttl disagree.
fill_address(size, a, ttl) == (<<size, a>> \in Multicast) <=> (ttl # 0)

valid_range(r) ==
    /\ r.min_port <= r.max_port
    /\ fill_address(r.size, r.min, r.ttl)
    /\ fill_address(r.size, r.max, r.ttl)
    /\ r.min <= r.max

\* The application adds an address and port once.
add_range(r) ==
    /\ added < MaxAdds
    /\ valid_range(r)
    /\ Points(r) \cap owned = {}
    /\ addresses' = <<r>> \o addresses
    /\ has_unicast_addresses' = (has_unicast_addresses \/ r.ttl = 0)
    /\ owned' = owned \cup Points(r)
    /\ added' = added + 1
    /\ UNCHANGED <<allocated, clearing>>

\* gst_rtsp_address_pool_clear looks at the allocated list without the lock.
clear ==
    /\ ~clearing
    /\ allocated = <<>>
    /\ clearing' = TRUE
    /\ UNCHANGED <<addresses, allocated, has_unicast_addresses, owned, added>>

clear_locked ==
    /\ clearing
    /\ clearing' = FALSE
    /\ addresses' = <<>>
    /\ owned' = UNION {Points(allocated[i]) : i \in DOMAIN allocated}
    /\ UNCHANGED <<allocated, has_unicast_addresses, added>>

-----------------------------------------------------------------------------
\* Splitting a range.

\* One turn of the loop, with the byte at the end of rest.
Turn(x, i, carry) ==
    [low |-> x.low + ((x.carry + (x.rest % BYTE)) % BYTE) * BYTE ^ i,
     carry |-> carry,
     rest |-> x.rest \div BYTE]

AddByteAlone(x, i) == Turn(x, i, 0)

AddByte(x, i) == Turn(x, i, (x.carry + (x.rest % BYTE)) \div BYTE)

\* Byte after byte from the last one; the loop may stop where nothing is
\* carried, since the bytes that are left stay as they are.
inc_address(a, size, count) ==
    LET turn[i \in 0 .. size] ==
            IF i = 0 THEN [low |-> 0, carry |-> count, rest |-> a]
            ELSE AddByte(turn[i - 1], i - 1)
    IN  turn[size].low

\* One byte after the other, in a guint of 4 bytes; an intermediate result
\* that the next shift would push out of it is returned as it is.
diff_address(max, min, size) ==
    LET Prefix(a, k) == a \div BYTE ^ (size - k)
        result(k) == Prefix(max, k) - Prefix(min, k)
        overflow == {k \in 0 .. size - 1 : result(k) >= BYTE ^ 3}
    IN  IF overflow = {} THEN result(size) ELSE result(Min(overflow))

\* The block that is taken, and what is left in the order of the free list.
split_range(r, skip_addr, skip_port, n_ports) ==
    LET When(b, x) == IF b THEN <<x>> ELSE <<>>
        below == When(skip_addr # 0,
                      [r EXCEPT !.max = inc_address(r.min, r.size, skip_addr - 1)])
        r1 == [r EXCEPT !.min = inc_address(r.min, r.size, skip_addr)]
        above == When(r1.min # r1.max,
                      [r1 EXCEPT !.min = inc_address(r1.min, r.size, 1)])
        r2 == [r1 EXCEPT !.max = r1.min]
        low == When(skip_port > 0, [r2 EXCEPT !.max_port = r2.min_port + skip_port - 1])
        r3 == [r2 EXCEPT !.min_port = r2.min_port + skip_port]
        more == r3.max_port - r3.min_port + 1 > n_ports
        high == When(more, [r3 EXCEPT !.min_port = r3.min_port + n_ports])
    IN  [taken |-> IF more THEN [r3 EXCEPT !.max_port = r3.min_port + n_ports - 1]
                   ELSE r3,
         left  |-> high \o low \o above \o below]

-----------------------------------------------------------------------------
\* gst_rtsp_address_pool_acquire_address

EvenIgnored(r, flags) == 0

\* The port to skip so that the first one is even.
skip_to_even(r, flags) ==
    IF "even" \in flags /\ r.min_port % 2 = 1 THEN 1 ELSE 0

Suits(r, flags, n_ports) ==
    /\ "ipv4" \in flags => r.size = SIZE4
    /\ "ipv6" \in flags => r.size = SIZE6
    /\ "multicast" \in flags => r.ttl # 0
    /\ "unicast" \in flags => r.ttl = 0
    /\ r.max_port - r.min_port + 1 - skip_to_even(r, flags) >= n_ports

\* The first range that suits is taken out of the free list and split.
Take(i, skip_addr, skip_port, n_ports) ==
    LET split == split_range(addresses[i], skip_addr, skip_port, n_ports)
    IN  /\ Len(addresses) + Len(allocated) + Len(split.left) <= MaxRanges
        /\ addresses' = split.left \o RemoveAt(addresses, i)
        /\ allocated' = <<split.taken>> \o allocated

acquire_address(flags, n_ports) ==
    LET i == SelectInSeq(addresses, LAMBDA r : Suits(r, flags, n_ports))
    IN  /\ i # 0
        /\ Take(i, 0, skip_to_even(addresses[i], flags), n_ports)
        /\ UNCHANGED <<has_unicast_addresses, clearing, owned, added>>

\* gst_rtsp_address_free of the original: its range is free again.
release_address(i) ==
    /\ i \in DOMAIN allocated
    /\ allocated' = RemoveAt(allocated, i)
    /\ addresses' = <<allocated[i]>> \o addresses
    /\ UNCHANGED <<has_unicast_addresses, clearing, owned, added>>

-----------------------------------------------------------------------------
\* gst_rtsp_address_pool_reserve_address

find_address_in_ranges(ranges, w, n_ports) ==
    SelectInSeq(ranges, LAMBDA r : /\ r.size = w.size
                                   /\ r.min <= w.a /\ w.a <= r.max
                                   /\ r.min_port <= w.port
                                   /\ w.port + n_ports - 1 <= r.max_port
                                   /\ r.ttl = w.ttl)

reserve_result(w, n_ports) ==
    IF ~fill_address(w.size, w.a, w.ttl) THEN "EINVAL"
    ELSE IF find_address_in_ranges(addresses, w, n_ports) # 0 THEN "OK"
    ELSE IF find_address_in_ranges(allocated, w, n_ports) # 0 THEN "ERESERVED"
    ELSE "ERANGE"

\* Only an OK changes the pool.
reserve_address(w, n_ports) ==
    LET i == find_address_in_ranges(addresses, w, n_ports)
    IN  /\ reserve_result(w, n_ports) = "OK"
        /\ Take(i, diff_address(w.a, addresses[i].min, w.size),
                w.port - addresses[i].min_port, n_ports)
        /\ UNCHANGED <<has_unicast_addresses, clearing, owned, added>>

-----------------------------------------------------------------------------
RangesNext ==
    \/ \E r \in Offered : add_range(r)
    \/ clear
    \/ clear_locked
    \/ \E n \in PortCounts :
         \/ \E f \in Flags : acquire_address(f, n)
         \/ \E w \in Wanted : reserve_address(w, n)
    \/ \E i \in 1 .. Len(allocated) : release_address(i)

RangesSpec == RangesInit /\ [][RangesNext]_rangeVars

-----------------------------------------------------------------------------
\* Properties.

Everything == allocated \o addresses

(* No address and port is in two ranges, taken or free: the pool never     *)
(* gives one to two streams, however ranges are split and released.        *)
Disjoint ==
    \A i, j \in DOMAIN Everything :
        i # j => Points(Everything[i]) \cap Points(Everything[j]) = {}

(* No address and port is lost or invented by a split or a release.        *)
Conserved == UNION {Points(Everything[i]) : i \in DOMAIN Everything} = owned

(* A range in the pool has only addresses of the kind its ttl says, so an  *)
(* address that acquire gives out is multicast or unicast as asked for.    *)
KindKept ==
    \A i \in DOMAIN Everything :
        <<Everything[i].size, Everything[i].min>> \in Multicast <=> Everything[i].ttl # 0

(* acquire gives out one address with exactly the ports asked for, the     *)
(* first one even if that was asked for, and an address of the family and   *)
(* of the kind that was asked for.                                          *)
AcquireFits ==
    [][\A f \in Flags, n \in PortCounts :
         acquire_address(f, n) =>
           LET r == allocated'[1]
           IN  /\ r.min = r.max
               /\ r.max_port - r.min_port + 1 = n
               /\ "even" \in f => r.min_port % 2 = 0
               /\ "ipv4" \in f => r.size = SIZE4
               /\ "ipv6" \in f => r.size = SIZE6
               /\ "multicast" \in f => <<r.size, r.min>> \in Multicast
               /\ "unicast" \in f => <<r.size, r.min>> \notin Multicast]_rangeVars

(* reserve takes "a specific address and ports": the block it returns with *)
(* OK is the one that was asked for.                                       *)
ReserveExact ==
    [][\A w \in Wanted, n \in PortCounts :
         reserve_address(w, n) =>
           LET r == allocated'[1]
           IN  /\ r.min = w.a /\ r.max = w.a
               /\ r.min_port = w.port
               /\ r.max_port = w.port + n - 1]_rangeVars

(* However ranges are split, reserved, released and cleared, the free and   *)
(* the taken ones are a partition of what was added: no address and port is *)
(* in two, none is lost, and each range keeps its kind.                     *)
RangesTracked ==
    /\ RangesTypeOK
    /\ Disjoint
    /\ Conserved
    /\ KindKept

(* What acquire and reserve take out of a range is what they were asked for.*)
AnswersFit ==
    /\ AcquireFits
    /\ ReserveExact
=============================================================================
