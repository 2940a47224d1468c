-------------------------------- MODULE IPv4Ops --------------------------------
(***************************************************************************)
(* The Internet checksum (src/minnow/util/checksum.hh) and what it guards: *)
(* the IPv4 header (ipv4_header.cc).  A header is a record with the fields *)
(* src, dst, ttl and cksum; the fields that are the same in all datagrams  *)
(* add nothing to the sum.                                                 *)
(***************************************************************************)
EXTENDS Naturals

\* InternetChecksum::value: 16-bit words added with the carry around, and
\* complemented.
CarryAround(sum) == IF sum = 0 THEN 0 ELSE ((sum - 1) % 65535) + 1
Checksum(sum) == 65535 - CarryAround(sum)

TwoWords(n) == (n \div 65536) + (n % 65536)

\* pseudo_checksum: what the addresses add to the checksum of a segment.
PseudoSum(d) == TwoWords(d.src) + TwoWords(d.dst)
HeaderSum(d) == 256 * d.ttl + PseudoSum(d)

\* compute_checksum
WithChecksum(d) == [d EXCEPT !.cksum = Checksum(HeaderSum(d))]

\* IPv4Header::parse finds no error.
HeaderParses(d) == d.cksum = Checksum(HeaderSum(d))
================================================================================
