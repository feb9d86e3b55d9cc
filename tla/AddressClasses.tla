--------------------------- MODULE AddressClasses ---------------------------
(***************************************************************************)
(* Which addresses Cloudflare is not asked to proxy: isPrivateIP and its   *)
(* helpers (reconcile.go), on the sixteen octets of a parsed net.IP, where *)
(* an IPv4 address has the prefix ::ffff.                                  *)
(***************************************************************************)
EXTENDS Integers

Octet == 0 .. 255

Address4 == [1 .. 4 -> Octet]

Address == [1 .. 16 -> Octet]

\* net.IP.To4 has a result, and what it is.
HasTo4(ip) == (\A i \in 1 .. 10 : ip[i] = 0) /\ ip[11] = 255 /\ ip[12] = 255

To4(ip) == [i \in 1 .. 4 |-> ip[12 + i]]

\* net.ParseIP of an address written with dots.
FromTo4(ip4) ==
  [i \in 1 .. 16 |-> IF i <= 10 THEN 0 ELSE IF i <= 12 THEN 255 ELSE ip4[i - 12]]

----------------------------------------------------------------------------
(* net.IP's own classes, for IPv4 and for IPv6.                            *)

IsPrivate(ip4) ==
  \/ ip4[1] = 10
  \/ ip4[1] = 172 /\ ip4[2] \div 16 = 1
  \/ ip4[1] = 192 /\ ip4[2] = 168

IsLoopback(ip4) == ip4[1] = 127

IsLinkLocalUnicast(ip4) == ip4[1] = 169 /\ ip4[2] = 254

IsLinkLocalMulticast(ip4) == ip4[1] = 224 /\ ip4[2] = 0 /\ ip4[3] = 0

IsLoopback6(ip) == ip[16] = 1 /\ \A i \in 1 .. 15 : ip[i] = 0

IsLinkLocalUnicast6(ip) == ip[1] = 254 /\ ip[2] \div 64 = 2

\* IsMulticast; IsLinkLocalMulticast is a part of it.
IsMulticast6(ip) == ip[1] = 255

----------------------------------------------------------------------------

IsCGNAT(ip4) == ip4[1] = 100 /\ ip4[2] >= 64 /\ ip4[2] <= 127

\* ip[0]&0xfe == 0xfc: the lowest bit does not count.
IsULA(ip) == ip[1] - (ip[1] % 2) = 252

\* What does not parse counts as private.
IsPrivateIP(ip) ==
  IF ip \notin Address THEN TRUE
  ELSE IF HasTo4(ip)
       THEN LET ip4 == To4(ip)
            IN  \/ IsPrivate(ip4) \/ IsLoopback(ip4) \/ IsLinkLocalUnicast(ip4)
                \/ IsLinkLocalMulticast(ip4) \/ IsCGNAT(ip4)
       ELSE IsLoopback6(ip) \/ IsLinkLocalUnicast6(ip) \/ IsMulticast6(ip) \/ IsULA(ip)

=============================================================================
