----------------------- MODULE AddressClassesProofs -----------------------
(***************************************************************************)
(* isPrivateIP looks at single octets; the blocks it stands for are ranges *)
(* of numbers.  Here the two are shown to be the same, edges included.     *)
(***************************************************************************)
EXTENDS AddressClasses, TLAPS

\* The first half of an IPv4 address as one number.
Half(ip4) == 256 * ip4[1] + ip4[2]

\* The halves from a.b up to, and without, c.d.
Block(a, b, c, d) == 256 * a + b .. 256 * c + d - 1

\* 100.64.0.0/10, 10.0.0.0/8, 172.16.0.0/12, 192.168.0.0/16, 127.0.0.0/8,
\* 169.254.0.0/16, and 224.0.0.0/24, the multicast of the link.
Unproxied(ip4) ==
  \/ Half(ip4) \in Block(100, 64, 100, 128) \cup Block(10, 0, 11, 0)
                   \cup Block(172, 16, 172, 32) \cup Block(192, 168, 192, 169)
                   \cup Block(127, 0, 128, 0) \cup Block(169, 254, 169, 255)
  \/ Half(ip4) \in Block(224, 0, 224, 1) /\ ip4[3] = 0

LEMMA Octets ==
  ASSUME NEW ip4 \in Address4
  PROVE  ip4[1] \in 0 .. 255 /\ ip4[2] \in 0 .. 255
BY DEF Address4, Octet

\* isCGNAT holds exactly in 100.64.0.0/10, up to both of its edges (RFC 6598,
\* the range Tailscale hands out).
THEOREM CarrierBlock ==
  ASSUME NEW ip4 \in Address4
  PROVE  IsCGNAT(ip4) <=> Half(ip4) \in Block(100, 64, 100, 128)
<1> DEFINE a == ip4[1]
           b == ip4[2]
           n == Half(ip4)
<1>1. a \in 0 .. 255 /\ b \in 0 .. 255 /\ n = 256 * a + b
  BY Octets DEF Half
<1>2. n \in Block(100, 64, 100, 128) <=> a = 100 /\ b >= 64 /\ b <= 127
  <2> HIDE DEF a, b, n
  <2> QED BY <1>1 DEF Block
<1> QED BY <1>2 DEF IsCGNAT

\* An IPv4 address is not proxied exactly when it lies in one of the reserved
\* blocks, however the address was written.
THEOREM PrivateBlocks ==
  ASSUME NEW ip4 \in Address4
  PROVE  IsPrivateIP(FromTo4(ip4)) <=> Unproxied(ip4)
<1> DEFINE ip == FromTo4(ip4)
<1>1. ip \in Address /\ HasTo4(ip)
  <2>1. \A i \in 1 .. 16 : ip[i] = IF i <= 10 THEN 0 ELSE IF i <= 12 THEN 255 ELSE ip4[i - 12]
    BY DEF FromTo4
  <2>2. \A i \in 13 .. 16 : ip4[i - 12] \in Octet
    BY DEF Address4
  <2>3. ip = [i \in 1 .. 16 |-> ip[i]]
    BY DEF FromTo4
  <2>4. \A i \in 1 .. 16 : ip[i] \in Octet
    BY <2>1, <2>2 DEF Octet
  <2> HIDE DEF ip
  <2>5. ip \in Address
    BY <2>3, <2>4 DEF Address
  <2>6. HasTo4(ip)
    BY <2>1 DEF HasTo4
  <2> QED BY <2>5, <2>6
<1>2. To4(ip)[1] = ip4[1] /\ To4(ip)[2] = ip4[2] /\ To4(ip)[3] = ip4[3] /\ To4(ip)[4] = ip4[4]
  BY DEF To4, FromTo4
<1>3. IsPrivateIP(ip) <=>
        \/ ip4[1] = 10 \/ (ip4[1] = 172 /\ ip4[2] >= 16 /\ ip4[2] <= 31)
        \/ (ip4[1] = 192 /\ ip4[2] = 168) \/ ip4[1] = 127
        \/ (ip4[1] = 169 /\ ip4[2] = 254) \/ (ip4[1] = 224 /\ ip4[2] = 0 /\ ip4[3] = 0)
        \/ (ip4[1] = 100 /\ ip4[2] >= 64 /\ ip4[2] <= 127)
  <2>1. ip4[2] \div 16 = 1 <=> ip4[2] >= 16 /\ ip4[2] <= 31
    BY Octets
  <2> HIDE DEF ip
  <2> QED BY <1>1, <1>2, <2>1 DEF IsPrivateIP, IsPrivate, IsLoopback, IsLinkLocalUnicast,
                                  IsLinkLocalMulticast, IsCGNAT
<1> DEFINE a == ip4[1]
           b == ip4[2]
           n == Half(ip4)
<1>4. a \in 0 .. 255 /\ b \in 0 .. 255 /\ n = 256 * a + b
  BY Octets DEF Half
<1> HIDE DEF a, b, n
<1>5. n \in Block(100, 64, 100, 128) <=> a = 100 /\ b >= 64 /\ b <= 127
  BY <1>4 DEF Block
<1>6. n \in Block(10, 0, 11, 0) <=> a = 10
  BY <1>4 DEF Block
<1>7. n \in Block(172, 16, 172, 32) <=> a = 172 /\ b >= 16 /\ b <= 31
  BY <1>4 DEF Block
<1>8. n \in Block(192, 168, 192, 169) <=> a = 192 /\ b = 168
  BY <1>4 DEF Block
<1>9. n \in Block(127, 0, 128, 0) <=> a = 127
  BY <1>4 DEF Block
<1>10. n \in Block(169, 254, 169, 255) <=> a = 169 /\ b = 254
  BY <1>4 DEF Block
<1>11. n \in Block(224, 0, 224, 1) <=> a = 224 /\ b = 0
  BY <1>4 DEF Block
<1> QED BY <1>3, <1>5, <1>6, <1>7, <1>8, <1>9, <1>10, <1>11 DEF Unproxied, a, b, n

\* isULA's mask takes in all of fc00::/7 and nothing else: of the two values
\* of the first octet one is Tailscale's fd7a:115c:a1e0::/48.
THEOREM UniqueLocalBlock ==
  ASSUME NEW ip \in Address
  PROVE  /\ IsULA(ip) <=> ip[1] \in {252, 253}
         /\ ip[1] = 253 /\ ip[2] = 122 => IsPrivateIP(ip)
<1>1. ip[1] \in 0 .. 255
  BY DEF Address, Octet
<1>2. IsULA(ip) <=> ip[1] \in {252, 253}
  BY <1>1 DEF IsULA
<1>3. ip[1] = 253 => ~HasTo4(ip)
  BY DEF HasTo4
<1> QED BY <1>2, <1>3 DEF IsPrivateIP

============================================================================
