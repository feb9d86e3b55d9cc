--------------------------- MODULE StartupProofs ---------------------------
(***************************************************************************)
(* What the adapter, the registry, the detection and the answer of a load  *)
(* promise for any files, hosts, zones and numbers of handlers, from what  *)
(* the operators of RecordNames promise for names of any length.           *)
(***************************************************************************)
EXTENDS Startup, SubsequencesProofs

----------------------------------------------------------------------------
(* Record names of any length, and the zone a host is assigned to.         *)

\* The labels in front of the zone and the zone make up the name: Strip is
\* the slice host[:len(host)-len(zone)] of recordName.
LEMMA StripThenZone ==
  ASSUME NEW L, NEW name \in Seq(L), NEW zone \in Seq(L), Under(name, zone)
  PROVE  /\ Strip(name, zone) \in Seq(L)
         /\ Len(Strip(name, zone)) = Len(name) - Len(zone)
         /\ name = Strip(name, zone) \o zone
<1> DEFINE k == Len(name) - Len(zone)
<1>1. k \in 0 .. Len(name)
  BY DEF Under
<1>2. SubSeq(name, 1, k) \o SubSeq(name, k + 1, Len(name)) = SubSeq(name, 1, Len(name))
  <2>1. 1 \in 1 .. Len(name) + 1
    OBVIOUS
  <2>2. k \in 1 - 1 .. Len(name)
    BY <1>1
  <2>3. Len(name) \in k .. Len(name)
    BY <1>1
  <2> HIDE DEF k
  <2> QED BY ONLY <2>1, <2>2, <2>3, ConcatAdjacentSubSeq, name \in Seq(L), Zenon
<1>3. SubSeq(name, 1, Len(name)) = name
  BY SubSeqFull
<1>4. SubSeq(name, k + 1, Len(name)) = zone
  BY DEF Under
<1>5. name = Strip(name, zone) \o zone
  BY <1>2, <1>3, <1>4 DEF Strip
<1>6. Strip(name, zone) \in Seq(L) /\ Len(Strip(name, zone)) = k
  BY <1>1 DEF Strip
<1> QED BY <1>5, <1>6

\* The other way round: a name completed with the zone is under it, and the
\* zone strips off again.
LEMMA ZoneThenStrip ==
  ASSUME NEW L, NEW rel \in Seq(L), NEW zone \in Seq(L)
  PROVE  /\ rel \o zone \in Seq(L)
         /\ Under(rel \o zone, zone)
         /\ Strip(rel \o zone, zone) = rel
<1> DEFINE full == rel \o zone
           tail == SubSeq(full, Len(rel) + 1, Len(full))
           head == SubSeq(full, 1, Len(rel))
<1>1. /\ full \in Seq(L)
      /\ Len(full) = Len(rel) + Len(zone)
      /\ \A i \in 1 .. Len(rel) + Len(zone) :
           full[i] = IF i <= Len(rel) THEN rel[i] ELSE zone[i - Len(rel)]
  BY ConcatProperties
<1> HIDE DEF full
<1>2. \A i \in 1 .. Len(full) : full[i] \in L
  BY <1>1
<1>3. tail = zone
  <2>1. tail \in Seq(L) /\ Len(tail) = Len(zone)
    BY <1>1
  <2>2. \A i \in 1 .. Len(zone) : tail[i] = full[Len(rel) + i]
    BY <1>1
  <2>3. \A i \in 1 .. Len(zone) : full[Len(rel) + i] = zone[i]
    BY <1>1
  <2> HIDE DEF tail
  <2> QED BY <2>1, <2>2, <2>3, SeqEqual
<1>4. head = rel
  <2>1. head \in Seq(L) /\ Len(head) = Len(rel)
    BY <1>1
  <2>2. \A i \in 1 .. Len(rel) : head[i] = rel[i]
    BY <1>1
  <2> HIDE DEF head
  <2> QED BY <2>1, <2>2, SeqEqual
<1>5. Len(full) - Len(zone) = Len(rel)
  BY <1>1
<1> QED BY <1>1, <1>3, <1>4, <1>5 DEF Under, Strip, full

LEMMA ApexUnderNothing ==
  ASSUME NEW L, NEW zone \in Seq(L), zone # Apex
  PROVE  ~Under(Apex, zone)
BY EmptySeq DEF Under, Apex

\* recordName strips the zone, and of the zone itself leaves the apex.
LEMMA RecordNameStrips ==
  ASSUME NEW L, NEW host \in Seq(L), NEW zone \in Seq(L), Under(host, zone)
  PROVE  /\ RecordName(host, zone) \in Seq(L)
         /\ RecordName(host, zone) = Strip(host, zone)
         /\ host = RecordName(host, zone) \o zone
<1>1. CASE host = zone
  <2>1. Strip(zone, zone) = Apex
    BY SubSeqEmpty DEF Strip, Apex
  <2> QED BY <1>1, <2>1, ConcatEmptySeq, EmptySeq DEF RecordName, Apex
<1>2. CASE host # zone
  BY <1>2, StripThenZone DEF RecordName
<1> QED BY <1>1, <1>2

----------------------------------------------------------------------------

\* The two forms of a name meet (canonicalNameKey's comment: "both must map to
\* the same key"): the record Cloudflare makes of the relative name the plugin
\* sends is listed under the key the host is looked up by, whatever the name.
THEOREM FormsMeet ==
  ASSUME NEW L, NEW host \in Seq(L), NEW zone \in Seq(L), zone # Apex, Under(host, zone)
  PROVE  CanonicalNameKey(Fqdn(RecordName(host, zone), zone), zone) = Key(host, zone)
<1> DEFINE rel == RecordName(host, zone)
<1>1. rel \in Seq(L)
  BY RecordNameStrips
<1> HIDE DEF rel
<1>2. CASE rel = Apex
  BY <1>2, ApexUnderNothing DEF Fqdn, CanonicalNameKey, Key, rel
<1>3. CASE rel # Apex /\ Under(rel, zone)
  BY <1>3 DEF Fqdn, CanonicalNameKey, Key, rel
<1>4. CASE rel # Apex /\ ~Under(rel, zone)
  <2>1. Fqdn(rel, zone) = rel \o zone
    BY <1>4 DEF Fqdn
  <2>2. rel \o zone # zone
    BY <1>1, <1>4, ConcatEqualIffEmpty DEF Apex
  <2>3. CanonicalNameKey(rel \o zone, zone) = rel
    BY <1>1, <2>2, ZoneThenStrip DEF CanonicalNameKey
  <2>4. Under(zone, zone)
    BY SubSeqFull DEF Under
  <2>5. CanonicalNameKey(rel, zone) = rel
    BY <1>4, <2>4 DEF CanonicalNameKey
  <2> QED BY <2>1, <2>3, <2>5 DEF Key, rel
<1> QED BY <1>2, <1>3, <1>4

\* The record published for a host has the host's name, unless what precedes
\* the zone ends in the zone's name itself.
THEOREM PublishedUnderItsName ==
  ASSUME NEW L, NEW host \in Seq(L), NEW zone \in Seq(L), Under(host, zone),
         ~Doubled(host, zone)
  PROVE  Fqdn(RecordName(host, zone), zone) = host
<1> DEFINE rel == RecordName(host, zone)
<1>1. host = rel \o zone
  BY RecordNameStrips
<1>2. CASE rel = Apex
  BY <1>1, <1>2, ConcatEmptySeq DEF Fqdn, Apex
<1>3. CASE rel # Apex
  BY <1>1, <1>3 DEF Fqdn, Doubled
<1> QED BY <1>2, <1>3

\* Different hosts of a zone never share a key, so no host's pass works on the
\* records of another one (the byName map and the managed marks).
THEOREM KeysTellHostsApart ==
  ASSUME NEW L, NEW zone \in Seq(L), zone # Apex,
         NEW host \in Seq(L), Under(host, zone), ~Doubled(host, zone),
         NEW other \in Seq(L), Under(other, zone), ~Doubled(other, zone),
         Key(host, zone) = Key(other, zone)
  PROVE  host = other
<1>1. Under(zone, zone)
  BY SubSeqFull DEF Under
<1>2. Key(host, zone) = RecordName(host, zone)
  BY <1>1 DEF Key, CanonicalNameKey, Doubled
<1>3. Key(other, zone) = RecordName(other, zone)
  BY <1>1 DEF Key, CanonicalNameKey, Doubled
<1>4. host = RecordName(host, zone) \o zone
  BY RecordNameStrips, Zenon
<1>5. other = RecordName(other, zone) \o zone
  BY RecordNameStrips, Zenon
<1> QED BY <1>2, <1>3, <1>4, <1>5

\* Nor do the full names that a listing of the zone may hold, doubled or not:
\* prune never takes one record for another.
THEOREM ListedNamesApart ==
  ASSUME NEW L, NEW zone \in Seq(L),
         NEW name \in Seq(L), Under(name, zone),
         NEW other \in Seq(L), Under(other, zone),
         CanonicalNameKey(name, zone) = CanonicalNameKey(other, zone)
  PROVE  name = other
<1>1. \A n \in Seq(L) : Under(n, zone) => CanonicalNameKey(n, zone) = Strip(n, zone)
  <2> SUFFICES ASSUME NEW n \in Seq(L), Under(n, zone)
               PROVE  CanonicalNameKey(n, zone) = Strip(n, zone)
    OBVIOUS
  <2>1. CASE n = zone
    <3>1. Strip(zone, zone) = Apex
      BY SubSeqEmpty DEF Strip, Apex
    <3> QED BY <2>1, <3>1 DEF CanonicalNameKey
  <2>2. CASE n # zone
    BY <2>2 DEF CanonicalNameKey
  <2> QED BY <2>1, <2>2
<1>2. name = Strip(name, zone) \o zone
  BY StripThenZone, Zenon
<1>3. other = Strip(other, zone) \o zone
  BY StripThenZone, Zenon
<1>4. Strip(name, zone) = Strip(other, zone)
  BY <1>1
<1> QED BY <1>2, <1>3, <1>4

----------------------------------------------------------------------------
(* The adapter's folds.                                                    *)

\* The fold over the global block has a solution, so it has its recursion.
LEMMA GlobalReadIs ==
  ASSUME NEW lines, Len(lines) \in Nat
  PROVE  LET read == GlobalRead(lines)
         IN  /\ read[0] = NewApp
             /\ \A n \in 1 .. Len(lines) : read[n] = ReadGlobal(read[n - 1], lines[n])
<1> DEFINE next(f, n) == IF n = 0 THEN NewApp ELSE ReadGlobal(f[n - 1], lines[n])
<1> DEFINE Solved(n) == \E f : f = [i \in 0 .. n |-> next(f, i)]
<1> DEFINE bad == {n \in 0 .. Len(lines) : ~Solved(n)}
<1>1. ASSUME bad # {}
      PROVE  FALSE
  <2>1. PICK n \in bad : \A m \in bad : n <= m
    <3>1. bad \in SUBSET Nat
      OBVIOUS
    <3> HIDE DEF bad
    <3> QED BY <1>1, <3>1, Least
  <2>2. n \in Nat /\ n <= Len(lines) /\ ~Solved(n)
    BY <2>1
  <2>3. CASE n = 0
    <3> DEFINE f == [i \in 0 .. 0 |-> NewApp]
    <3>1. f = [i \in 0 .. 0 |-> next(f, i)]
      OBVIOUS
    <3> QED BY <2>2, <2>3, <3>1
  <2>4. CASE n # 0
    <3>1. n - 1 \in 0 .. Len(lines) /\ ~(n <= n - 1)
      BY <2>2, <2>4
    <3>2. Solved(n - 1)
      BY <2>1, <3>1
    <3>3. PICK f : f = [i \in 0 .. n - 1 |-> next(f, i)]
      BY <3>2
    <3> DEFINE h == [i \in 0 .. n |-> IF i = n THEN ReadGlobal(f[n - 1], lines[n]) ELSE f[i]]
    <3>4. ASSUME NEW i \in 0 .. n
          PROVE  h[i] = next(h, i)
      <4>1. CASE i = n
        <5>1. n - 1 \in 0 .. n /\ n - 1 # n
          BY <2>2, <2>4
        <5>2. h[n - 1] = f[n - 1]
          BY <5>1
        <5> QED BY <2>2, <2>4, <4>1, <5>2
      <4>2. CASE i = 0
        <5>1. 0 \in 0 .. n - 1
          BY <2>2, <2>4
        <5>2. f[0] = next(f, 0)
          BY <3>3, <5>1
        <5> QED BY <2>2, <2>4, <4>2, <5>2
      <4>3. CASE i # 0 /\ i # n
        <5>1. i \in 0 .. n - 1 /\ i - 1 \in 0 .. n /\ i - 1 # n
          BY <2>2, <4>3
        <5>2. f[i] = next(f, i)
          BY <3>3, <5>1
        <5>3. h[i] = f[i] /\ h[i - 1] = f[i - 1]
          BY <4>3, <5>1
        <5> HIDE DEF h
        <5> QED BY <4>3, <5>2, <5>3
      <4> QED BY <4>1, <4>2, <4>3
    <3>5. h = [i \in 0 .. n |-> next(h, i)]
      <4> DEFINE g == [i \in 0 .. n |-> next(h, i)]
      <4> QED BY <3>4
    <3> HIDE DEF h, next
    <3> QED BY <2>2, <3>5
  <2> QED BY <2>3, <2>4
<1>2. Solved(Len(lines))
  <2>1. Len(lines) \in 0 .. Len(lines)
    OBVIOUS
  <2> QED BY <1>1, <2>1
<1> DEFINE read == GlobalRead(lines)
<1>3. read = CHOOSE f : f = [i \in 0 .. Len(lines) |-> next(f, i)]
  BY DEF GlobalRead
<1>4. read = [i \in 0 .. Len(lines) |-> next(read, i)]
  <2> HIDE DEF next, read
  <2> QED BY <1>2, <1>3
<1>5. \A n \in 0 .. Len(lines) : read[n] = next(read, n)
  <2> HIDE DEF next, read
  <2> QED BY <1>4
<1> HIDE DEF read
<1> QED BY <1>5 DEF read

\* And the fold over a site's.
LEMMA HostReadIs ==
  ASSUME NEW scope, NEW lines, Len(lines) \in Nat
  PROVE  LET read == HostRead(scope, lines)
         IN  /\ read[0] = NewHost
             /\ \A n \in 1 .. Len(lines) : read[n] = ReadHostLine(scope, read[n - 1], lines[n])
<1> DEFINE next(f, n) == IF n = 0 THEN NewHost ELSE ReadHostLine(scope, f[n - 1], lines[n])
<1> DEFINE Solved(n) == \E f : f = [i \in 0 .. n |-> next(f, i)]
<1> DEFINE bad == {n \in 0 .. Len(lines) : ~Solved(n)}
<1>1. ASSUME bad # {}
      PROVE  FALSE
  <2>1. PICK n \in bad : \A m \in bad : n <= m
    <3>1. bad \in SUBSET Nat
      OBVIOUS
    <3> HIDE DEF bad
    <3> QED BY <1>1, <3>1, Least
  <2>2. n \in Nat /\ n <= Len(lines) /\ ~Solved(n)
    BY <2>1
  <2>3. CASE n = 0
    <3> DEFINE f == [i \in 0 .. 0 |-> NewHost]
    <3>1. f = [i \in 0 .. 0 |-> next(f, i)]
      OBVIOUS
    <3> QED BY <2>2, <2>3, <3>1
  <2>4. CASE n # 0
    <3>1. n - 1 \in 0 .. Len(lines) /\ ~(n <= n - 1)
      BY <2>2, <2>4
    <3>2. Solved(n - 1)
      BY <2>1, <3>1
    <3>3. PICK f : f = [i \in 0 .. n - 1 |-> next(f, i)]
      BY <3>2
    <3> DEFINE h == [i \in 0 .. n |-> IF i = n THEN ReadHostLine(scope, f[n - 1], lines[n]) ELSE f[i]]
    <3>4. ASSUME NEW i \in 0 .. n
          PROVE  h[i] = next(h, i)
      <4>1. CASE i = n
        <5>1. n - 1 \in 0 .. n /\ n - 1 # n
          BY <2>2, <2>4
        <5>2. h[n - 1] = f[n - 1]
          BY <5>1
        <5> QED BY <2>2, <2>4, <4>1, <5>2
      <4>2. CASE i = 0
        <5>1. 0 \in 0 .. n - 1
          BY <2>2, <2>4
        <5>2. f[0] = next(f, 0)
          BY <3>3, <5>1
        <5> QED BY <2>2, <2>4, <4>2, <5>2
      <4>3. CASE i # 0 /\ i # n
        <5>1. i \in 0 .. n - 1 /\ i - 1 \in 0 .. n /\ i - 1 # n
          BY <2>2, <4>3
        <5>2. f[i] = next(f, i)
          BY <3>3, <5>1
        <5>3. h[i] = f[i] /\ h[i - 1] = f[i - 1]
          BY <4>3, <5>1
        <5> HIDE DEF h
        <5> QED BY <4>3, <5>2, <5>3
      <4> QED BY <4>1, <4>2, <4>3
    <3>5. h = [i \in 0 .. n |-> next(h, i)]
      <4> DEFINE g == [i \in 0 .. n |-> next(h, i)]
      <4> QED BY <3>4
    <3> HIDE DEF h, next
    <3> QED BY <2>2, <3>5
  <2> QED BY <2>3, <2>4
<1>2. Solved(Len(lines))
  <2>1. Len(lines) \in 0 .. Len(lines)
    OBVIOUS
  <2> QED BY <1>1, <2>1
<1> DEFINE read == HostRead(scope, lines)
<1>3. read = CHOOSE f : f = [i \in 0 .. Len(lines) |-> next(f, i)]
  BY DEF HostRead
<1>4. read = [i \in 0 .. Len(lines) |-> next(read, i)]
  <2> HIDE DEF next, read
  <2> QED BY <1>2, <1>3
<1>5. \A n \in 0 .. Len(lines) : read[n] = next(read, n)
  <2> HIDE DEF next, read
  <2> QED BY <1>4
<1> HIDE DEF read
<1> QED BY <1>5 DEF read

----------------------------------------------------------------------------
(* Names.                                                                  *)

\* Lower-case letters.
Lowered(name) ==
  /\ name \in Seq(Labels)
  /\ \A i \in DOMAIN name : Lower[name[i]] = name[i]

\* And no dot at the end: what normalizing leaves alone.
Clean(name) ==
  /\ Lowered(name)
  /\ Len(name) > 0 => name[Len(name)] # ""

LEMMA CleanNormal ==
  ASSUME NEW name, Clean(name)
  PROVE  Normal(name) = name
<1>1. /\ name \in Seq(Labels) /\ Len(name) \in Nat /\ DOMAIN name = 1 .. Len(name)
      /\ ~(Len(name) > 0 /\ name[Len(name)] = "")
  BY LenProperties DEF Clean, Lowered
<1>2. Normal(name) = [i \in 1 .. Len(name) |-> Lower[name[i]]]
  BY <1>1 DEF Normal
<1>3. name = [i \in 1 .. Len(name) |-> name[i]]
  BY <1>1, LenProperties
<1>4. \A i \in 1 .. Len(name) : Lower[name[i]] = name[i]
  BY <1>1 DEF Clean, Lowered
<1> QED BY <1>2, <1>3, <1>4

\* strings.ToLower and TrimSuffix: letters stay lowered, and one dot is gone.
LEMMA NormalIs ==
  ASSUME NEW name \in Seq(Labels)
  PROVE  /\ Lowered(Normal(name))
         /\ ~(Len(name) > 1 /\ name[Len(name)] = "" /\ name[Len(name) - 1] = "")
              => Clean(Normal(name))
<1> DEFINE n == Len(name)
<1> DEFINE dot == n > 0 /\ name[n] = ""
<1> DEFINE kept == IF dot THEN n - 1 ELSE n
<1> DEFINE normal == Normal(name)
<1>1. n \in Nat /\ DOMAIN name = 1 .. n /\ \A i \in 1 .. n : name[i] \in Labels
  BY LenProperties, ElementOfSeq
<1>2. kept \in Nat /\ kept <= n
  <2>1. dot => n > 0
    OBVIOUS
  <2> HIDE DEF dot
  <2> QED BY <1>1, <2>1
<1>3. normal = [i \in 1 .. kept |-> Lower[name[i]]]
  BY DEF Normal
<1>4. dot => kept = n - 1
  OBVIOUS
<1>5. ~dot => kept = n
  OBVIOUS
<1> HIDE DEF kept, normal, n
<1>6. \A i \in 1 .. kept : i \in 1 .. n
  BY <1>1, <1>2
<1>7. \A i \in 1 .. kept : Lower[name[i]] \in Labels
  BY <1>1, <1>6, LabelsLowered
<1>8. normal \in [1 .. kept -> Labels]
  BY <1>3, <1>7
<1>9. normal \in Seq(Labels) /\ Len(normal) = kept /\ DOMAIN normal = 1 .. kept
  BY <1>2, <1>8, IsASeq, LenProperties
<1>10. \A i \in 1 .. kept : normal[i] = Lower[name[i]]
  BY <1>3
<1>11. Lowered(normal)
  <2>1. \A i \in 1 .. kept : Lower[Lower[name[i]]] = Lower[name[i]]
    BY <1>1, <1>6, LabelsLowered
  <2> QED BY <1>9, <1>10, <2>1 DEF Lowered
<1>12. ASSUME ~(n > 1 /\ name[n] = "" /\ name[n - 1] = ""), kept > 0
       PROVE  normal[kept] # ""
  <2>1. kept \in 1 .. kept /\ kept \in 1 .. n
    <3>1. kept \in Nat /\ kept > 0
      BY <1>2, <1>12
    <3>2. kept \in 1 .. kept
      BY <3>1
    <3> QED BY <1>6, <3>2
  <2>2. name[kept] # ""
    <3>1. CASE ~dot
      BY <1>5, <1>12, <3>1
    <3>2. CASE dot
      <4>1. kept = n - 1 /\ name[n] = ""
        BY <1>4, <3>2
      <4>2. n > 1
        <5>1. n \in Nat /\ kept = n - 1
          BY <1>1, <4>1
        <5>2. kept > 0
          BY <1>12
        <5> QED BY <5>1, <5>2
      <4> HIDE DEF dot
      <4> QED BY <1>12, <4>1, <4>2
    <3> QED BY <3>1, <3>2
  <2>3. Lower[name[kept]] # ""
    BY <1>1, <2>1, <2>2, LabelsLowered
  <2> QED BY <1>10, <2>1, <2>3
<1> QED BY <1>9, <1>11, <1>12 DEF Clean, normal, n

\* Under a zone a name ends as the zone does.
LEMMA CleanUnder ==
  ASSUME NEW name, Lowered(name), NEW zone, Clean(zone), zone # Apex, Under(name, zone)
  PROVE  Clean(name)
<1>1. /\ name \in Seq(Labels) /\ zone \in Seq(Labels)
      /\ Len(name) \in Nat /\ Len(zone) \in Nat /\ Len(zone) <= Len(name)
  BY LenProperties DEF Clean, Lowered, Under
<1>2. Len(zone) > 0
  BY <1>1, EmptySeq DEF Apex
<1> DEFINE from == Len(name) - Len(zone) + 1
<1>3. zone = SubSeq(name, from, Len(name))
  BY DEF Under
<1>4. zone[Len(zone)] = name[Len(name)]
  BY <1>1, <1>2, <1>3, SubSeqProperties
<1> QED BY <1>2, <1>4 DEF Clean

----------------------------------------------------------------------------
(* The global block.                                                       *)

Ids == {Uuid[u] : u \in DOMAIN Uuid}

\* A sequence of whatever it has.
Listed(s) == s \in Seq({s[i] : i \in DOMAIN s})

LEMMA ListedAppend ==
  ASSUME NEW s, Listed(s), NEW x
  PROVE  /\ Listed(Append(s, x))
         /\ DOMAIN s = 1 .. Len(s) /\ Len(s) \in Nat
         /\ DOMAIN Append(s, x) = 1 .. Len(s) + 1
         /\ \A i \in 1 .. Len(s) : Append(s, x)[i] = s[i]
         /\ Append(s, x)[Len(s) + 1] = x
<1> DEFINE S == {s[i] : i \in DOMAIN s} \cup {x}
<1> DEFINE a == Append(s, x)
<1>1. s \in Seq({s[i] : i \in DOMAIN s}) /\ x \in S
  BY DEF Listed
<1>2. DOMAIN s = 1 .. Len(s) /\ Len(s) \in Nat
  BY <1>1, LenProperties
<1>3. s \in Seq(S)
  <2>1. \A i \in 1 .. Len(s) : s[i] \in S
    BY <1>2
  <2>2. s \in [1 .. Len(s) -> {s[i] : i \in DOMAIN s}]
    BY <1>1, LenProperties
  <2>3. s \in [1 .. Len(s) -> S]
    BY <2>1, <2>2
  <2> HIDE DEF S
  <2> QED BY <1>2, <2>3, IsASeq
<1>4. /\ a \in Seq(S) /\ Len(a) = Len(s) + 1
      /\ \A i \in 1 .. Len(s) : a[i] = s[i]
      /\ a[Len(s) + 1] = x
  <2> HIDE DEF S
  <2> QED BY <1>1, <1>3, AppendProperties
<1>5. DOMAIN a = 1 .. Len(s) + 1
  BY <1>4, LenProperties
<1>6. Listed(a)
  <2>1. a \in [1 .. Len(a) -> S] /\ DOMAIN a = 1 .. Len(a)
    <3> HIDE DEF S, a
    <3> QED BY <1>4, LenProperties
  <2> HIDE DEF S, a
  <2>2. a \in [1 .. Len(a) -> {a[i] : i \in DOMAIN a}]
    BY <2>1
  <2>3. Len(a) \in Nat
    BY <1>2, <1>4
  <2> QED BY <2>2, <2>3, IsASeq DEF Listed
<1> QED BY <1>2, <1>4, <1>5, <1>6

ZonesTyped(zones) ==
  /\ Listed(zones)
  /\ \A i \in DOMAIN zones : Clean(zones[i].zone) /\ zones[i].zone # Apex

TunnelsTyped(tunnels) ==
  /\ Listed(tunnels)
  /\ \A t \in DOMAIN tunnels :
       /\ tunnels[t] = [name |-> tunnels[t].name, id |-> tunnels[t].id]
       /\ tunnels[t].id \in Ids

AppTyped(a) ==
  /\ DOMAIN a = DOMAIN NewApp
  /\ ZonesTyped(a.zones)
  /\ TunnelsTyped(a.tunnels)

\* One setting given, of an app or a host.
WithSetting(a, key, v) == [a EXCEPT ![key] = v]

\* It leaves zones and tunnels alone.
LEMMA SettingsApart ==
  ASSUME NEW a, AppTyped(a), NEW key \in Settings, NEW v
  PROVE  LET b == WithSetting(a, key, v)
         IN  AppTyped(b) /\ b.zones = a.zones /\ b.tunnels = a.tunnels
<1> DEFINE b == WithSetting(a, key, v)
<1>1. DOMAIN b = DOMAIN a /\ "zones" \in DOMAIN a /\ "tunnels" \in DOMAIN a
  BY DEF AppTyped, NewApp, WithSetting
<1>2. key # "zones" /\ key # "tunnels"
  BY DEF Settings
<1>3. b.zones = a.zones /\ b.tunnels = a.tunnels
  BY <1>1, <1>2 DEF WithSetting
<1> QED BY <1>1, <1>3 DEF AppTyped

LEMMA ReadZoneTyped ==
  ASSUME NEW a, AppTyped(a), NEW line, line.key = "zone", GlobalLineTyped(line),
         ReadZone(a, line.args) # Rejected
  PROVE  AppTyped(ReadZone(a, line.args))
<1> DEFINE args == line.args
<1> DEFINE entry == [zone |-> Normal(args[1]), token |-> args[3], prune |-> Len(args) = 4]
<1> DEFINE b == [a EXCEPT !.zones = Append(a.zones, entry)]
<1>1. ReadZone(a, args) = b /\ Len(args) \in {3, 4} /\ Normal(args[1]) # Apex
  BY DEF ReadZone
<1>2. Clean(entry.zone) /\ entry.zone # Apex
  <2>1. Clean(Normal(args[1]))
    BY <1>1, NormalIs DEF GlobalLineTyped
  <2> QED BY <1>1, <2>1
<1> HIDE DEF entry
<1>3. DOMAIN a = DOMAIN NewApp /\ "zones" \in DOMAIN a /\ "tunnels" \in DOMAIN a
  BY DEF AppTyped, NewApp
<1>4. DOMAIN b = DOMAIN NewApp /\ b.zones = Append(a.zones, entry) /\ b.tunnels = a.tunnels
  BY <1>3
<1>5. ZonesTyped(Append(a.zones, entry))
  <2> DEFINE zones == a.zones
  <2>1. ZonesTyped(zones)
    BY DEF AppTyped
  <2> HIDE DEF zones
  <2>2. /\ Listed(Append(zones, entry))
        /\ DOMAIN zones = 1 .. Len(zones) /\ Len(zones) \in Nat
        /\ DOMAIN Append(zones, entry) = 1 .. Len(zones) + 1
        /\ \A i \in 1 .. Len(zones) : Append(zones, entry)[i] = zones[i]
        /\ Append(zones, entry)[Len(zones) + 1] = entry
    BY <2>1, ListedAppend DEF ZonesTyped
  <2>3. \A i \in 1 .. Len(zones) + 1 : i \in 1 .. Len(zones) \/ i = Len(zones) + 1
    BY <2>2
  <2> QED BY <1>2, <2>1, <2>2, <2>3 DEF ZonesTyped, zones
<1> HIDE DEF b
<1> QED BY <1>1, <1>4, <1>5 DEF AppTyped

LEMMA ReadTunnelTyped ==
  ASSUME NEW a, AppTyped(a), NEW args, ReadTunnel(a, args) # Rejected
  PROVE  AppTyped(ReadTunnel(a, args))
<1> DEFINE entry == [name |-> args[1], id |-> Uuid[args[2]]]
<1> DEFINE b == [a EXCEPT !.tunnels = Append(a.tunnels, entry)]
<1>1. ReadTunnel(a, args) = b /\ args[2] \in DOMAIN Uuid
  BY DEF ReadTunnel
<1>2. entry = [name |-> entry.name, id |-> entry.id] /\ entry.id \in Ids
  BY <1>1 DEF Ids
<1> HIDE DEF entry
<1>3. DOMAIN a = DOMAIN NewApp /\ "zones" \in DOMAIN a /\ "tunnels" \in DOMAIN a
  BY DEF AppTyped, NewApp
<1>4. DOMAIN b = DOMAIN NewApp /\ b.tunnels = Append(a.tunnels, entry) /\ b.zones = a.zones
  BY <1>3
<1>5. TunnelsTyped(Append(a.tunnels, entry))
  <2> DEFINE tunnels == a.tunnels
  <2>1. TunnelsTyped(tunnels)
    BY DEF AppTyped
  <2> HIDE DEF tunnels
  <2>2. /\ Listed(Append(tunnels, entry))
        /\ DOMAIN tunnels = 1 .. Len(tunnels) /\ Len(tunnels) \in Nat
        /\ DOMAIN Append(tunnels, entry) = 1 .. Len(tunnels) + 1
        /\ \A i \in 1 .. Len(tunnels) : Append(tunnels, entry)[i] = tunnels[i]
        /\ Append(tunnels, entry)[Len(tunnels) + 1] = entry
    BY <2>1, ListedAppend DEF TunnelsTyped
  <2>3. \A i \in 1 .. Len(tunnels) + 1 : i \in 1 .. Len(tunnels) \/ i = Len(tunnels) + 1
    BY <2>2
  <2> QED BY <1>2, <2>1, <2>2, <2>3 DEF TunnelsTyped, tunnels
<1> HIDE DEF b
<1> QED BY <1>1, <1>4, <1>5 DEF AppTyped

LEMMA ReadGlobalTyped ==
  ASSUME NEW a, a # Rejected => AppTyped(a), NEW line, GlobalLineTyped(line),
         ReadGlobal(a, line) # Rejected
  PROVE  AppTyped(ReadGlobal(a, line))
<1>1. a # Rejected
  BY DEF ReadGlobal
<1>2. CASE line.key = "zone"
  <2>1. ReadGlobal(a, line) = ReadZone(a, line.args)
    BY <1>1, <1>2 DEF ReadGlobal, Settings
  <2> QED BY <1>1, <1>2, <2>1, ReadZoneTyped
<1>3. CASE line.key = "tunnel"
  <2> DEFINE args == line.args
  <2>1. ReadGlobal(a, line) = ReadTunnel(a, args)
    BY <1>1, <1>3 DEF ReadGlobal, Settings
  <2> HIDE DEF args
  <2> QED BY <1>1, <2>1, ReadTunnelTyped
<1>4. CASE line.key \in Settings
  <2>1. ReadGlobal(a, line) = ReadSetting(a, line)
    BY <1>1, <1>4 DEF ReadGlobal, Settings
  <2>2. ReadSetting(a, line) = [a EXCEPT ![line.key] = Only(line)]
    BY <2>1 DEF ReadSetting
  <2> DEFINE key == line.key
           v == Only(line)
  <2>3. key \in Settings /\ ReadGlobal(a, line) = WithSetting(a, key, v)
    BY <1>4, <2>1, <2>2 DEF WithSetting
  <2> HIDE DEF key, v
  <2> QED BY <1>1, <2>3, SettingsApart
<1> QED BY <1>1, <1>2, <1>3, <1>4 DEF ReadGlobal

LEMMA NewAppTyped == AppTyped(NewApp)
<1>1. NewApp.zones = <<>> /\ NewApp.tunnels = <<>>
  BY DEF NewApp
<1>2. DOMAIN <<>> = {} /\ Listed(<<>>)
  BY EmptySeq DEF Listed
<1>3. ZonesTyped(<<>>) /\ TunnelsTyped(<<>>)
  BY <1>2 DEF ZonesTyped, TunnelsTyped
<1> QED BY <1>1, <1>3 DEF AppTyped

\* What parseGlobalOption returns without an error.
LEMMA ParsedTyped ==
  ASSUME NEW f \in Files, ParseGlobal(f.global) # Rejected
  PROVE  AppTyped(ParseGlobal(f.global))
<1> DEFINE lines == f.global
<1> DEFINE n == Len(lines)
<1> DEFINE read == GlobalRead(lines)
<1> DEFINE bad == {k \in 0 .. n : read[k] # Rejected /\ ~AppTyped(read[k])}
<1>1. n \in Nat /\ \A k \in 1 .. n : GlobalLineTyped(lines[k])
  BY FilesTyped DEF IsList
<1>2. read[0] = NewApp /\ \A k \in 1 .. n : read[k] = ReadGlobal(read[k - 1], lines[k])
  BY <1>1, GlobalReadIs
<1>3. ASSUME bad # {}
      PROVE  FALSE
  <2>1. PICK k \in bad : \A m \in bad : k <= m
    <3>1. bad \in SUBSET Nat
      OBVIOUS
    <3> HIDE DEF bad
    <3> QED BY <1>3, <3>1, Least
  <2>2. k \in 0 .. n /\ read[k] # Rejected /\ ~AppTyped(read[k])
    BY <2>1
  <2> HIDE DEF read
  <2>3. k # 0
    BY <1>2, <2>2, NewAppTyped
  <2>4. k \in 1 .. n /\ k - 1 \in 0 .. n /\ ~(k <= k - 1)
    BY <1>1, <2>2, <2>3
  <2>5. read[k - 1] # Rejected => AppTyped(read[k - 1])
    BY <2>1, <2>4
  <2> DEFINE before == read[k - 1]
  <2>6. read[k] = ReadGlobal(before, lines[k]) /\ GlobalLineTyped(lines[k])
    BY <1>1, <1>2, <2>4
  <2> HIDE DEF before, lines
  <2> QED BY <2>2, <2>5, <2>6, ReadGlobalTyped DEF before
<1>4. n \in 0 .. n
  BY <1>1
<1> HIDE DEF read
<1> QED BY <1>3, <1>4 DEF ParseGlobal, read

----------------------------------------------------------------------------
(* A site's block.                                                         *)

HostTyped(hc) ==
  /\ DOMAIN hc = DOMAIN NewHost
  /\ hc.host = Empty \/ Lowered(hc.host)
  /\ hc.ip \in IPv4 \cup Mapped \cup {Empty}
  /\ hc.ip6 \in IPv6 \cup {Empty, IP6Auto}
  /\ hc.force_adopt \in BOOLEAN
  /\ hc.tunnel_service \in Services \cup {Empty}

ScopeTyped(scope) == \A m \in DOMAIN scope : scope[m] \in Seq(Seq(Labels))

\* The value of a line, by its key.
LineTyped(key, v) ==
  /\ key \in DOMAIN NewHost
  /\ key = "host" => Lowered(v)
  /\ key = "ip" => v \in IPv4 \cup Mapped
  /\ key = "ip6" => v \in IPv6 \cup {Empty, IP6Auto}
  /\ key = "proxied" => v \in {"yes", "no"}
  /\ key = "force_adopt" => v \in BOOLEAN
  /\ key = "tunnel_service" => v \in Services

LEMMA ResolvedTyped ==
  ASSUME NEW scope, ScopeTyped(scope), NEW arg \in Matchers \cup Seq(Labels),
         ResolveHost(scope, arg) # Rejected
  PROVE  Lowered(ResolveHost(scope, arg))
<1>1. CASE arg \in Matchers
  <2>1. arg \in DOMAIN scope /\ Len(scope[arg]) = 1 /\ ResolveHost(scope, arg) = Normal(scope[arg][1])
    BY <1>1 DEF ResolveHost
  <2>2. scope[arg] \in Seq(Seq(Labels))
    BY <2>1 DEF ScopeTyped
  <2>3. scope[arg][1] \in Seq(Labels)
    <3> DEFINE names == scope[arg]
    <3>1. names \in Seq(Seq(Labels)) /\ 1 \in 1 .. Len(names)
      BY <2>1, <2>2
    <3> HIDE DEF names
    <3>2. names[1] \in Seq(Labels)
      BY <3>1, ElementOfSeq
    <3> QED BY <3>2 DEF names
  <2> QED BY <2>1, <2>3, NormalIs
<1>2. CASE arg \notin Matchers
  <2>1. ResolveHost(scope, arg) = Normal(arg) /\ arg \in Seq(Labels)
    BY <1>2 DEF ResolveHost
  <2> QED BY <2>1, NormalIs
<1> QED BY <1>1, <1>2

LEMMA LineValueTyped ==
  ASSUME NEW scope, ScopeTyped(scope), NEW line, SiteLineTyped(line),
         LineValue(scope, line) # Rejected
  PROVE  /\ LineTyped(line.key, LineValue(scope, line))
         /\ line.key = "tunnel" => Len(line.args) = 1 /\ LineValue(scope, line) = Only(line)
<1> DEFINE key == line.key
<1> DEFINE v == LineValue(scope, line)
<1>1. CASE key = "force_adopt"
  <2>1. v = TRUE
    BY <1>1 DEF LineValue
  <2> QED BY <1>1, <2>1 DEF LineTyped, NewHost
<1>2. CASE key # "force_adopt"
  <2>1. Len(line.args) = 1
    BY <1>2 DEF LineValue
  <2>2. CASE key = "host"
    <3>1. v = ResolveHost(scope, Only(line))
      BY <2>1, <2>2 DEF LineValue
    <3>2. Only(line) \in Matchers \cup Seq(Labels)
      BY <2>1, <2>2 DEF SiteLineTyped
    <3>3. Lowered(v)
      BY <3>1, <3>2, ResolvedTyped
    <3> QED BY <2>2, <3>3 DEF LineTyped, NewHost
  <2>3. CASE key = "ip"
    <3>1. v = Only(line) /\ IsIPv4(Only(line))
      BY <2>1, <2>3 DEF LineValue
    <3> QED BY <2>3, <3>1 DEF LineTyped, NewHost, IsIPv4
  <2>4. CASE key = "ip6"
    <3> DEFINE word == Only(line)
    <3>1. v = NormalizeIP6(word)
      BY <2>1, <2>4 DEF LineValue
    <3>2. \/ NormalizeIP6(word) \in {Empty, IP6Auto, Rejected}
          \/ IsIPv6(word) /\ NormalizeIP6(word) = word
      <4> HIDE DEF word
      <4> QED BY DEF NormalizeIP6
    <3> QED BY <2>4, <3>1, <3>2 DEF LineTyped, NewHost, IsIPv6
  <2>5. CASE key = "proxied"
    <3>1. v \in {"yes", "no"}
      BY <2>1, <2>5 DEF LineValue
    <3> QED BY <2>5, <3>1 DEF LineTyped, NewHost
  <2>6. CASE key = "tunnel"
    <3>1. v = Only(line)
      BY <2>1, <2>6 DEF LineValue
    <3> QED BY <2>1, <2>6, <3>1 DEF LineTyped, NewHost
  <2>7. CASE key = "tunnel_service"
    <3>1. v = Only(line) /\ Only(line) \in Services
      BY <2>1, <2>7 DEF LineValue
    <3> QED BY <2>7, <3>1 DEF LineTyped, NewHost
  <2>8. key \in {"host", "ip", "ip6", "proxied", "tunnel", "tunnel_service"}
    BY <1>2, <2>1 DEF LineValue
  <2> QED BY <2>2, <2>3, <2>4, <2>5, <2>6, <2>7, <2>8
<1> QED BY <1>1, <1>2

\* One setting given, the others as they were.
LEMMA SetTyped ==
  ASSUME NEW hc, HostTyped(hc), NEW key, NEW v, LineTyped(key, v)
  PROVE  LET set == WithSetting(hc, key, v)
         IN  /\ HostTyped(set)
             /\ set[key] = v
             /\ \A k \in DOMAIN NewHost : k # key => set[k] = hc[k]
<1> DEFINE set == WithSetting(hc, key, v)
<1>1. DOMAIN hc = DOMAIN NewHost /\ key \in DOMAIN NewHost
  BY DEF HostTyped, LineTyped
<1>2. DOMAIN set = DOMAIN NewHost /\ set[key] = v
  BY <1>1 DEF WithSetting
<1>3. \A k \in DOMAIN NewHost : k # key => set[k] = hc[k]
  BY <1>1 DEF WithSetting
<1>4. \A k \in {"host", "ip", "ip6", "force_adopt", "tunnel_service"} : k \in DOMAIN NewHost
  BY DEF NewHost
<1> HIDE DEF set
<1>5. set.host = Empty \/ Lowered(set.host)
  BY <1>2, <1>3, <1>4 DEF HostTyped, LineTyped
<1>6. set.ip \in IPv4 \cup Mapped \cup {Empty}
  BY <1>2, <1>3, <1>4 DEF HostTyped, LineTyped
<1>7. set.ip6 \in IPv6 \cup {Empty, IP6Auto}
  BY <1>2, <1>3, <1>4 DEF HostTyped, LineTyped
<1>8. set.force_adopt \in BOOLEAN
  BY <1>2, <1>3, <1>4 DEF HostTyped, LineTyped
<1>9. set.tunnel_service \in Services \cup {Empty}
  BY <1>2, <1>3, <1>4 DEF HostTyped, LineTyped
<1> QED BY <1>2, <1>3, <1>5, <1>6, <1>7, <1>8, <1>9 DEF HostTyped, set

\* The tunnel lines among the first n are in the host.
TunnelKept(hc, lines, n) ==
  \A m \in 1 .. n : lines[m].key = "tunnel" =>
    /\ Len(lines[m].args) = 1
    /\ Only(lines[m]) = Empty \/ hc.tunnel = Only(lines[m])

SiteRead(hc, lines, n) == HostTyped(hc) /\ TunnelKept(hc, lines, n)

LEMMA ReadHostLineTyped ==
  ASSUME NEW scope, ScopeTyped(scope), NEW lines, NEW n \in Nat,
         \A m \in 1 .. n + 1 : SiteLineTyped(lines[m]),
         NEW hc, hc # Rejected => SiteRead(hc, lines, n),
         ReadHostLine(scope, hc, lines[n + 1]) # Rejected
  PROVE  SiteRead(ReadHostLine(scope, hc, lines[n + 1]), lines, n + 1)
<1> DEFINE line == lines[n + 1]
<1> DEFINE key == line.key
<1> DEFINE v == LineValue(scope, line)
<1> DEFINE set == WithSetting(hc, key, v)
<1>1. /\ hc # Rejected /\ v # Rejected
      /\ key \in {"host", "tunnel", "tunnel_service"} => hc[key] \in {Empty, Apex}
      /\ ReadHostLine(scope, hc, line) = set
  BY DEF ReadHostLine, WithSetting
<1>2. HostTyped(hc) /\ TunnelKept(hc, lines, n)
  BY <1>1 DEF SiteRead
<1>3. SiteLineTyped(line) /\ n + 1 \in 1 .. n + 1
  OBVIOUS
<1>4. LineTyped(key, v) /\ (key = "tunnel" => Len(line.args) = 1 /\ v = Only(line))
  <2> HIDE DEF line
  <2> QED BY <1>1, <1>3, LineValueTyped
<1>5. /\ HostTyped(set) /\ set[key] = v
      /\ \A k \in DOMAIN NewHost : k # key => set[k] = hc[k]
  <2> HIDE DEF key, v
  <2> QED BY <1>2, <1>4, SetTyped
<1>6. "tunnel" \in DOMAIN NewHost
  BY DEF NewHost
<1> HIDE DEF set, v
<1>7. ASSUME NEW m \in 1 .. n + 1, lines[m].key = "tunnel"
      PROVE  Len(lines[m].args) = 1 /\ (Only(lines[m]) = Empty \/ set.tunnel = Only(lines[m]))
  <2>1. CASE m = n + 1
    BY <1>4, <1>5, <1>7, <2>1
  <2>2. CASE m # n + 1
    <3>1. m \in 1 .. n
      BY <2>2
    <3>2. Len(lines[m].args) = 1 /\ (Only(lines[m]) = Empty \/ hc.tunnel = Only(lines[m]))
      BY <1>2, <1>7, <3>1 DEF TunnelKept
    <3>3. Only(lines[m]) # Apex
      BY <1>7, <3>2 DEF SiteLineTyped
    <3>4. CASE key = "tunnel"
      BY <1>1, <3>2, <3>3, <3>4
    <3>5. CASE key # "tunnel"
      <4>1. set.tunnel = hc.tunnel
        BY <1>5, <1>6, <3>5
      <4> QED BY <3>2, <4>1
    <3> QED BY <3>4, <3>5
  <2> QED BY <2>1, <2>2
<1>8. TunnelKept(set, lines, n + 1)
  BY <1>7 DEF TunnelKept
<1> QED BY <1>1, <1>5, <1>8 DEF SiteRead

LEMMA NewHostTyped == ASSUME NEW lines PROVE SiteRead(NewHost, lines, 0)
<1>1. HostTyped(NewHost)
  BY DEF HostTyped, NewHost
<1>2. 1 .. 0 = {}
  OBVIOUS
<1> QED BY <1>1, <1>2 DEF SiteRead, TunnelKept

\* What parseHostBlock returns without an error.
LEMMA BlockTyped ==
  ASSUME NEW f \in Files, NEW i \in DOMAIN f.sites,
         ParseHostBlock(f.sites[i].scope, f.sites[i].lines) # Rejected
  PROVE  LET hc == ParseHostBlock(f.sites[i].scope, f.sites[i].lines)
         IN  /\ SiteRead(hc, f.sites[i].lines, Len(f.sites[i].lines))
             /\ Lowered(hc.host)
<1> DEFINE scope == f.sites[i].scope
<1> DEFINE lines == f.sites[i].lines
<1> DEFINE n == Len(lines)
<1> DEFINE read == HostRead(scope, lines)
<1> DEFINE bad == {k \in 0 .. n : read[k] # Rejected /\ ~SiteRead(read[k], lines, k)}
<1>1. n \in Nat /\ (\A k \in 1 .. n : SiteLineTyped(lines[k])) /\ ScopeTyped(scope)
  BY FilesTyped DEF IsList, ScopeTyped
<1>2. read[0] = NewHost /\ \A k \in 1 .. n : read[k] = ReadHostLine(scope, read[k - 1], lines[k])
  BY <1>1, HostReadIs
<1>3. ASSUME bad # {}
      PROVE  FALSE
  <2>1. PICK k \in bad : \A m \in bad : k <= m
    <3>1. bad \in SUBSET Nat
      OBVIOUS
    <3> HIDE DEF bad
    <3> QED BY <1>3, <3>1, Least
  <2>2. k \in 0 .. n /\ read[k] # Rejected /\ ~SiteRead(read[k], lines, k)
    BY <2>1
  <2> HIDE DEF read, lines, scope
  <2>3. k # 0
    BY <1>2, <2>2, NewHostTyped
  <2> DEFINE j == k - 1
  <2>4. j \in Nat /\ j + 1 = k /\ k \in 1 .. n /\ j \in 0 .. n /\ ~(k <= j)
    BY <1>1, <2>2, <2>3
  <2>5. read[j] # Rejected => SiteRead(read[j], lines, j)
    BY <2>1, <2>4
  <2> DEFINE before == read[j]
  <2>6. read[j + 1] = ReadHostLine(scope, before, lines[j + 1])
    BY <1>2, <2>4
  <2>7. \A m \in 1 .. j + 1 : SiteLineTyped(lines[m])
    BY <1>1, <2>4
  <2>8. read[j + 1] # Rejected /\ ~SiteRead(read[j + 1], lines, j + 1)
    BY <2>2, <2>4
  <2>9. j \in Nat
    BY <2>4
  <2> HIDE DEF j, before
  <2> QED BY <1>1, <2>5, <2>6, <2>7, <2>8, <2>9, ReadHostLineTyped DEF before
<1>4. n \in 0 .. n
  BY <1>1
<1> DEFINE hc == ParseHostBlock(scope, lines)
<1>5. hc = read[n] /\ read[n] # Rejected /\ Coherent(read[n])
  BY DEF ParseHostBlock
<1>6. SiteRead(hc, lines, n)
  <2> HIDE DEF read
  <2> QED BY <1>3, <1>4, <1>5
<1>7. Lowered(hc.host)
  <2> HIDE DEF read, lines
  <2> QED BY <1>5, <1>6 DEF SiteRead, HostTyped, Coherent
<1> QED BY <1>6, <1>7

----------------------------------------------------------------------------
(* The order of a site's lines.                                            *)

\* Lines with values in V, none of which gives a setting another one gives.
Settled(scope, lines, V) ==
  /\ Len(lines) \in Nat
  /\ \A m \in 1 .. Len(lines) :
       LineValue(scope, lines[m]) # Rejected =>
         lines[m].key \in DOMAIN NewHost /\ LineValue(scope, lines[m]) \in V
  /\ \A m, n \in 1 .. Len(lines) : lines[m].key = lines[n].key => m = n

\* What the first n lines make of a new host, said without their order.
ReadsAs(hc, scope, lines, n, V) ==
  /\ (\E m \in 1 .. n : LineValue(scope, lines[m]) = Rejected) => hc = Rejected
  /\ (\A m \in 1 .. n : LineValue(scope, lines[m]) # Rejected) =>
       /\ hc \in [DOMAIN NewHost -> V]
       /\ \A m \in 1 .. n : hc[lines[m].key] = LineValue(scope, lines[m])
       /\ \A k \in DOMAIN NewHost :
            (\A m \in 1 .. n : lines[m].key # k) => hc[k] = NewHost[k]

LEMMA ReadsNext ==
  ASSUME NEW scope, NEW lines, NEW V, Settled(scope, lines, V),
         Rejected \notin [DOMAIN NewHost -> V],
         NEW n \in Nat, n + 1 \in 1 .. Len(lines),
         NEW hc, ReadsAs(hc, scope, lines, n, V)
  PROVE  ReadsAs(ReadHostLine(scope, hc, lines[n + 1]), scope, lines, n + 1, V)
<1> DEFINE line == lines[n + 1]
<1> DEFINE v == LineValue(scope, line)
<1> DEFINE new == ReadHostLine(scope, hc, line)
<1>1. \A m \in 1 .. n + 1 : m \in 1 .. n \/ m = n + 1
  OBVIOUS
<1>2. \A m \in 1 .. n : m \in 1 .. n + 1 /\ m \in 1 .. Len(lines) /\ m # n + 1
  BY DEF Settled
<1>3. n + 1 \in 1 .. n + 1
  OBVIOUS
<1>4. CASE \E m \in 1 .. n + 1 : LineValue(scope, lines[m]) = Rejected
  <2>1. hc = Rejected \/ v = Rejected
    BY <1>1, <1>4 DEF ReadsAs
  <2>2. new = Rejected
    BY <2>1 DEF ReadHostLine
  <2> QED BY <1>4, <2>2 DEF ReadsAs
<1>5. CASE \A m \in 1 .. n + 1 : LineValue(scope, lines[m]) # Rejected
  <2> DEFINE key == line.key
  <2>1. /\ hc \in [DOMAIN NewHost -> V]
        /\ \A m \in 1 .. n : hc[lines[m].key] = LineValue(scope, lines[m])
        /\ \A k \in DOMAIN NewHost :
             (\A m \in 1 .. n : lines[m].key # k) => hc[k] = NewHost[k]
    BY <1>2, <1>5 DEF ReadsAs
  <2>2. key \in DOMAIN NewHost /\ v \in V /\ v # Rejected
    BY <1>3, <1>5 DEF Settled
  <2>3. \A m \in 1 .. n : lines[m].key # key
    BY <1>2 DEF Settled
  <2>4. hc[key] = NewHost[key]
    BY <2>1, <2>2, <2>3
  <2>5. key \in {"host", "tunnel", "tunnel_service"} => NewHost[key] = Empty
    BY DEF NewHost
  <2>6. hc # Rejected
    BY <2>1
  <2>7. new = WithSetting(hc, key, v)
    <3> HIDE DEF v
    <3> QED BY <2>2, <2>4, <2>5, <2>6 DEF ReadHostLine, WithSetting, v
  <2> HIDE DEF new, v, key
  <2>8. /\ new \in [DOMAIN NewHost -> V] /\ new[key] = v
        /\ \A k \in DOMAIN NewHost : k # key => new[k] = hc[k]
    <3> DEFINE D == DOMAIN NewHost
    <3>1. new = [hc EXCEPT ![key] = v] /\ hc \in [D -> V] /\ key \in D /\ v \in V
      BY <2>1, <2>2, <2>7 DEF WithSetting
    <3> HIDE DEF D
    <3>2. new \in [D -> V] /\ new[key] = v /\ \A k \in D : k # key => new[k] = hc[k]
      BY <3>1
    <3> QED BY <3>2 DEF D
  <2>9. \A m \in 1 .. n : lines[m].key \in DOMAIN NewHost
    BY <1>2, <1>5 DEF Settled
  <2>10. \A m \in 1 .. n + 1 : new[lines[m].key] = LineValue(scope, lines[m])
    BY <1>1, <2>1, <2>3, <2>8, <2>9 DEF key, v
  <2>11. ASSUME NEW k \in DOMAIN NewHost, \A m \in 1 .. n + 1 : lines[m].key # k
         PROVE  new[k] = NewHost[k]
    <3>1. k # key /\ \A m \in 1 .. n : lines[m].key # k
      BY <1>2, <1>3, <2>11 DEF key
    <3> QED BY <2>1, <2>8, <3>1
  <2>12. new \in [DOMAIN NewHost -> V]
    BY <2>8
  <2> QED BY <1>5, <2>10, <2>11, <2>12 DEF ReadsAs, new
<1> QED BY <1>4, <1>5

LEMMA ReadsAll ==
  ASSUME NEW scope, NEW lines, NEW V, Settled(scope, lines, V),
         Rejected \notin [DOMAIN NewHost -> V], NewHost \in [DOMAIN NewHost -> V]
  PROVE  ReadsAs(HostRead(scope, lines)[Len(lines)], scope, lines, Len(lines), V)
<1> DEFINE read == HostRead(scope, lines)
<1> DEFINE bad == {k \in 0 .. Len(lines) : ~ReadsAs(read[k], scope, lines, k, V)}
<1>1. Len(lines) \in Nat
  BY DEF Settled
<1>2. read[0] = NewHost
  BY <1>1, HostReadIs
<1>3. \A k \in 1 .. Len(lines) : read[k] = ReadHostLine(scope, read[k - 1], lines[k])
  BY <1>1, HostReadIs
<1>4. ASSUME bad # {}
      PROVE  FALSE
  <2>1. PICK k \in bad : \A m \in bad : k <= m
    <3>1. bad \in SUBSET Nat
      OBVIOUS
    <3> HIDE DEF bad
    <3> QED BY <1>4, <3>1, Least
  <2>2. k \in 0 .. Len(lines) /\ ~ReadsAs(read[k], scope, lines, k, V)
    BY <2>1
  <2> HIDE DEF read
  <2>3. k # 0
    <3>1. 1 .. 0 = {}
      OBVIOUS
    <3>2. ReadsAs(NewHost, scope, lines, 0, V)
      BY <3>1 DEF ReadsAs
    <3> QED BY <1>2, <2>2, <3>2
  <2> DEFINE j == k - 1
  <2>4. j \in Nat /\ j + 1 = k /\ j + 1 \in 1 .. Len(lines) /\ j \in 0 .. Len(lines) /\ ~(k <= j)
    BY <1>1, <2>2, <2>3
  <2>5. ReadsAs(read[j], scope, lines, j, V)
    BY <2>1, <2>4
  <2> DEFINE before == read[j]
  <2>6. read[j + 1] = ReadHostLine(scope, before, lines[j + 1])
    BY <1>3, <2>4
  <2>7. ~ReadsAs(read[j + 1], scope, lines, j + 1, V)
    BY <2>2, <2>4
  <2>8. j \in Nat /\ j + 1 \in 1 .. Len(lines)
    BY <2>4
  <2>9. ReadsAs(before, scope, lines, j, V)
    BY <2>5
  <2> HIDE DEF j, before
  <2> QED BY <2>6, <2>7, <2>8, <2>9, ReadsNext
<1>5. Len(lines) \in 0 .. Len(lines)
  BY <1>1
<1> HIDE DEF read
<1> QED BY <1>4, <1>5 DEF read

\* Values a host block may hold.
Holds(V) == Rejected \notin [DOMAIN NewHost -> V] /\ NewHost \in [DOMAIN NewHost -> V]

\* Two lists with the same lines in them.
SameLines(lines, others) ==
  /\ \A m \in 1 .. Len(lines) : \E n \in 1 .. Len(others) : others[n] = lines[m]
  /\ \A n \in 1 .. Len(others) : \E m \in 1 .. Len(lines) : others[n] = lines[m]

\* The same lines in two orders.
LEMMA OrderForgotten ==
  ASSUME NEW scope, NEW V, Holds(V),
         NEW lines, Settled(scope, lines, V),
         NEW others, Settled(scope, others, V),
         SameLines(lines, others)
  PROVE  ParseHostBlock(scope, others) = ParseHostBlock(scope, lines)
<1> DEFINE a == HostRead(scope, lines)[Len(lines)]
           b == HostRead(scope, others)[Len(others)]
<1>1. ReadsAs(a, scope, lines, Len(lines), V) /\ ReadsAs(b, scope, others, Len(others), V)
  BY ReadsAll DEF Holds
<1>2. a = b
  <2> HIDE DEF a, b
  <2>1. CASE \E m \in 1 .. Len(lines) : LineValue(scope, lines[m]) = Rejected
    <3>1. \E n \in 1 .. Len(others) : LineValue(scope, others[n]) = Rejected
      BY <2>1 DEF SameLines
    <3> QED BY <1>1, <2>1, <3>1 DEF ReadsAs
  <2>2. CASE \A m \in 1 .. Len(lines) : LineValue(scope, lines[m]) # Rejected
    <3>1. \A n \in 1 .. Len(others) : LineValue(scope, others[n]) # Rejected
      BY <2>2 DEF SameLines
    <3>2. /\ a \in [DOMAIN NewHost -> V]
          /\ \A m \in 1 .. Len(lines) : a[lines[m].key] = LineValue(scope, lines[m])
          /\ \A k \in DOMAIN NewHost :
               (\A m \in 1 .. Len(lines) : lines[m].key # k) => a[k] = NewHost[k]
      BY <1>1, <2>2 DEF ReadsAs
    <3>3. /\ b \in [DOMAIN NewHost -> V]
          /\ \A n \in 1 .. Len(others) : b[others[n].key] = LineValue(scope, others[n])
          /\ \A k \in DOMAIN NewHost :
               (\A n \in 1 .. Len(others) : others[n].key # k) => b[k] = NewHost[k]
      BY <1>1, <3>1 DEF ReadsAs
    <3>4. ASSUME NEW k \in DOMAIN NewHost
          PROVE  a[k] = b[k]
      <4>1. CASE \E m \in 1 .. Len(lines) : lines[m].key = k
        <5>1. PICK m \in 1 .. Len(lines) : lines[m].key = k
          BY <4>1
        <5>2. PICK n \in 1 .. Len(others) : others[n] = lines[m]
          BY DEF SameLines
        <5>3. a[lines[m].key] = LineValue(scope, lines[m])
          BY <3>2
        <5>4. b[others[n].key] = LineValue(scope, others[n])
          BY <3>3
        <5> QED BY <5>1, <5>2, <5>3, <5>4
      <4>2. CASE \A m \in 1 .. Len(lines) : lines[m].key # k
        <5>1. \A n \in 1 .. Len(others) : others[n].key # k
          BY <4>2 DEF SameLines
        <5> QED BY <3>2, <3>3, <4>2, <5>1
      <4> QED BY <4>1, <4>2
    <3> DEFINE D == DOMAIN NewHost
    <3>5. a \in [D -> V] /\ b \in [D -> V] /\ \A k \in D : a[k] = b[k]
      BY <3>2, <3>3, <3>4
    <3> HIDE DEF D
    <3> QED BY <3>5
  <2> QED BY <2>1, <2>2
<1> HIDE DEF a, b
<1> QED BY <1>2 DEF ParseHostBlock, a, b

\* The settings of a site's lines are values a host block may have.
LEMMA LinesSettled ==
  ASSUME NEW f \in Files, NEW i \in DOMAIN f.sites,
         \A m, n \in DOMAIN f.sites[i].lines :
           f.sites[i].lines[m].key = f.sites[i].lines[n].key => m = n
  PROVE  LET V == HostValues(f.sites[i].lines)
         IN  /\ Settled(f.sites[i].scope, f.sites[i].lines, V)
             /\ Holds(V)
<1> DEFINE scope == f.sites[i].scope
<1> DEFINE lines == f.sites[i].lines
<1> DEFINE V == HostValues(lines)
<1>1. Len(lines) \in Nat /\ DOMAIN lines = 1 .. Len(lines)
  BY FilesTyped DEF IsList
<1>2. ScopeTyped(scope) /\ \A n \in DOMAIN lines : SiteLineTyped(lines[n])
  BY FilesTyped DEF ScopeTyped
<1>3. Rejected \notin [DOMAIN NewHost -> V]
  BY RejectedApart
<1>4. NewHost \in [DOMAIN NewHost -> V]
  <2>1. Empty \in V /\ FALSE \in V
    BY DEF HostValues
  <2> HIDE DEF V
  <2>2. \A k \in DOMAIN NewHost : NewHost[k] \in {Empty, FALSE}
    <3>1. DOMAIN NewHost = {"host", "ip", "ip6", "proxied", "force_adopt", "tunnel", "tunnel_service"}
      BY DEF NewHost
    <3>2. /\ NewHost["host"] = Empty /\ NewHost["ip"] = Empty /\ NewHost["ip6"] = Empty
          /\ NewHost["proxied"] = Empty /\ NewHost["tunnel"] = Empty
          /\ NewHost["tunnel_service"] = Empty
      BY DEF NewHost
    <3>3. NewHost["force_adopt"] = FALSE
      BY DEF NewHost
    <3> QED BY <3>1, <3>2, <3>3
  <2>3. NewHost = [k \in DOMAIN NewHost |-> NewHost[k]]
    BY DEF NewHost
  <2> DEFINE D == DOMAIN NewHost
  <2> HIDE DEF D
  <2> QED BY <2>1, <2>2, <2>3 DEF D
<1>5. ASSUME NEW n \in DOMAIN lines, LineValue(scope, lines[n]) # Rejected
      PROVE  lines[n].key \in DOMAIN NewHost /\ LineValue(scope, lines[n]) \in V
  <2> DEFINE line == lines[n]
  <2> DEFINE key == line.key
  <2> DEFINE v == LineValue(scope, line)
  <2>1. /\ LineTyped(key, v)
        /\ key = "tunnel" => Len(line.args) = 1 /\ v = Only(line)
    <3>1. SiteLineTyped(line) /\ LineValue(scope, line) # Rejected
      BY <1>2, <1>5
    <3> HIDE DEF line, scope
    <3> QED BY <1>2, <3>1, LineValueTyped
  <2>2. CASE key = "tunnel"
    <3>1. Only(line) \in {Only(lines[k]) : k \in {m \in DOMAIN lines :
                              lines[m].key = "tunnel" /\ Len(lines[m].args) = 1}}
      BY <2>1, <2>2
    <3>2. Only(line) \in V
      <4> HIDE DEF line
      <4> QED BY <3>1 DEF HostValues
    <3>3. v \in V
      BY <2>1, <2>2, <3>2
    <3> QED BY <2>1, <3>3 DEF LineTyped
  <2>3. CASE key # "tunnel"
    <3> HIDE DEF v, key, lines, scope
    <3>1. key \in {"host", "ip", "ip6", "proxied", "force_adopt", "tunnel_service"}
      BY <2>1, <2>3 DEF LineTyped, NewHost
    <3>2. v \in Seq(Labels) \cup IPv4 \cup Mapped \cup IPv6 \cup Services \cup BOOLEAN
                  \cup {Empty, IP6Auto, "yes", "no"}
      BY <2>1, <3>1 DEF LineTyped, Lowered
    <3>3. v \in V
      BY <3>2 DEF HostValues, V
    <3>4. key \in DOMAIN NewHost
      BY <2>1 DEF LineTyped
    <3> QED BY <3>3, <3>4 DEF v, key
  <2> QED BY <2>2, <2>3
<1>6. Settled(scope, lines, V)
  <2> HIDE DEF V, scope
  <2> QED BY <1>1, <1>5 DEF Settled
<1> HIDE DEF V, scope, lines
<1>7. Holds(V)
  BY <1>3, <1>4 DEF Holds
<1> QED BY <1>6, <1>7 DEF V, scope, lines

\* A site block without a repeated setting means the same in any order.
LEMMA LinesPermuted ==
  ASSUME NEW f \in Files, NEW i \in DOMAIN f.sites,
         \A m, n \in DOMAIN f.sites[i].lines :
           f.sites[i].lines[m].key = f.sites[i].lines[n].key => m = n,
         NEW p \in Bijection(DOMAIN f.sites[i].lines, DOMAIN f.sites[i].lines)
  PROVE  ParseHostBlock(f.sites[i].scope,
                        [n \in DOMAIN f.sites[i].lines |-> f.sites[i].lines[p[n]]])
           = ParseHostBlock(f.sites[i].scope, f.sites[i].lines)
<1> DEFINE scope == f.sites[i].scope
<1> DEFINE lines == f.sites[i].lines
<1> DEFINE V == HostValues(lines)
<1> DEFINE N == Len(lines)
<1> DEFINE others == [n \in DOMAIN lines |-> lines[p[n]]]
<1>1. N \in Nat /\ DOMAIN lines = 1 .. N
  BY FilesTyped DEF IsList
<1>2. Settled(scope, lines, V) /\ Holds(V)
  BY LinesSettled
<1> HIDE DEF scope, lines, V
<1>3. /\ p \in [1 .. N -> 1 .. N]
      /\ \A w \in 1 .. N : \E v \in 1 .. N : p[v] = w
      /\ \A v, w \in 1 .. N : p[v] = p[w] => v = w
  <2>1. p \in Bijection(1 .. N, 1 .. N)
    BY <1>1 DEF lines
  <2> HIDE DEF N
  <2> QED BY <2>1 DEF Bijection, Injection, Surjection, IsInjective
<1>4. \A n \in 1 .. N : others[n] = lines[p[n]] /\ p[n] \in 1 .. N
  BY <1>1, <1>3
<1>5. Len(others) = N
  <2> DEFINE S == {others[n] : n \in 1 .. N}
  <2>1. others \in [1 .. N -> S]
    BY <1>1
  <2> HIDE DEF S, others
  <2>2. others \in Seq(S)
    BY <1>1, <2>1, IsASeq
  <2>3. DOMAIN others = 1 .. N /\ DOMAIN others = 1 .. Len(others) /\ Len(others) \in Nat
    BY <2>1, <2>2, LenProperties
  <2> HIDE DEF N
  <2> QED BY <1>1, <2>3
<1> HIDE DEF others, N
<1>6. Settled(scope, others, V)
  <2>1. \A m \in 1 .. N : LineValue(scope, lines[m]) # Rejected =>
          lines[m].key \in DOMAIN NewHost /\ LineValue(scope, lines[m]) \in V
    BY <1>2 DEF Settled, N
  <2>2. \A m \in 1 .. N : LineValue(scope, others[m]) # Rejected =>
          others[m].key \in DOMAIN NewHost /\ LineValue(scope, others[m]) \in V
    BY <1>4, <2>1
  <2>3. \A m, n \in 1 .. N : lines[m].key = lines[n].key => m = n
    BY <1>2 DEF Settled, N
  <2>4. ASSUME NEW m \in 1 .. N, NEW n \in 1 .. N, others[m].key = others[n].key
        PROVE  m = n
    <3>1. p[m] = p[n]
      BY <1>4, <2>3, <2>4
    <3> QED BY <1>3, <3>1
  <2> QED BY <1>1, <1>5, <2>2, <2>4 DEF Settled
<1>7. SameLines(lines, others)
  <2>1. ASSUME NEW m \in 1 .. N PROVE \E n \in 1 .. N : others[n] = lines[m]
    <3>1. PICK n \in 1 .. N : p[n] = m
      BY <1>3
    <3> QED BY <1>4, <3>1
  <2> QED BY <1>4, <1>5, <2>1 DEF N, SameLines
<1>8. ParseHostBlock(scope, others) = ParseHostBlock(scope, lines)
  BY <1>2, <1>6, <1>7, OrderForgotten
<1> QED BY <1>8 DEF scope, others, lines

----------------------------------------------------------------------------
(* Zone and tunnel of a directive.                                         *)

\* assignZone returns an entry whose zone the host is under, and no other
\* such zone is longer.
LEMMA AssignedIs ==
  ASSUME NEW L, NEW host \in Seq(L), NEW zones, DOMAIN zones \subseteq Nat \ {0},
         \A i \in DOMAIN zones : zones[i] \in Seq(L),
         AssignZone(zones, host) # 0
  PROVE  LET i == AssignZone(zones, host)
         IN  /\ i \in DOMAIN zones
             /\ Under(host, zones[i])
             /\ \A j \in DOMAIN zones : Under(host, zones[j]) => Len(zones[j]) <= Len(zones[i])
<1> DEFINE fits == {i \in DOMAIN zones : Under(host, zones[i])}
<1> DEFINE rests == {Len(host) - Len(zones[i]) : i \in fits}
<1> DEFINE longest == {i \in fits : \A j \in fits : Len(zones[j]) <= Len(zones[i])}
<1>1. fits # {} /\ AssignZone(zones, host) = CHOOSE i \in longest : \A j \in longest : i <= j
  BY DEF AssignZone
<1>2. Len(host) \in Nat /\ \A i \in fits : Len(zones[i]) \in Nat /\ Len(zones[i]) <= Len(host)
  BY LenProperties DEF Under
<1>3. longest # {}
  <2>1. rests \in SUBSET Nat /\ rests # {}
    BY <1>1, <1>2
  <2>2. PICK r \in rests : \A q \in rests : r <= q
    <3> HIDE DEF rests
    <3> QED BY <2>1, Least
  <2>3. PICK i \in fits : r = Len(host) - Len(zones[i])
    BY <2>2
  <2>4. \A j \in fits : Len(host) - Len(zones[j]) \in rests
    OBVIOUS
  <2>5. \A j \in fits : Len(zones[j]) <= Len(zones[i])
    <3> HIDE DEF rests, fits
    <3> QED BY <1>2, <2>2, <2>3, <2>4
  <2> QED BY <2>5
<1>4. PICK i \in longest : \A j \in longest : i <= j
  <2>1. longest \in SUBSET Nat
    OBVIOUS
  <2> HIDE DEF longest
  <2> QED BY <1>3, <2>1, Least
<1> DEFINE a == AssignZone(zones, host)
<1>5. a \in longest
  <2> HIDE DEF longest
  <2> QED BY <1>1, <1>4
<1> HIDE DEF a
<1> QED BY <1>5 DEF a

\* The tunnel lines of a site, and the tunnel its handler is given.
TunnelOf(lines, tunnels, id) ==
  \A n \in DOMAIN lines : lines[n].key = "tunnel" /\ Only(lines[n]) # Empty =>
    \E t \in DOMAIN tunnels : tunnels[t] = [name |-> Only(lines[n]), id |-> id]

DirectiveOK(d, a, lines) ==
  /\ d \in HandlerJSON
  /\ Lowered(d.host)
  /\ AssignZone(ZoneNames(a), d.host) # 0
  /\ TunnelOf(lines, a.tunnels, d.tunnel)

\* tunnelIDIn: the entry of that name.
LEMMA TunnelFound ==
  ASSUME NEW tunnels, TunnelsTyped(tunnels), NEW name, TunnelIDIn(tunnels, name) # Rejected
  PROVE  \E t \in DOMAIN tunnels :
           /\ tunnels[t] = [name |-> name, id |-> TunnelIDIn(tunnels, name)]
           /\ TunnelIDIn(tunnels, name) \in Ids
<1> DEFINE named == {i \in DOMAIN tunnels : tunnels[i].name = name}
<1> DEFINE t == CHOOSE i \in named : TRUE
<1>1. named # {} /\ TunnelIDIn(tunnels, name) = tunnels[t].id
  BY DEF TunnelIDIn
<1>2. t \in named
  <2> HIDE DEF named
  <2> QED BY <1>1
<1> HIDE DEF t
<1>3. t \in DOMAIN tunnels /\ tunnels[t].name = name
  BY <1>2
<1> QED BY <1>1, <1>3 DEF TunnelsTyped

LEMMA DirectiveIs ==
  ASSUME NEW f \in Files, NEW i \in DOMAIN f.sites, NEW a, AppTyped(a),
         Directive(a, f.sites[i]) # Rejected
  PROVE  DirectiveOK(Directive(a, f.sites[i]), a, f.sites[i].lines)
<1> DEFINE scope == f.sites[i].scope
<1> DEFINE lines == f.sites[i].lines
<1> DEFINE n == Len(lines)
<1> DEFINE hc == ParseHostBlock(scope, lines)
<1> DEFINE id == IF hc = Rejected \/ hc.tunnel = Empty THEN Empty
                 ELSE TunnelIDIn(a.tunnels, hc.tunnel)
<1> DEFINE d == [host |-> hc.host, ip |-> hc.ip, ip6 |-> hc.ip6,
                 proxied |-> hc.proxied # "no", force |-> hc.force_adopt,
                 tunnel |-> id, service |-> hc.tunnel_service]
<1>1. /\ hc # Rejected
      /\ AssignZone(ZoneNames(a), hc.host) # 0
      /\ id # Rejected
      /\ Directive(a, f.sites[i]) = d
  BY DEF Directive
<1>2. SiteRead(hc, lines, n) /\ Lowered(hc.host)
  BY <1>1, BlockTyped
<1>3. DOMAIN lines = 1 .. n
  BY FilesTyped DEF IsList
<1> HIDE DEF hc
<1>4. hc.tunnel # Empty =>
        /\ id \in Ids
        /\ \E t \in DOMAIN a.tunnels : a.tunnels[t] = [name |-> hc.tunnel, id |-> id]
  <2> SUFFICES ASSUME hc.tunnel # Empty
               PROVE  /\ id \in Ids
                      /\ \E t \in DOMAIN a.tunnels : a.tunnels[t] = [name |-> hc.tunnel, id |-> id]
    OBVIOUS
  <2> DEFINE name == hc.tunnel
             tunnels == a.tunnels
  <2>1. id = TunnelIDIn(tunnels, name) /\ TunnelsTyped(tunnels)
    BY <1>1 DEF AppTyped
  <2> HIDE DEF name, tunnels, id
  <2>2. TunnelIDIn(tunnels, name) # Rejected
    BY <1>1, <2>1
  <2>3. PICK t \in DOMAIN tunnels :
          /\ tunnels[t] = [name |-> name, id |-> TunnelIDIn(tunnels, name)]
          /\ TunnelIDIn(tunnels, name) \in Ids
    BY <2>1, <2>2, TunnelFound
  <2> QED BY <2>1, <2>3 DEF name, tunnels
<1>5. id \in Ids \cup {Empty}
  BY <1>4
<1> HIDE DEF id
<1>6. d \in HandlerJSON
  <2>1. hc.host \in Seq(Labels)
    BY <1>2 DEF Lowered
  <2>2. /\ hc.ip \in IPv4 \cup Mapped \cup {Empty}
        /\ hc.ip6 \in IPv6 \cup {Empty, IP6Auto}
        /\ hc.force_adopt \in BOOLEAN
        /\ hc.tunnel_service \in Services \cup {Empty}
    BY <1>2 DEF SiteRead, HostTyped
  <2> QED BY <1>5, <2>1, <2>2 DEF HandlerJSON, Ids
<1>7. TunnelOf(lines, a.tunnels, id)
  <2> SUFFICES ASSUME NEW m \in 1 .. n, lines[m].key = "tunnel", Only(lines[m]) # Empty
               PROVE  \E t \in DOMAIN a.tunnels :
                        a.tunnels[t] = [name |-> Only(lines[m]), id |-> id]
    BY <1>3 DEF TunnelOf
  <2> HIDE DEF lines, n
  <2>1. hc.tunnel = Only(lines[m])
    BY <1>2 DEF SiteRead, TunnelKept
  <2> QED BY <1>4, <2>1
<1>8. d.host = hc.host /\ d.tunnel = id
  OBVIOUS
<1> HIDE DEF d, lines
<1> QED BY <1>1, <1>2, <1>6, <1>7, <1>8 DEF DirectiveOK, lines

\* The zones of the app are names to assign hosts to.
LEMMA ZoneNamesAre ==
  ASSUME NEW a, AppTyped(a)
  PROVE  /\ DOMAIN ZoneNames(a) = DOMAIN a.zones
         /\ DOMAIN ZoneNames(a) \subseteq Nat \ {0}
         /\ \A i \in DOMAIN a.zones :
              /\ ZoneNames(a)[i] = a.zones[i].zone
              /\ a.zones[i].zone \in Seq(Labels)
              /\ Clean(a.zones[i].zone) /\ a.zones[i].zone # Apex
<1> DEFINE zones == a.zones
<1>1. Listed(zones) /\ \A i \in DOMAIN zones : Clean(zones[i].zone) /\ zones[i].zone # Apex
  BY DEF AppTyped, ZonesTyped
<1>2. ZoneNames(a) = [i \in DOMAIN zones |-> zones[i].zone]
  BY DEF ZoneNames
<1> HIDE DEF zones
<1>3. DOMAIN zones = 1 .. Len(zones) /\ Len(zones) \in Nat
  BY <1>1, LenProperties DEF Listed
<1>4. DOMAIN ZoneNames(a) = DOMAIN zones /\ \A i \in DOMAIN zones : ZoneNames(a)[i] = zones[i].zone
  BY <1>2
<1>5. \A i \in DOMAIN zones : zones[i].zone \in Seq(Labels)
  BY <1>1 DEF Clean, Lowered
<1>6. 1 .. Len(zones) \subseteq Nat \ {0}
  BY <1>3
<1> QED BY <1>1, <1>3, <1>4, <1>5, <1>6 DEF zones

----------------------------------------------------------------------------
(* The registry: addHost's check and append under one lock.                *)

Stages == {"waiting", "locked", "free", "done", "failed"}

Given == {decls[i] : i \in DOMAIN decls}

\* Handlers are numbered as their declarations are.
Numbered ==
  /\ DOMAIN decls = DOMAIN prov
  /\ 0 \notin DOMAIN prov
  /\ prov \in [DOMAIN prov -> Stages]
  /\ hosts \in Seq(Given)

\* Who is between Lock and Unlock holds the mutex.
Exclusive == \A i \in DOMAIN prov : prov[i] \in {"locked", "free"} => mutex = i

\* What a handler found while it looked still holds when it appends.
StillFree == \A i \in DOMAIN prov : prov[i] = "free" => ~Taken(i)

RegistryInv == Numbered /\ Exclusive /\ StillFree /\ HostsDistinct

LEMMA Forgotten ==
  ASSUME Forget
  PROVE  RegistryInv'
<1>1. decls' = <<>> /\ prov' = <<>> /\ hosts' = <<>>
  BY DEF Forget
<1>2. DOMAIN <<>> = {}
  OBVIOUS
<1>3. Numbered'
  BY <1>1, <1>2 DEF Numbered, Given, Stages
<1>4. (Exclusive /\ StillFree /\ HostsDistinct)'
  BY <1>1, <1>2 DEF Exclusive, StillFree, HostsDistinct
<1> QED BY <1>3, <1>4 DEF RegistryInv

LEMMA RegistryInit == Init => RegistryInv
<1> SUFFICES ASSUME Init PROVE RegistryInv
  OBVIOUS
<1>1. decls = <<>> /\ prov = <<>> /\ hosts = <<>>
  BY DEF Init
<1>2. DOMAIN <<>> = {}
  OBVIOUS
<1> QED BY <1>1, <1>2 DEF RegistryInv, Numbered, Given, Stages, Exclusive, StillFree, HostsDistinct

\* Nothing the registry consists of changes.
LEMMA RegistryUntouched ==
  ASSUME RegistryInv, UNCHANGED <<decls, prov, mutex, hosts>>
  PROVE  RegistryInv'
BY DEF RegistryInv, Numbered, Given, Exclusive, StillFree, Taken, HostsDistinct

LEMMA RegistryAdapt ==
  ASSUME RegistryInv, NEW f \in Files, Adapt(f), hosts = <<>>
  PROVE  RegistryInv'
<1>1. /\ prov' = [i \in DOMAIN f.sites |-> "waiting"]
      /\ hosts' = <<>>
      /\ DOMAIN decls' = DOMAIN f.sites
  BY DEF Adapt, NewLoad, Directives
<1>2. 0 \notin DOMAIN f.sites
  BY FilesTyped DEF IsList
<1>3. Numbered'
  BY <1>1, <1>2 DEF Numbered, Stages
<1>4. (Exclusive /\ StillFree)'
  BY <1>1 DEF Exclusive, StillFree
<1>5. HostsDistinct'
  BY <1>1 DEF HostsDistinct
<1> QED BY <1>3, <1>4, <1>5 DEF RegistryInv

LEMMA RegistryLock ==
  ASSUME RegistryInv, NEW i \in DOMAIN prov, Lock(i)
  PROVE  RegistryInv'
<1>1. /\ mutex = 0 /\ mutex' = i /\ hosts' = hosts /\ decls' = decls
      /\ prov' = [prov EXCEPT ![i] = "locked"]
  BY DEF Lock, Registering
<1>2. Numbered'
  BY <1>1 DEF RegistryInv, Numbered, Given, Stages
<1>3. \A j \in DOMAIN prov : prov[j] \notin {"locked", "free"}
  BY <1>1 DEF RegistryInv, Numbered, Exclusive
<1>4. Exclusive'
  BY <1>1, <1>3 DEF RegistryInv, Numbered, Exclusive
<1>5. StillFree'
  BY <1>1, <1>3 DEF RegistryInv, Numbered, StillFree
<1>6. HostsDistinct'
  BY <1>1 DEF RegistryInv, HostsDistinct
<1> QED BY <1>2, <1>4, <1>5, <1>6 DEF RegistryInv

LEMMA RegistryFindFree ==
  ASSUME RegistryInv, NEW i \in DOMAIN prov, FindFree(i)
  PROVE  RegistryInv'
<1>1. /\ mutex' = mutex /\ hosts' = hosts /\ decls' = decls
      /\ prov[i] = "locked" /\ prov' = [prov EXCEPT ![i] = "free"] /\ ~Taken(i)
  BY DEF FindFree, Registering
<1>2. Numbered'
  BY <1>1 DEF RegistryInv, Numbered, Given, Stages
<1>3. Exclusive'
  BY <1>1 DEF RegistryInv, Numbered, Exclusive
<1>4. StillFree'
  BY <1>1 DEF RegistryInv, Numbered, StillFree, Taken
<1>5. HostsDistinct'
  BY <1>1 DEF RegistryInv, HostsDistinct
<1> QED BY <1>2, <1>3, <1>4, <1>5 DEF RegistryInv

LEMMA RegistryFindTaken ==
  ASSUME RegistryInv, NEW i \in DOMAIN prov, FindTaken(i)
  PROVE  RegistryInv'
<1>1. /\ hosts' = hosts /\ decls' = decls
      /\ prov[i] = "locked" /\ prov' = [prov EXCEPT ![i] = "failed"]
  BY DEF FindTaken, Registering
<1>2. Numbered'
  BY <1>1 DEF RegistryInv, Numbered, Given, Stages
<1>3. \A j \in DOMAIN prov : j # i => prov[j] \notin {"locked", "free"}
  BY <1>1 DEF RegistryInv, Exclusive
<1>4. (Exclusive /\ StillFree)'
  BY <1>1, <1>3 DEF RegistryInv, Numbered, Exclusive, StillFree
<1>5. HostsDistinct'
  BY <1>1 DEF RegistryInv, HostsDistinct
<1> QED BY <1>2, <1>4, <1>5 DEF RegistryInv

LEMMA RegistryAppend ==
  ASSUME RegistryInv, NEW i \in DOMAIN prov, Append1(i)
  PROVE  RegistryInv'
<1>1. /\ hosts' = Append(hosts, decls[i]) /\ decls' = decls
      /\ prov[i] = "free" /\ prov' = [prov EXCEPT ![i] = "done"]
  BY DEF Append1, Registering
<1>2. hosts \in Seq(Given) /\ decls[i] \in Given
  BY DEF RegistryInv, Numbered, Given
<1>3. /\ hosts' \in Seq(Given)
      /\ DOMAIN hosts' = 1 .. Len(hosts) + 1
      /\ DOMAIN hosts = 1 .. Len(hosts)
      /\ \A k \in 1 .. Len(hosts) : hosts'[k] = hosts[k]
      /\ hosts'[Len(hosts) + 1] = decls[i]
      /\ Len(hosts) \in Nat
  BY <1>1, <1>2
<1>4. Numbered'
  BY <1>1, <1>3 DEF RegistryInv, Numbered, Given, Stages
<1>5. \A j \in DOMAIN prov : j # i => prov[j] \notin {"locked", "free"}
  BY <1>1 DEF RegistryInv, Exclusive
<1>6. (Exclusive /\ StillFree)'
  BY <1>1, <1>5 DEF RegistryInv, Numbered, Exclusive, StillFree
<1>7. \A k \in DOMAIN hosts : hosts[k].host # decls[i].host
  BY <1>1 DEF RegistryInv, StillFree, Taken
<1>8. HostsDistinct'
  <2> SUFFICES ASSUME NEW k \in 1 .. Len(hosts) + 1, NEW l \in 1 .. Len(hosts) + 1,
                      hosts'[k].host = hosts'[l].host
               PROVE  k = l
    BY <1>3 DEF HostsDistinct
  <2>1. CASE k \in 1 .. Len(hosts) /\ l \in 1 .. Len(hosts)
    BY <2>1, <1>3 DEF RegistryInv, HostsDistinct
  <2>2. CASE k = Len(hosts) + 1 /\ l = Len(hosts) + 1
    BY <2>2
  <2>3. CASE k = Len(hosts) + 1 /\ l \in 1 .. Len(hosts)
    BY <2>3, <1>3, <1>7
  <2>4. CASE k \in 1 .. Len(hosts) /\ l = Len(hosts) + 1
    BY <2>4, <1>3, <1>7
  <2> QED BY <2>1, <2>2, <2>3, <2>4, <1>3
<1> QED BY <1>4, <1>6, <1>8 DEF RegistryInv

----------------------------------------------------------------------------
(* The outcome of the passes, and what becomes of it.                      *)

\* The outcome of every pass is in failed, and nothing else is.
Outcomes ==
  /\ passes = [z \in DOMAIN passes |-> passes[z]]
  /\ \A z \in DOMAIN passes :
       /\ passes[z] = [hosts |-> passes[z].hosts, token |-> passes[z].token,
                       prune |-> passes[z].prune, state |-> passes[z].state]
       /\ passes[z].state \in {"running", "ok", "error"}
       /\ passes[z].state = "error" => z \in failed
  /\ \A z \in failed :
       \/ z = IngressPhase
       \/ z \in DOMAIN passes /\ passes[z].state = "error"

\* Where the load is tells what its locals hold.
Staged ==
  /\ pc \in {"idle", "app"} => hosts = <<>>
  /\ pc \notin {"zones", "return"} => passes = NoPasses /\ failed = {}
  /\ pc = "return" => \A z \in DOMAIN passes : passes[z].state # "running"
  /\ pc # "idle" => answer = "none"

OutcomeInv == Outcomes /\ Staged

LEMMA NothingYet ==
  ASSUME passes' = NoPasses, failed' = {}
  PROVE  Outcomes'
BY DEF Outcomes, NoPasses

LEMMA OutcomeForgotten ==
  ASSUME Forget, pc' = "idle"
  PROVE  OutcomeInv'
<1>1. passes' = NoPasses /\ failed' = {} /\ hosts' = <<>>
  BY DEF Forget
<1> QED BY <1>1, NothingYet DEF OutcomeInv, Staged

LEMMA OutcomeGroup ==
  ASSUME OutcomeInv, Group
  PROVE  OutcomeInv'
<1>1. /\ passes' = [z \in Visited |-> Work(z)] /\ failed' = failed /\ failed = {}
      /\ pc = "detect" /\ pc' = "zones" /\ answer' = answer
  BY DEF Group, OutcomeInv, Staged
<1> DEFINE visited == Visited
<1>2. DOMAIN passes' = visited /\ \A z \in visited : passes'[z] = Work(z)
  BY <1>1
<1>3. \A z : /\ Work(z).state = "running"
             /\ Work(z) = [hosts |-> Work(z).hosts, token |-> Work(z).token,
                           prune |-> Work(z).prune, state |-> Work(z).state]
  BY DEF Work
<1>4. passes' = [z \in DOMAIN passes' |-> passes'[z]]
  BY <1>1
<1> HIDE DEF visited
<1>5. Outcomes'
  BY <1>1, <1>2, <1>3, <1>4 DEF Outcomes
<1> QED BY <1>1, <1>5 DEF OutcomeInv, Staged

LEMMA OutcomePassEnds ==
  ASSUME OutcomeInv, NEW z \in DOMAIN passes, PassEnds(z)
  PROVE  OutcomeInv'
<1>1. PICK ok \in BOOLEAN :
        /\ passes' = [passes EXCEPT ![z].state = IF ok THEN "ok" ELSE "error"]
        /\ failed' = Collected(failed, z, ok)
  BY DEF PassEnds
<1>2. passes[z].state = "running" /\ pc' = pc /\ pc = "zones" /\ answer' = answer
  BY DEF PassEnds
<1> DEFINE pass == passes[z]
           mark == IF ok THEN "ok" ELSE "error"
<1>3. /\ DOMAIN passes' = DOMAIN passes
      /\ passes' = [y \in DOMAIN passes' |-> passes'[y]]
      /\ \A y \in DOMAIN passes : y # z => passes'[y] = passes[y]
      /\ passes'[z] = [hosts |-> passes[z].hosts, token |-> passes[z].token,
                       prune |-> passes[z].prune, state |-> IF ok THEN "ok" ELSE "error"]
  <2>1. passes = [y \in DOMAIN passes |-> passes[y]]
    BY DEF OutcomeInv, Outcomes
  <2>2. passes' = [y \in DOMAIN passes |-> IF y = z THEN [pass EXCEPT !.state = mark]
                                                     ELSE passes[y]]
    BY <1>1, <2>1
  <2>3. pass = [hosts |-> pass.hosts, token |-> pass.token,
                prune |-> pass.prune, state |-> pass.state]
    BY DEF OutcomeInv, Outcomes
  <2> HIDE DEF pass, mark
  <2>4. [pass EXCEPT !.state = mark] = [hosts |-> pass.hosts, token |-> pass.token,
                                        prune |-> pass.prune, state |-> mark]
    BY <2>3
  <2>5. passes'[z] = [hosts |-> pass.hosts, token |-> pass.token,
                      prune |-> pass.prune, state |-> mark]
    BY <2>2, <2>4
  <2>6. DOMAIN passes' = DOMAIN passes
    BY <2>2
  <2>7. \A y \in DOMAIN passes : y # z => passes'[y] = passes[y]
    BY <2>2
  <2>8. passes' = [y \in DOMAIN passes' |-> passes'[y]]
    BY <2>2
  <2> QED BY <2>5, <2>6, <2>7, <2>8 DEF pass, mark
<1>4. failed' = IF ok THEN failed ELSE failed \cup {z}
  BY <1>1 DEF Collected
<1>5. \A y \in failed : y = z => z = IngressPhase
  BY <1>2 DEF OutcomeInv, Outcomes
<1>6. Outcomes'
  <2>1. \A y \in DOMAIN passes' :
          /\ passes'[y] = [hosts |-> passes'[y].hosts, token |-> passes'[y].token,
                           prune |-> passes'[y].prune, state |-> passes'[y].state]
          /\ passes'[y].state \in {"running", "ok", "error"}
          /\ passes'[y].state = "error" => y \in failed'
    BY <1>3, <1>4 DEF OutcomeInv, Outcomes
  <2>2. \A y \in failed' :
          \/ y = IngressPhase
          \/ y \in DOMAIN passes' /\ passes'[y].state = "error"
    BY <1>3, <1>4, <1>5 DEF OutcomeInv, Outcomes
  <2> QED BY <1>3, <2>1, <2>2 DEF Outcomes
<1> QED BY <1>2, <1>6 DEF OutcomeInv, Staged

LEMMA OutcomeIngress ==
  ASSUME OutcomeInv, Ingress
  PROVE  OutcomeInv'
<1>1. PICK ok \in BOOLEAN : failed' = Collected(failed, IngressPhase, ok)
  BY DEF Ingress
<1>2. /\ passes' = passes /\ pc = "zones" /\ pc' = "return" /\ answer' = answer
      /\ \A z \in DOMAIN passes : passes[z].state # "running"
  BY DEF Ingress
<1>3. failed' = failed \/ failed' = failed \cup {IngressPhase}
  BY <1>1 DEF Collected
<1>4. Outcomes'
  BY <1>2, <1>3 DEF OutcomeInv, Outcomes
<1> QED BY <1>2, <1>4 DEF OutcomeInv, Staged

\* A step that leaves the passes alone and moves before them.
LEMMA OutcomeBefore ==
  ASSUME OutcomeInv, UNCHANGED <<passes, failed, answer>>,
         pc \in {"app", "provision"}, pc' \in {"provision", "detect"}
  PROVE  OutcomeInv'
<1>1. passes' = NoPasses /\ failed' = {} /\ answer' = "none"
  BY DEF OutcomeInv, Staged
<1> QED BY <1>1, NothingYet DEF OutcomeInv, Staged

----------------------------------------------------------------------------
(* The two together, over every step.                                      *)

LoadInv == RegistryInv /\ OutcomeInv

LEMMA LoadInit == Init => LoadInv
<1> SUFFICES ASSUME Init PROVE LoadInv
  OBVIOUS
<1>1. passes = NoPasses /\ failed = {} /\ hosts = <<>> /\ pc = "idle"
  BY DEF Init
<1>2. OutcomeInv
  BY <1>1 DEF OutcomeInv, Outcomes, NoPasses, Staged
<1> QED BY <1>2, RegistryInit DEF LoadInv

LEMMA LoadFile ==
  ASSUME LoadInv, NEW f \in Files, Adapt(f) \/ RefuseFile(f)
  PROVE  LoadInv'
<1>1. /\ pc = "idle" /\ UNCHANGED <<mutex, hosts, passes, failed>>
      /\ hosts = <<>> /\ passes = NoPasses /\ failed = {}
  BY DEF LoadInv, OutcomeInv, Staged, Adapt, RefuseFile, NewLoad
<1>2. CASE Adapt(f)
  <2>1. RegistryInv'
    BY <1>1, <1>2, RegistryAdapt DEF LoadInv
  <2>2. pc' = "app" /\ answer' = "none"
    BY <1>2 DEF Adapt
  <2> QED BY <1>1, <2>1, <2>2, NothingYet DEF LoadInv, OutcomeInv, Staged
<1>3. CASE RefuseFile(f)
  <2>1. pc' = pc /\ UNCHANGED <<decls, prov>>
    BY <1>3 DEF RefuseFile
  <2>2. RegistryInv'
    BY <1>1, <2>1, RegistryUntouched DEF LoadInv
  <2> QED BY <1>1, <2>1, <2>2, NothingYet DEF LoadInv, OutcomeInv, Staged
<1> QED BY <1>2, <1>3

LEMMA LoadAnswers ==
  ASSUME NEW accepted, Answer(accepted)
  PROVE  LoadInv'
BY Forgotten, OutcomeForgotten DEF Answer, LoadInv

LEMMA LoadAddHost ==
  ASSUME LoadInv, NEW i \in DOMAIN prov, AddHost(i)
  PROVE  LoadInv'
<1>1. RegistryInv'
  BY RegistryLock, RegistryFindFree, RegistryFindTaken, RegistryAppend DEF AddHost, LoadInv
<1>2. pc = "provision" /\ pc' = pc /\ UNCHANGED <<passes, failed, answer>>
  BY DEF AddHost, Lock, FindFree, FindTaken, Append1, Registering
<1> QED BY <1>1, <1>2, OutcomeBefore DEF LoadInv

LEMMA LoadWhole ==
  ASSUME LoadInv, Whole
  PROVE  LoadInv'
<1>1. CASE ProvisionApp
  BY <1>1, RegistryUntouched, OutcomeBefore DEF ProvisionApp, LoadInv
<1>2. CASE RefuseApp
  BY <1>2, LoadAnswers DEF RefuseApp
<1>3. CASE RefuseHandlers
  BY <1>3, LoadAnswers DEF RefuseHandlers
<1>4. CASE Start
  BY <1>4, RegistryUntouched, OutcomeBefore DEF Start, LoadInv
<1>5. CASE Group
  BY <1>5, RegistryUntouched, OutcomeGroup DEF Group, LoadInv
<1>6. CASE Ingress
  BY <1>6, RegistryUntouched, OutcomeIngress DEF Ingress, LoadInv
<1>7. CASE Return
  BY <1>7, LoadAnswers DEF Return
<1> QED BY <1>1, <1>2, <1>3, <1>4, <1>5, <1>6, <1>7 DEF Whole

LEMMA LoadStep == LoadInv /\ [Next]_vars => LoadInv'
<1> SUFFICES ASSUME LoadInv, [Next]_vars PROVE LoadInv'
  OBVIOUS
<1>1. CASE \E f \in Files : Adapt(f) \/ RefuseFile(f)
  BY <1>1, LoadFile
<1>2. CASE Whole
  BY <1>2, LoadWhole
<1>3. CASE \E i \in DOMAIN prov : AddHost(i)
  BY <1>3, LoadAddHost
<1>4. CASE \E f \in Families : Detect(f)
  <2>1. pc = "detect" /\ pc' = pc /\ UNCHANGED <<passes, failed, answer, decls, prov, mutex, hosts>>
    BY <1>4 DEF Detect
  <2>2. OutcomeInv'
    BY <2>1, NothingYet DEF LoadInv, OutcomeInv, Staged
  <2> QED BY <2>1, <2>2, RegistryUntouched DEF LoadInv
<1>5. CASE \E z \in DOMAIN passes : PassEnds(z)
  <2>1. UNCHANGED <<decls, prov, mutex, hosts>>
    BY <1>5 DEF PassEnds
  <2> QED BY <1>5, <2>1, RegistryUntouched, OutcomePassEnds DEF LoadInv
<1>6. CASE Crash
  BY <1>6, Forgotten, OutcomeForgotten DEF Crash, LoadInv
<1>7. CASE UNCHANGED vars
  <2>1. UNCHANGED <<decls, prov, mutex, hosts, passes, failed, pc, answer>>
    BY <1>7 DEF vars
  <2>2. OutcomeInv'
    BY <2>1 DEF LoadInv, OutcomeInv, Outcomes, Staged
  <2> QED BY <2>1, <2>2, RegistryUntouched DEF LoadInv
<1> QED BY <1>1, <1>2, <1>3, <1>4, <1>5, <1>6, <1>7 DEF Next

----------------------------------------------------------------------------
(* What a load carries from the file to its passes.                        *)

Late == {"detect", "zones", "return"}

Passing == {"zones", "return"}

\* The declarations are those of the file's sites, and the app has the zones
\* and tunnels they were resolved with.
Carried ==
  /\ AppTyped(app)
  /\ decls \in Seq(HandlerJSON)
  /\ pc = "idle" => decls = <<>>
  /\ pc # "idle" =>
       /\ file \in Files
       /\ DOMAIN decls = DOMAIN file.sites
       /\ \A i \in DOMAIN decls : DirectiveOK(decls[i], app, file.sites[i].lines)

\* Who is done is in the registry, and no one else is waited for afterwards.
Registered ==
  /\ \A i \in DOMAIN prov : prov[i] = "done" => \E k \in DOMAIN hosts : hosts[k] = decls[i]
  /\ pc \in Late => \A i \in DOMAIN prov : prov[i] = "done"

InZone(z) == {k \in DOMAIN hosts : ZoneOf(hosts[k]) = z}

\* Each pass has the hosts of its zone.
Grouped ==
  pc \in Passing =>
    /\ DOMAIN passes = Visited
    /\ \A z \in DOMAIN passes : passes[z].hosts = Picked(hosts, InZone(z))

\* A family that is needed is asked for, and the passes wait for its answer.
Detecting ==
  /\ det \in [Families -> Answers \cup {"unwanted", "asked", "failed"}]
  /\ det["AAAA"] \notin IPv4 \cup Mapped
  /\ pc \in Late => \A f \in Families : \A k \in DOMAIN hosts :
       ToDetect(hosts[k], f) => det[f] # "unwanted"
  /\ pc \in Passing => \A f \in Families : det[f] # "asked"

Plain ==
  /\ {running, file} \subseteq Files \cup {Nothing}
  /\ answer \in {"none", "accepted", "refused"}
  /\ pc \in {"idle", "app", "provision", "detect", "zones", "return"}
  /\ mutex \in DOMAIN decls \cup {0}
  /\ loads \in 0 .. MaxLoads

InputInv == Carried /\ Registered /\ Grouped /\ Detecting /\ Plain

LEMMA CarriedKept ==
  ASSUME Carried, UNCHANGED <<app, decls, file>>, pc # "idle", pc' # "idle"
  PROVE  Carried'
BY DEF Carried

LEMMA RegisteredKept ==
  ASSUME Registered, UNCHANGED <<decls, prov, hosts>>, pc' \in Late => pc \in Late
  PROVE  Registered'
BY DEF Registered

LEMMA GroupedKept ==
  ASSUME Grouped, UNCHANGED <<app, hosts>>, DOMAIN passes' = DOMAIN passes,
         \A z \in DOMAIN passes : passes'[z].hosts = passes[z].hosts,
         pc' \in Passing => pc \in Passing
  PROVE  Grouped'
<1>1. \A z : InZone(z)' = InZone(z)
  BY DEF InZone, ZoneOf
<1>2. Visited' = Visited
  BY DEF Visited, ZoneOf
<1> QED BY <1>1, <1>2 DEF Grouped

LEMMA DetectingKept ==
  ASSUME Detecting, UNCHANGED <<det, hosts>>, pc' \in Late => pc \in Late,
         pc' \in Passing => pc \in Passing
  PROVE  Detecting'
BY DEF Detecting

LEMMA InputForgotten ==
  ASSUME Forget, pc' = "idle", {running', file'} \subseteq Files \cup {Nothing},
         answer' \in {"none", "accepted", "refused"}, loads' \in 0 .. MaxLoads
  PROVE  InputInv'
<1>1. /\ app' = NewApp /\ decls' = <<>> /\ prov' = <<>> /\ mutex' = 0 /\ hosts' = <<>>
      /\ det' = Unasked /\ passes' = NoPasses
  BY DEF Forget
<1>2. DOMAIN <<>> = {} /\ <<>> \in Seq(HandlerJSON)
  BY EmptySeq
<1>3. Carried'
  BY <1>1, <1>2, NewAppTyped DEF Carried
<1>4. Registered' /\ Grouped'
  BY <1>1, <1>2 DEF Registered, Grouped, Late, Passing
<1>5. Detecting'
  <2>1. "AAAA" \in Families /\ det' = [f \in Families |-> "unwanted"]
    BY <1>1 DEF Families, Unasked
  <2>2. det'["AAAA"] = "unwanted"
    BY <2>1
  <2>3. "unwanted" \notin IPv4 \cup Mapped
    BY AddressesApart
  <2> QED BY <2>1, <2>2, <2>3 DEF Detecting, Late, Passing
<1>6. Plain'
  BY <1>1 DEF Plain
<1> QED BY <1>3, <1>4, <1>5, <1>6 DEF InputInv

LEMMA InputInit == Init => InputInv
<1> SUFFICES ASSUME Init PROVE InputInv
  OBVIOUS
<1>1. /\ app = NewApp /\ decls = <<>> /\ prov = <<>> /\ mutex = 0 /\ hosts = <<>>
      /\ det = Unasked /\ passes = NoPasses /\ pc = "idle" /\ running = Nothing
      /\ file = Nothing /\ answer = "none" /\ loads = 0
  BY DEF Init
<1>2. DOMAIN <<>> = {} /\ <<>> \in Seq(HandlerJSON)
  BY EmptySeq
<1>3. Carried
  BY <1>1, <1>2, NewAppTyped DEF Carried
<1>4. Registered /\ Grouped
  BY <1>1, <1>2 DEF Registered, Grouped, Late, Passing
<1>5. Detecting
  <2>1. "AAAA" \in Families /\ det = [f \in Families |-> "unwanted"]
    BY <1>1 DEF Families, Unasked
  <2>2. det["AAAA"] = "unwanted"
    BY <2>1
  <2>3. "unwanted" \notin IPv4 \cup Mapped
    BY AddressesApart
  <2> QED BY <1>1, <2>1, <2>2, <2>3 DEF Detecting, Late, Passing
<1>6. Plain
  BY <1>1, MaxLoadsAssumption DEF Plain
<1> QED BY <1>3, <1>4, <1>5, <1>6 DEF InputInv

LEMMA InputAnswer ==
  ASSUME InputInv, NEW accepted, Answer(accepted), pc # "idle"
  PROVE  InputInv'
<1>1. /\ pc' = "idle" /\ Forget /\ file' = file /\ loads' = loads
      /\ answer' \in {"accepted", "refused"} /\ running' \in {file, running}
  BY DEF Answer
<1> QED BY <1>1, InputForgotten DEF InputInv, Plain

LEMMA InputAdapt ==
  ASSUME LoadInv, InputInv, NEW f \in Files, Adapt(f)
  PROVE  InputInv'
<1> DEFINE parsed == ParseGlobal(f.global)
<1>1. /\ pc = "idle" /\ pc' = "app" /\ loads < MaxLoads /\ loads' = loads + 1 /\ file' = f
      /\ UNCHANGED <<running, mutex, hosts, det, passes, failed>> /\ answer' = "none"
      /\ parsed # Rejected
      /\ \A i \in DOMAIN f.sites : Directive(parsed, f.sites[i]) # Rejected
      /\ app' = parsed
      /\ decls' = Directives(parsed, f.sites)
      /\ prov' = [i \in DOMAIN f.sites |-> "waiting"]
  BY DEF Adapt, NewLoad, Adapts
<1>2. AppTyped(parsed)
  BY <1>1, ParsedTyped
<1> HIDE DEF parsed
<1>3. \A i \in DOMAIN f.sites : DirectiveOK(Directive(parsed, f.sites[i]), parsed, f.sites[i].lines)
  BY <1>1, <1>2, DirectiveIs
<1>4. decls' = [i \in DOMAIN f.sites |-> Directive(parsed, f.sites[i])]
  BY <1>1 DEF Directives
<1>5. DOMAIN f.sites = 1 .. Len(f.sites) /\ Len(f.sites) \in Nat
  BY FilesTyped DEF IsList
<1>6. decls' \in Seq(HandlerJSON)
  <2>1. \A i \in DOMAIN f.sites : Directive(parsed, f.sites[i]) \in HandlerJSON
    BY <1>3 DEF DirectiveOK
  <2>2. decls' \in [1 .. Len(f.sites) -> HandlerJSON]
    BY <1>4, <1>5, <2>1
  <2> QED BY <1>5, <2>2, IsASeq
<1>7. Carried'
  BY <1>1, <1>2, <1>3, <1>4, <1>6 DEF Carried
<1>8. Registered' /\ Grouped' /\ Detecting'
  BY <1>1 DEF Registered, Grouped, Detecting, Late, Passing, InputInv
<1>9. Plain'
  <2>1. mutex = 0
    BY <1>1 DEF InputInv, Plain, Carried
  <2>2. loads + 1 \in 0 .. MaxLoads
    BY <1>1, MaxLoadsAssumption DEF InputInv, Plain
  <2> QED BY <1>1, <2>1, <2>2 DEF InputInv, Plain
<1> QED BY <1>7, <1>8, <1>9 DEF InputInv

LEMMA InputRefuse ==
  ASSUME InputInv, NEW f \in Files, RefuseFile(f)
  PROVE  InputInv'
<1>1. /\ pc = "idle" /\ pc' = pc /\ loads < MaxLoads /\ loads' = loads + 1 /\ file' = f
      /\ UNCHANGED <<running, mutex, hosts, det, passes, app, decls, prov>> /\ answer' = "refused"
  BY DEF RefuseFile, NewLoad
<1>2. Carried'
  BY <1>1 DEF InputInv, Carried
<1>3. Registered' /\ Grouped' /\ Detecting'
  BY <1>1 DEF Registered, Grouped, Detecting, Late, Passing, InputInv
<1>4. loads + 1 \in 0 .. MaxLoads
  BY <1>1, MaxLoadsAssumption DEF InputInv, Plain
<1>5. Plain'
  BY <1>1, <1>4 DEF InputInv, Plain
<1> QED BY <1>2, <1>3, <1>5 DEF InputInv

LEMMA InputProvision ==
  ASSUME InputInv, ProvisionApp
  PROVE  InputInv'
<1>1. /\ pc = "app" /\ pc' = "provision" /\ app' = WithIdentity(app)
      /\ UNCHANGED <<running, answer, file, decls, prov, mutex, hosts, det, passes, failed, loads>>
  BY DEF ProvisionApp
<1>2. AppTyped(app') /\ app'.zones = app.zones /\ app'.tunnels = app.tunnels
  <2> DEFINE tagged == WithSetting(app, "tag_prefix", IF app.tag_prefix = Empty THEN DefaultTag ELSE app.tag_prefix)
  <2>1. AppTyped(app)
    BY DEF InputInv, Carried
  <2>2. "tag_prefix" \in Settings /\ "instance" \in Settings
    BY DEF Settings
  <2>3. AppTyped(tagged) /\ tagged.zones = app.zones /\ tagged.tunnels = app.tunnels
    BY <2>1, <2>2, SettingsApart
  <2>4. tagged.instance = app.instance
    BY <2>1 DEF WithSetting, AppTyped, NewApp
  <2> DEFINE named == WithSetting(tagged, "instance", IF tagged.instance = Empty THEN Machine ELSE tagged.instance)
  <2>5. app' = named
    BY <1>1 DEF WithIdentity, WithSetting
  <2> HIDE DEF tagged
  <2>6. AppTyped(named) /\ named.zones = tagged.zones /\ named.tunnels = tagged.tunnels
    BY <2>2, <2>3, SettingsApart
  <2> HIDE DEF named
  <2> QED BY <2>3, <2>5, <2>6
<1>3. \A i \in DOMAIN decls : DirectiveOK(decls[i], app', file.sites[i].lines)
  <2>1. ZoneNames(app') = ZoneNames(app)
    BY <1>2 DEF ZoneNames
  <2>2. \A i \in DOMAIN decls : DirectiveOK(decls[i], app, file.sites[i].lines)
    BY <1>1 DEF InputInv, Carried
  <2> QED BY <1>2, <2>1, <2>2 DEF DirectiveOK
<1>4. Carried'
  BY <1>1, <1>2, <1>3 DEF InputInv, Carried
<1>5. Registered' /\ Grouped' /\ Detecting'
  BY <1>1 DEF Registered, Grouped, Detecting, Late, Passing, InputInv
<1>6. Plain'
  BY <1>1 DEF InputInv, Plain
<1> QED BY <1>4, <1>5, <1>6 DEF InputInv

LEMMA InputAddHost ==
  ASSUME LoadInv, InputInv, NEW i \in DOMAIN prov, AddHost(i)
  PROVE  InputInv'
<1>1. /\ pc = "provision" /\ pc' = pc
      /\ UNCHANGED <<running, answer, file, app, decls, det, passes, failed, loads>>
  BY DEF AddHost, Lock, FindFree, FindTaken, Append1, Registering
<1>2. mutex' \in {0, i, mutex} /\ i \in DOMAIN decls
  BY DEF AddHost, Lock, FindFree, FindTaken, Append1, Registering, LoadInv, RegistryInv, Numbered
<1>3. Plain'
  BY <1>1, <1>2 DEF InputInv, Plain
<1>4. Carried'
  BY <1>1, CarriedKept DEF InputInv
<1>5. Grouped' /\ Detecting'
  BY <1>1 DEF Grouped, Detecting, Late, Passing, InputInv
<1>6. Registered'
  <2>1. CASE Append1(i)
    <3>1. hosts' = Append(hosts, decls[i]) /\ prov' = [prov EXCEPT ![i] = "done"]
      BY <2>1 DEF Append1, Registering
    <3>2. hosts \in Seq(Given) /\ decls[i] \in Given /\ prov \in [DOMAIN prov -> Stages]
      BY DEF LoadInv, RegistryInv, Numbered, Given
    <3>3. /\ DOMAIN hosts' = 1 .. Len(hosts) + 1 /\ DOMAIN hosts = 1 .. Len(hosts)
          /\ \A k \in 1 .. Len(hosts) : hosts'[k] = hosts[k]
          /\ hosts'[Len(hosts) + 1] = decls[i]
          /\ Len(hosts) \in Nat
      BY <3>1, <3>2
    <3>4. \A k \in DOMAIN hosts : k \in DOMAIN hosts' /\ hosts'[k] = hosts[k]
      BY <3>3
    <3>5. Len(hosts) + 1 \in DOMAIN hosts'
      BY <3>3
    <3> HIDE DEF Append1
    <3>6. ASSUME NEW j \in DOMAIN prov', prov'[j] = "done"
          PROVE  \E k \in DOMAIN hosts' : hosts'[k] = decls'[j]
      <4>1. CASE j = i
        BY <1>1, <3>3, <3>5, <4>1
      <4>2. CASE j # i
        <5>1. j \in DOMAIN prov /\ prov[j] = "done"
          BY <3>1, <3>2, <3>6, <4>2
        <5>2. PICK k \in DOMAIN hosts : hosts[k] = decls[j]
          BY <5>1 DEF InputInv, Registered
        <5> QED BY <1>1, <3>4, <5>2
      <4> QED BY <4>1, <4>2
    <3> QED BY <1>1, <3>6 DEF Registered, Late
  <2>2. CASE ~Append1(i)
    <3>1. /\ hosts' = hosts
          /\ \E to \in {"locked", "free", "failed"} : prov' = [prov EXCEPT ![i] = to]
      BY <2>2 DEF AddHost, Lock, FindFree, FindTaken, Registering
    <3>2. prov \in [DOMAIN prov -> Stages]
      BY DEF LoadInv, RegistryInv, Numbered
    <3>3. \A j \in DOMAIN prov' : prov'[j] = "done" => j \in DOMAIN prov /\ prov[j] = "done"
      BY <3>1, <3>2
    <3> QED BY <1>1, <3>1, <3>3 DEF InputInv, Registered, Late
  <2> QED BY <2>1, <2>2
<1> QED BY <1>3, <1>4, <1>5, <1>6 DEF InputInv

LEMMA InputStart ==
  ASSUME InputInv, Start
  PROVE  InputInv'
<1>1. /\ pc = "provision" /\ pc' = "detect" /\ \A i \in DOMAIN prov : prov[i] = "done"
      /\ det' = [f \in Families |->
                   IF \E k \in DOMAIN hosts : ToDetect(hosts[k], f) THEN "asked" ELSE "unwanted"]
      /\ UNCHANGED <<running, answer, file, app, decls, prov, mutex, hosts, passes, failed, loads>>
  BY DEF Start
<1>2. Carried'
  BY <1>1, CarriedKept DEF InputInv
<1>3. Registered' /\ Grouped'
  BY <1>1 DEF InputInv, Registered, Grouped, Passing
<1>4. Detecting'
  <2>1. det' \in [Families -> {"asked", "unwanted"}] /\ "AAAA" \in Families
    BY <1>1 DEF Families
  <2>2. det'["AAAA"] \notin IPv4 \cup Mapped
    BY <2>1, AddressesApart
  <2>3. \A f \in Families : \A k \in DOMAIN hosts : ToDetect(hosts[k], f) => det'[f] = "asked"
    BY <1>1
  <2>4. \A f \in Families : \A k \in DOMAIN hosts' : ToDetect(hosts'[k], f) => det'[f] # "unwanted"
    BY <1>1, <2>3
  <2> QED BY <1>1, <2>1, <2>2, <2>4 DEF Detecting, Passing
<1>5. Plain'
  BY <1>1 DEF InputInv, Plain
<1> QED BY <1>2, <1>3, <1>4, <1>5 DEF InputInv

LEMMA InputDetect ==
  ASSUME InputInv, NEW f \in Families, Detect(f)
  PROVE  InputInv'
<1>1. /\ pc = "detect" /\ pc' = pc /\ det[f] = "asked"
      /\ UNCHANGED <<running, answer, file, app, decls, prov, mutex, hosts, passes, failed, loads>>
  BY DEF Detect
<1>2. PICK a \in Answers : det' = [det EXCEPT ![f] = IF Accepts(f, a) THEN a ELSE "failed"]
  BY DEF Detect
<1> DEFINE v == IF Accepts(f, a) THEN a ELSE "failed"
<1>3. /\ v \in Answers \cup {"failed"} /\ v # "unwanted"
      /\ f = "AAAA" => v \notin IPv4 \cup Mapped
  <2>1. CASE Accepts(f, a)
    <3>1. v = a /\ a # "unwanted"
      BY <2>1, AddressesApart DEF Accepts, IsIPv4, IsIPv6
    <3>2. f = "AAAA" => a \in IPv6
      BY <2>1 DEF Accepts, IsIPv6
    <3> QED BY <3>1, <3>2, AddressesApart
  <2>2. CASE ~Accepts(f, a)
    BY <2>2, AddressesApart
  <2> QED BY <2>1, <2>2
<1> HIDE DEF v
<1>4. det \in [Families -> Answers \cup {"unwanted", "asked", "failed"}]
  BY DEF InputInv, Detecting
<1>5. det' = [det EXCEPT ![f] = v]
  BY <1>2 DEF v
<1>6. /\ det' \in [Families -> Answers \cup {"unwanted", "asked", "failed"}]
      /\ \A g \in Families : det'[g] = IF g = f THEN v ELSE det[g]
  BY <1>3, <1>4, <1>5
<1>7. Detecting'
  <2>1. "AAAA" \in Families
    BY DEF Families
  <2>2. det'["AAAA"] \notin IPv4 \cup Mapped
    BY <1>3, <1>6, <2>1 DEF InputInv, Detecting
  <2>3. \A g \in Families : \A k \in DOMAIN hosts : ToDetect(hosts[k], g) => det'[g] # "unwanted"
    BY <1>1, <1>3, <1>6 DEF InputInv, Detecting, Late
  <2> QED BY <1>1, <1>6, <2>2, <2>3 DEF Detecting, Passing
<1>8. Carried' /\ Registered'
  BY <1>1, CarriedKept, RegisteredKept DEF InputInv
<1>9. Grouped' /\ Plain'
  BY <1>1 DEF InputInv, Grouped, Plain, Passing
<1> QED BY <1>7, <1>8, <1>9 DEF InputInv

LEMMA InputGroup ==
  ASSUME InputInv, Group
  PROVE  InputInv'
<1>1. /\ pc = "detect" /\ pc' = "zones" /\ Detected
      /\ UNCHANGED <<running, answer, file, app, decls, prov, mutex, hosts, det, failed, loads>>
  BY DEF Group
<1>2. passes' = [z \in Visited |-> Work(z)]
  BY DEF Group
<1>3. Visited' = Visited /\ \A z : InZone(z)' = InZone(z)
  BY <1>1 DEF Visited, ZoneOf, InZone
<1>4. \A z : Work(z).hosts = Picked(hosts, InZone(z))
  BY DEF Work, InZone
<1>5. Grouped'
  <2> DEFINE visited == Visited
  <2>1. DOMAIN passes' = visited /\ \A z \in visited : passes'[z] = Work(z)
    BY <1>2
  <2> HIDE DEF visited
  <2>2. \A z \in DOMAIN passes' : passes'[z].hosts = Picked(hosts, InZone(z))
    BY <1>4, <2>1
  <2>3. DOMAIN passes' = Visited
    BY <2>1 DEF visited
  <2> QED BY <1>1, <1>3, <2>2, <2>3 DEF Grouped
<1>6. Detecting'
  BY <1>1 DEF InputInv, Detecting, Detected, Late, Passing
<1>7. Carried' /\ Registered'
  BY <1>1, CarriedKept, RegisteredKept DEF InputInv, Late
<1>8. Plain'
  BY <1>1 DEF InputInv, Plain
<1> QED BY <1>5, <1>6, <1>7, <1>8 DEF InputInv

\* Steps behind the grouping.
LEMMA InputPassing ==
  ASSUME InputInv, pc \in Passing, pc' \in Passing,
         UNCHANGED <<running, answer, file, app, decls, prov, mutex, hosts, det, loads>>,
         DOMAIN passes' = DOMAIN passes,
         \A z \in DOMAIN passes : passes'[z].hosts = passes[z].hosts
  PROVE  InputInv'
<1>1. Carried'
  BY CarriedKept DEF InputInv, Passing
<1>2. Registered' /\ Detecting'
  BY RegisteredKept, DetectingKept DEF InputInv, Passing, Late
<1>3. Grouped'
  BY GroupedKept DEF InputInv
<1>4. Plain'
  BY DEF InputInv, Plain, Passing
<1> QED BY <1>1, <1>2, <1>3, <1>4 DEF InputInv

LEMMA InputPassEnds ==
  ASSUME LoadInv, InputInv, NEW z \in DOMAIN passes, PassEnds(z)
  PROVE  InputInv'
<1>1. PICK ok \in BOOLEAN : passes' = [passes EXCEPT ![z].state = IF ok THEN "ok" ELSE "error"]
  BY DEF PassEnds
<1>2. /\ pc = "zones" /\ pc' = pc
      /\ UNCHANGED <<running, answer, file, app, decls, prov, mutex, hosts, det, loads>>
  BY DEF PassEnds
<1> DEFINE pass == passes[z]
           mark == IF ok THEN "ok" ELSE "error"
<1>3. passes = [y \in DOMAIN passes |-> passes[y]]
  BY DEF LoadInv, OutcomeInv, Outcomes
<1>4. passes' = [y \in DOMAIN passes |-> IF y = z THEN [pass EXCEPT !.state = mark]
                                                   ELSE passes[y]]
  BY <1>1, <1>3
<1>5. pass = [hosts |-> pass.hosts, token |-> pass.token,
              prune |-> pass.prune, state |-> pass.state]
  BY DEF LoadInv, OutcomeInv, Outcomes
<1> HIDE DEF pass, mark
<1>6. [pass EXCEPT !.state = mark].hosts = pass.hosts
  BY <1>5
<1>7. DOMAIN passes' = DOMAIN passes
  BY <1>4
<1>8. \A y \in DOMAIN passes : passes'[y].hosts = passes[y].hosts
  BY <1>4, <1>6 DEF pass
<1> QED BY <1>2, <1>7, <1>8, InputPassing DEF Passing

LEMMA InputIngress ==
  ASSUME InputInv, Ingress
  PROVE  InputInv'
<1>1. /\ pc = "zones" /\ pc' = "return"
      /\ UNCHANGED <<running, answer, file, app, decls, prov, mutex, hosts, det, passes, loads>>
  BY DEF Ingress
<1> QED BY <1>1, InputPassing DEF Passing

LEMMA InputWhole ==
  ASSUME InputInv, Whole
  PROVE  InputInv'
<1>1. CASE RefuseApp
  BY <1>1, InputAnswer DEF RefuseApp
<1>2. CASE RefuseHandlers
  BY <1>2, InputAnswer DEF RefuseHandlers
<1>3. CASE Return
  BY <1>3, InputAnswer DEF Return
<1> QED BY <1>1, <1>2, <1>3, InputProvision, InputStart, InputGroup, InputIngress DEF Whole

LEMMA InputStep == LoadInv /\ InputInv /\ [Next]_vars => InputInv'
<1> SUFFICES ASSUME LoadInv, InputInv, [Next]_vars PROVE InputInv'
  OBVIOUS
<1>1. CASE \E f \in Files : Adapt(f) \/ RefuseFile(f)
  BY <1>1, InputAdapt, InputRefuse
<1>2. CASE Whole
  BY <1>2, InputWhole
<1>3. CASE \E i \in DOMAIN prov : AddHost(i)
  BY <1>3, InputAddHost
<1>4. CASE \E f \in Families : Detect(f)
  BY <1>4, InputDetect
<1>5. CASE \E z \in DOMAIN passes : PassEnds(z)
  BY <1>5, InputPassEnds
<1>6. CASE Crash
  <2>1. /\ pc' = "idle" /\ running' = Nothing /\ answer' = "none" /\ Forget
        /\ UNCHANGED <<file, loads>>
    BY <1>6 DEF Crash
  <2> QED BY <2>1, InputForgotten DEF InputInv, Plain
<1>7. CASE UNCHANGED vars
  <2>1. UNCHANGED <<running, answer, file, pc, app, decls, prov, mutex, hosts, det, passes, loads>>
    BY <1>7 DEF vars
  <2>2. Carried'
    BY <2>1 DEF InputInv, Carried
  <2>3. Registered' /\ Detecting' /\ Plain'
    BY <2>1 DEF InputInv, Registered, Detecting, Plain
  <2>4. Grouped'
    BY <2>1, GroupedKept DEF InputInv
  <2> QED BY <2>2, <2>3, <2>4 DEF InputInv
<1> QED BY <1>1, <1>2, <1>3, <1>4, <1>5, <1>6, <1>7 DEF Next

LEMMA InvHolds == Spec => [](LoadInv /\ InputInv)
<1> DEFINE Both == LoadInv /\ InputInv
<1>1. Init => Both
  BY LoadInit, InputInit
<1>2. Both /\ [Next]_vars => Both'
  BY LoadStep, InputStep
<1> QED BY <1>1, <1>2, PTL DEF Spec

----------------------------------------------------------------------------
(* What follows.                                                           *)

\* A declaration in the registry, and the zone it belongs to.
LEMMA HostIs ==
  ASSUME LoadInv, InputInv, NEW k \in DOMAIN hosts
  PROVE  /\ hosts[k] \in Given
         /\ ZoneOf(hosts[k]) \in Visited
         /\ Clean(ZoneOf(hosts[k])) /\ ZoneOf(hosts[k]) # Apex
         /\ Under(hosts[k].host, ZoneOf(hosts[k]))
         /\ Clean(hosts[k].host)
         /\ \A e \in DOMAIN app.zones : Under(hosts[k].host, app.zones[e].zone) =>
              Len(app.zones[e].zone) <= Len(ZoneOf(hosts[k]))
<1> DEFINE host == hosts[k].host
<1> DEFINE names == ZoneNames(app)
<1> DEFINE i == AssignZone(names, host)
<1>1. hosts \in Seq(Given)
  BY DEF LoadInv, RegistryInv, Numbered
<1>2. hosts[k] \in Given
  BY <1>1
<1>3. PICK d \in DOMAIN decls : hosts[k] = decls[d]
  BY <1>2 DEF Given
<1>4. pc # "idle"
  <2>1. DOMAIN <<>> = {}
    OBVIOUS
  <2> QED BY <1>3, <2>1 DEF InputInv, Carried
<1>5. DirectiveOK(hosts[k], app, file.sites[d].lines) /\ AppTyped(app)
  BY <1>3, <1>4 DEF InputInv, Carried
<1>6. Lowered(host) /\ host \in Seq(Labels) /\ i # 0
  BY <1>5 DEF DirectiveOK, Lowered
<1>7. /\ DOMAIN names = DOMAIN app.zones /\ DOMAIN names \subseteq Nat \ {0}
      /\ \A e \in DOMAIN app.zones :
           /\ names[e] = app.zones[e].zone /\ app.zones[e].zone \in Seq(Labels)
           /\ Clean(app.zones[e].zone) /\ app.zones[e].zone # Apex
  BY <1>5, ZoneNamesAre
<1>8. ZoneOf(hosts[k]) = names[i]
  BY DEF ZoneOf
<1> HIDE DEF host, names
<1>9. /\ i \in DOMAIN names /\ Under(host, names[i])
      /\ \A j \in DOMAIN names : Under(host, names[j]) => Len(names[j]) <= Len(names[i])
  <2>1. \A e \in DOMAIN names : names[e] \in Seq(Labels)
    BY <1>7
  <2> QED BY <1>6, <1>7, <2>1, AssignedIs
<1> HIDE DEF i
<1>10. Clean(names[i]) /\ names[i] # Apex
  BY <1>7, <1>9
<1>11. Clean(host)
  BY <1>6, <1>9, <1>10, CleanUnder
<1>12. ZoneOf(hosts[k]) \in Visited
  BY DEF Visited
<1> QED BY <1>2, <1>7, <1>8, <1>9, <1>10, <1>11, <1>12 DEF host

\* What a pass has: hosts of its zone, each from one place of the registry.
LEMMA PassHas ==
  ASSUME LoadInv, InputInv, NEW z \in DOMAIN passes
  PROVE  /\ pc \in Passing
         /\ DOMAIN passes = Visited
         /\ passes[z].hosts = Picked(hosts, InZone(z))
         /\ Enumerates(Places(InZone(z)), Cardinality(InZone(z)), InZone(z))
         /\ DOMAIN passes[z].hosts = 1 .. Cardinality(InZone(z))
         /\ \A k \in DOMAIN passes[z].hosts : passes[z].hosts[k] = hosts[Places(InZone(z))[k]]
<1>1. pc \in Passing
  <2>1. DOMAIN NoPasses = {}
    BY DEF NoPasses
  <2> QED BY <2>1 DEF LoadInv, OutcomeInv, Staged, Passing
<1>2. DOMAIN passes = Visited /\ passes[z].hosts = Picked(hosts, InZone(z))
  BY <1>1 DEF InputInv, Grouped
<1>3. hosts \in Seq(Given) /\ InZone(z) \in SUBSET DOMAIN hosts
  BY DEF LoadInv, RegistryInv, Numbered, InZone
<1> QED BY <1>1, <1>2, <1>3, PickedIs

\* A declaration is under a declared zone, whose name has no dot at its end.
LEMMA DeclarationClean ==
  ASSUME InputInv, NEW i \in DOMAIN decls
  PROVE  Clean(decls[i].host)
<1> DEFINE host == decls[i].host
<1> DEFINE names == ZoneNames(app)
<1> DEFINE e == AssignZone(names, host)
<1>1. pc # "idle"
  <2>1. DOMAIN <<>> = {}
    OBVIOUS
  <2> QED BY <2>1 DEF InputInv, Carried
<1>2. DirectiveOK(decls[i], app, file.sites[i].lines) /\ AppTyped(app)
  BY <1>1 DEF InputInv, Carried
<1>3. Lowered(host) /\ host \in Seq(Labels) /\ e # 0
  BY <1>2 DEF DirectiveOK, Lowered
<1>4. /\ DOMAIN names = DOMAIN app.zones /\ DOMAIN names \subseteq Nat \ {0}
      /\ \A k \in DOMAIN app.zones :
           /\ names[k] = app.zones[k].zone /\ app.zones[k].zone \in Seq(Labels)
           /\ Clean(app.zones[k].zone) /\ app.zones[k].zone # Apex
  BY <1>2, ZoneNamesAre
<1> HIDE DEF host, names
<1>5. e \in DOMAIN names /\ Under(host, names[e])
  <2>1. \A k \in DOMAIN names : names[k] \in Seq(Labels)
    BY <1>4
  <2> QED BY <1>3, <1>4, <2>1, AssignedIs
<1> HIDE DEF e
<1>6. Clean(names[e]) /\ names[e] # Apex
  BY <1>4, <1>5
<1>7. Clean(host)
  BY <1>3, <1>5, <1>6, CleanUnder
<1> QED BY <1>7 DEF host

\* A pass is named by its zone and has declarations of the handlers.
LEMMA PassTyped ==
  ASSUME LoadInv, InputInv, NEW z \in DOMAIN passes
  PROVE  /\ Clean(z) /\ z # Apex
         /\ passes[z].hosts \in Seq(Given)
         /\ passes[z].state \in {"running", "ok", "error"}
<1>1. z \in Visited /\ passes[z].hosts = Picked(hosts, InZone(z))
  BY PassHas
<1>2. Clean(z) /\ z # Apex
  <2>1. CASE \E k \in DOMAIN hosts : z = ZoneOf(hosts[k])
    BY <2>1, HostIs
  <2>2. CASE \E e \in DOMAIN app.zones : z = app.zones[e].zone
    BY <2>2 DEF InputInv, Carried, AppTyped, ZonesTyped
  <2> QED BY <1>1, <2>1, <2>2 DEF Visited
<1>3. hosts \in Seq(Given) /\ InZone(z) \in SUBSET DOMAIN hosts
  BY DEF LoadInv, RegistryInv, Numbered, InZone
<1>4. Picked(hosts, InZone(z)) \in Seq(Given)
  BY <1>3, PickedIs
<1>5. passes[z].state \in {"running", "ok", "error"}
  BY DEF LoadInv, OutcomeInv, Outcomes
<1> QED BY <1>1, <1>2, <1>4, <1>5

\* In every load the app's zones and the handlers' hosts are normalized names,
\* its tunnels have ids, a handler has what its JSON may hold, and a pass named
\* by its zone has declarations of the handlers.
THEOREM TypeTheorem == Spec => []TypeOK
<1>1. ASSUME LoadInv, InputInv
      PROVE  TypeOK
  <2> USE <1>1
  <2>1. /\ decls \in Seq(HandlerJSON)
        /\ AppTyped(app)
    BY DEF InputInv, Carried
  <2>2. prov \in [DOMAIN decls -> {"waiting", "locked", "free", "done", "failed"}]
    BY DEF LoadInv, RegistryInv, Numbered, Stages
  <2>3. hosts \in Seq({decls[i] : i \in DOMAIN decls})
    BY DEF LoadInv, RegistryInv, Numbered, Given
  <2>4. failed \subseteq DOMAIN passes \cup {IngressPhase}
    BY DEF LoadInv, OutcomeInv, Outcomes
  <2>5. det \in [Families -> Answers \cup {"unwanted", "asked", "failed"}]
    BY DEF InputInv, Detecting
  <2>6. Plain
    BY DEF InputInv
  <2>7. /\ DOMAIN app = DOMAIN NewApp
        /\ \A e \in DOMAIN app.zones :
             app.zones[e].zone # Apex /\ Normal(app.zones[e].zone) = app.zones[e].zone
        /\ \A t \in DOMAIN app.tunnels : app.tunnels[t].id \in {Uuid[u] : u \in DOMAIN Uuid}
    BY <2>1, CleanNormal DEF AppTyped, ZonesTyped, TunnelsTyped, Ids
  <2>8. \A i \in DOMAIN decls : Normal(decls[i].host) = decls[i].host
    BY DeclarationClean, CleanNormal
  <2>9. \A z \in DOMAIN passes :
          /\ z # Apex /\ Normal(z) = z
          /\ passes[z].hosts \in Seq({decls[i] : i \in DOMAIN decls})
          /\ passes[z].state \in {"running", "ok", "error"}
    BY PassTyped, CleanNormal DEF Given
  <2> QED BY <2>1, <2>2, <2>3, <2>4, <2>5, <2>6, <2>7, <2>8, <2>9 DEF TypeOK, Plain
<1> QED BY <1>1, InvHolds, PTL

\* No pass works on two declarations of one record, doubled names apart.
THEOREM OneRecordTheorem == Spec => []OneDeclarationPerRecord
<1>1. ASSUME LoadInv, InputInv
      PROVE  OneDeclarationPerRecord
  <2> USE <1>1
  <2> SUFFICES ASSUME NEW z \in DOMAIN passes,
                      NEW k \in DOMAIN passes[z].hosts, NEW l \in DOMAIN passes[z].hosts,
                      LET a == Normal(passes[z].hosts[k].host)
                          b == Normal(passes[z].hosts[l].host)
                      IN  ~Doubled(a, z) /\ ~Doubled(b, z) /\ Key(a, z) = Key(b, z)
               PROVE  k = l
    BY DEF OneDeclarationPerRecord
  <2> DEFINE I == InZone(z)
  <2> DEFINE n == Cardinality(I)
  <2> DEFINE p == Places(I)
  <2>1. /\ Enumerates(p, n, I)
        /\ DOMAIN passes[z].hosts = 1 .. n
        /\ \A j \in DOMAIN passes[z].hosts : passes[z].hosts[j] = hosts[p[j]]
    BY PassHas
  <2>2. k \in 1 .. n /\ l \in 1 .. n /\ p[k] \in I /\ p[l] \in I
    BY <2>1 DEF Enumerates
  <2>3. \A j \in I : j \in DOMAIN hosts /\ ZoneOf(hosts[j]) = z
    BY DEF InZone
  <2> DEFINE a == hosts[p[k]].host
             b == hosts[p[l]].host
  <2>4. /\ Clean(a) /\ Under(a, z) /\ Clean(z) /\ z # Apex
        /\ Clean(b) /\ Under(b, z)
    BY <2>2, <2>3, HostIs
  <2>5. passes[z].hosts[k].host = a /\ passes[z].hosts[l].host = b
    BY <2>1
  <2> HIDE DEF a, b
  <2>6. Normal(a) = a /\ Normal(b) = b
    BY <2>4, CleanNormal
  <2>7. ~Doubled(a, z) /\ ~Doubled(b, z) /\ Key(a, z) = Key(b, z)
    BY <2>5, <2>6
  <2>8. a \in Seq(Labels) /\ b \in Seq(Labels) /\ z \in Seq(Labels)
    BY <2>4 DEF Clean, Lowered
  <2>9. a = b
    BY <2>4, <2>7, <2>8, KeysTellHostsApart
  <2>10. p[k] = p[l]
    BY <2>2, <2>3, <2>9 DEF a, b, LoadInv, RegistryInv, HostsDistinct
  <2> HIDE DEF p, n, I
  <2>11. n \in Nat /\ ~(p[k] < p[l]) /\ ~(p[l] < p[k])
    <3>1. n \in Nat
      BY <2>1 DEF Enumerates
    <3>2. p[k] \in DOMAIN hosts
      BY <2>2, <2>3
    <3>3. p[k] \in Nat
      BY <3>2 DEF LoadInv, RegistryInv, Numbered
    <3> QED BY <2>10, <3>1, <3>3
  <2> QED BY <2>1, <2>2, <2>11 DEF Enumerates
<1> QED BY <1>1, InvHolds, PTL

\* Every declaration reaches the pass of the longest declared zone it is under,
\* and no other pass; every zone that asks for prune has a pass.
THEOREM ZoneTheorem == Spec => []EachHostInItsZone
<1>1. ASSUME LoadInv, InputInv
      PROVE  EachHostInItsZone
  <2> USE <1>1
  <2> SUFFICES ASSUME pc = "zones"
               PROVE  /\ \A i \in DOMAIN decls :
                           \E z \in DOMAIN passes :
                             /\ Under(decls[i].host, z)
                             /\ \A y \in DOMAIN passes : \A k \in DOMAIN passes[y].hosts :
                                  passes[y].hosts[k].host = decls[i].host => y = z
                             /\ \E k \in DOMAIN passes[z].hosts : passes[z].hosts[k] = decls[i]
                             /\ \A e \in DOMAIN app.zones :
                                  Under(decls[i].host, app.zones[e].zone) => Len(app.zones[e].zone) <= Len(z)
                      /\ \A e \in DOMAIN app.zones : app.zones[e].prune => app.zones[e].zone \in DOMAIN passes
    BY DEF EachHostInItsZone
  <2>1. DOMAIN passes = Visited
    BY DEF InputInv, Grouped, Passing
  <2>2. \A e \in DOMAIN app.zones : app.zones[e].prune => app.zones[e].zone \in DOMAIN passes
    BY <2>1 DEF Visited
  <2>3. ASSUME NEW i \in DOMAIN decls
        PROVE  \E z \in DOMAIN passes :
                 /\ Under(decls[i].host, z)
                 /\ \A y \in DOMAIN passes : \A k \in DOMAIN passes[y].hosts :
                      passes[y].hosts[k].host = decls[i].host => y = z
                 /\ \E k \in DOMAIN passes[z].hosts : passes[z].hosts[k] = decls[i]
                 /\ \A e \in DOMAIN app.zones :
                      Under(decls[i].host, app.zones[e].zone) => Len(app.zones[e].zone) <= Len(z)
    <3>1. PICK h \in DOMAIN hosts : hosts[h] = decls[i]
      <4>1. i \in DOMAIN prov /\ prov[i] = "done"
        BY DEF LoadInv, RegistryInv, Numbered, InputInv, Registered, Late
      <4> QED BY <4>1 DEF InputInv, Registered
    <3> DEFINE z == ZoneOf(hosts[h])
    <3>2. /\ z \in DOMAIN passes /\ Under(decls[i].host, z)
          /\ \A e \in DOMAIN app.zones :
               Under(decls[i].host, app.zones[e].zone) => Len(app.zones[e].zone) <= Len(z)
      BY <2>1, <3>1, HostIs
    <3>3. ASSUME NEW y \in DOMAIN passes, NEW k \in DOMAIN passes[y].hosts,
                 passes[y].hosts[k].host = decls[i].host
          PROVE  y = z
      <4> DEFINE I == InZone(y)
      <4> DEFINE p == Places(I)
      <4>1. Enumerates(p, Cardinality(I), I) /\ k \in 1 .. Cardinality(I)
            /\ passes[y].hosts[k] = hosts[p[k]]
        BY PassHas
      <4>2. p[k] \in I
        BY <4>1 DEF Enumerates
      <4>3. ZoneOf(hosts[p[k]]) = y
        BY <4>2 DEF InZone
      <4>4. hosts[p[k]].host = hosts[h].host
        BY <3>1, <3>3, <4>1
      <4> QED BY <4>3, <4>4 DEF ZoneOf
    <3>4. \E k \in DOMAIN passes[z].hosts : passes[z].hosts[k] = decls[i]
      <4> DEFINE I == InZone(z)
      <4> DEFINE p == Places(I)
      <4>1. /\ Enumerates(p, Cardinality(I), I)
            /\ DOMAIN passes[z].hosts = 1 .. Cardinality(I)
            /\ \A k \in DOMAIN passes[z].hosts : passes[z].hosts[k] = hosts[p[k]]
        BY <3>2, PassHas
      <4>2. h \in I
        BY DEF InZone
      <4>3. PICK k \in 1 .. Cardinality(I) : p[k] = h
        <5> HIDE DEF I, p
        <5> QED BY <4>1, <4>2 DEF Enumerates
      <4> QED BY <3>1, <4>1, <4>3
    <3> HIDE DEF z
    <3> QED BY <3>2, <3>3, <3>4
  <2> QED BY <2>2, <2>3
<1> QED BY <1>1, InvHolds, PTL

\* A pass never starts before the address an automatic host of its needs is
\* detected or known to be missing, and no IPv4 address passes for an IPv6 one.
THEOREM InformedTheorem == Spec => []PassesInformed
<1>1. ASSUME LoadInv, InputInv
      PROVE  PassesInformed
  <2> USE <1>1
  <2>1. det["AAAA"] \notin IPv4 \cup Mapped
    BY DEF InputInv, Detecting
  <2>2. ASSUME NEW z \in DOMAIN passes, NEW k \in DOMAIN passes[z].hosts, NEW f \in Families,
               ToDetect(passes[z].hosts[k], f)
        PROVE  det[f] \notin {"unwanted", "asked"}
    <3> DEFINE I == InZone(z)
    <3> DEFINE p == Places(I)
    <3>1. /\ pc \in Passing /\ Enumerates(p, Cardinality(I), I) /\ k \in 1 .. Cardinality(I)
          /\ passes[z].hosts[k] = hosts[p[k]]
      BY PassHas
    <3>2. p[k] \in I
      BY <3>1 DEF Enumerates
    <3>3. p[k] \in DOMAIN hosts
      BY <3>2 DEF InZone
    <3> HIDE DEF p, I
    <3>4. det[f] # "unwanted"
      BY <2>2, <3>1, <3>3 DEF InputInv, Detecting, Late, Passing
    <3>5. det[f] # "asked"
      BY <3>1 DEF InputInv, Detecting
    <3> QED BY <3>4, <3>5
  <2> QED BY <2>1, <2>2 DEF PassesInformed
<1> QED BY <1>1, InvHolds, PTL

\* A site block that names a tunnel becomes a host of the tunnel registered
\* under that name.
THEOREM TunnelTheorem == Spec => []TunnelsResolved
<1>1. ASSUME LoadInv, InputInv
      PROVE  TunnelsResolved
  <2> USE <1>1
  <2> SUFFICES ASSUME NEW i \in DOMAIN decls, NEW n \in DOMAIN file.sites[i].lines,
                      file.sites[i].lines[n].key = "tunnel",
                      Only(file.sites[i].lines[n]) # Empty
               PROVE  \E t \in DOMAIN app.tunnels :
                        app.tunnels[t] = [name |-> Only(file.sites[i].lines[n]),
                                          id |-> decls[i].tunnel]
    BY DEF TunnelsResolved
  <2>1. pc # "idle"
    <3>1. DOMAIN <<>> = {}
      OBVIOUS
    <3> QED BY <3>1 DEF InputInv, Carried
  <2>2. DirectiveOK(decls[i], app, file.sites[i].lines)
    BY <2>1 DEF InputInv, Carried
  <2> QED BY <2>2 DEF DirectiveOK, TunnelOf
<1> QED BY <1>1, InvHolds, PTL

\* What a site block means does not depend on the order of its lines: every
\* check of two settings against each other waits for the block's end.
THEOREM OrderTheorem == Spec => LinesCommute
<1> DEFINE right ==
      \A i \in DOMAIN file'.sites :
        LET site == file'.sites[i]
            places == DOMAIN site.lines
        IN  /\ loads' # loads
            /\ \A m, n \in places : site.lines[m].key = site.lines[n].key => m = n
            => \A p \in Bijection(places, places) :
                 ParseHostBlock(site.scope, [n \in places |-> site.lines[p[n]]])
                   = ParseHostBlock(site.scope, site.lines)
<1>1. ASSUME [Next]_vars, loads' # loads
      PROVE  file' \in Files
  <2>1. ~Whole
    BY <1>1 DEF Whole, ProvisionApp, RefuseApp, RefuseHandlers, Start, Group, Ingress, Return, Answer
  <2>2. \A i \in DOMAIN prov : ~AddHost(i)
    BY <1>1 DEF AddHost, Lock, FindFree, FindTaken, Append1, Registering
  <2>3. \A f \in Families : ~Detect(f)
    BY <1>1 DEF Detect
  <2>4. \A z \in DOMAIN passes : ~PassEnds(z)
    BY <1>1 DEF PassEnds
  <2>5. ~Crash /\ ~UNCHANGED vars
    BY <1>1 DEF Crash, vars
  <2>6. PICK f \in Files : Adapt(f) \/ RefuseFile(f)
    BY <1>1, <2>1, <2>2, <2>3, <2>4, <2>5 DEF Next
  <2>7. file' = f
    BY <2>6 DEF Adapt, RefuseFile, NewLoad
  <2> QED BY <2>7
<1>2. [Next]_vars => [right]_vars
  <2> SUFFICES ASSUME [Next]_vars, NEW i \in DOMAIN file'.sites, loads' # loads,
                      \A m, n \in DOMAIN file'.sites[i].lines :
                        file'.sites[i].lines[m].key = file'.sites[i].lines[n].key => m = n,
                      NEW p \in Bijection(DOMAIN file'.sites[i].lines, DOMAIN file'.sites[i].lines)
               PROVE  ParseHostBlock(file'.sites[i].scope,
                                     [n \in DOMAIN file'.sites[i].lines |-> file'.sites[i].lines[p[n]]])
                        = ParseHostBlock(file'.sites[i].scope, file'.sites[i].lines)
    OBVIOUS
  <2>1. PICK f \in Files : file' = f
    BY <1>1
  <2> QED BY <2>1, LinesPermuted
<1> QED BY <1>2, PTL DEF Spec, LinesCommute

\* However many handlers are provisioned at once, and in whatever order, the
\* app never holds two declarations of one host.
THEOREM RegistryTheorem == Spec => []HostsDistinct
<1>1. LoadInv => HostsDistinct
  BY DEF LoadInv, RegistryInv
<1> QED BY <1>1, LoadInit, LoadStep, PTL DEF Spec

\* Whatever the number of zones, a load that came to its end is accepted
\* exactly when every pass and the ingress phase went well.
THEOREM OutcomeTheorem == Spec => AnswerMatchesOutcome
<1> DEFINE right ==
      pc = "return" /\ answer' # answer =>
        (answer' = "accepted"
           <=> /\ \A z \in DOMAIN passes : passes[z].state = "ok"
               /\ IngressPhase \notin failed)
<1>1. LoadInv /\ [Next]_vars => [right]_vars
  <2> SUFFICES ASSUME LoadInv, [Next]_vars, pc = "return", answer' # answer
               PROVE  answer' = "accepted"
                        <=> /\ \A z \in DOMAIN passes : passes[z].state = "ok"
                            /\ IngressPhase \notin failed
    OBVIOUS
  <2>1. answer = "none"
    BY DEF LoadInv, OutcomeInv, Staged
  <2>2. Return
    <3>1. ~UNCHANGED vars
      BY DEF vars
    <3>2. ~Crash
      BY <2>1 DEF Crash
    <3>3. ~(ProvisionApp \/ RefuseApp \/ RefuseHandlers \/ Start \/ Group \/ Ingress)
      BY DEF ProvisionApp, RefuseApp, RefuseHandlers, Start, Group, Ingress
    <3>4. \A f \in Files : ~Adapt(f) /\ ~RefuseFile(f)
      BY DEF Adapt, RefuseFile, NewLoad
    <3>5. \A i \in DOMAIN prov : ~AddHost(i)
      BY DEF AddHost, Lock, FindFree, FindTaken, Append1, Registering
    <3>6. \A f \in Families : ~Detect(f)
      BY DEF Detect
    <3>7. \A z \in DOMAIN passes : ~PassEnds(z)
      BY DEF PassEnds
    <3> QED BY <3>1, <3>2, <3>3, <3>4, <3>5, <3>6, <3>7 DEF Next, Whole
  <2>3. answer' = "accepted" <=> failed = {}
    BY <2>2 DEF Return, Answer
  <2>4. \A z \in DOMAIN passes : passes[z].state = "ok" \/ z \in failed
    BY DEF LoadInv, OutcomeInv, Outcomes, Staged
  <2>5. \A z \in failed : z = IngressPhase \/ (z \in DOMAIN passes /\ passes[z].state # "ok")
    BY DEF LoadInv, OutcomeInv, Outcomes
  <2> QED BY <2>3, <2>4, <2>5
<1> QED BY <1>1, LoadInit, LoadStep, PTL DEF Spec, AnswerMatchesOutcome

============================================================================
