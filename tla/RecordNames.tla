---------------------------- MODULE RecordNames ----------------------------
(***************************************************************************)
(* The names of DNS records: how a host is assigned to a declared zone,    *)
(* and how its name is written relative to the zone (registry.go,          *)
(* reconcile.go).  The listing has the same record under its full name, so *)
(* every record is looked up by a key both forms are to meet in.           *)
(*                                                                         *)
(* A name is the sequence of its labels, as the code compares them: lower  *)
(* case, without the trailing dot.  The zone apex, "@" in the code, is the *)
(* empty sequence.                                                         *)
(***************************************************************************)
EXTENDS Sequences, Integers

Apex == <<>>

\* name = zone, or name ends in "." + zone.
Under(name, zone) ==
  /\ Len(zone) <= Len(name)
  /\ SubSeq(name, Len(name) - Len(zone) + 1, Len(name)) = zone

\* The labels of name in front of the zone.
Strip(name, zone) == SubSeq(name, 1, Len(name) - Len(zone))

\* recordName: called with a host assignZone has put under the zone.
RecordName(host, zone) == IF host = zone THEN Apex ELSE Strip(host, zone)

\* canonicalNameKey: of a full name or of one that is relative already.
CanonicalNameKey(name, zone) ==
  IF name = zone THEN Apex
  ELSE IF Under(name, zone) THEN Strip(name, zone)
  ELSE name

\* fqdn; Cloudflare completes the name of a record it creates the same way.
Fqdn(name, zone) ==
  IF name = Apex THEN zone
  ELSE IF Under(name, zone) THEN name
  ELSE name \o zone

\* Mutant of AssignZone: the first declared zone that fits.
AssignZoneInOrder(zones, host) ==
  LET fits == {i \in DOMAIN zones : Under(host, zones[i])}
  IN  IF fits = {} THEN 0 ELSE CHOOSE i \in fits : \A j \in fits : i <= j

\* assignZone: the entry of zones with the longest suffix of host, the first
\* of several that name the same zone; 0 when the host is under none.
AssignZone(zones, host) ==
  LET fits == {i \in DOMAIN zones : Under(host, zones[i])}
      longest == {i \in fits : \A j \in fits : Len(zones[j]) <= Len(zones[i])}
  IN  IF fits = {} THEN 0 ELSE CHOOSE i \in longest : \A j \in longest : i <= j

\* The key reconcileZone computes for a declared host.
Key(host, zone) == CanonicalNameKey(RecordName(host, zone), zone)

\* What is left of host after the zone ends in the zone's name once more, as
\* with a.example.com.example.com.
Doubled(host, zone) ==
  Under(RecordName(host, zone), zone)

=============================================================================
