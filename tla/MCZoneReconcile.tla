-------------------------- MODULE MCZoneReconcile --------------------------
(***************************************************************************)
(* Small instances of ZoneReconcile for TLC.                               *)
(***************************************************************************)
EXTENDS ZoneReconcile

CONSTANTS home, office,         \* servers
          tagHome, tagOffice,   \* their tags
          www, db,              \* names
          pub1, pub2, lan,      \* IPv4 addresses, lan a private one
          pub6,                 \* an IPv6 address
          t1, t2                \* tunnels

Classes == INSTANCE AddressClasses

\* lan is an address of a Tailscale network, the last one of its block.
MCOctets(x) ==
  CASE x = lan  -> Classes!FromTo4(<<100, 127, 255, 255>>)
    [] x = pub1 -> Classes!FromTo4(<<100, 128, 0, 0>>)
    [] x = pub2 -> Classes!FromTo4(<<172, 32, 0, 1>>)
    [] x = pub6 -> [i \in 1 .. 16 |-> IF i = 1 THEN 32 ELSE i]

ASSUME PrivateAsCoded == Private = {x \in V4 \cup V6 : Classes!IsPrivateIP(MCOctets(x))}

MCTag == [s \in {home, office} |-> IF s = home THEN tagHome ELSE tagOffice]
MCTagAlone == [s \in {home} |-> tagHome]

Rec(n, ty, content, comment) ==
  [name |-> n, type |-> ty, content |-> content, proxied |-> TRUE, comment |-> comment]

\* The zone that holds the records of the sequence recs.
Holding(recs) ==
  [i \in Ids |-> IF i \in DOMAIN recs THEN recs[i] ELSE Unborn]

Address(ip, ip6, force) ==
  [tunnel |-> None, ip |-> ip, ip6 |-> ip6, proxied |-> TRUE, force |-> force]
Tunnelled(t, force) ==
  [tunnel |-> t, ip |-> None, ip6 |-> None, proxied |-> TRUE, force |-> force]

Hosts(conf) == [hosts |-> conf, prune |-> FALSE]
Pruning(conf) == [hosts |-> conf, prune |-> TRUE]
NoHosts == [n \in {} |-> None]
One(n, d) == [m \in {n} |-> d]
Both(d, e) == [m \in {www, db} |-> IF m = www THEN d ELSE e]

Detected == [v4 |-> pub1, v6 |-> pub6]
Undetected == [v4 |-> None, v6 |-> None]

----------------------------------------------------------------------------
(* One server: every kind of declaration against every kind of record.     *)

AloneConfigs ==
  [s \in {home} |->
     { Pruning(One(www, d)) :
         d \in { Address(None, None, FALSE), Address(pub2, IP6Auto, FALSE),
                 Address(lan, None, TRUE), Tunnelled(t1, FALSE), Tunnelled(t2, TRUE) } }
     \cup { Hosts(One(www, Address(None, IP6Auto, TRUE))),
            Hosts(One(www, Tunnelled(t1, FALSE))),
            Pruning(Both(Address(None, IP6Auto, FALSE), Tunnelled(t1, FALSE))),
            Pruning(Both(Tunnelled(t2, FALSE), Address(None, None, TRUE))),
            Pruning(NoHosts), Hosts(NoHosts) }]

AtWww(comment) ==
  { <<>>,
    <<Rec(www, "A", pub1, comment)>>,
    <<Rec(www, "A", pub2, comment), Rec(www, "AAAA", pub6, comment)>>,
    <<Rec(www, "CNAME", t1, comment)>>,
    <<Rec(www, "CNAME", Elsewhere, comment)>> }

AloneZones ==
  { Holding(recs) :
      recs \in AtWww(tagHome) \cup AtWww(NoTag) \cup
               { <<Rec(www, "A", pub1, NoTag), Rec(www, "AAAA", pub6, tagHome)>>,
                 <<Rec(www, "A", pub2, NoTag), Rec(www, "A", pub1, tagHome)>>,
                 <<Rec(www, "CNAME", t1, tagHome), Rec(db, "CNAME", t2, tagHome)>>,
                 <<Rec(www, "CNAME", t1, tagHome), Rec(db, "A", pub1, NoTag)>>,
                 <<Rec(db, "A", pub1, tagHome), Rec(www, "A", pub1, tagHome)>> } }

DetectedOrNot == {Detected, Undetected}
DetectedOnly == {Detected}

----------------------------------------------------------------------------
(* Two servers with a name each; home adopts whatever is at its own.       *)

SharedConfigs ==
  [s \in {home, office} |->
     IF s = home
     THEN { Pruning(One(www, Address(pub1, None, TRUE))),
            Pruning(One(www, Tunnelled(t1, TRUE))) }
     ELSE { Pruning(One(db, Address(pub2, None, FALSE))), Pruning(NoHosts) }]

SharedZones ==
  { Holding(<<Rec(www, "CNAME", t1, tagHome), Rec(db, "A", pub2, tagOffice)>>),
    Holding(<<Rec(www, "A", pub2, NoTag), Rec(db, "CNAME", t1, tagOffice)>>) }

----------------------------------------------------------------------------
(* The instances that show where a document and the code disagree.         *)

\* home is told to force_adopt www, whose record office owns and gives up.
ContestedConfigs ==
  [s \in {home, office} |->
     IF s = home THEN {Hosts(One(www, Address(pub1, None, TRUE)))}
     ELSE {Pruning(NoHosts)}]
ContestedZones == { Holding(<<Rec(www, "A", pub2, tagOffice)>>) }

\* www turns into a tunnel host over an A of ours and an AAAA of nobody's.
BlockedConfigs == [s \in {home} |-> {Hosts(One(www, Tunnelled(t1, FALSE)))}]
BlockedZones ==
  { Holding(<<Rec(www, "A", pub1, tagHome), Rec(www, "AAAA", pub6, NoTag)>>) }

\* www turns back from a tunnel host into an auto-IP host.
RevertConfigs == [s \in {home} |-> {Pruning(One(www, Address(None, None, FALSE)))}]
RevertZones == { Holding(<<Rec(www, "CNAME", t1, tagHome)>>) }
UndetectedOnly == {Undetected}

=============================================================================
