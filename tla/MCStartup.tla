----------------------------- MODULE MCStartup -----------------------------
(***************************************************************************)
(* Small instances of Startup for TLC.                                     *)
(***************************************************************************)
EXTENDS Startup

CONSTANTS visible, hidden,      \* matchers, hidden one that is out of scope
          pub1, map1, pub6,     \* addresses
          uuid, UUID,           \* a tunnel's id, in lower and upper case
          caddy,                \* a service
          tokA, tokB,           \* API tokens
          edge, lost,           \* tunnel names, lost one that is not registered
          laptop, ours          \* the machine, and the default tag prefix

Letters == {"www", "db", "lab", "example", "com", ""}
MCLower == [l \in Letters \cup {"WWW"} |-> IF l = "WWW" THEN "www" ELSE l]
MCUuid == [u \in {uuid, UUID} |-> uuid]

Ex == <<"example", "com">>
Lab == <<"lab">> \o Ex
Www == <<"www">> \o Ex
Db == <<"db">> \o Lab

Line(key, args) == [key |-> key, args |-> args]
Site(lines) == [scope |-> [m \in {} |-> <<>>], lines |-> lines]
Scoped(names, lines) == [scope |-> [m \in {visible} |-> names], lines |-> lines]
Host(arg) == Line("host", <<arg>>)

ZonePruned == Line("zone", <<Ex \o <<"">>, "api_token", tokA, "prune">>)
ZoneLab == Line("zone", <<Lab, "api_token", tokB>>)
Edge == Line("tunnel", <<edge, UUID>>)
Account == Line("account", <<tokB>>)

Globals == <<ZonePruned, ZoneLab, Edge, Account>>
File(global, sites) == [global |-> global, sites |-> sites]

LifecycleFiles ==
  { \* one address host in each zone, the longer zone declared last
    File(Globals, <<Site(<<Host(Www)>>),
                    Site(<<Host(Db), Line("ip6", <<"auto">>), Line("ip", <<pub1>>)>>)>>),
    \* one host three times: as it is, in capitals, and through a matcher
    File(Globals, <<Site(<<Host(Www)>>), Site(<<Host(<<"WWW">> \o Ex)>>),
                    Scoped(<<<<"WWW">> \o Ex \o <<"">>>>, <<Host(visible)>>)>>),
    File(Globals, <<Site(<<Host(Www), Line("ip6", <<"no">>)>>),
                    Scoped(<<<<"WWW">> \o Ex>>, <<Host(visible)>>)>>),
    \* a tunnel host and an address host, settings in an unusual order
    File(Globals, <<Site(<<Line("tunnel_service", <<caddy>>), Line("tunnel", <<edge>>),
                           Line("ip6", <<"off">>), Host(Www)>>),
                    Site(<<Line("proxied", <<"no">>), Line("force_adopt", <<>>),
                           Line("ip6", <<pub6>>), Host(Db)>>)>>),
    \* a name that ends in the zone twice, beside the name it is taken for
    File(Globals, <<Site(<<Host(Www \o Ex)>>), Site(<<Host(Www)>>)>>),
    \* prune only; an instance of its own
    File(<<ZonePruned, Line("instance", <<laptop>>)>>, <<>>),
    \* one zone twice
    File(<<ZonePruned, Line("zone", <<Ex, "api_token", tokB>>)>>, <<Site(<<Host(Www)>>)>>),
    \* what the adapter refuses
    File(<<ZonePruned, Account, Account>>, <<>>),
    File(<<ZonePruned, Edge, Edge>>, <<>>),
    File(<<Line("zone", <<Ex, "api_token">>)>>, <<>>),
    File(<<ZoneLab>>, <<Site(<<Host(Www)>>)>>),
    File(Globals, <<Site(<<Host(Www), Line("tunnel", <<lost>>)>>)>>),
    File(Globals, <<Site(<<Host(Www), Line("tunnel", <<edge>>), Line("ip", <<pub1>>)>>)>>),
    File(Globals, <<Site(<<Host(Www), Line("tunnel_service", <<caddy>>)>>)>>),
    File(Globals, <<Site(<<Host(Www), Line("ip6", <<map1>>)>>)>>),
    File(Globals, <<Site(<<Host(hidden)>>)>>),
    File(Globals, <<Scoped(<<Www, Db>>, <<Host(visible)>>)>>) }

=============================================================================
