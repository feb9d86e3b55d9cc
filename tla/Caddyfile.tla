----------------------------- MODULE Caddyfile -----------------------------
(***************************************************************************)
(* The adapter (caddyfile.go): the global cf_dns_manager block becomes the *)
(* App, and each per-site directive a handler that carries one host.       *)
(*                                                                         *)
(* A block is the sequence of its lines, a line a subdirective with its    *)
(* arguments.  An error anywhere rejects the whole file, so a parser folds *)
(* the lines into the value under construction, or into Rejected.  The     *)
(* folds are functions of the number of lines read, which proofs can be    *)
(* about.                                                                  *)
(***************************************************************************)
EXTENDS RecordNames

CONSTANTS
  Rejected,   \* what a parser returns with an error
  Empty,      \* the empty string: not given
  Lower,      \* Lower[l]: the label l in lower case
  Matchers,   \* names of matchers, "@name" where they are referred to
  IPv4,       \* dotted addresses
  Mapped,     \* IPv4 addresses written as IPv6, ::ffff:1.2.3.4
  IPv6,       \* other IPv6 addresses
  Uuid,       \* the ids isUUID accepts, each with its lower-case form
  Services    \* the values parseTunnelService accepts

IP6Auto == "auto"

\* isIPv4: To4 unwraps the mapped form.
IsIPv4(a) == a \in IPv4 \cup Mapped

\* isIPv6, and the literals normalizeIP6 lets through.
IsIPv6(a) == a \in IPv6

Labels == DOMAIN Lower

\* Letters are lowered once; no letters are no letters in any case.
ASSUME LabelsLowered ==
  /\ Lower \in [Labels -> Labels]
  /\ \A l \in Labels : Lower[Lower[l]] = Lower[l] /\ (Lower[l] = "" <=> l = "")

\* One trailing dot is trimmed (an empty last label), and letters lowered.
Normal(name) ==
  LET n == Len(name)
      kept == IF n > 0 /\ name[n] = "" THEN n - 1 ELSE n
  IN  [i \in 1 .. kept |-> Lower[name[i]]]

Only(line) == line.args[1]

----------------------------------------------------------------------------
(* The global block.                                                       *)

NewApp ==
  [zones |-> <<>>, tunnels |-> <<>>, account |-> Empty, account_id |-> Empty,
   tunnel_default_service |-> Empty, ip_url |-> Empty, ip6_url |-> Empty,
   tag_prefix |-> Empty, instance |-> Empty]

\* Settings of one value; a repeated one overwrites, except an account's.
Settings == {"account", "account_id", "tunnel_default_service", "ip_url", "ip6_url",
             "tag_prefix", "instance"}

ReadSetting(app, line) ==
  IF /\ Len(line.args) = 1
     /\ line.key \in {"account", "account_id"} => app[line.key] = Empty
     /\ line.key = "tunnel_default_service" => Only(line) \in Services
  THEN [app EXCEPT ![line.key] = Only(line)]
  ELSE Rejected

\* parseZone: zone <zone> api_token <token> [prune].
ReadZone(app, args) ==
  IF /\ Len(args) \in {3, 4}
     /\ args[2] = "api_token"
     /\ Len(args) = 4 => args[4] = "prune"
     /\ Normal(args[1]) # Apex
     /\ args[3] # Empty
  THEN [app EXCEPT !.zones = Append(@,
          [zone |-> Normal(args[1]), token |-> args[3], prune |-> Len(args) = 4])]
  ELSE Rejected

\* parseTunnelEntry: tunnel <name> <uuid>.
ReadTunnel(app, args) ==
  IF /\ Len(args) = 2
     /\ args[1] # Empty
     /\ args[2] \in DOMAIN Uuid
     /\ \A i \in DOMAIN app.tunnels : app.tunnels[i].name # args[1]
  THEN [app EXCEPT !.tunnels = Append(@, [name |-> args[1], id |-> Uuid[args[2]]])]
  ELSE Rejected

ReadGlobal(app, line) ==
  IF app = Rejected THEN Rejected
  ELSE CASE line.key = "zone"     -> ReadZone(app, line.args)
         [] line.key = "tunnel"   -> ReadTunnel(app, line.args)
         [] line.key \in Settings -> ReadSetting(app, line)
         [] OTHER                 -> Rejected

\* GlobalRead(lines)[n] is the app after the first n lines.
GlobalRead(lines) ==
  LET read[n \in 0 .. Len(lines)] ==
        IF n = 0 THEN NewApp ELSE ReadGlobal(read[n - 1], lines[n])
  IN  read

ParseGlobal(lines) == GlobalRead(lines)[Len(lines)]

----------------------------------------------------------------------------
(* A per-site directive.                                                   *)

\* Mutant of ResolveHost: the host of a matcher is taken as it is written.
ResolveHostVerbatim(scope, arg) ==
  IF arg \in Matchers
  THEN IF arg \in DOMAIN scope /\ Len(scope[arg]) = 1 THEN scope[arg][1] ELSE Rejected
  ELSE IF arg = <<>> THEN Rejected ELSE Normal(arg)

\* resolveHostToken: scope[m] lists the hosts of the visible host matcher m.
ResolveHost(scope, arg) ==
  IF arg \in Matchers
  THEN IF arg \in DOMAIN scope /\ Len(scope[arg]) = 1 THEN Normal(scope[arg][1]) ELSE Rejected
  ELSE IF arg = <<>> THEN Rejected ELSE Normal(arg)

\* Mutant of NormalizeIP6: the words for "no" are kept as they are.
NormalizeIP6Raw(val) ==
  CASE val \in {"false", "no", "off"} -> val
    [] val \in {"auto", "public"}     -> IP6Auto
    [] IsIPv6(val)                    -> val
    [] OTHER                          -> Rejected

NormalizeIP6(val) ==
  CASE val \in {"false", "no", "off"} -> Empty
    [] val \in {"auto", "public"}     -> IP6Auto
    [] IsIPv6(val)                    -> val
    [] OTHER                          -> Rejected

NewHost ==
  [host |-> Empty, ip |-> Empty, ip6 |-> Empty, proxied |-> Empty,
   force_adopt |-> FALSE, tunnel |-> Empty, tunnel_service |-> Empty]

\* The value a line gives to the field named like it.
LineValue(scope, line) ==
  IF line.key = "force_adopt" THEN IF line.args = <<>> THEN TRUE ELSE Rejected
  ELSE IF Len(line.args) # 1 THEN Rejected
  ELSE LET OneOf(values) == IF Only(line) \in values THEN Only(line) ELSE Rejected
       IN  CASE line.key = "host"           -> ResolveHost(scope, Only(line))
             [] line.key = "ip"             -> IF IsIPv4(Only(line)) THEN Only(line) ELSE Rejected
             [] line.key = "ip6"            -> NormalizeIP6(Only(line))
             [] line.key = "proxied"        -> OneOf({"yes", "no"})
             [] line.key = "tunnel"         -> Only(line)
             [] line.key = "tunnel_service" -> OneOf(Services)
             [] OTHER                       -> Rejected

\* The lines that contradict each other, whatever their order: checked when
\* the block has been read.  An ip6 that is switched off counts as absent.
Coherent(hc) ==
  /\ hc.host # Empty /\ hc.host # Apex
  /\ hc.tunnel # Empty => hc.ip = Empty /\ hc.ip6 = Empty /\ hc.proxied = Empty
  /\ hc.tunnel_service # Empty => hc.tunnel # Empty

\* Mutant of ReadHostLine: what contradicts the lines read so far is refused
\* at once, and a later line is not looked at.
ReadHostLineEagerly(scope, hc, line) ==
  LET value == LineValue(scope, line)
      read == [hc EXCEPT ![line.key] = value]
  IN  IF \/ hc = Rejected
         \/ value = Rejected
         \/ line.key \in {"host", "tunnel", "tunnel_service"} /\ hc[line.key] \notin {Empty, Apex}
         \/ read.tunnel_service # Empty /\ read.tunnel = Empty
      THEN Rejected ELSE read

ReadHostLine(scope, hc, line) ==
  LET value == LineValue(scope, line)
  IN  IF \/ hc = Rejected
         \/ value = Rejected
         \/ line.key \in {"host", "tunnel", "tunnel_service"} /\ hc[line.key] \notin {Empty, Apex}
      THEN Rejected
      ELSE [hc EXCEPT ![line.key] = value]

\* HostRead(scope, lines)[n] is the host after the first n lines.
HostRead(scope, lines) ==
  LET read[n \in 0 .. Len(lines)] ==
        IF n = 0 THEN NewHost ELSE ReadHostLine(scope, read[n - 1], lines[n])
  IN  read

ParseHostBlock(scope, lines) ==
  LET hc == HostRead(scope, lines)[Len(lines)]
  IN  IF hc # Rejected /\ Coherent(hc) THEN hc ELSE Rejected

ZoneNames(app) == [i \in DOMAIN app.zones |-> app.zones[i].zone]

\* Mutant of TunnelIDIn: a name that is not registered resolves to nothing.
TunnelIDInOrNone(tunnels, name) ==
  LET named == {i \in DOMAIN tunnels : tunnels[i].name = name}
  IN  IF named = {} THEN Empty ELSE tunnels[CHOOSE i \in named : TRUE].id

\* tunnelIDIn; parseTunnelEntry admits a name once.
TunnelIDIn(tunnels, name) ==
  LET named == {i \in DOMAIN tunnels : tunnels[i].name = name}
  IN  IF named = {} THEN Rejected ELSE tunnels[CHOOSE i \in named : TRUE].id

\* parseDirective: the host as the handler's JSON keeps it.  The tunnel's name
\* and the zone are not serialized, only the tunnel's id is.
Directive(app, site) ==
  LET hc == ParseHostBlock(site.scope, site.lines)
      id == IF hc = Rejected \/ hc.tunnel = Empty THEN Empty
            ELSE TunnelIDIn(app.tunnels, hc.tunnel)
  IN  IF \/ hc = Rejected
         \/ AssignZone(ZoneNames(app), hc.host) = 0
         \/ id = Rejected
      THEN Rejected
      ELSE [host |-> hc.host, ip |-> hc.ip, ip6 |-> hc.ip6,
            proxied |-> hc.proxied # "no", force |-> hc.force_adopt,
            tunnel |-> id, service |-> hc.tunnel_service]

HandlerJSON ==
  [host : Seq(Labels), ip : IPv4 \cup Mapped \cup {Empty},
   ip6 : IPv6 \cup {Empty, IP6Auto}, proxied : BOOLEAN, force : BOOLEAN,
   tunnel : {Uuid[u] : u \in DOMAIN Uuid} \cup {Empty}, service : Services \cup {Empty}]

Directives(app, sites) == [i \in DOMAIN sites |-> Directive(app, sites[i])]

=============================================================================
