---------------------------- MODULE IngressRules ----------------------------
(***************************************************************************)
(* The ingress rules of a Cloudflare tunnel and what the plugin computes   *)
(* from them: the plan a configuration asks for, its merge with the rules  *)
(* a tunnel has, the pruning of dead routes, and the comparison that       *)
(* decides whether anything is written (tunnelingress.go, tunnel.go).      *)
(*                                                                         *)
(* Hostnames are compared by the code up to case and are in lower case     *)
(* here.  An origin request is absent or a JSON object, a function from    *)
(* the keys it has to their values: what the Cloudflare API returns.       *)
(***************************************************************************)
EXTENDS Subsequences, FiniteSetsExt

CONSTANTS
  Hostnames,      \* hostnames a rule may have
  NoHost,         \* the empty hostname, which matches all traffic
  Rank,           \* Rank[h]: place of hostname h in the order of strings
  Services,       \* services a rule may send its traffic to
  Https,          \* the services whose scheme is https
  DefaultService, \* defaultTunnelService: http_status:404
  Paths,          \* path expressions
  NoPath,         \* a rule without a path
  Keys,           \* origin-request options
  SNI,            \* matchSNItoHost, one of the keys
  Values, Yes,    \* values of options; Yes is the literal true
  Absent,         \* a rule without an origin request
  Undeclared      \* an empty string in a declaration

OriginRequest == UNION {[K -> Values] : K \in SUBSET Keys}

Rule == [hostname : Hostnames \cup {NoHost}, service : Services,
         path : Paths \cup {NoPath}, originRequest : OriginRequest \cup {Absent}]

ASSUME OptionsTyped == SNI \in Keys /\ Yes \in Values

ASSUME ServicesTyped == Https \subseteq Services /\ DefaultService \in Services

ASSUME RanksDiffer ==
  /\ Rank \in [Hostnames -> Nat]
  /\ \A h, k \in Hostnames : Rank[h] = Rank[k] => h = k

ASSUME BlanksDiffer ==
  /\ NoHost \notin Hostnames
  /\ NoPath \notin Paths
  /\ Absent \notin OriginRequest
  /\ Undeclared \notin Services

----------------------------------------------------------------------------
(* The option the plugin manages.                                          *)

WantsMatchSNI(service) == service \in Https

HasMatchSNI(request) ==
  request # Absent /\ SNI \in DOMAIN request /\ request[SNI] = Yes

MatchSNI == [key \in {SNI} |-> Yes]

\* The options of both requests; of one they share, the value over has.
Over(over, under) ==
  [key \in DOMAIN over \cup DOMAIN under |->
     IF key \in DOMAIN over THEN over[key] ELSE under[key]]

\* Mutant of EnsureMatchSNI: the option replaces the object.
EnsureMatchSNIAlone(request, service) ==
  IF WantsMatchSNI(service) THEN MatchSNI ELSE request

EnsureMatchSNI(request, service) ==
  IF ~WantsMatchSNI(service) THEN request
  ELSE IF request = Absent THEN MatchSNI
  ELSE Over(MatchSNI, request)

\* mergeOriginRequest, and what its caller makes of an absent side.
Overlaid(under, over) ==
  IF under = Absent THEN over ELSE IF over = Absent THEN under ELSE Over(over, under)

----------------------------------------------------------------------------
(* deriveIngressPlan, for one tunnel.  hosts is the snapshot of the        *)
(* registry in the order handlers were provisioned, decl[h] what a host    *)
(* declares; a configuration has no two hosts of one name.                 *)

Service(declared, default) == IF declared = Undeclared THEN default ELSE declared

Derived(h, service) ==
  [hostname |-> h, service |-> service, path |-> NoPath,
   originRequest |-> EnsureMatchSNI(Absent, service)]

OfTunnel(hosts, decl, t) ==
  Picked(hosts, {i \in DOMAIN hosts : decl[hosts[i]].tunnel = t})

\* Mutant of Sorted: the order of provisioning.
Unsorted(hosts) == hosts

Sorted(hosts) == Ordered({hosts[i] : i \in DOMAIN hosts}, Rank)

\* A tunnel no host declares has no plan at all: the empty sequence.
Plan(hosts, decl, t, configured) ==
  LET default == Service(configured, DefaultService)
      rule == [h \in Hostnames |-> Derived(h, Service(decl[h].service, default))]
      mine == Sorted(OfTunnel(hosts, decl, t))
  IN  IF mine = <<>> THEN <<>>
      ELSE [i \in DOMAIN mine |-> rule[mine[i]]] \o <<Derived(NoHost, default)>>

----------------------------------------------------------------------------
(* mergeIngressPlan.                                                       *)

\* The rules at this hostname that carry something the plugin does not author.
Donors(current, h) ==
  {i \in DOMAIN current : /\ current[i].hostname = h
                          /\ current[i].path # NoPath \/ current[i].originRequest # Absent}

\* inheritUnmanagedFields, for one rule: the last donor counts.
Inheriting(current) ==
  [r \in Rule |->
     IF Donors(current, r.hostname) = {}
     THEN [r EXCEPT !.originRequest = EnsureMatchSNI(@, r.service)]
     ELSE LET prev == current[Max(Donors(current, r.hostname))]
          IN  [r EXCEPT !.path = IF @ = NoPath THEN prev.path ELSE @,
                        !.originRequest =
                           EnsureMatchSNI(Overlaid(prev.originRequest, @), r.service)]]

HostsOf(rules) == {rules[i].hostname : i \in DOMAIN rules} \ {NoHost}

\* The rules at other hostnames, in their order.
Without(rules, hostnames) ==
  Picked(rules, {i \in DOMAIN rules : rules[i].hostname \notin hostnames})

\* Mutant of Preserved: rules without a hostname are foreign too.
PreservedWithCatchAll(current, plan, pruned) ==
  Without(current, HostsOf(plan) \cup pruned)

\* Mutant of Preserved: the rules of pruned hosts stay.
PreservedPruned(current, plan, pruned) ==
  Without(current, HostsOf(plan) \cup {NoHost})

Preserved(current, plan, pruned) ==
  Without(current, HostsOf(plan) \cup pruned \cup {NoHost})

Inherited(rules, current) == [i \in DOMAIN rules |-> Inheriting(current)[rules[i]]]

Merged(current, plan, pruned) ==
  Inherited(Preserved(current, plan, pruned), current) \o Inherited(plan, current)

\* Mutant of RulesEqual: a service that changed is not drift.
HostsEqual(a, b) ==
  /\ Len(a) = Len(b)
  /\ \A i \in DOMAIN a : a[i].hostname = b[i].hostname

\* ingressRulesEqual: hostname, service, and the managed option on both sides.
RulesEqual(a, b) ==
  /\ Len(a) = Len(b)
  /\ \A i \in DOMAIN a :
       /\ a[i].hostname = b[i].hostname
       /\ a[i].service = b[i].service
       /\ WantsMatchSNI(a[i].service) = HasMatchSNI(a[i].originRequest)
       /\ WantsMatchSNI(b[i].service) = HasMatchSNI(b[i].originRequest)

----------------------------------------------------------------------------
(* pruneOnlyIngress: for a tunnel without a plan.                          *)

PrunedOnly(current, pruned, declared) ==
  Without(current, pruned \ declared)

----------------------------------------------------------------------------

\* The rule whose options a merge would hand to the rules at its hostname has
\* the managed one only if they all want it.
DonorsSuit(rules) ==
  \A i \in DOMAIN rules :
    LET donors == Donors(rules, rules[i].hostname)
    IN  donors # {} /\ WantsMatchSNI(rules[Max(donors)].service)
          => WantsMatchSNI(rules[i].service)

\* What the tunnel API requires of a configuration: its last rule is for all
\* hosts, and no other one before it hides what follows.
CatchesAll(rules) ==
  /\ rules # <<>>
  /\ rules[Len(rules)].hostname = NoHost
  /\ \A i \in 1 .. Len(rules) - 1 : rules[i].hostname = NoHost => rules[i].path # NoPath

=============================================================================
