------------------------------ MODULE Startup ------------------------------
(***************************************************************************)
(* The life of a configuration load around its reconciliation: Caddy       *)
(* adapts the file, provisions the app and the handlers, each of which     *)
(* registers its host with the app (registry.go), and starts the app,      *)
(* which detects the public addresses (publicip.go), hands the hosts to    *)
(* one pass per zone and answers Caddy with the errors (reconcile.go).     *)
(*                                                                         *)
(* Handlers, detections and passes run concurrently.  A pass is its        *)
(* outcome here; ZoneReconcile has its steps, and Reconcile the ingress    *)
(* phase that follows.                                                     *)
(***************************************************************************)
EXTENDS Caddyfile, Subsequences, Functions
LOCAL INSTANCE FiniteSetsExt

CONSTANTS
  Files,        \* the configuration files that may be loaded
  Nothing,      \* Caddy runs no configuration
  Machine,      \* os.Hostname()
  DefaultTag,   \* defaultTagPrefix
  NoAnswer,     \* a detection service cannot be reached or names no address
  MaxLoads      \* bound: configuration loads

Families == {"A", "AAAA"}

Answers == IPv4 \cup Mapped \cup IPv6 \cup {NoAnswer}

IsList(s) == Len(s) \in Nat /\ DOMAIN s = 1 .. Len(s)

\* A zone is a name, and not one that ends in two dots.
GlobalLineTyped(line) ==
  line.key = "zone" /\ Len(line.args) \in {3, 4} =>
    LET zone == line.args[1]
    IN  /\ zone \in Seq(Labels)
        /\ ~(Len(zone) > 1 /\ zone[Len(zone)] = "" /\ zone[Len(zone) - 1] = "")

\* A host is a matcher or a name, a tunnel's name neither of them.
SiteLineTyped(line) ==
  Len(line.args) = 1 =>
    /\ line.key = "host" => Only(line) \in Matchers \cup Seq(Labels)
    /\ line.key = "tunnel" => Only(line) # Apex

\* What Caddy's tokenizer and matcher table hand to the adapter.
ASSUME FilesTyped ==
  \A f \in Files :
    /\ IsList(f.global) /\ IsList(f.sites)
    /\ \A n \in DOMAIN f.global : GlobalLineTyped(f.global[n])
    /\ \A i \in DOMAIN f.sites :
         /\ IsList(f.sites[i].lines)
         /\ \A n \in DOMAIN f.sites[i].lines : SiteLineTyped(f.sites[i].lines[n])
         /\ \A m \in DOMAIN f.sites[i].scope : f.sites[i].scope[m] \in Seq(Seq(Labels))

\* What the settings of a site may be, as its lines give them.
HostValues(lines) ==
  Seq(Labels) \cup IPv4 \cup Mapped \cup IPv6 \cup Services \cup BOOLEAN
    \cup {Empty, IP6Auto, "yes", "no"}
    \cup {Only(lines[n]) : n \in {m \in DOMAIN lines :
                                   lines[m].key = "tunnel" /\ Len(lines[m].args) = 1}}

\* An error is not a host.
ASSUME RejectedApart ==
  \A f \in Files : \A i \in DOMAIN f.sites :
    Rejected \notin [DOMAIN NewHost -> HostValues(f.sites[i].lines)]

\* Addresses of the two families, and the words for having none, differ.
ASSUME AddressesApart ==
  /\ IPv6 \cap (IPv4 \cup Mapped) = {}
  /\ {"unwanted", "asked", "failed"} \cap (IPv4 \cup Mapped \cup IPv6) = {}

ASSUME MaxLoadsAssumption == MaxLoads \in Nat

VARIABLES
  running,   \* the file of the configuration Caddy runs
  answer,    \* what became of the last load
  file,      \* the file being loaded
  pc,        \* how far its load has come
  app,       \* the App: its global settings
  decls,     \* decls[i]: the host in the JSON of handler i
  prov,      \* prov[i]: where handler i's Provision is
  mutex,     \* the handler that holds app.hostsMu, or 0
  hosts,     \* app.hosts
  det,       \* det[f]: what became of the detection of family f
  passes,    \* passes[z]: what the goroutine of zone z works on
  failed,    \* what went wrong in Reconcile: zones, and the ingress phase
  loads      \* how many loads there have been

vars == <<running, answer, file, pc, app, decls, prov, mutex, hosts, det, passes, failed, loads>>

NoPasses == [z \in {} |-> Nothing]

\* Stands for the ingress phase among the zones that failed.
IngressPhase == Apex

Unasked == [f \in Families |-> "unwanted"]

----------------------------------------------------------------------------
(* Adapting the file.                                                      *)

Forget ==
  /\ app' = NewApp /\ decls' = <<>> /\ prov' = <<>> /\ mutex' = 0 /\ hosts' = <<>>
  /\ det' = Unasked /\ passes' = NoPasses /\ failed' = {}

Answer(accepted) ==
  /\ pc' = "idle"
  /\ answer' = IF accepted THEN "accepted" ELSE "refused"
  /\ running' = IF accepted THEN file ELSE running
  /\ Forget
  /\ UNCHANGED <<file, loads>>

\* Sites without the global block are refused (zonesFromOptions), which an
\* empty global block does as well: no zone is declared.
Adapts(f) ==
  LET a == ParseGlobal(f.global)
  IN  /\ a # Rejected
      /\ \A i \in DOMAIN f.sites : Directive(a, f.sites[i]) # Rejected

NewLoad(f) ==
  /\ pc = "idle"
  /\ loads < MaxLoads
  /\ loads' = loads + 1
  /\ file' = f
  /\ UNCHANGED <<running, mutex, hosts, det, passes, failed>>

Adapt(f) ==
  /\ NewLoad(f)
  /\ Adapts(f)
  /\ pc' = "app"
  /\ answer' = "none"
  /\ app' = ParseGlobal(f.global)
  /\ decls' = Directives(ParseGlobal(f.global), f.sites)
  /\ prov' = [i \in DOMAIN f.sites |-> "waiting"]

RefuseFile(f) ==
  /\ NewLoad(f)
  /\ ~Adapts(f)
  /\ answer' = "refused"
  /\ UNCHANGED <<pc, app, decls, prov>>

\* App.Provision: what the ownership tag is made of.
WithIdentity(a) ==
  [a EXCEPT !.tag_prefix = IF @ = Empty THEN DefaultTag ELSE @,
            !.instance = IF @ = Empty THEN Machine ELSE @]

\* App.Validate.
Valid(a) ==
  /\ \A i \in DOMAIN a.zones : a.zones[i].zone # Apex /\ a.zones[i].token # Empty
  /\ a.tag_prefix # Empty
  /\ a.instance # Empty

ProvisionApp ==
  /\ pc = "app"
  /\ Valid(WithIdentity(app))
  /\ pc' = "provision"
  /\ app' = WithIdentity(app)
  /\ UNCHANGED <<running, answer, file, decls, prov, mutex, hosts, det, passes, failed, loads>>

\* The host name of the machine is only asked for when no instance is given,
\* and the call may fail.
RefuseApp ==
  /\ pc = "app"
  /\ app.instance = Empty \/ ~Valid(WithIdentity(app))
  /\ Answer(FALSE)

----------------------------------------------------------------------------
(* addHost, called by each handler's Provision.                            *)

Registering(i, from, to) ==
  /\ pc = "provision"
  /\ prov[i] = from
  /\ prov' = [prov EXCEPT ![i] = to]
  /\ UNCHANGED <<running, answer, file, pc, app, decls, det, passes, failed, loads>>

\* Mutant of Lock: the mutex is not taken.
LockNothing(i) ==
  /\ Registering(i, "waiting", "locked")
  /\ UNCHANGED <<mutex, hosts>>

Lock(i) ==
  /\ mutex = 0
  /\ mutex' = i
  /\ Registering(i, "waiting", "locked")
  /\ UNCHANGED hosts

Taken(i) == \E k \in DOMAIN hosts : hosts[k].host = decls[i].host

FindFree(i) ==
  /\ ~Taken(i)
  /\ Registering(i, "locked", "free")
  /\ UNCHANGED <<mutex, hosts>>

\* Mutant of FindTaken: the error return leaves the mutex locked.
FindTakenLocked(i) ==
  /\ Taken(i)
  /\ Registering(i, "locked", "failed")
  /\ UNCHANGED <<mutex, hosts>>

FindTaken(i) ==
  /\ Taken(i)
  /\ mutex' = 0
  /\ Registering(i, "locked", "failed")
  /\ UNCHANGED hosts

Append1(i) ==
  /\ hosts' = Append(hosts, decls[i])
  /\ mutex' = 0
  /\ Registering(i, "free", "done")

AddHost(i) == Lock(i) \/ FindFree(i) \/ FindTaken(i) \/ Append1(i)

RefuseHandlers ==
  /\ pc = "provision"
  /\ \A i \in DOMAIN prov : prov[i] \in {"done", "failed"}
  /\ \E i \in DOMAIN prov : prov[i] = "failed"
  /\ Answer(FALSE)

----------------------------------------------------------------------------
(* App.Start and detectPublicIPs.                                          *)

\* A host whose address of the family is to be detected.
ToDetect(hc, f) ==
  /\ hc.tunnel = Empty
  /\ IF f = "A" THEN hc.ip = Empty ELSE hc.ip6 = IP6Auto

Start ==
  /\ pc = "provision"
  /\ \A i \in DOMAIN prov : prov[i] = "done"
  /\ pc' = "detect"
  /\ det' = [f \in Families |->
               IF \E k \in DOMAIN hosts : ToDetect(hosts[k], f) THEN "asked" ELSE "unwanted"]
  /\ UNCHANGED <<running, answer, file, app, decls, prov, mutex, hosts, passes, failed, loads>>

\* parseIPBody with the matcher of the family.
Accepts(f, a) == IF f = "A" THEN IsIPv4(a) ELSE IsIPv6(a)

Detect(f) ==
  /\ pc = "detect"
  /\ det[f] = "asked"
  /\ \E a \in Answers : det' = [det EXCEPT ![f] = IF Accepts(f, a) THEN a ELSE "failed"]
  /\ UNCHANGED <<running, answer, file, pc, app, decls, prov, mutex, hosts, passes, failed, loads>>

----------------------------------------------------------------------------
(* Reconcile: the hosts grouped by zone, a goroutine for each group.       *)

ZoneOf(hc) == ZoneNames(app)[AssignZone(ZoneNames(app), hc.host)]

Entries(z) == {i \in DOMAIN app.zones : app.zones[i].zone = z}

\* The zones with hosts, and those that opted in to prune.
Visited ==
  {ZoneOf(hosts[k]) : k \in DOMAIN hosts}
    \cup {app.zones[i].zone : i \in {j \in DOMAIN app.zones : app.zones[j].prune}}

\* Of two entries for one zone, the last one's token is in zoneClients and
\* the first one's prune counts (zonePruneEnabled).
Work(z) ==
  [hosts |-> Picked(hosts, {k \in DOMAIN hosts : ZoneOf(hosts[k]) = z}),
   token |-> app.zones[Max(Entries(z))].token,
   prune |-> app.zones[Min(Entries(z))].prune,
   state |-> "running"]

\* Mutant of Detected: the first answer is enough.
DetectedOne == \E f \in Families : det[f] # "asked"

Detected == \A f \in Families : det[f] # "asked"

Group ==
  /\ pc = "detect"
  /\ Detected
  /\ pc' = "zones"
  /\ passes' = [z \in Visited |-> Work(z)]
  /\ UNCHANGED <<running, answer, file, app, decls, prov, mutex, hosts, det, failed, loads>>

\* Mutant of Collected: one variable for the error of all goroutines.
CollectedLast(errs, where, ok) == IF ok THEN {} ELSE {where}

Collected(errs, where, ok) == IF ok THEN errs ELSE errs \cup {where}

PassEnds(z) ==
  /\ pc = "zones"
  /\ passes[z].state = "running"
  /\ \E ok \in BOOLEAN :
       /\ passes' = [passes EXCEPT ![z].state = IF ok THEN "ok" ELSE "error"]
       /\ failed' = Collected(failed, z, ok)
  /\ UNCHANGED <<running, answer, file, pc, app, decls, prov, mutex, hosts, det, loads>>

\* The tunnel API is called at all (reconcileIngressPhase).
CallsTunnels ==
  /\ app.account # Empty
  /\ \/ \E k \in DOMAIN hosts : hosts[k].tunnel # Empty
     \/ \E z \in DOMAIN passes : passes[z].prune

\* The ingress phase, when all passes have ended; then Start returns.
Ingress ==
  /\ pc = "zones"
  /\ \A z \in DOMAIN passes : passes[z].state # "running"
  /\ pc' = "return"
  /\ \E ok \in BOOLEAN :
       /\ CallsTunnels \/ ok
       /\ failed' = Collected(failed, IngressPhase, ok)
  /\ UNCHANGED <<running, answer, file, app, decls, prov, mutex, hosts, det, passes, loads>>

\* Caddy runs the new configuration, or stays with the one it has.
Return == pc = "return" /\ Answer(failed = {})

Crash ==
  /\ pc # "idle"
  /\ pc' = "idle"
  /\ running' = Nothing
  /\ answer' = "none"
  /\ Forget
  /\ UNCHANGED <<file, loads>>

----------------------------------------------------------------------------

Init ==
  /\ running = Nothing /\ answer = "none" /\ file = Nothing /\ pc = "idle" /\ loads = 0
  /\ app = NewApp /\ decls = <<>> /\ prov = <<>> /\ mutex = 0 /\ hosts = <<>>
  /\ det = Unasked /\ passes = NoPasses /\ failed = {}

Whole ==
  \/ ProvisionApp \/ RefuseApp \/ RefuseHandlers
  \/ Start \/ Group \/ Ingress \/ Return

Next ==
  \/ \E f \in Files : Adapt(f) \/ RefuseFile(f)
  \/ Whole
  \/ \E i \in DOMAIN prov : AddHost(i)
  \/ \E f \in Families : Detect(f)
  \/ \E z \in DOMAIN passes : PassEnds(z)
  \/ Crash

Spec == Init /\ [][Next]_vars

\* Goroutines run, requests end within their client's timeout, and Caddy goes
\* on when what it waits for is there.
Progress ==
  \/ Whole
  \/ \E i \in DOMAIN prov : AddHost(i)
  \/ \E f \in Families : Detect(f)
  \/ \E z \in DOMAIN passes : PassEnds(z)

FairSpec == Spec /\ WF_vars(Progress)

----------------------------------------------------------------------------
(* Properties.                                                             *)

\* Every variable keeps its type.  The names of zones and hosts are those that
\* normalizing leaves alone, tunnels are known by an id, and the registry and the
\* passes hold declarations of the handlers and nothing else.
TypeOK ==
  /\ {running, file} \subseteq Files \cup {Nothing}
  /\ answer \in {"none", "accepted", "refused"}
  /\ pc \in {"idle", "app", "provision", "detect", "zones", "return"}
  /\ DOMAIN app = DOMAIN NewApp
  /\ \A e \in DOMAIN app.zones :
       LET zone == app.zones[e].zone IN zone # Apex /\ Normal(zone) = zone
  /\ \A t \in DOMAIN app.tunnels : app.tunnels[t].id \in {Uuid[u] : u \in DOMAIN Uuid}
  /\ decls \in Seq(HandlerJSON)
  /\ \A i \in DOMAIN decls : Normal(decls[i].host) = decls[i].host
  /\ prov \in [DOMAIN decls -> {"waiting", "locked", "free", "done", "failed"}]
  /\ mutex \in DOMAIN decls \cup {0}
  /\ hosts \in Seq({decls[i] : i \in DOMAIN decls})
  /\ det \in [Families -> Answers \cup {"unwanted", "asked", "failed"}]
  /\ \A z \in DOMAIN passes :
       /\ z # Apex /\ Normal(z) = z
       /\ passes[z].hosts \in Seq({decls[i] : i \in DOMAIN decls})
       /\ passes[z].state \in {"running", "ok", "error"}
  /\ failed \subseteq DOMAIN passes \cup {IngressPhase}
  /\ loads \in 0 .. MaxLoads

\* However the handlers' Provision calls interleave, the app never has two
\* declarations of one host (addHost: "concurrent provisioning cannot miss a
\* collision").
HostsDistinct ==
  \A k, l \in DOMAIN hosts : hosts[k].host = hosts[l].host => k = l

\* No two hosts a pass works on are one record at Cloudflare, whether their
\* blocks write the name, capitals or a dot at its end, or refer to a matcher.
\* Doubled names are left out: canonicalNameKey strips the zone twice there.
OneDeclarationPerRecord ==
  \A z \in DOMAIN passes : \A k, l \in DOMAIN passes[z].hosts :
    LET a == Normal(passes[z].hosts[k].host)
        b == Normal(passes[z].hosts[l].host)
    IN  /\ ~Doubled(a, z) /\ ~Doubled(b, z)
        /\ Key(a, z) = Key(b, z)
        => k = l

\* From the site blocks to the passes no declaration is lost, doubled or put
\* into a zone when a longer one is declared, and every zone that asks for
\* prune is visited, even with no host left in it.
EachHostInItsZone ==
  pc = "zones" =>
    /\ \A i \in DOMAIN decls :
         \E z \in DOMAIN passes :
           /\ Under(decls[i].host, z)
           /\ \A y \in DOMAIN passes : \A k \in DOMAIN passes[y].hosts :
                passes[y].hosts[k].host = decls[i].host => y = z
           /\ \E k \in DOMAIN passes[z].hosts : passes[z].hosts[k] = decls[i]
           /\ \A e \in DOMAIN app.zones :
                Under(decls[i].host, app.zones[e].zone) => Len(app.zones[e].zone) <= Len(z)
    /\ \A e \in DOMAIN app.zones : app.zones[e].prune => app.zones[e].zone \in DOMAIN passes

\* The passes start with the detection of every family an automatic host of
\* theirs needs settled, one way or the other, and what goes into AAAA records
\* is never an IPv4 address in disguise.
PassesInformed ==
  /\ \A z \in DOMAIN passes : \A k \in DOMAIN passes[z].hosts : \A f \in Families :
       ToDetect(passes[z].hosts[k], f) => det[f] \notin {"unwanted", "asked"}
  /\ det["AAAA"] \notin IPv4 \cup Mapped

\* A site block that names a tunnel is handed over as a host of that tunnel,
\* under the UUID of the global block, and never as an address host: only the
\* id survives the way through the handler's JSON.
TunnelsResolved ==
  \A i \in DOMAIN decls : \A n \in DOMAIN file.sites[i].lines :
    LET line == file.sites[i].lines[n]
    IN  line.key = "tunnel" /\ Only(line) # Empty =>
          \E t \in DOMAIN app.tunnels :
            app.tunnels[t] = [name |-> Only(line), id |-> decls[i].tunnel]

\* What a site block means does not depend on the order of its lines, unless
\* it gives one setting twice.
LinesCommute ==
  [][\A i \in DOMAIN file'.sites :
       LET site == file'.sites[i]
           places == DOMAIN site.lines
       IN  /\ loads' # loads
           /\ \A m, n \in places : site.lines[m].key = site.lines[n].key => m = n
           => \A p \in Bijection(places, places) :
                ParseHostBlock(site.scope, [n \in places |-> site.lines[p[n]]])
                  = ParseHostBlock(site.scope, site.lines)]_vars

\* A load that got as far as Reconcile is accepted exactly when every pass and
\* the ingress phase ended well: no error is lost among the goroutines, and a
\* failed detection alone never refuses a load (public-ip-detection spec).
AnswerMatchesOutcome ==
  [][pc = "return" /\ answer' # answer =>
       (answer' = "accepted"
          <=> /\ \A z \in DOMAIN passes : passes[z].state = "ok"
              /\ IngressPhase \notin failed)]_vars

\* Every load is answered: no handler, detection or pass is waited for in vain.
LoadAnswered == pc # "idle" ~> pc = "idle"

=============================================================================
