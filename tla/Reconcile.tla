----------------------------- MODULE Reconcile -----------------------------
(***************************************************************************)
(* One configuration load of one server: App.Reconcile (reconcile.go).     *)
(* The zones are reconciled in parallel; when all have ended, the ingress  *)
(* phase reads, merges and writes the tunnels, in parallel again.  What a  *)
(* zone's pass deleted decides which routes of the tunnels may go.         *)
(*                                                                         *)
(* A zone's pass is one step here, with every outcome reconcileZone can    *)
(* have on the records this server owns; ZoneReconcile has its calls.      *)
(***************************************************************************)
EXTENDS IngressRules, SequencesExt

CONSTANTS
  Zones,         \* the declared zones
  ZoneOf,        \* ZoneOf[h]: the zone assignZone finds for a hostname
  ZoneRank,      \* the order of zone names
  Accounts,
  ZoneAccount,   \* ZoneAccount[z]: the account Cloudflare reports for a zone
  TunnelAccount, \* TunnelAccount[t]: the account a tunnel really belongs to
  Tunnels,
  NoTunnel,      \* a host without a tunnel: an address host
  Address,       \* a name that holds address records of this server
  Nothing,       \* a name that holds no record of this server
  Configs,       \* the configurations that may be loaded
  InitDNS,       \* the records a run may start from
  Setups,        \* what a tunnel's configuration may be outside the plugin
  MaxLoads,      \* bound: configuration loads
  MaxFaults,     \* bound: failed calls and crashes
  MaxEdits       \* bound: edits of a tunnel in the dashboard

NoAccount == "none"

Target == Tunnels \cup {Address, Nothing}

HostDecl == [tunnel : Tunnels \cup {NoTunnel}, service : Services \cup {Undeclared}]

Config == [hosts : UNION {[D -> HostDecl] : D \in SUBSET Hostnames},
           prune : SUBSET Zones,            \* zones that declare prune
           registered : SUBSET Tunnels,     \* the tunnels of the global block
           default : Services \cup {Undeclared},
           token : BOOLEAN,                 \* an account token is configured
           account : Accounts \cup {NoAccount}]

Setup == [source : {"cloudflare", "local"}, ingress : Seq(Rule)]

\* resolveHostToken admits the names of registered tunnels only, and a
\* configuration is a file.
ASSUME ConfigsValid ==
  /\ Configs \subseteq Config
  /\ \A conf \in Configs :
       /\ IsFiniteSet(DOMAIN conf.hosts)
       /\ \A h \in DOMAIN conf.hosts : conf.hosts[h].tunnel \in conf.registered \cup {NoTunnel}

\* What others write is validated as well: "The last rule must be a catch-all"
\* (docs/cloudflare-tunnel.md:392), and cloudflared takes no catch-all before
\* it.  A tunnel nobody has configured at Cloudflare has no rules there.
ASSUME SetupsValidated ==
  \A setup \in Setups : \A t \in Tunnels :
    \/ setup[t].source = "local"
    \/ setup[t].ingress = <<>>
    \/ CatchesAll(setup[t].ingress)

ASSUME BoundsTyped == MaxLoads \in Nat /\ MaxFaults \in Nat /\ MaxEdits \in Nat

ASSUME EnvironmentTyped ==
  /\ ZoneOf \in [Hostnames -> Zones]
  /\ ZoneRank \in [Zones -> Nat]
  /\ ZoneAccount \in [Zones -> Accounts]
  /\ TunnelAccount \in [Tunnels -> Accounts]
  /\ InitDNS \subseteq [Hostnames -> Target]
  /\ Setups \subseteq [Tunnels -> Setup]
  /\ NoTunnel \notin Tunnels
  /\ NoAccount \notin Accounts
  /\ {Address, Nothing} \cap Tunnels = {}

VARIABLES
  dns,      \* dns[h]: where the record of h points that carries our tag
  config,   \* config[t]: a tunnel's configuration at Cloudflare
  run,      \* the locals of Reconcile
  late,     \* configurations whose write timed out and may still land
  intact,   \* tunnels nobody else has changed since the load under way began or,
            \* if that is later, since it read them (history)
  retired,  \* (host, tunnel) pairs whose CNAME a run with prune deleted (history)
  used      \* how much of each bound is spent

vars == <<dns, config, run, late, intact, retired, used>>

----------------------------------------------------------------------------
(* The locals of Reconcile.                                                *)

Report == SUBSET (Hostnames \X Tunnels)

Fresh(conf) ==
  [pc |-> "idle", conf |-> conf, order |-> <<>>, zones |-> {}, accounts |-> {},
   report |-> {}, unread |-> {}, writes |-> [t \in {} |-> <<>>], status |-> "none"]

Unloaded == [hosts |-> [h \in {} |-> 0], prune |-> {}, registered |-> {},
             default |-> Undeclared, token |-> FALSE, account |-> NoAccount]

\* The locals, with a write to come for each of the tunnels.
RunState(tunnels) ==
  [pc : {"idle", "zones", "tunnels"},
   conf : Config,
   order : Seq(Hostnames),          \* hostsSnapshot()
   zones : SUBSET Zones,            \* passes that have not ended
   accounts : SUBSET Zones,         \* zones whose lookup told the account
   report : Report,                 \* prunedHosts, the attributable ones
   unread : SUBSET Tunnels,         \* tunnels still to be read
   writes : [tunnels -> Seq(Rule)],
   status : {"none", "ok", "error"}]

Fail == used.fault < MaxFaults /\ used' = [used EXCEPT !.fault = @ + 1]

Declared(conf) == DOMAIN conf.hosts

\* The hosts of conf that go through tunnel t.
HostsOn(conf, t) == {h \in Declared(conf) : conf.hosts[h].tunnel = t}

Visited(conf) == {ZoneOf[h] : h \in Declared(conf)} \cup conf.prune

Start ==
  /\ run.pc = "idle"
  /\ used.load < MaxLoads
  /\ used' = [used EXCEPT !.load = @ + 1]
  /\ \E conf \in Configs : \E order \in SetToSeqs(Declared(conf)) :
       run' = [Fresh(conf) EXCEPT !.pc = "zones", !.order = order,
                                  !.zones = Visited(conf), !.status = "ok"]
  /\ intact' = Tunnels
  /\ UNCHANGED <<dns, config, late, retired>>

----------------------------------------------------------------------------
(* A zone's pass.                                                          *)

\* What the pass is to make of the record of h.
Goal(conf, h) ==
  IF h \in Declared(conf)
  THEN IF conf.hosts[h].tunnel = NoTunnel THEN Address ELSE conf.hosts[h].tunnel
  ELSE IF ZoneOf[h] \in conf.prune THEN Nothing ELSE dns[h]

\* The record of h is of another kind than the one to come, and is deleted.
Replaces(conf, h) ==
  dns[h] # Nothing /\ ~(dns[h] \in Tunnels /\ Goal(conf, h) \in Tunnels)

\* Mutant of Pruned: what a revert cleared is reported without prune too.
PrunedAnyway(conf, z, after) ==
  {e \in Hostnames \X Tunnels :
     /\ ZoneOf[e[1]] = z
     /\ dns[e[1]] = e[2]
     /\ after[e[1]] \in {Address, Nothing}}

\* The names of a pruning zone whose tunnel CNAME the pass deleted.
Pruned(conf, z, after) ==
  {e \in Hostnames \X Tunnels :
     /\ ZoneOf[e[1]] = z
     /\ z \in conf.prune
     /\ dns[e[1]] = e[2]
     /\ after[e[1]] \in {Address, Nothing}}

LookupFails(z) ==
  /\ run.pc = "zones"
  /\ z \in run.zones
  /\ Fail
  /\ run' = [run EXCEPT !.zones = @ \ {z}, !.status = "error"]
  /\ UNCHANGED <<dns, config, late, intact, retired>>

ListFails(z) ==
  /\ run.pc = "zones"
  /\ z \in run.zones
  /\ Fail
  /\ run' = [run EXCEPT !.zones = @ \ {z}, !.accounts = @ \cup {z}, !.status = "error"]
  /\ UNCHANGED <<dns, config, late, intact, retired>>

\* A call of the pass fails, a record that nobody tagged is in the way, or no
\* address was detected: the names in stuck do not get their record, and those
\* in emptied have been cleared for it.  That is only logged; but a record of
\* the wrong kind is prune's as well, so one that is left means prune failed.
ZonePass(z) ==
  /\ run.pc = "zones"
  /\ z \in run.zones
  /\ \E stuck \in SUBSET {h \in Hostnames : ZoneOf[h] = z /\ Goal(run.conf, h) # dns[h]} :
     \E emptied \in SUBSET {h \in stuck : Replaces(run.conf, h)} :
       LET left == {h \in stuck \ emptied : Replaces(run.conf, h)}
       IN  /\ IF stuck = {} THEN UNCHANGED used ELSE Fail
           /\ dns' = [h \in Hostnames |->
                         IF h \in emptied THEN Nothing
                         ELSE IF h \in stuck \/ ZoneOf[h] # z THEN dns[h]
                         ELSE Goal(run.conf, h)]
           /\ retired' = retired \cup Pruned(run.conf, z, dns')
           /\ run' = [run EXCEPT
                !.zones = @ \ {z}, !.accounts = @ \cup {z},
                !.report = @ \cup Pruned(run.conf, z, dns'),
                !.status = IF z \in run.conf.prune /\ left # {} THEN "error" ELSE @]
  /\ UNCHANGED <<config, late, intact>>

----------------------------------------------------------------------------
(* reconcileIngressPhase and reconcileTunnelIngress.                       *)

\* resolveAccountID.
Account(r) ==
  IF r.conf.account # NoAccount THEN r.conf.account
  ELSE IF r.accounts = {} THEN NoAccount
  ELSE ZoneAccount[CHOOSE z \in r.accounts :
                     \A y \in r.accounts : ZoneRank[z] <= ZoneRank[y]]

\* Mutant of ToVisit: the deleted record alone authorises a tunnel.
ToVisitAnyRecord(r) ==
  {t \in Tunnels : HostsOn(r.conf, t) # {} \/ \E h \in Hostnames : <<h, t>> \in r.report}

\* Mutant of ToVisit: hosts without a tunnel have a plan as well.
ToVisitAddressHosts(r) ==
  {t \in Tunnels \cup {NoTunnel} :
     \/ HostsOn(r.conf, t) # {}
     \/ t \in r.conf.registered /\ \E h \in Hostnames : <<h, t>> \in r.report}

\* Tunnels with a plan, and registered ones that a deleted record named.
ToVisit(r) ==
  {t \in Tunnels :
     \/ HostsOn(r.conf, t) # {}
     \/ t \in r.conf.registered /\ \E h \in Hostnames : <<h, t>> \in r.report}

SkipsIngress(r) == ~r.conf.token \/ Account(r) = NoAccount

Return(r) == [Fresh(r.conf) EXCEPT !.status = r.status, !.report = r.report,
                                   !.accounts = r.accounts]

\* wg.Wait has returned: every zone's pass is over.
SkipIngress ==
  /\ run.pc = "zones"
  /\ run.zones = {}
  /\ SkipsIngress(run) \/ ToVisit(run) = {}
  /\ run' = Return(run)
  /\ intact' = {}
  /\ UNCHANGED <<dns, config, late, retired, used>>

BeginIngress ==
  /\ run.pc = "zones"
  /\ run.zones = {}
  /\ ~SkipsIngress(run)
  /\ ToVisit(run) # {}
  /\ run' = [run EXCEPT !.pc = "tunnels", !.unread = ToVisit(run)]
  /\ UNCHANGED <<dns, config, late, intact, retired, used>>

PrunedOn(r, t) == {h \in Hostnames : <<h, t>> \in r.report}

PlanOf(r, t) == Plan(r.order, r.conf.hosts, t, r.conf.default)

\* The rules a tunnel is to have, given those it has.
Intended(r, t, plan, current) ==
  IF plan = <<>> THEN PrunedOnly(current, PrunedOn(r, t), HostsOn(r.conf, t))
  ELSE Merged(current, plan, PrunedOn(r, t))

\* Whether the rules it has differ from those in what the plugin manages.
Drifted(plan, current, rules) ==
  IF plan = <<>> THEN rules # current ELSE ~RulesEqual(current, rules)

NeedsWrite(r, t, current) ==
  LET plan == PlanOf(r, t) IN Drifted(plan, current, Intended(r, t, plan, current))

Reading(t) == run.pc = "tunnels" /\ t \in run.unread

\* Mutant of ReadDone: the error return does not tell the WaitGroup.
ReadDoneWithoutError(t, status) ==
  run' = [run EXCEPT !.unread = IF status = "error" THEN @ ELSE @ \ {t}, !.status = status]

ReadDone(t, status) ==
  run' = [run EXCEPT !.unread = @ \ {t}, !.status = status]

\* The call fails, also because the account is not the tunnel's.
ReadFails(t) ==
  /\ Reading(t)
  /\ IF Account(run) = TunnelAccount[t] THEN Fail ELSE UNCHANGED used
  /\ ReadDone(t, "error")
  /\ UNCHANGED <<dns, config, late, intact, retired>>

RefuseLocal(t) ==
  /\ Reading(t)
  /\ Account(run) = TunnelAccount[t]
  /\ config[t].source = "local"
  /\ ReadDone(t, "error")
  /\ UNCHANGED <<dns, config, late, intact, retired, used>>

Manageable(t) ==
  Reading(t) /\ Account(run) = TunnelAccount[t] /\ config[t].source # "local"

\* The configuration is read and compared.  (\E over a singleton has TLC
\* compute its element once.)
Read(t) ==
  /\ Manageable(t)
  /\ intact' = intact \cup {t}
  /\ UNCHANGED <<dns, config, late, retired, used>>
  /\ \E plan \in {PlanOf(run, t)} :
     \E rules \in {Intended(run, t, plan, config[t].ingress)} :
       run' = [run EXCEPT !.unread = @ \ {t},
                          !.writes = IF Drifted(plan, config[t].ingress, rules)
                                     THEN [s \in DOMAIN @ \cup {t} |-> IF s = t THEN rules ELSE @[s]]
                                     ELSE @]

Unwritten(t) == [s \in DOMAIN run.writes \ {t} |-> run.writes[s]]

Written(t) ==
  /\ run.pc = "tunnels"
  /\ t \in DOMAIN run.writes
  /\ config' = [config EXCEPT ![t].ingress = run.writes[t]]
  /\ run' = [run EXCEPT !.writes = Unwritten(t)]
  /\ UNCHANGED <<dns, late, intact, retired, used>>

WriteFails(t) ==
  /\ run.pc = "tunnels"
  /\ t \in DOMAIN run.writes
  /\ Fail
  /\ late' \in {late, late \cup {[tunnel |-> t, ingress |-> run.writes[t]]}}
  /\ run' = [run EXCEPT !.writes = Unwritten(t), !.status = "error"]
  /\ UNCHANGED <<dns, config, intact, retired>>

EndIngress ==
  /\ run.pc = "tunnels"
  /\ run.unread = {}
  /\ DOMAIN run.writes = {}
  /\ run' = Return(run)
  /\ intact' = {}
  /\ UNCHANGED <<dns, config, late, retired, used>>

----------------------------------------------------------------------------
(* Around the run.                                                         *)

Crash ==
  /\ run.pc # "idle"
  /\ Fail
  /\ run' = Fresh(run.conf)
  /\ intact' = {}
  /\ UNCHANGED <<dns, config, late, retired>>

\* Cloudflare gets to a write its client has given up on.
Deliver(w) ==
  /\ w \in late
  /\ late' = late \ {w}
  /\ config' = [config EXCEPT ![w.tunnel].ingress = w.ingress]
  /\ intact' = intact \ {w.tunnel}
  /\ UNCHANGED <<dns, run, retired, used>>

\* The operator, or another server, writes a tunnel's configuration.
Edit(t) ==
  /\ used.edit < MaxEdits
  /\ used' = [used EXCEPT !.edit = @ + 1]
  /\ \E setup \in Setups :
       setup[t] # config[t] /\ config' = [config EXCEPT ![t] = setup[t]]
  /\ intact' = intact \ {t}
  /\ UNCHANGED <<dns, run, late, retired>>

----------------------------------------------------------------------------

Init ==
  /\ dns \in InitDNS
  /\ config \in Setups
  /\ run = Fresh(Unloaded)
  /\ late = {}
  /\ intact = {}
  /\ retired = {}
  /\ used = [load |-> 0, fault |-> 0, edit |-> 0]

ZoneStep(z) == LookupFails(z) \/ ListFails(z) \/ ZonePass(z)

TunnelStep(t) ==
  \/ Written(t) \/ WriteFails(t)
  \/ ReadFails(t) \/ RefuseLocal(t) \/ Read(t)

\* The steps that carry a load forward.
Advance ==
  \/ \E z \in Zones : ZoneStep(z)
  \/ SkipIngress \/ BeginIngress
  \/ \E t \in Tunnels : TunnelStep(t)
  \/ EndIngress

Next ==
  \/ Start
  \/ Advance
  \/ Crash
  \/ \E w \in late : Deliver(w)
  \/ \E t \in Tunnels : Edit(t)

Spec == Init /\ [][Next]_vars

\* Goroutines run, and each call ends within its client's timeout.
FairSpec == Spec /\ WF_vars(Advance)

----------------------------------------------------------------------------
(* Properties.                                                             *)

\* Every variable keeps its type: the locals of Reconcile, and rules the
\* tunnel API could hold.
TypeOK ==
  /\ dns \in [Hostnames -> Target]
  /\ config \in [Tunnels -> Setup]
  /\ run \in RunState(DOMAIN run.writes) /\ DOMAIN run.writes \subseteq Tunnels
  /\ late \subseteq [tunnel : Tunnels, ingress : Seq(Rule)]
  /\ intact \subseteq Tunnels
  /\ retired \in Report
  /\ used \in [load : 0 .. MaxLoads, fault : 0 .. MaxFaults, edit : 0 .. MaxEdits]

Finishing == run.pc # "idle" /\ run'.pc = "idle" /\ run'.status # "none"

\* The rule the configuration asks for host h is among rules.
Routes(rules, conf, h) ==
  \E i \in DOMAIN rules :
    /\ rules[i].hostname = h
    /\ rules[i].service = Service(conf.hosts[h].service, Service(conf.default, DefaultService))
    /\ WantsMatchSNI(rules[i].service) => HasMatchSNI(rules[i].originRequest)

\* A load that reports no error and manages tunnels leaves every declared
\* tunnel host routed as declared, whichever zones, accounts and tunnels were
\* involved and whether or not it came to read the tunnel, unless another writer
\* changed that tunnel after it was read.
RoutesPublished ==
  [][Finishing /\ run'.status = "ok" /\ run.conf.token =>
       \A t \in intact : \A h \in HostsOn(run.conf, t) :
         Routes(config'[t].ingress, run.conf, h)]_vars

\* A load that reports no error leaves no route for a name whose CNAME it
\* deleted, on the registered tunnel the CNAME pointed at, unless another writer
\* changed that tunnel after it was read.
DeadRoutesDeleted ==
  [][Finishing /\ run'.status = "ok" /\ run.conf.token =>
       \A e \in run.report :
         e[2] \in intact \cap run.conf.registered /\ e[1] \notin HostsOn(run.conf, e[2])
           => e[1] \notin HostsOf(config'[e[2]].ingress)]_vars

\* A write that replaces what the plugin read, with no other writer in between:
\* GET and PUT are two calls and carry no version, so what somebody else writes
\* between them is overwritten unseen.
Lands(t) == Written(t) /\ t \in intact

\* A route is deleted only where it is provably dead: its zone opted into
\* prune, this very run deleted the CNAME that led to the tunnel, no record of
\* this server leads there again, and the host is not declared on it
\* (tunnel-ingress-prune spec).  Nothing is said of a tunnel that another writer
\* changed after it was read.
OnlyDeadRoutesDeleted ==
  [][\A t \in Tunnels : Lands(t) =>
       \A h \in HostsOf(config[t].ingress) \ HostsOf(config'[t].ingress) :
         /\ ZoneOf[h] \in run.conf.prune
         /\ <<h, t>> \in run.report
         /\ dns[h] # t
         /\ h \notin HostsOn(run.conf, t)]_vars

\* Rules of other hosts than t's declared ones, without those deleted.
Foreign(rules, kept, t) ==
  Picked(rules, {i \in DOMAIN rules : rules[i].hostname \in kept \ HostsOn(run.conf, t)})

\* A write leaves the rules of undeclared hosts in their order, each with its
\* service and every option it had but the managed one.  Those are the rules the
\* plugin read: a tunnel that another writer changed since is left out (Lands),
\* and so are options that a rule gains from another one of its host.
ForeignRulesKept ==
  [][\A t \in Tunnels : Lands(t) =>
       LET kept == HostsOf(config'[t].ingress)
           before == Foreign(config[t].ingress, kept, t)
           after == Foreign(config'[t].ingress, kept, t)
       IN  /\ Len(before) = Len(after)
           /\ \A i \in DOMAIN before :
                /\ before[i].hostname = after[i].hostname
                /\ before[i].service = after[i].service
                /\ before[i].originRequest # Absent =>
                     \A k \in DOMAIN before[i].originRequest \ {SNI} :
                       /\ after[i].originRequest # Absent
                       /\ k \in DOMAIN after[i].originRequest
                       /\ after[i].originRequest[k] = before[i].originRequest[k]]_vars

\* Every configuration written, also by a call that lands late, ends with a rule
\* for all hosts (which may carry a path, see CatchAllHasNoPath), and has no
\* other one before it that would hide what follows.
EndsWithCatchAll ==
  [][\A t \in Tunnels :
       Written(t) \/ (\E w \in late : Deliver(w) /\ w.tunnel = t)
         => CatchesAll(config'[t].ingress)]_vars

\* The plugin writes a tunnel only when it is registered in the global block, an
\* account token is configured, and it is remotely managed, as far as the plugin
\* can know: another writer may have changed that after it was read.
WritesAuthorised ==
  [][\A t \in Tunnels : Written(t) =>
       /\ t \in run.conf.registered
       /\ run.conf.token
       /\ t \in intact => config[t].source # "local"]_vars

\* Rules that have the managed option only where the service wants it.
SNIWanted(rules) ==
  \A i \in DOMAIN rules :
    HasMatchSNI(rules[i].originRequest) => WantsMatchSNI(rules[i].service)

\* Computed once more from what was just written, with the hosts provisioned in
\* any other order and no route to delete, the rules of a plan come out as they
\* are, unless a host mixes https with other services; and there is no drift to
\* write for, unless a rule without https carries the managed option, which the
\* comparison takes for drift (WrittenIsInSync).
MergeSettles ==
  [][\A t \in Tunnels :
       Written(t) /\ PlanOf(run, t) # <<>> /\ DonorsSuit(config'[t].ingress) =>
         \A order \in SetToSeqs(Declared(run.conf)) :
           LET rules == config'[t].ingress
               plan == Plan(order, run.conf.hosts, t, run.conf.default)
           IN  /\ Merged(rules, plan, {}) = rules
               /\ SNIWanted(rules) => ~Drifted(plan, rules, rules)]_vars

\* Every load comes to its end, whatever fails on the way: each pass and each
\* tunnel's goroutine is waited for, and each of them ends.
LoadEnds == run.pc # "idle" ~> run.pc = "idle"

----------------------------------------------------------------------------
(* What documents and comments say, and the code does not keep.            *)

\* "A reconcile run against an already-matching configuration SHALL issue no
\* update request" (openspec/specs/tunnel-ingress-management/spec.md:169): what
\* was just written calls for no further write.
WrittenIsInSync ==
  [][\A t \in Tunnels : Written(t) => ~NeedsWrite(run, t, config'[t].ingress)]_vars

\* Written plans end with an entry that "has no `hostname` and no `path`"
\* (openspec/specs/tunnel-ingress-management/spec.md:193).
CatchAllHasNoPath ==
  [][\A t \in Tunnels : Written(t) /\ PlanOf(run, t) # <<>> =>
       LET rules == config'[t].ingress IN rules[Len(rules)].path = NoPath]_vars

\* Fields the plugin does not manage are preserved "on rules it does not
\* declare (kept verbatim)"
\* (openspec/specs/tunnel-ingress-management/spec.md:69): no foreign rule is
\* given a path it did not have.
ForeignPathsKept ==
  [][\A t \in Tunnels : Lands(t) =>
       LET kept == HostsOf(config'[t].ingress)
           before == Foreign(config[t].ingress, kept, t)
           after == Foreign(config'[t].ingress, kept, t)
       IN  \A i \in DOMAIN before : after[i].path = before[i].path]_vars

\* "A partial failure leaves DNS correct and is retried on the next config
\* load" (tunnelingress.go:286): once a load succeeds, no route is left for a
\* name whose CNAME an earlier load deleted under prune.
FailedDeletionRetried ==
  [][Finishing /\ run'.status = "ok" /\ run.conf.token =>
       \A e \in retired :
         /\ e[2] \in run.conf.registered
         /\ e[1] \notin Declared(run.conf)
         /\ ZoneOf[e[1]] \in run.conf.prune
         => e[1] \notin HostsOf(config'[e[2]].ingress)]_vars

=============================================================================
