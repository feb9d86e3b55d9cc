-------------------------- MODULE ReconcileProofs --------------------------
(***************************************************************************)
(* Proofs about Reconcile: what a load writes to the tunnels, and what it  *)
(* leaves there when it reports no error.                                  *)
(***************************************************************************)
EXTENDS Reconcile, IngressRulesProofs, FunctionTheorems

\* Rules that do for tunnel t what run r has found there is to do: each host
\* declared on it has its route, each host whose CNAME went has none.
Settled(r, t, rules) ==
  /\ \A h \in HostsOn(r.conf, t) : Routes(rules, r.conf, h)
  /\ \A h \in PrunedOn(r, t) \ HostsOn(r.conf, t) : h \notin HostsOf(rules)

\* Rules that a run has computed for tunnel t, from some that were there.
Computed(r, t, rules) ==
  \E current \in Seq(Rule) : rules = Intended(r, t, PlanOf(r, t), current)

\* The locals of Reconcile as its phases leave them.
PhasesOK ==
  /\ run.pc # "idle" =>
       run.conf \in Configs /\ Elements(run.order) = Declared(run.conf)
  /\ run.pc # "zones" => run.zones = {}
  /\ run.pc # "tunnels" => run.unread = {} /\ DOMAIN run.writes = {}
  /\ run.pc = "tunnels" =>
       /\ run.conf.token
       /\ run.unread \cup DOMAIN run.writes \subseteq ToVisit(run)
       /\ run.unread \cap DOMAIN run.writes = {}
  /\ run.pc = "zones" /\ run.status = "ok" => Visited(run.conf) \subseteq run.zones \cup run.accounts

\* Each pair of the report names a zone that declares prune and whose pass is
\* over, and its host leads to its tunnel no more.
ReportOK ==
  run.pc # "idle" =>
    \A e \in run.report :
      /\ ZoneOf[e[1]] \in run.conf.prune
      /\ ZoneOf[e[1]] \in run.accounts \ run.zones
      /\ dns[e[1]] # e[2]

\* A write to come is what the rules now at Cloudflare call for, unless
\* another writer has changed them.
WritesOK ==
  \A t \in DOMAIN run.writes :
    /\ Settled(run, t, run.writes[t])
    /\ CatchesAll(run.writes[t])
    /\ Computed(run, t, run.writes[t])
    /\ t \in intact =>
         /\ config[t].source # "local"
         /\ run.writes[t] = Intended(run, t, PlanOf(run, t), config[t].ingress)

\* While nothing has failed, a tunnel that has been read is settled or about
\* to be.
ProgressOK ==
  run.pc = "tunnels" /\ run.status = "ok" =>
    \A t \in (ToVisit(run) \ run.unread) \cap intact :
      t \in DOMAIN run.writes \/ Settled(run, t, config[t].ingress)

\* Rules at Cloudflare, and those on their way, are rules its API takes.
RulesOK ==
  /\ \A t \in Tunnels : \/ config[t].source = "local"
                        \/ config[t].ingress = <<>>
                        \/ CatchesAll(config[t].ingress)
  /\ \A w \in late : CatchesAll(w.ingress)

Inv == TypeOK /\ PhasesOK /\ ReportOK /\ WritesOK /\ ProgressOK /\ RulesOK

----------------------------------------------------------------------------
(* Configurations.                                                         *)

\* What the assumptions on configurations say of one of them.
LEMMA ConfigIs ==
  ASSUME NEW conf \in Configs
  PROVE  /\ conf \in Config
         /\ Declared(conf) \in SUBSET Hostnames
         /\ IsFiniteSet(Declared(conf))
         /\ conf.hosts \in [Declared(conf) -> HostDecl]
         /\ \A h \in Declared(conf) :
              /\ conf.hosts[h].tunnel \in conf.registered \cup {NoTunnel}
              /\ conf.hosts[h].service \in Services \cup {Undeclared}
         /\ Visited(conf) \in SUBSET Zones
BY ConfigsValid, EnvironmentTyped DEF Config, HostDecl, Declared, Visited

\* Before the first load there is a configuration without hosts.
LEMMA UnloadedIs == Unloaded \in Config
<1>1. [h \in {} |-> 0] \in [{} -> HostDecl] /\ {} \in SUBSET Hostnames
  OBVIOUS
<1>2. [h \in {} |-> 0] \in UNION {[D -> HostDecl] : D \in SUBSET Hostnames}
  BY <1>1
<1> QED BY <1>2 DEF Unloaded, Config

\* hostsSnapshot lists the declared hosts, in any order.
LEMMA OrderIs ==
  ASSUME NEW conf \in Configs, NEW order \in SetToSeqs(Declared(conf))
  PROVE  order \in Seq(Hostnames) /\ Elements(order) = Declared(conf)
<1> DEFINE S == Declared(conf)
<1> DEFINE n == Cardinality(S)
<1>1. S \in SUBSET Hostnames /\ IsFiniteSet(S)
  BY ConfigIs
<1>2. n \in Nat
  BY <1>1, FS_CardinalityType
<1>3. order \in [1 .. n -> S] /\ \A i, j \in 1 .. n : i # j => order[i] # order[j]
  BY DEF SetToSeqs
<1>4. order \in Seq(Hostnames) /\ DOMAIN order = 1 .. n
  <2> HIDE DEF n, S
  <2>1. order \in [1 .. n -> Hostnames]
    BY <1>1, <1>3
  <2> QED BY <1>2, <2>1, IsASeq
<1>5. \A x \in S : \E i \in 1 .. n : order[i] = x
  <2>1. IsFiniteSet(1 .. n) /\ Cardinality(1 .. n) = n
    BY <1>2, FS_Interval
  <2> HIDE DEF S
  <2>2. order \in Injection(1 .. n, S)
    <3> HIDE DEF n
    <3> QED BY <1>3, Fun_IsInj
  <2>3. order \in Surjection(1 .. n, S)
    BY <1>1, <2>1, <2>2, FS_Injection
  <2> HIDE DEF n
  <2> QED BY <2>3 DEF Surjection
<1> QED BY <1>3, <1>4, <1>5 DEF Elements

\* The locals of a run whose configuration has been taken in.
Loading(r) ==
  /\ r.conf \in Configs
  /\ r.order \in Seq(Hostnames)
  /\ Elements(r.order) = Declared(r.conf)
  /\ r.report \in Report

----------------------------------------------------------------------------
(* What a run makes of the rules of a tunnel.                              *)

\* The hosts a tunnel's plan is made of are those declared on it.
LEMMA HostsOnAre ==
  ASSUME NEW r, Loading(r), NEW t
  PROVE  /\ On(r.order, r.conf.hosts, t) = HostsOn(r.conf, t)
         /\ Serviced(r.order, r.conf.hosts, r.conf.default)
         /\ HostsOn(r.conf, t) \in SUBSET Hostnames
         /\ PrunedOn(r, t) \in SUBSET Hostnames
<1>1. r.conf.default \in Services \cup {Undeclared}
  BY ConfigIs DEF Loading, Config
<1> QED BY <1>1, ConfigIs DEF Loading, On, HostsOn, PrunedOn, Serviced

\* A run's plan of a tunnel has one rule for each host declared on it, as declared,
\* and a last one for all traffic; there is none without such hosts.
LEMMA PlanOfIs ==
  ASSUME NEW r, Loading(r), NEW t
  PROVE  LET plan == PlanOf(r, t)
         IN  /\ plan \in Seq(Rule)
             /\ plan = <<>> <=> HostsOn(r.conf, t) = {}
             /\ HostsOf(plan) = HostsOn(r.conf, t)
             /\ plan # <<>> => Terminated(plan)
             /\ \A h \in HostsOn(r.conf, t) : \E i \in DOMAIN plan :
                  /\ plan[i].hostname = h
                  /\ plan[i].service = Service(r.conf.hosts[h].service,
                                               Service(r.conf.default, DefaultService))
             /\ \A i \in DOMAIN plan : Authored(plan[i])
             /\ OnePerHost(plan)
<1> DEFINE plan == Plan(r.order, r.conf.hosts, t, r.conf.default)
<1>1. Serviced(r.order, r.conf.hosts, r.conf.default) /\ r.order \in Seq(Hostnames)
  BY HostsOnAre DEF Loading
<1>2. /\ plan \in Seq(Rule)
      /\ plan = <<>> <=> HostsOn(r.conf, t) = {}
      /\ HostsOf(plan) = HostsOn(r.conf, t)
      /\ HostsOn(r.conf, t) # {} =>
           /\ Len(plan) \in DOMAIN plan
           /\ \A i \in DOMAIN plan : plan[i].hostname = NoHost <=> i = Len(plan)
      /\ \A i \in DOMAIN plan :
           plan[i].hostname # NoHost =>
             plan[i].service = Service(r.conf.hosts[plan[i].hostname].service,
                                       Service(r.conf.default, DefaultService))
  <2>1. On(r.order, r.conf.hosts, t) = HostsOn(r.conf, t)
    BY HostsOnAre
  <2>2. plan \in Seq(Rule) /\ (plan = <<>> <=> On(r.order, r.conf.hosts, t) = {})
    BY <1>1, PlanIs
  <2>3. HostsOf(plan) = On(r.order, r.conf.hosts, t)
    BY <1>1, PlanIs
  <2>4. On(r.order, r.conf.hosts, t) # {} =>
          /\ Len(plan) \in DOMAIN plan
          /\ \A i \in DOMAIN plan : plan[i].hostname = NoHost <=> i = Len(plan)
    BY <1>1, PlanIs
  <2>5. \A i \in DOMAIN plan :
          plan[i].hostname # NoHost =>
            plan[i].service = Service(r.conf.hosts[plan[i].hostname].service,
                                      Service(r.conf.default, DefaultService))
    BY <1>1, PlanIs
  <2> HIDE DEF plan
  <2> QED BY <2>1, <2>2, <2>3, <2>4, <2>5
<1>3. (\A i \in DOMAIN plan : Authored(plan[i])) /\ OnePerHost(plan)
  BY <1>1, PlanIs
<1> HIDE DEF plan
<1>4. \A h \in HostsOn(r.conf, t) : \E i \in DOMAIN plan :
        /\ plan[i].hostname = h
        /\ plan[i].service = Service(r.conf.hosts[h].service,
                                     Service(r.conf.default, DefaultService))
  <2> TAKE h \in HostsOn(r.conf, t)
  <2>1. PICK i \in DOMAIN plan : plan[i].hostname = h /\ h # NoHost
    BY <1>2 DEF HostsOf
  <2> QED BY <1>2, <2>1
<1>5. plan # <<>> => Terminated(plan)
  BY <1>2 DEF Terminated
<1> QED BY <1>2, <1>3, <1>4, <1>5 DEF plan, PlanOf

\* What the merge or the pruning makes of the rules of a tunnel settles it,
\* loses no host that is not pruned, keeps what the tunnel API takes, and
\* leaves the rules of other hosts in their order.
THEOREM IntendedIs ==
  ASSUME NEW r, Loading(r), NEW t, NEW current \in Seq(Rule)
  PROVE  LET new == Intended(r, t, PlanOf(r, t), current)
         IN  /\ new \in Seq(Rule)
             /\ Settled(r, t, new)
             /\ HostsOf(current) \ HostsOf(new) \subseteq PrunedOn(r, t) \ HostsOn(r.conf, t)
             /\ current = <<>> \/ CatchesAll(current) =>
                  CatchesAll(new) \/ (PlanOf(r, t) = <<>> /\ new = current)
<1> DEFINE plan == PlanOf(r, t)
<1> DEFINE pruned == PrunedOn(r, t)
<1> DEFINE mine == HostsOn(r.conf, t)
<1> DEFINE new == Intended(r, t, plan, current)
<1>1. /\ plan \in Seq(Rule)
      /\ plan = <<>> <=> mine = {}
      /\ HostsOf(plan) = mine
      /\ plan # <<>> => Terminated(plan)
      /\ \A h \in mine : \E i \in DOMAIN plan :
           /\ plan[i].hostname = h
           /\ plan[i].service = Service(r.conf.hosts[h].service,
                                        Service(r.conf.default, DefaultService))
  BY PlanOfIs
<1>2. mine \in SUBSET Hostnames /\ pruned \in SUBSET Hostnames
  BY HostsOnAre
<1>3. new = IF plan = <<>> THEN PrunedOnly(current, pruned, mine)
            ELSE Merged(current, plan, pruned)
  BY DEF Intended
<1> HIDE DEF plan, pruned, mine, new
<1>4. CASE plan = <<>>
  <2>1. new = PrunedOnly(current, pruned, mine)
    BY <1>3, <1>4
  <2>2. /\ new \in Seq(Rule)
        /\ HostsOf(new) = HostsOf(current) \ (pruned \ mine)
        /\ current = <<>> => new = current
        /\ CatchesAll(current) => CatchesAll(new)
    <3>1. /\ PrunedOnly(current, pruned, mine) \in Seq(Rule)
          /\ HostsOf(PrunedOnly(current, pruned, mine)) = HostsOf(current) \ (pruned \ mine)
          /\ current = <<>> => PrunedOnly(current, pruned, mine) = current
          /\ CatchesAll(current) => CatchesAll(PrunedOnly(current, pruned, mine))
      BY <1>2, PrunedOnlyIs, Zenon
    <3> QED BY <2>1, <3>1
  <2>3. Settled(r, t, new)
    BY <1>1, <1>4, <2>2 DEF Settled, pruned, mine
  <2> QED BY <1>4, <2>2, <2>3 DEF new, plan, pruned, mine
<1>5. CASE plan # <<>>
  <2>1. new = Merged(current, plan, pruned) /\ Terminated(plan)
    BY <1>1, <1>3, <1>5
  <2>2. /\ Terminated(new)
        /\ HostsOf(new) = (HostsOf(current) \ pruned) \cup HostsOf(plan)
        /\ \A j \in DOMAIN plan : \E i \in DOMAIN new :
             /\ new[i].hostname = plan[j].hostname
             /\ new[i].service = plan[j].service
             /\ Matches(new[i])
    BY <2>1, MergedIs
  <2>3. \A h \in mine : Routes(new, r.conf, h)
    <3> TAKE h \in mine
    <3>1. PICK j \in DOMAIN plan :
            /\ plan[j].hostname = h
            /\ plan[j].service = Service(r.conf.hosts[h].service,
                                         Service(r.conf.default, DefaultService))
      BY <1>1
    <3> QED BY <2>2, <3>1 DEF Routes, Matches
  <2>4. \A h \in pruned \ mine : h \notin HostsOf(new)
    BY <1>1, <2>2
  <2>5. Settled(r, t, new)
    BY <2>3, <2>4 DEF Settled, pruned, mine
  <2>6. CatchesAll(new) /\ new \in Seq(Rule)
    BY <2>2, TerminatedCatches DEF Terminated
  <2> QED BY <1>1, <2>2, <2>5, <2>6 DEF new, plan, pruned, mine
<1> QED BY <1>4, <1>5

\* Rules that need no write already do what the run wants of them.
LEMMA InSyncSettled ==
  ASSUME NEW r, Loading(r), NEW t, NEW current \in Seq(Rule),
         ~Drifted(PlanOf(r, t), current, Intended(r, t, PlanOf(r, t), current))
  PROVE  Settled(r, t, current)
<1> DEFINE plan == PlanOf(r, t)
<1> DEFINE new == Intended(r, t, plan, current)
<1>1. new \in Seq(Rule) /\ Settled(r, t, new)
  BY IntendedIs
<1>2. CASE plan = <<>>
  <2>1. new = current
    BY <1>2 DEF Drifted
  <2> QED BY <1>1, <2>1
<1>3. CASE plan # <<>>
  <2>1. RulesEqual(current, new)
    BY <1>3 DEF Drifted
  <2> HIDE DEF new, plan
  <2>2. /\ DOMAIN current = DOMAIN new
        /\ \A i \in DOMAIN current :
             /\ current[i].hostname = new[i].hostname
             /\ current[i].service = new[i].service
             /\ WantsMatchSNI(current[i].service) => HasMatchSNI(current[i].originRequest)
    BY <1>1, <2>1, LenProperties DEF RulesEqual
  <2>3. HostsOf(current) = HostsOf(new)
    BY <2>2 DEF HostsOf
  <2>4. ASSUME NEW h, Routes(new, r.conf, h)
        PROVE  Routes(current, r.conf, h)
    BY <2>2, <2>4 DEF Routes
  <2> QED BY <1>1, <2>3, <2>4 DEF Settled
<1> QED BY <1>2, <1>3

\* The rules of hosts that t does not declare, and that stay, stay in order.
LEMMA IntendedKeeps ==
  ASSUME NEW r, Loading(r), NEW t, NEW current \in Seq(Rule),
         NEW H, H \subseteq HostsOf(Intended(r, t, PlanOf(r, t), current)) \ HostsOn(r.conf, t)
  PROVE  LET new == Intended(r, t, PlanOf(r, t), current)
         IN  /\ Len(Among(current, H)) = Len(Among(new, H))
             /\ \A i \in DOMAIN Among(current, H) :
                  Carries(Among(current, H)[i], Among(new, H)[i])
<1>1. PrunedOn(r, t) \in SUBSET Hostnames
  BY HostsOnAre
<1>2. /\ PlanOf(r, t) # <<>> => Terminated(PlanOf(r, t))
      /\ HostsOf(PlanOf(r, t)) = HostsOn(r.conf, t)
  BY PlanOfIs
<1>3. CASE PlanOf(r, t) = <<>>
  <2>1. Intended(r, t, PlanOf(r, t), current)
          = PrunedOnly(current, PrunedOn(r, t), HostsOn(r.conf, t))
    BY <1>3 DEF Intended
  <2> QED BY <1>1, <2>1, PrunedOnlyKeeps
<1>4. CASE PlanOf(r, t) # <<>>
  <2>1. Intended(r, t, PlanOf(r, t), current) = Merged(current, PlanOf(r, t), PrunedOn(r, t))
    BY <1>4 DEF Intended
  <2> QED BY <1>2, <1>4, <2>1, MergedKeeps
<1> QED BY <1>3, <1>4

----------------------------------------------------------------------------
(* The locals.                                                             *)

\* Two runs that have to do the same for the tunnels.
Alike(r, s) == r.conf = s.conf /\ r.order = s.order /\ r.report = s.report

\* What is to be done for a tunnel depends only on the run's configuration, order
\* and report.
LEMMA AlikeIs ==
  ASSUME NEW r, NEW s, Alike(r, s)
  PROVE  /\ ToVisit(r) = ToVisit(s)
         /\ \A t : PlanOf(r, t) = PlanOf(s, t) /\ PrunedOn(r, t) = PrunedOn(s, t)
         /\ \A t, plan, current : Intended(r, t, plan, current) = Intended(s, t, plan, current)
         /\ \A t, rules : Settled(r, t, rules) <=> Settled(s, t, rules)
         /\ \A t, rules : Computed(r, t, rules) <=> Computed(s, t, rules)
<1>1. ToVisit(r) = ToVisit(s)
  BY DEF Alike, ToVisit
<1>2. \A t : PlanOf(r, t) = PlanOf(s, t) /\ PrunedOn(r, t) = PrunedOn(s, t)
  BY DEF Alike, PlanOf, PrunedOn
<1>3. \A t, plan, current : Intended(r, t, plan, current) = Intended(s, t, plan, current)
  BY <1>2 DEF Alike, Intended
<1>4. \A t, rules : Settled(r, t, rules) <=> Settled(s, t, rules)
  BY <1>2 DEF Alike, Settled
<1>5. \A t, rules : Computed(r, t, rules) <=> Computed(s, t, rules)
  BY <1>2, <1>3 DEF Computed
<1> QED BY <1>1, <1>2, <1>3, <1>4, <1>5

\* The fields of the locals, one by one.
LEMMA RunIs ==
  ASSUME NEW r, NEW D \in SUBSET Tunnels
  PROVE  r \in RunState(D) <=>
           /\ r = [pc |-> r.pc, conf |-> r.conf, order |-> r.order, zones |-> r.zones,
                   accounts |-> r.accounts, report |-> r.report, unread |-> r.unread,
                   writes |-> r.writes, status |-> r.status]
           /\ r.pc \in {"idle", "zones", "tunnels"}
           /\ r.conf \in Config
           /\ r.order \in Seq(Hostnames)
           /\ r.zones \in SUBSET Zones
           /\ r.accounts \in SUBSET Zones
           /\ r.report \in Report
           /\ r.unread \in SUBSET Tunnels
           /\ r.writes \in [D -> Seq(Rule)]
           /\ r.status \in {"none", "ok", "error"}
BY DEF RunState

\* The locals of a load that has not begun.
LEMMA FreshIs ==
  ASSUME NEW conf \in Config
  PROVE  /\ Fresh(conf) \in RunState({})
         /\ Fresh(conf).pc = "idle" /\ Fresh(conf).conf = conf
         /\ Fresh(conf).zones = {} /\ Fresh(conf).unread = {}
         /\ DOMAIN Fresh(conf).writes = {}
         /\ Fresh(conf).status = "none"
<1>1. <<>> \in Seq(Hostnames) /\ [t \in {} |-> <<>>] \in [{} -> Seq(Rule)]
  BY EmptySeq
<1>2. {} \in Report
  BY DEF Report
<1> QED BY <1>1, <1>2 DEF Fresh, RunState

\* The invariant holds before the first load.
LEMMA InitInv ==
  ASSUME Init
  PROVE  Inv
<1>1. TypeOK
  <2>1. run \in RunState({}) /\ DOMAIN run.writes = {}
    BY UnloadedIs, FreshIs DEF Init
  <2>2. dns \in [Hostnames -> Target] /\ config \in [Tunnels -> Setup]
    BY EnvironmentTyped DEF Init
  <2>3. used \in [load : 0 .. MaxLoads, fault : 0 .. MaxFaults, edit : 0 .. MaxEdits]
    BY BoundsTyped DEF Init
  <2> QED BY <2>1, <2>2, <2>3 DEF Init, TypeOK, Report
<1>2. run.pc = "idle" /\ PhasesOK
  BY UnloadedIs, FreshIs DEF Init, PhasesOK
<1>3. ReportOK
  BY <1>2 DEF ReportOK
<1>4. RulesOK
  BY SetupsValidated DEF Init, RulesOK
<1>5. WritesOK /\ ProgressOK
  BY <1>2 DEF PhasesOK, WritesOK, ProgressOK
<1> QED BY <1>1, <1>2, <1>3, <1>4, <1>5 DEF Inv

----------------------------------------------------------------------------
(* Steps outside the ingress phase.                                        *)

\* A failure is counted within its bound.
LEMMA FailIs ==
  ASSUME TypeOK, Fail
  PROVE  used' \in [load : 0 .. MaxLoads, fault : 0 .. MaxFaults, edit : 0 .. MaxEdits]
BY BoundsTyped DEF TypeOK, Fail

\* A step to a phase without writes that leaves Cloudflare alone.
LEMMA OutsideInv ==
  ASSUME Inv, UNCHANGED <<config, late>>,
         run' \in RunState({}), run'.pc # "tunnels",
         dns' \in [Hostnames -> Target], intact' \in SUBSET Tunnels, retired' \in Report,
         used' \in [load : 0 .. MaxLoads, fault : 0 .. MaxFaults, edit : 0 .. MaxEdits],
         PhasesOK', ReportOK'
  PROVE  Inv'
<1>1. DOMAIN run'.writes = {}
  BY RunIs
<1>2. TypeOK'
  BY <1>1 DEF Inv, TypeOK
<1>3. WritesOK' /\ ProgressOK'
  BY <1>1 DEF WritesOK, ProgressOK
<1>4. RulesOK'
  BY DEF Inv, RulesOK
<1> QED BY <1>2, <1>3, <1>4 DEF Inv

\* A load begins with all its zones to visit and nothing reported.
LEMMA StartInv ==
  ASSUME Inv, Start
  PROVE  Inv'
<1>1. PICK conf \in Configs : \E order \in SetToSeqs(Declared(conf)) :
        run' = [Fresh(conf) EXCEPT !.pc = "zones", !.order = order,
                                   !.zones = Visited(conf), !.status = "ok"]
  BY DEF Start
<1>2. PICK order \in SetToSeqs(Declared(conf)) :
        run' = [Fresh(conf) EXCEPT !.pc = "zones", !.order = order,
                                   !.zones = Visited(conf), !.status = "ok"]
  BY <1>1
<1>3. order \in Seq(Hostnames) /\ Elements(order) = Declared(conf)
  BY OrderIs
<1>4. conf \in Config /\ Visited(conf) \in SUBSET Zones
  BY ConfigIs
<1>5. Fresh(conf) \in RunState({})
  BY <1>4, FreshIs
<1>6. /\ run' \in RunState({})
      /\ run'.pc = "zones" /\ run'.conf = conf /\ run'.order = order
      /\ run'.zones = Visited(conf) /\ run'.accounts = {} /\ run'.report = {}
      /\ run'.unread = {} /\ DOMAIN run'.writes = {}
  <2>1. /\ run' \in RunState({})
        /\ run'.pc = "zones" /\ run'.conf = conf /\ run'.order = order
        /\ run'.zones = Visited(conf) /\ run'.unread = {}
    BY <1>2, <1>3, <1>4, <1>5, FreshIs DEF RunState
  <2>2. run'.accounts = {} /\ run'.report = {} /\ DOMAIN run'.writes = {}
    BY <1>2 DEF Fresh
  <2> QED BY <2>1, <2>2
<1>7. PhasesOK'
  BY <1>3, <1>6 DEF PhasesOK
<1>8. ReportOK'
  BY <1>6 DEF ReportOK
<1>9. /\ used' \in [load : 0 .. MaxLoads, fault : 0 .. MaxFaults, edit : 0 .. MaxEdits]
      /\ intact' \in SUBSET Tunnels
  BY BoundsTyped DEF Inv, TypeOK, Start
<1> QED BY <1>6, <1>7, <1>8, <1>9, OutsideInv DEF Inv, TypeOK, Start

\* While passes run there is no write.
LEMMA ZonesPhase ==
  ASSUME Inv, run.pc # "tunnels"
  PROVE  run \in RunState({}) /\ run.unread = {}
BY DEF Inv, TypeOK, PhasesOK

\* A zone whose lookup failed leaves an error and no account.
LEMMA LookupFailsInv ==
  ASSUME Inv, NEW z \in Zones, LookupFails(z)
  PROVE  Inv'
<1>1. run.pc = "zones" /\ run \in RunState({})
  BY ZonesPhase DEF LookupFails
<1>2. run' = [run EXCEPT !.zones = @ \ {z}, !.status = "error"]
  BY DEF LookupFails
<1>3. /\ run' \in RunState({})
      /\ run'.pc = "zones" /\ run'.conf = run.conf /\ run'.order = run.order
      /\ run'.zones = run.zones \ {z} /\ run'.accounts = run.accounts
      /\ run'.report = run.report /\ run'.unread = run.unread
      /\ run'.writes = run.writes /\ run'.status = "error"
  BY <1>1, <1>2 DEF RunState
<1>4. PhasesOK'
  BY <1>1, <1>3 DEF Inv, PhasesOK
<1>5. ReportOK'
  BY <1>1, <1>3 DEF Inv, ReportOK, LookupFails
<1> QED BY <1>3, <1>4, <1>5, OutsideInv, FailIs DEF Inv, TypeOK, LookupFails

\* A zone whose listing failed leaves an error, and its account.
LEMMA ListFailsInv ==
  ASSUME Inv, NEW z \in Zones, ListFails(z)
  PROVE  Inv'
<1>1. run.pc = "zones" /\ run \in RunState({})
  BY ZonesPhase DEF ListFails
<1>2. run' = [run EXCEPT !.zones = @ \ {z}, !.accounts = @ \cup {z}, !.status = "error"]
  BY DEF ListFails
<1>3. /\ run' \in RunState({})
      /\ run'.pc = "zones" /\ run'.conf = run.conf /\ run'.order = run.order
      /\ run'.zones = run.zones \ {z} /\ run'.accounts = run.accounts \cup {z}
      /\ run'.report = run.report /\ run'.unread = run.unread
      /\ run'.writes = run.writes /\ run'.status = "error"
  BY <1>1, <1>2 DEF RunState
<1>4. PhasesOK'
  BY <1>1, <1>3 DEF Inv, PhasesOK
<1>5. ReportOK'
  BY <1>1, <1>3 DEF Inv, ReportOK, ListFails
<1> QED BY <1>3, <1>4, <1>5, OutsideInv, FailIs DEF Inv, TypeOK, ListFails

\* What a pass makes of a record is an address, a tunnel or nothing.
LEMMA GoalIs ==
  ASSUME Inv, run.pc # "idle", NEW h \in Hostnames
  PROVE  Goal(run.conf, h) \in Target
<1>1. run.conf \in Configs /\ dns[h] \in Target
  BY DEF Inv, TypeOK, PhasesOK
<1>2. h \in Declared(run.conf) => run.conf.hosts[h].tunnel \in Tunnels \cup {NoTunnel}
  BY <1>1, ConfigIs DEF HostDecl
<1> QED BY <1>1, <1>2 DEF Goal, Target

\* A pass reports only hosts of its own zone, whose records lead to a tunnel no more.
LEMMA ZonePassInv ==
  ASSUME Inv, NEW z \in Zones, ZonePass(z)
  PROVE  Inv'
<1>1. run.pc = "zones" /\ z \in run.zones /\ run \in RunState({})
  BY ZonesPhase DEF ZonePass
<1>2. PICK stuck \in SUBSET {h \in Hostnames : ZoneOf[h] = z /\ Goal(run.conf, h) # dns[h]} :
      \E emptied \in SUBSET {h \in stuck : Replaces(run.conf, h)} :
        LET left == {h \in stuck \ emptied : Replaces(run.conf, h)}
        IN  /\ IF stuck = {} THEN UNCHANGED used ELSE Fail
            /\ dns' = [h \in Hostnames |->
                          IF h \in emptied THEN Nothing
                          ELSE IF h \in stuck \/ ZoneOf[h] # z THEN dns[h]
                          ELSE Goal(run.conf, h)]
            /\ retired' = retired \cup Pruned(run.conf, z, dns')
            /\ run' = [run EXCEPT
                 !.zones = @ \ {z}, !.accounts = @ \cup {z},
                 !.report = @ \cup Pruned(run.conf, z, dns'),
                 !.status = IF z \in run.conf.prune /\ left # {} THEN "error" ELSE @]
  BY DEF ZonePass
<1>3. PICK emptied \in SUBSET {h \in stuck : Replaces(run.conf, h)} :
        LET left == {h \in stuck \ emptied : Replaces(run.conf, h)}
        IN  /\ IF stuck = {} THEN UNCHANGED used ELSE Fail
            /\ dns' = [h \in Hostnames |->
                          IF h \in emptied THEN Nothing
                          ELSE IF h \in stuck \/ ZoneOf[h] # z THEN dns[h]
                          ELSE Goal(run.conf, h)]
            /\ retired' = retired \cup Pruned(run.conf, z, dns')
            /\ run' = [run EXCEPT
                 !.zones = @ \ {z}, !.accounts = @ \cup {z},
                 !.report = @ \cup Pruned(run.conf, z, dns'),
                 !.status = IF z \in run.conf.prune /\ left # {} THEN "error" ELSE @]
  BY <1>2
<1>4. used' \in [load : 0 .. MaxLoads, fault : 0 .. MaxFaults, edit : 0 .. MaxEdits]
  <2>1. UNCHANGED used \/ Fail
    BY <1>3
  <2> QED BY <2>1, FailIs DEF Inv, TypeOK
<1>5. /\ dns' \in [Hostnames -> Target]
      /\ \A h \in Hostnames : ZoneOf[h] # z => dns'[h] = dns[h]
  <2>1. \A h \in Hostnames : Goal(run.conf, h) \in Target /\ dns[h] \in Target
    BY <1>1, GoalIs DEF Inv, TypeOK
  <2>2. Nothing \in Target
    BY DEF Target
  <2>3. dns' = [h \in Hostnames |->
                  IF h \in emptied THEN Nothing
                  ELSE IF h \in stuck \/ ZoneOf[h] # z THEN dns[h]
                  ELSE Goal(run.conf, h)]
    BY <1>3
  <2> QED BY <2>1, <2>2, <2>3
<1> DEFINE pruned == Pruned(run.conf, z, dns')
<1>6. /\ pruned \in Report
      /\ \A e \in pruned : ZoneOf[e[1]] = z /\ z \in run.conf.prune /\ dns'[e[1]] # e[2]
  BY EnvironmentTyped DEF Pruned, Report
<1>7. PICK status \in {run.status, "error"} :
        run' = [run EXCEPT !.zones = @ \ {z}, !.accounts = @ \cup {z},
                           !.report = @ \cup pruned, !.status = status]
  <2> DEFINE left == {h \in stuck \ emptied : Replaces(run.conf, h)}
  <2> DEFINE status == IF z \in run.conf.prune /\ left # {} THEN "error" ELSE run.status
  <2>1. status \in {run.status, "error"}
    OBVIOUS
  <2>2. run' = [run EXCEPT !.zones = @ \ {z}, !.accounts = @ \cup {z},
                           !.report = @ \cup pruned, !.status = status]
    BY <1>3
  <2> HIDE DEF status, pruned
  <2> QED BY <2>1, <2>2
<1> HIDE DEF pruned
<1>8. /\ run' \in RunState({})
      /\ run'.pc = "zones" /\ run'.conf = run.conf /\ run'.order = run.order
      /\ run'.zones = run.zones \ {z} /\ run'.accounts = run.accounts \cup {z}
      /\ run'.report = run.report \cup pruned /\ run'.unread = run.unread
      /\ run'.writes = run.writes /\ run'.status = status
  BY <1>1, <1>6, <1>7 DEF RunState, Report
<1>9. PhasesOK'
  BY <1>1, <1>7, <1>8 DEF Inv, PhasesOK
<1>10. ReportOK'
  <2> SUFFICES ASSUME NEW e \in run'.report
               PROVE  /\ ZoneOf[e[1]] \in run.conf.prune
                      /\ ZoneOf[e[1]] \in (run.accounts \cup {z}) \ (run.zones \ {z})
                      /\ dns'[e[1]] # e[2]
    BY <1>8 DEF ReportOK
  <2>1. CASE e \in run.report
    <3>1. /\ ZoneOf[e[1]] \in run.conf.prune
          /\ ZoneOf[e[1]] \in run.accounts \ run.zones
          /\ dns[e[1]] # e[2]
      BY <1>1, <2>1 DEF Inv, ReportOK
    <3>2. e[1] \in Hostnames
      BY <1>1, <2>1 DEF RunState, Report
    <3> QED BY <1>1, <1>5, <3>1, <3>2
  <2>2. CASE e \in pruned
    BY <1>1, <1>6, <2>2
  <2> QED BY <1>8, <2>1, <2>2
<1>11. retired' \in Report
  BY <1>3, <1>6 DEF Inv, TypeOK, Report, pruned
<1> QED BY <1>4, <1>5, <1>8, <1>9, <1>10, <1>11, OutsideInv DEF Inv, TypeOK, ZonePass

\* A load that returns keeps its report and its status only.
LEMMA ReturnIs ==
  ASSUME TypeOK
  PROVE  /\ Return(run) \in RunState({})
         /\ Return(run).pc = "idle" /\ Return(run).status = run.status
         /\ Return(run).zones = {} /\ Return(run).unread = {}
         /\ DOMAIN Return(run).writes = {}
<1>1. /\ run.conf \in Config /\ run.report \in Report /\ run.accounts \in SUBSET Zones
      /\ run.status \in {"none", "ok", "error"}
  BY DEF TypeOK, RunState
<1>2. Fresh(run.conf) \in RunState({})
  BY <1>1, FreshIs
<1> QED BY <1>1, <1>2, FreshIs DEF Return, RunState

\* A load that returns, or ends with the process, leaves no local behind that counts.
LEMMA EndsInv ==
  ASSUME Inv, SkipIngress \/ EndIngress \/ Crash
  PROVE  Inv'
<1>1. /\ run' \in RunState({})
      /\ run'.pc = "idle" /\ run'.zones = {} /\ run'.unread = {} /\ DOMAIN run'.writes = {}
  <2>1. run.conf \in Config
    BY DEF Inv, TypeOK, RunState
  <2>2. run' = Return(run) \/ run' = Fresh(run.conf)
    BY DEF SkipIngress, EndIngress, Crash
  <2> QED BY <2>1, <2>2, ReturnIs, FreshIs DEF Inv
<1>2. PhasesOK' /\ ReportOK'
  BY <1>1 DEF PhasesOK, ReportOK
<1>3. used' \in [load : 0 .. MaxLoads, fault : 0 .. MaxFaults, edit : 0 .. MaxEdits]
  BY FailIs DEF Inv, TypeOK, SkipIngress, EndIngress, Crash
<1> QED BY <1>1, <1>2, <1>3, OutsideInv DEF Inv, TypeOK, SkipIngress, EndIngress, Crash

----------------------------------------------------------------------------
(* The ingress phase.                                                      *)

\* In this phase the run's configuration, hosts and report are settled.
LEMMA IngressPhase ==
  ASSUME Inv, run.pc = "tunnels"
  PROVE  /\ Loading(run)
         /\ run.conf.token
         /\ ToVisit(run) \in SUBSET Tunnels
         /\ ToVisit(run) \subseteq run.conf.registered
<1>1. Loading(run) /\ run.conf.token
  BY DEF Inv, TypeOK, RunState, PhasesOK, Loading
<1>2. ASSUME NEW t \in Tunnels, HostsOn(run.conf, t) # {}
      PROVE  t \in run.conf.registered
  <2>1. PICK h \in Declared(run.conf) : run.conf.hosts[h].tunnel = t
    BY <1>2 DEF HostsOn
  <2> QED BY <1>1, <2>1, ConfigIs, EnvironmentTyped DEF Loading
<1> QED BY <1>1, <1>2 DEF ToVisit

\* A step of this phase that takes the run to a state of this phase, with the
\* same to do, and whose effect on the tunnels is described.
LEMMA InsideInv ==
  ASSUME Inv, run.pc = "tunnels", UNCHANGED <<dns, retired>>,
         run' \in RunState(DOMAIN run'.writes), run'.pc = "tunnels",
         Alike(run', run), run'.zones = run.zones, run'.accounts = run.accounts,
         run'.unread \subseteq run.unread,
         DOMAIN run'.writes \subseteq ToVisit(run),
         run'.unread \cap DOMAIN run'.writes = {},
         config' \in [Tunnels -> Setup], intact' \in SUBSET Tunnels,
         late' \subseteq [tunnel : Tunnels, ingress : Seq(Rule)],
         used' \in [load : 0 .. MaxLoads, fault : 0 .. MaxFaults, edit : 0 .. MaxEdits],
         WritesOK', ProgressOK', RulesOK'
  PROVE  Inv'
<1>1. ToVisit(run') = ToVisit(run) /\ ToVisit(run) \in SUBSET Tunnels
  BY AlikeIs, IngressPhase
<1>2. TypeOK'
  BY <1>1 DEF Inv, TypeOK
<1>3. PhasesOK'
  BY <1>1 DEF Inv, PhasesOK, Alike
<1>4. ReportOK'
  BY DEF Inv, ReportOK, Alike
<1> QED BY <1>2, <1>3, <1>4 DEF Inv

\* The ingress phase begins with every tunnel to visit unread.
LEMMA BeginIngressInv ==
  ASSUME Inv, BeginIngress
  PROVE  Inv'
<1>1. run.pc = "zones" /\ run.zones = {} /\ run \in RunState({})
  BY ZonesPhase DEF BeginIngress
<1>2. run' = [run EXCEPT !.pc = "tunnels", !.unread = ToVisit(run)]
  BY DEF BeginIngress
<1>3. ToVisit(run) \in SUBSET Tunnels
  BY DEF ToVisit
<1>4. /\ run' \in RunState({})
      /\ run'.pc = "tunnels" /\ run'.conf = run.conf /\ run'.order = run.order
      /\ run'.zones = run.zones /\ run'.accounts = run.accounts
      /\ run'.report = run.report /\ run'.unread = ToVisit(run)
      /\ run'.writes = run.writes /\ run'.status = run.status
  BY <1>1, <1>2, <1>3 DEF RunState
<1>5. DOMAIN run'.writes = {}
  BY <1>4, RunIs
<1>6. ToVisit(run') = ToVisit(run)
  BY <1>4, AlikeIs DEF Alike
<1>7. TypeOK'
  BY <1>4, <1>5 DEF Inv, TypeOK, BeginIngress
<1>8. PhasesOK'
  BY <1>1, <1>4, <1>5, <1>6 DEF Inv, PhasesOK, BeginIngress, SkipsIngress
<1>9. ReportOK'
  BY <1>1, <1>4 DEF Inv, ReportOK, BeginIngress
<1>10. WritesOK' /\ ProgressOK'
  BY <1>4, <1>5, <1>6 DEF WritesOK, ProgressOK
<1>11. RulesOK'
  BY DEF Inv, RulesOK, BeginIngress
<1> QED BY <1>7, <1>8, <1>9, <1>10, <1>11 DEF Inv

\* A tunnel that cannot be read, or is not to be managed, leaves an error.
LEMMA ReadErrorInv ==
  ASSUME Inv, NEW t \in Tunnels, ReadFails(t) \/ RefuseLocal(t)
  PROVE  Inv'
<1>1. run.pc = "tunnels" /\ t \in run.unread /\ DOMAIN run.writes \in SUBSET Tunnels
  BY DEF Inv, TypeOK, ReadFails, RefuseLocal, Reading
<1>2. run \in RunState(DOMAIN run.writes)
  BY DEF Inv, TypeOK
<1>3. run' = [run EXCEPT !.unread = @ \ {t}, !.status = "error"]
  BY DEF ReadFails, RefuseLocal, ReadDone
<1>4. /\ run' \in RunState(DOMAIN run.writes)
      /\ run'.pc = "tunnels" /\ Alike(run', run)
      /\ run'.zones = run.zones /\ run'.accounts = run.accounts
      /\ run'.unread = run.unread \ {t} /\ run'.writes = run.writes
      /\ run'.status = "error"
  BY <1>1, <1>2, <1>3 DEF RunState, Alike
<1>5. /\ UNCHANGED <<dns, config, late, intact, retired>>
      /\ used' \in [load : 0 .. MaxLoads, fault : 0 .. MaxFaults, edit : 0 .. MaxEdits]
  BY FailIs DEF Inv, TypeOK, ReadFails, RefuseLocal
<1>6. WritesOK'
  BY <1>4, <1>5, AlikeIs DEF Inv, WritesOK
<1>7. ProgressOK'
  BY <1>4 DEF ProgressOK
<1>8. RulesOK'
  BY <1>5 DEF Inv, RulesOK
<1>9. /\ DOMAIN run.writes \subseteq ToVisit(run)
      /\ run.unread \cap DOMAIN run.writes = {}
  BY <1>1 DEF Inv, PhasesOK
<1>10. /\ config \in [Tunnels -> Setup] /\ intact \in SUBSET Tunnels
       /\ late \subseteq [tunnel : Tunnels, ingress : Seq(Rule)]
  BY DEF Inv, TypeOK
<1> QED BY <1>1, <1>4, <1>5, <1>6, <1>7, <1>8, <1>9, <1>10, InsideInv

\* A tunnel that is read is settled already, or a write that settles it is to come.
LEMMA ReadInv ==
  ASSUME Inv, NEW t \in Tunnels, Read(t)
  PROVE  Inv'
<1> DEFINE plan == PlanOf(run, t)
<1> DEFINE current == config[t].ingress
<1> DEFINE rules == Intended(run, t, plan, current)
<1> DEFINE drifted == Drifted(plan, current, rules)
<1>1. run.pc = "tunnels" /\ t \in run.unread /\ DOMAIN run.writes \in SUBSET Tunnels
  BY DEF Inv, TypeOK, Read, Manageable, Reading
<1>2. /\ run \in RunState(DOMAIN run.writes) /\ Loading(run)
      /\ config[t] \in Setup /\ config[t].source # "local" /\ current \in Seq(Rule)
  BY <1>1, IngressPhase DEF Inv, TypeOK, Read, Manageable, Setup
<1>3. /\ DOMAIN run.writes \subseteq ToVisit(run) /\ t \in ToVisit(run)
      /\ run.unread \cap DOMAIN run.writes = {}
  BY <1>1 DEF Inv, PhasesOK
<1>4. run' = [run EXCEPT !.unread = @ \ {t},
                         !.writes = IF drifted
                                    THEN [s \in DOMAIN @ \cup {t} |-> IF s = t THEN rules ELSE @[s]]
                                    ELSE @]
  BY DEF Read
<1>5. rules \in Seq(Rule) /\ Settled(run, t, rules) /\ Computed(run, t, rules)
  BY <1>2, IntendedIs DEF Computed
<1>6. drifted => CatchesAll(rules)
  <2>1. current = <<>> \/ CatchesAll(current)
    BY <1>2 DEF Inv, RulesOK
  <2>2. CatchesAll(rules) \/ (plan = <<>> /\ rules = current)
    BY <1>2, <2>1, IntendedIs
  <2> HIDE DEF plan, current, rules
  <2> QED BY <2>2 DEF Drifted
<1>7. ~drifted => Settled(run, t, current)
  BY <1>2, InSyncSettled
<1> HIDE DEF plan, current, rules, drifted
<1> DEFINE D == IF drifted THEN DOMAIN run.writes \cup {t} ELSE DOMAIN run.writes
<1>8. /\ run' \in RunState(D)
      /\ run'.pc = "tunnels" /\ Alike(run', run)
      /\ run'.zones = run.zones /\ run'.accounts = run.accounts
      /\ run'.unread = run.unread \ {t} /\ run'.status = run.status
      /\ run'.writes = IF drifted
                       THEN [s \in DOMAIN run.writes \cup {t} |->
                               IF s = t THEN rules ELSE run.writes[s]]
                       ELSE run.writes
  BY <1>1, <1>2, <1>4, <1>5 DEF RunState, Alike
<1>9. /\ DOMAIN run'.writes = D
      /\ \A s \in DOMAIN run.writes : s # t /\ run'.writes[s] = run.writes[s]
      /\ drifted => run'.writes[t] = rules
  BY <1>1, <1>3, <1>8
<1>10. UNCHANGED <<dns, config, late, retired, used>> /\ intact' = intact \cup {t}
  BY DEF Read
<1>11. WritesOK'
  <2> SUFFICES ASSUME NEW s \in D
               PROVE  /\ Settled(run', s, run'.writes[s])
                      /\ CatchesAll(run'.writes[s])
                      /\ Computed(run', s, run'.writes[s])
                      /\ s \in intact' =>
                           /\ config[s].source # "local"
                           /\ run'.writes[s]
                                = Intended(run', s, PlanOf(run', s), config[s].ingress)
    BY <1>9, <1>10 DEF WritesOK
  <2>1. CASE s \in DOMAIN run.writes
    BY <1>8, <1>9, <1>10, <2>1, AlikeIs DEF Inv, WritesOK
  <2>2. CASE s = t /\ drifted
    BY <1>2, <1>5, <1>6, <1>8, <1>9, <1>10, <2>2, AlikeIs DEF rules, plan, current
  <2> QED BY <2>1, <2>2
<1>12. ProgressOK'
  <2> SUFFICES ASSUME run.status = "ok",
                      NEW s \in (ToVisit(run) \ (run.unread \ {t})) \cap (intact \cup {t})
               PROVE  s \in D \/ Settled(run', s, config[s].ingress)
    BY <1>8, <1>9, <1>10, AlikeIs DEF ProgressOK
  <2>1. CASE s = t
    BY <1>7, <1>8, <2>1, AlikeIs DEF current
  <2>2. CASE s # t
    <3>1. s \in DOMAIN run.writes \/ Settled(run, s, config[s].ingress)
      BY <1>1, <2>2 DEF Inv, ProgressOK
    <3> QED BY <1>8, <3>1, AlikeIs
  <2> QED BY <2>1, <2>2
<1>13. RulesOK'
  BY <1>10 DEF Inv, RulesOK
<1>14. /\ config \in [Tunnels -> Setup] /\ intact \in SUBSET Tunnels
       /\ late \subseteq [tunnel : Tunnels, ingress : Seq(Rule)]
       /\ used \in [load : 0 .. MaxLoads, fault : 0 .. MaxFaults, edit : 0 .. MaxEdits]
  BY DEF Inv, TypeOK
<1>15. D \subseteq ToVisit(run) /\ run'.unread \cap D = {}
  BY <1>3, <1>8
<1> HIDE DEF D
<1> QED BY <1>1, <1>8, <1>9, <1>10, <1>11, <1>12, <1>13, <1>14, <1>15, InsideInv

\* What is left to write when t's write has been answered.
LEMMA UnwrittenIs ==
  ASSUME Inv, NEW t \in DOMAIN run.writes
  PROVE  /\ t \in Tunnels
         /\ run.writes[t] \in Seq(Rule)
         /\ DOMAIN Unwritten(t) = DOMAIN run.writes \ {t}
         /\ Unwritten(t) \in [DOMAIN run.writes \ {t} -> Seq(Rule)]
         /\ \A s \in DOMAIN run.writes \ {t} : Unwritten(t)[s] = run.writes[s]
<1>1. DOMAIN run.writes \in SUBSET Tunnels /\ run.writes \in [DOMAIN run.writes -> Seq(Rule)]
  BY RunIs DEF Inv, TypeOK
<1> QED BY <1>1 DEF Unwritten

\* A write settles its tunnel.
LEMMA WrittenInv ==
  ASSUME Inv, NEW t \in Tunnels, Written(t)
  PROVE  Inv'
<1> DEFINE D == DOMAIN run.writes \ {t}
<1>1. /\ run.pc = "tunnels" /\ t \in DOMAIN run.writes
      /\ DOMAIN run.writes \in SUBSET Tunnels
      /\ run \in RunState(DOMAIN run.writes)
      /\ config \in [Tunnels -> Setup]
  BY DEF Inv, TypeOK, Written
<1>2. /\ run' = [run EXCEPT !.writes = Unwritten(t)]
      /\ config' = [config EXCEPT ![t].ingress = run.writes[t]]
      /\ UNCHANGED <<dns, late, intact, retired, used>>
  BY DEF Written
<1>3. /\ run' \in RunState(D)
      /\ run'.pc = "tunnels" /\ Alike(run', run)
      /\ run'.zones = run.zones /\ run'.accounts = run.accounts
      /\ run'.unread = run.unread /\ run'.status = run.status
      /\ run'.writes = Unwritten(t)
  BY <1>1, <1>2, UnwrittenIs DEF RunState, Alike
<1>4. DOMAIN run'.writes = D /\ \A s \in D : run'.writes[s] = run.writes[s]
  BY <1>1, <1>3, UnwrittenIs
<1>5. /\ config' \in [Tunnels -> Setup]
      /\ config'[t].ingress = run.writes[t] /\ config'[t].source = config[t].source
      /\ \A s \in Tunnels : s # t => config'[s] = config[s]
  BY <1>1, <1>2, UnwrittenIs DEF Setup
<1>6. WritesOK'
  <2> SUFFICES ASSUME NEW s \in D
               PROVE  /\ Settled(run', s, run'.writes[s])
                      /\ CatchesAll(run'.writes[s])
                      /\ Computed(run', s, run'.writes[s])
                      /\ s \in intact' =>
                           /\ config'[s].source # "local"
                           /\ run'.writes[s]
                                = Intended(run', s, PlanOf(run', s), config'[s].ingress)
    BY <1>4 DEF WritesOK
  <2>1. s \in Tunnels /\ s # t
    BY <1>1
  <2> QED BY <1>2, <1>3, <1>4, <1>5, <2>1, AlikeIs DEF Inv, WritesOK
<1>7. ProgressOK'
  <2> SUFFICES ASSUME run.status = "ok",
                      NEW s \in (ToVisit(run) \ run.unread) \cap intact
               PROVE  s \in D \/ Settled(run', s, config'[s].ingress)
    BY <1>2, <1>3, <1>4, AlikeIs DEF ProgressOK
  <2>1. CASE s = t
    BY <1>1, <1>3, <1>5, <2>1, AlikeIs DEF Inv, WritesOK
  <2>2. CASE s # t
    <3>1. s \in DOMAIN run.writes \/ Settled(run, s, config[s].ingress)
      BY <1>1 DEF Inv, ProgressOK
    <3>2. s \in Tunnels
      BY <1>1, IngressPhase
    <3> QED BY <1>3, <1>5, <2>2, <3>1, <3>2, AlikeIs
  <2> QED BY <2>1, <2>2
<1>8. RulesOK'
  <2>1. CatchesAll(config'[t].ingress)
    BY <1>1, <1>5 DEF Inv, WritesOK
  <2> QED BY <1>2, <1>5, <2>1 DEF Inv, RulesOK
<1>9. /\ intact \in SUBSET Tunnels
      /\ late \subseteq [tunnel : Tunnels, ingress : Seq(Rule)]
      /\ used \in [load : 0 .. MaxLoads, fault : 0 .. MaxFaults, edit : 0 .. MaxEdits]
  BY DEF Inv, TypeOK
<1>10. D \subseteq ToVisit(run) /\ run.unread \cap D = {}
  BY <1>1 DEF Inv, PhasesOK
<1> HIDE DEF D
<1> QED BY <1>1, <1>2, <1>3, <1>4, <1>5, <1>6, <1>7, <1>8, <1>9, <1>10, InsideInv

\* A failed write leaves an error, and may land later as a configuration that is valid.
LEMMA WriteFailsInv ==
  ASSUME Inv, NEW t \in Tunnels, WriteFails(t)
  PROVE  Inv'
<1> DEFINE D == DOMAIN run.writes \ {t}
<1>1. /\ run.pc = "tunnels" /\ t \in DOMAIN run.writes
      /\ DOMAIN run.writes \in SUBSET Tunnels
      /\ run \in RunState(DOMAIN run.writes)
  BY DEF Inv, TypeOK, WriteFails
<1>2. /\ run' = [run EXCEPT !.writes = Unwritten(t), !.status = "error"]
      /\ late' \subseteq late \cup {[tunnel |-> t, ingress |-> run.writes[t]]}
      /\ UNCHANGED <<dns, config, intact, retired>> /\ Fail
  BY DEF WriteFails
<1>3. /\ run' \in RunState(D)
      /\ run'.pc = "tunnels" /\ Alike(run', run)
      /\ run'.zones = run.zones /\ run'.accounts = run.accounts
      /\ run'.unread = run.unread /\ run'.status = "error"
      /\ run'.writes = Unwritten(t)
  BY <1>1, <1>2, UnwrittenIs DEF RunState, Alike
<1>4. DOMAIN run'.writes = D /\ \A s \in D : run'.writes[s] = run.writes[s]
  BY <1>1, <1>3, UnwrittenIs
<1>5. WritesOK'
  <2> SUFFICES ASSUME NEW s \in D
               PROVE  /\ Settled(run', s, run'.writes[s])
                      /\ CatchesAll(run'.writes[s])
                      /\ Computed(run', s, run'.writes[s])
                      /\ s \in intact' =>
                           /\ config'[s].source # "local"
                           /\ run'.writes[s]
                                = Intended(run', s, PlanOf(run', s), config'[s].ingress)
    BY <1>4 DEF WritesOK
  <2> QED BY <1>2, <1>3, <1>4, AlikeIs DEF Inv, WritesOK
<1>6. ProgressOK'
  BY <1>3 DEF ProgressOK
<1>7. CatchesAll(run.writes[t]) /\ run.writes[t] \in Seq(Rule)
  BY <1>1, UnwrittenIs DEF Inv, WritesOK
<1>8. RulesOK'
  BY <1>2, <1>7 DEF Inv, RulesOK
<1>9. late' \subseteq [tunnel : Tunnels, ingress : Seq(Rule)]
  BY <1>2, <1>7 DEF Inv, TypeOK
<1>10. /\ intact \in SUBSET Tunnels /\ config \in [Tunnels -> Setup]
       /\ used' \in [load : 0 .. MaxLoads, fault : 0 .. MaxFaults, edit : 0 .. MaxEdits]
  BY <1>2, FailIs DEF Inv, TypeOK
<1>11. D \subseteq ToVisit(run) /\ run.unread \cap D = {}
  BY <1>1 DEF Inv, PhasesOK
<1> HIDE DEF D
<1> QED BY <1>1, <1>2, <1>3, <1>4, <1>5, <1>6, <1>8, <1>9, <1>10, <1>11, InsideInv

----------------------------------------------------------------------------
(* Other writers, and the whole next-state relation.                       *)

\* Another writer gives tunnel t rules the API takes.
LEMMA TakenOverInv ==
  ASSUME Inv, NEW t \in Tunnels, UNCHANGED <<dns, run, retired>>,
         config' \in [Tunnels -> Setup],
         \A s \in Tunnels : s # t => config'[s] = config[s],
         \/ config'[t].source = "local"
         \/ config'[t].ingress = <<>>
         \/ CatchesAll(config'[t].ingress),
         intact' = intact \ {t}, late' \subseteq late,
         used' \in [load : 0 .. MaxLoads, fault : 0 .. MaxFaults, edit : 0 .. MaxEdits]
  PROVE  Inv'
<1>1. TypeOK'
  BY DEF Inv, TypeOK
<1>2. PhasesOK' /\ ReportOK'
  BY DEF Inv, PhasesOK, ReportOK
<1>3. WritesOK'
  <2>1. DOMAIN run.writes \in SUBSET Tunnels
    BY DEF Inv, TypeOK
  <2> QED BY <2>1 DEF Inv, WritesOK
<1>4. ProgressOK'
  <2>1. ToVisit(run) \in SUBSET Tunnels
    BY DEF ToVisit
  <2> QED BY <2>1 DEF Inv, ProgressOK
<1>5. RulesOK'
  BY DEF Inv, RulesOK
<1> QED BY <1>1, <1>2, <1>3, <1>4, <1>5 DEF Inv

\* A late write takes the tunnel over.
LEMMA DeliverInv ==
  ASSUME Inv, NEW w \in late, Deliver(w)
  PROVE  Inv'
<1>1. w.tunnel \in Tunnels /\ w.ingress \in Seq(Rule) /\ CatchesAll(w.ingress)
  BY DEF Inv, TypeOK, RulesOK
<1>2. config \in [Tunnels -> Setup]
  BY DEF Inv, TypeOK
<1>3. /\ config' \in [Tunnels -> Setup]
      /\ config'[w.tunnel].ingress = w.ingress
      /\ \A s \in Tunnels : s # w.tunnel => config'[s] = config[s]
  BY <1>1, <1>2 DEF Deliver, Setup
<1>4. /\ intact' = intact \ {w.tunnel} /\ late' \subseteq late
      /\ UNCHANGED <<dns, run, retired, used>>
  BY DEF Deliver
<1>5. used \in [load : 0 .. MaxLoads, fault : 0 .. MaxFaults, edit : 0 .. MaxEdits]
  BY DEF Inv, TypeOK
<1> QED BY <1>1, <1>3, <1>4, <1>5, TakenOverInv

\* An edit takes the tunnel over.
LEMMA EditInv ==
  ASSUME Inv, NEW t \in Tunnels, Edit(t)
  PROVE  Inv'
<1>1. PICK setup \in Setups : config' = [config EXCEPT ![t] = setup[t]]
  BY DEF Edit
<1>2. setup \in [Tunnels -> Setup] /\ config \in [Tunnels -> Setup]
  BY EnvironmentTyped DEF Inv, TypeOK
<1>3. /\ config' \in [Tunnels -> Setup] /\ config'[t] = setup[t]
      /\ \A s \in Tunnels : s # t => config'[s] = config[s]
  BY <1>1, <1>2
<1>4. used' \in [load : 0 .. MaxLoads, fault : 0 .. MaxFaults, edit : 0 .. MaxEdits]
  BY BoundsTyped DEF Inv, TypeOK, Edit
<1>5. intact' = intact \ {t} /\ UNCHANGED <<dns, run, late, retired>>
  BY DEF Edit
<1> QED BY <1>3, <1>4, <1>5, SetupsValidated, TakenOverInv

\* Every step keeps the invariant.
LEMMA NextInv ==
  ASSUME Inv, [Next]_vars
  PROVE  Inv'
<1>1. CASE UNCHANGED vars
  BY <1>1 DEF vars, Inv, TypeOK, PhasesOK, ReportOK, WritesOK, ProgressOK, RulesOK
<1>2. CASE Start
  BY <1>2, StartInv
<1>3. CASE Advance
  <2>1. ASSUME NEW z \in Zones, ZoneStep(z)
        PROVE  Inv'
    BY <2>1, LookupFailsInv, ListFailsInv, ZonePassInv DEF ZoneStep
  <2>2. CASE SkipIngress \/ EndIngress
    BY <2>2, EndsInv
  <2>3. CASE BeginIngress
    BY <2>3, BeginIngressInv
  <2>4. ASSUME NEW t \in Tunnels, TunnelStep(t)
        PROVE  Inv'
    BY <2>4, WrittenInv, WriteFailsInv, ReadErrorInv, ReadInv DEF TunnelStep
  <2> QED BY <1>3, <2>1, <2>2, <2>3, <2>4 DEF Advance
<1>4. CASE Crash
  BY <1>4, EndsInv
<1>5. ASSUME NEW w \in late, Deliver(w)
      PROVE  Inv'
  BY <1>5, DeliverInv
<1>6. ASSUME NEW t \in Tunnels, Edit(t)
      PROVE  Inv'
  BY <1>6, EditInv
<1> QED BY <1>1, <1>2, <1>3, <1>4, <1>5, <1>6 DEF Next

\* In every state a load can reach, what its locals hold fits what is at
\* Cloudflare: reported names lead to their tunnels no more, writes to come are
\* what the rules there call for, and tunnels that were read are settled.
THEOREM Invariance == Spec => []Inv
<1>1. Init => Inv
  BY InitInv
<1>2. Inv /\ [Next]_vars => Inv'
  BY NextInv
<1> QED BY <1>1, <1>2, PTL DEF Spec

\* The locals of Reconcile, the rules it computes and everything at Cloudflare
\* keep their types.
THEOREM TypeCorrect == Spec => []TypeOK
BY Invariance, PTL DEF Inv

----------------------------------------------------------------------------
(* What a write does.                                                      *)

\* What lands is what the run's plan makes of the rules that were there.
LEMMA LandsIs ==
  ASSUME Inv, NEW t \in Tunnels, Lands(t)
  PROVE  /\ Loading(run) /\ config[t].ingress \in Seq(Rule)
         /\ config'[t].ingress = Intended(run, t, PlanOf(run, t), config[t].ingress)
         /\ config[t].source # "local" /\ t \in run.conf.registered /\ run.conf.token
<1>1. Written(t) /\ run.pc = "tunnels" /\ t \in DOMAIN run.writes /\ t \in intact
  BY DEF Lands, Written
<1>2. /\ Loading(run) /\ t \in run.conf.registered /\ run.conf.token
  BY <1>1, IngressPhase DEF Inv, PhasesOK
<1>3. config[t] \in Setup /\ config'[t].ingress = run.writes[t]
  BY <1>1 DEF Inv, TypeOK, Written, Setup
<1> QED BY <1>1, <1>2, <1>3 DEF Inv, WritesOK, Setup

\* The plugin writes a tunnel only when an account token is configured, the
\* tunnel is registered in the global block, and it is remotely managed, or was
\* when it was read, if another writer has changed it since.
THEOREM WritesAreAuthorised == Spec => WritesAuthorised
<1>1. ASSUME Inv, NEW t \in Tunnels, Written(t)
      PROVE  /\ t \in run.conf.registered
             /\ run.conf.token
             /\ t \in intact => config[t].source # "local"
  <2>1. run.pc = "tunnels" /\ t \in DOMAIN run.writes
    BY <1>1 DEF Written
  <2>2. t \in run.conf.registered /\ run.conf.token
    BY <1>1, <2>1, IngressPhase DEF Inv, PhasesOK
  <2> QED BY <1>1, <2>1, <2>2 DEF Inv, WritesOK
<1>2. Inv /\ [Next]_vars =>
        [\A t \in Tunnels : Written(t) =>
           /\ t \in run.conf.registered
           /\ run.conf.token
           /\ t \in intact => config[t].source # "local"]_vars
  BY <1>1
<1> QED BY <1>2, Invariance, PTL DEF Spec, WritesAuthorised

\* Every configuration written, also by a call that lands late, ends with a rule
\* for all hosts, and has no other one before it that hides what follows.
THEOREM WritesEndWithCatchAll == Spec => EndsWithCatchAll
<1>1. ASSUME Inv, NEW t \in Tunnels, Written(t)
      PROVE  CatchesAll(config'[t].ingress)
  <2>1. t \in DOMAIN run.writes /\ config[t] \in Setup
    BY <1>1 DEF Inv, TypeOK, Written
  <2>2. config'[t].ingress = run.writes[t]
    BY <1>1, <2>1 DEF Inv, TypeOK, Written, Setup
  <2> QED BY <1>1, <2>1, <2>2 DEF Inv, WritesOK
<1>2. ASSUME Inv, NEW w \in late, Deliver(w)
      PROVE  CatchesAll(config'[w.tunnel].ingress)
  <2>1. w.tunnel \in Tunnels /\ CatchesAll(w.ingress) /\ config \in [Tunnels -> Setup]
    BY <1>2 DEF Inv, TypeOK, RulesOK
  <2>2. config'[w.tunnel].ingress = w.ingress
    BY <1>2, <2>1 DEF Deliver, Setup
  <2> QED BY <2>1, <2>2
<1>3. Inv /\ [Next]_vars =>
        [\A t \in Tunnels :
           Written(t) \/ (\E w \in late : Deliver(w) /\ w.tunnel = t)
             => CatchesAll(config'[t].ingress)]_vars
  BY <1>1, <1>2
<1> QED BY <1>3, Invariance, PTL DEF Spec, EndsWithCatchAll

\* A write deletes the routes of dead hosts only: the host's zone declares
\* prune, this run deleted the CNAME that led to the tunnel, no record of this
\* server leads there again, and the configuration does not declare it there.
\* Nothing is said of a tunnel that another writer changed after it was read.
THEOREM DeletedRoutesAreDead == Spec => OnlyDeadRoutesDeleted
<1>1. ASSUME Inv, NEW t \in Tunnels, Lands(t),
             NEW h \in HostsOf(config[t].ingress) \ HostsOf(config'[t].ingress)
      PROVE  /\ ZoneOf[h] \in run.conf.prune
             /\ <<h, t>> \in run.report
             /\ dns[h] # t
             /\ h \notin HostsOn(run.conf, t)
  <2>1. h \in PrunedOn(run, t) \ HostsOn(run.conf, t)
    BY <1>1, LandsIs, IntendedIs
  <2>2. <<h, t>> \in run.report /\ run.pc = "tunnels"
    BY <1>1, <2>1 DEF PrunedOn, Lands, Written
  <2>3. ZoneOf[<<h, t>>[1]] \in run.conf.prune /\ dns[<<h, t>>[1]] # <<h, t>>[2]
    BY <1>1, <2>2 DEF Inv, ReportOK
  <2> QED BY <2>1, <2>2, <2>3
<1>2. Inv /\ [Next]_vars =>
        [\A t \in Tunnels : Lands(t) =>
           \A h \in HostsOf(config[t].ingress) \ HostsOf(config'[t].ingress) :
             /\ ZoneOf[h] \in run.conf.prune
             /\ <<h, t>> \in run.report
             /\ dns[h] # t
             /\ h \notin HostsOn(run.conf, t)]_vars
  BY <1>1
<1> QED BY <1>2, Invariance, PTL DEF Spec, OnlyDeadRoutesDeleted

\* A write leaves the rules of undeclared hosts in their order, each with its
\* service and every option it had but the managed one, in a tunnel that no other
\* writer changed after it was read.
THEOREM ForeignRulesStay == Spec => ForeignRulesKept
<1> DEFINE Kept(before, after) ==
      /\ Len(before) = Len(after)
      /\ \A i \in DOMAIN before :
           /\ before[i].hostname = after[i].hostname
           /\ before[i].service = after[i].service
           /\ before[i].originRequest # Absent =>
                \A k \in DOMAIN before[i].originRequest \ {SNI} :
                  /\ after[i].originRequest # Absent
                  /\ k \in DOMAIN after[i].originRequest
                  /\ after[i].originRequest[k] = before[i].originRequest[k]
<1>1. ASSUME Inv, NEW t \in Tunnels, Lands(t)
      PROVE  LET kept == HostsOf(config'[t].ingress)
             IN  Kept(Foreign(config[t].ingress, kept, t), Foreign(config'[t].ingress, kept, t))
  <2> DEFINE kept == HostsOf(config'[t].ingress)
  <2> DEFINE H == kept \ HostsOn(run.conf, t)
  <2>1. /\ Foreign(config[t].ingress, kept, t) = Among(config[t].ingress, H)
        /\ Foreign(config'[t].ingress, kept, t) = Among(config'[t].ingress, H)
    BY DEF Foreign, Among
  <2>2. /\ Len(Among(config[t].ingress, H)) = Len(Among(config'[t].ingress, H))
        /\ \A i \in DOMAIN Among(config[t].ingress, H) :
             Carries(Among(config[t].ingress, H)[i], Among(config'[t].ingress, H)[i])
    BY <1>1, LandsIs, IntendedKeeps
  <2> HIDE DEF H
  <2> QED BY <2>1, <2>2 DEF Carries, KeepsOptions
<1>2. Inv /\ [Next]_vars =>
        [\A t \in Tunnels : Lands(t) =>
           LET kept == HostsOf(config'[t].ingress)
           IN  Kept(Foreign(config[t].ingress, kept, t), Foreign(config'[t].ingress, kept, t))]_vars
  BY <1>1
<1> QED BY <1>2, Invariance, PTL DEF Spec, ForeignRulesKept

\* What a planned write puts there comes out the same when it is computed from
\* itself, in whatever order the hosts are provisioned, unless a host mixes https
\* with other services; and it is no drift to write for, unless a rule without
\* https carries the managed option.  (One that does is taken for drift on every
\* load, see WrittenIsInSync.)
THEOREM WritesSettle == Spec => MergeSettles
<1>1. ASSUME Inv, NEW t \in Tunnels, Written(t), PlanOf(run, t) # <<>>,
             DonorsSuit(config'[t].ingress), NEW order \in SetToSeqs(Declared(run.conf))
      PROVE  LET rules == config'[t].ingress
                 planned == Plan(order, run.conf.hosts, t, run.conf.default)
             IN  /\ Merged(rules, planned, {}) = rules
                 /\ SNIWanted(rules) => ~Drifted(planned, rules, rules)
  <2> DEFINE plan == PlanOf(run, t)
  <2> DEFINE pruned == PrunedOn(run, t)
  <2>1. run.pc = "tunnels" /\ t \in DOMAIN run.writes /\ Loading(run)
    BY <1>1, IngressPhase DEF Written
  <2>2. config'[t].ingress = run.writes[t]
    <3>1. config[t] \in Setup
      BY <1>1 DEF Inv, TypeOK
    <3> QED BY <1>1, <3>1 DEF Inv, TypeOK, Written, Setup
  <2>3. PICK current \in Seq(Rule) : run.writes[t] = Merged(current, plan, pruned)
    <3>1. Computed(run, t, run.writes[t])
      BY <1>1, <2>1 DEF Inv, WritesOK
    <3> QED BY <1>1, <3>1 DEF Computed, Intended
  <2>4. Terminated(plan) /\ OnePerHost(plan) /\ \A i \in DOMAIN plan : Authored(plan[i])
    BY <1>1, <2>1, PlanOfIs
  <2>5. Plan(order, run.conf.hosts, t, run.conf.default) = plan
    <3>1. /\ order \in Seq(Hostnames) /\ run.order \in Seq(Hostnames)
          /\ Elements(order) = Elements(run.order)
      BY <2>1, OrderIs DEF Loading
    <3> QED BY <3>1, PlanDeterministic DEF PlanOf
  <2> HIDE DEF plan, pruned
  <2>6. Merged(Merged(current, plan, pruned), plan, {}) = Merged(current, plan, pruned)
    BY <1>1, <2>2, <2>3, <2>4, MergedSettles
  <2> DEFINE rules == config'[t].ingress
  <2>7. /\ \A k \in DOMAIN rules : Matches(rules[k])
        /\ plan # <<>>
    BY <1>1, <2>2, <2>3, <2>4, MergedMatch DEF plan
  <2> HIDE DEF rules
  <2>8. SNIWanted(rules) => ~Drifted(plan, rules, rules)
    BY <2>7 DEF SNIWanted, Drifted, RulesEqual, Matches, WantsMatchSNI, HasMatchSNI
  <2> QED BY <2>2, <2>3, <2>5, <2>6, <2>8 DEF rules
<1>2. Inv /\ [Next]_vars =>
        [\A t \in Tunnels :
           Written(t) /\ PlanOf(run, t) # <<>> /\ DonorsSuit(config'[t].ingress) =>
             \A order \in SetToSeqs(Declared(run.conf)) :
               LET rules == config'[t].ingress
                   planned == Plan(order, run.conf.hosts, t, run.conf.default)
               IN  /\ Merged(rules, planned, {}) = rules
                   /\ SNIWanted(rules) => ~Drifted(planned, rules, rules)]_vars
  BY <1>1
<1> QED BY <1>2, Invariance, PTL DEF Spec, MergeSettles

----------------------------------------------------------------------------
(* What a load that reports no error has done.                             *)

\* A load that has learnt of a zone has an account to manage tunnels with.
LEMMA AccountIs ==
  ASSUME NEW r, r.conf \in Config, r.accounts \in SUBSET Zones, r.accounts # {}
  PROVE  Account(r) # NoAccount
<1>1. PICK n \in {ZoneRank[z] : z \in r.accounts} : \A m \in {ZoneRank[z] : z \in r.accounts} : n <= m
  <2>1. {ZoneRank[z] : z \in r.accounts} \in SUBSET Nat /\ {ZoneRank[z] : z \in r.accounts} # {}
    BY EnvironmentTyped
  <2> QED BY <2>1, Least
<1>2. \E z \in r.accounts : \A y \in r.accounts : ZoneRank[z] <= ZoneRank[y]
  BY <1>1
<1> DEFINE z == CHOOSE z \in r.accounts : \A y \in r.accounts : ZoneRank[z] <= ZoneRank[y]
<1>3. z \in r.accounts
  BY <1>2
<1>4. ZoneAccount[z] # NoAccount
  BY <1>3, EnvironmentTyped
<1> QED BY <1>4 DEF Account

\* A load returns from its last phase, or from the first when no tunnel is to
\* be visited.
LEMMA FinishingIs ==
  ASSUME Inv, [Next]_vars, Finishing
  PROVE  /\ SkipIngress \/ EndIngress
         /\ run'.status = run.status /\ config' = config
<1>1. run.pc # "idle" /\ run'.pc = "idle" /\ run'.status # "none"
  BY DEF Finishing
<1>2. ASSUME NEW z \in Zones, ZoneStep(z)
      PROVE  FALSE
  <2>1. run.pc = "zones" /\ run \in RunState({})
    BY <1>2, ZonesPhase DEF ZoneStep, LookupFails, ListFails, ZonePass
  <2>2. run'.pc = run.pc
    BY <1>2, <2>1 DEF ZoneStep, LookupFails, ListFails, ZonePass, RunState
  <2> QED BY <1>1, <2>2
<1>3. ASSUME NEW t \in Tunnels, TunnelStep(t)
      PROVE  FALSE
  <2>1. run \in RunState(DOMAIN run.writes)
    BY DEF Inv, TypeOK
  <2>2. run'.pc = run.pc
    BY <1>3, <2>1 DEF TunnelStep, Written, WriteFails, ReadFails, RefuseLocal, Read,
                      ReadDone, RunState
  <2> QED BY <1>1, <2>2
<1>4. ~BeginIngress
  <2>1. ASSUME BeginIngress PROVE run'.pc = "tunnels"
    <3>1. run \in RunState({})
      BY <2>1, ZonesPhase DEF BeginIngress
    <3> QED BY <2>1, <3>1 DEF BeginIngress, RunState
  <2> QED BY <1>1, <2>1
<1>5. ~Crash
  <2>1. run.conf \in Config
    BY DEF Inv, TypeOK, RunState
  <2> QED BY <1>1, <2>1, FreshIs DEF Crash
<1>6. SkipIngress \/ EndIngress
  BY <1>1, <1>2, <1>3, <1>4, <1>5 DEF Next, Advance, Start, Deliver, Edit, vars
<1>7. run'.status = run.status /\ config' = config
  BY <1>6, ReturnIs DEF SkipIngress, EndIngress, Inv
<1> QED BY <1>6, <1>7

\* Without an error, every tunnel that had something to be done for it, and
\* that nobody else has changed since it was read, is settled.
THEOREM LoadSettles ==
  ASSUME Inv, [Next]_vars, Finishing, run'.status = "ok", run.conf.token,
         NEW t \in ToVisit(run) \cap intact
  PROVE  Settled(run, t, config'[t].ingress)
<1>1. run.status = "ok" /\ config' = config
  BY FinishingIs
<1>2. CASE SkipIngress
  <2>1. /\ run.pc = "zones" /\ run.zones = {}
        /\ run.conf \in Config /\ run.accounts \in SUBSET Zones
        /\ run.report \in Report
    BY <1>2 DEF Inv, TypeOK, RunState, SkipIngress
  <2>2. Account(run) = NoAccount
    BY <1>2 DEF SkipIngress, SkipsIngress
  <2>3. run.accounts = {}
    BY <2>1, <2>2, AccountIs
  <2>4. HostsOn(run.conf, t) = {}
    <3>1. Visited(run.conf) = {}
      BY <1>1, <2>1, <2>3 DEF Inv, PhasesOK
    <3> QED BY <3>1 DEF Visited, HostsOn
  <2>5. \A e \in run.report : FALSE
    BY <2>1, <2>3 DEF Inv, ReportOK
  <2> QED BY <2>4, <2>5 DEF ToVisit
<1>3. CASE EndIngress
  <2>1. run.pc = "tunnels" /\ run.unread = {} /\ DOMAIN run.writes = {}
    BY <1>3 DEF EndIngress
  <2> QED BY <1>1, <2>1 DEF Inv, ProgressOK
<1> QED BY <1>2, <1>3, FinishingIs

\* A load that reports no error and manages tunnels leaves every declared
\* tunnel host routed as declared, unless another writer changed the tunnel after
\* it was read.
THEOREM LoadPublishes == Spec => RoutesPublished
<1>1. ASSUME Inv, [Next]_vars, Finishing, run'.status = "ok", run.conf.token,
             NEW t \in intact, NEW h \in HostsOn(run.conf, t)
      PROVE  Routes(config'[t].ingress, run.conf, h)
  <2>1. t \in ToVisit(run)
    BY <1>1 DEF ToVisit, Inv, TypeOK
  <2>2. Settled(run, t, config'[t].ingress)
    BY <1>1, <2>1, LoadSettles
  <2> QED BY <2>2 DEF Settled
<1>2. Inv /\ [Next]_vars =>
        [Finishing /\ run'.status = "ok" /\ run.conf.token =>
           \A t \in intact : \A h \in HostsOn(run.conf, t) :
             Routes(config'[t].ingress, run.conf, h)]_vars
  BY <1>1
<1> QED BY <1>2, Invariance, PTL DEF Spec, RoutesPublished

\* A load that reports no error leaves no route for a name whose CNAME it
\* deleted, on the registered tunnel the CNAME pointed at, unless another writer
\* changed the tunnel after it was read.
THEOREM LoadDeletes == Spec => DeadRoutesDeleted
<1>1. ASSUME Inv, [Next]_vars, Finishing, run'.status = "ok", run.conf.token,
             NEW e \in run.report, e[2] \in intact \cap run.conf.registered,
             e[1] \notin HostsOn(run.conf, e[2])
      PROVE  e[1] \notin HostsOf(config'[e[2]].ingress)
  <2>1. e \in Hostnames \X Tunnels
    BY <1>1 DEF Inv, TypeOK, RunState, Report
  <2>2. e[1] \in Hostnames /\ e[2] \in Tunnels /\ <<e[1], e[2]>> \in run.report
    BY <1>1, <2>1
  <2>3. e[2] \in ToVisit(run)
    BY <1>1, <2>2 DEF ToVisit
  <2>4. Settled(run, e[2], config'[e[2]].ingress)
    BY <1>1, <2>3, LoadSettles
  <2>5. e[1] \in PrunedOn(run, e[2])
    BY <2>2 DEF PrunedOn
  <2> QED BY <1>1, <2>4, <2>5 DEF Settled
<1>2. Inv /\ [Next]_vars =>
        [Finishing /\ run'.status = "ok" /\ run.conf.token =>
           \A e \in run.report :
             e[2] \in intact \cap run.conf.registered /\ e[1] \notin HostsOn(run.conf, e[2])
               => e[1] \notin HostsOf(config'[e[2]].ingress)]_vars
  BY <1>1
<1> QED BY <1>2, Invariance, PTL DEF Spec, DeadRoutesDeleted

=============================================================================
