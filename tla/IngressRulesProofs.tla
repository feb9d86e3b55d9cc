-------------------------- MODULE IngressRulesProofs --------------------------
(***************************************************************************)
(* What the plan, its merge with a tunnel's rules and the pruning of dead  *)
(* routes return, for every list of rules and every set of hosts: lemmas   *)
(* about the operators of IngressRules, which ReconcileProofs rests on.    *)
(***************************************************************************)
EXTENDS IngressRules, SubsequencesProofs

Request == OriginRequest \cup {Absent}

\* Request b has every option of request a but the managed one.
KeepsOptions(a, b) ==
  a # Absent =>
    \A k \in DOMAIN a \ {SNI} : b # Absent /\ k \in DOMAIN b /\ b[k] = a[k]

\* The rule carries the managed option when its service asks for it.
Matches(r) == WantsMatchSNI(r.service) => HasMatchSNI(r.originRequest)

----------------------------------------------------------------------------
(* Origin requests.                                                        *)

\* An origin request gives values to some of the keys.
LEMMA RequestIs ==
  ASSUME NEW a \in Request, a # Absent
  PROVE  a \in [DOMAIN a -> Values] /\ DOMAIN a \in SUBSET Keys
BY DEF Request, OriginRequest

\* A function from keys to values is an origin request.
LEMMA IsRequest ==
  ASSUME NEW K \in SUBSET Keys, NEW a \in [K -> Values]
  PROVE  a \in Request /\ a # Absent
BY BlanksDiffer DEF Request, OriginRequest

\* EnsureMatchSNI sets the managed option where it is wanted, and nothing else.
LEMMA EnsureKeeps ==
  ASSUME NEW a \in Request, NEW service
  PROVE  LET b == EnsureMatchSNI(a, service)
         IN  /\ b \in Request
             /\ WantsMatchSNI(service) => HasMatchSNI(b)
             /\ KeepsOptions(a, b)
<1> DEFINE b == EnsureMatchSNI(a, service)
<1>1. CASE ~WantsMatchSNI(service)
  BY <1>1 DEF EnsureMatchSNI, KeepsOptions
<1>2. CASE WantsMatchSNI(service) /\ a = Absent
  <2>1. b = [k \in {SNI} |-> Yes]
    BY <1>2 DEF EnsureMatchSNI, MatchSNI
  <2>2. b \in [{SNI} -> Values] /\ {SNI} \in SUBSET Keys
    BY <2>1, OptionsTyped
  <2>3. b \in Request /\ b # Absent
    BY <2>2, IsRequest
  <2> QED BY <1>2, <2>1, <2>3 DEF HasMatchSNI, KeepsOptions
<1>3. CASE WantsMatchSNI(service) /\ a # Absent
  <2> DEFINE K == DOMAIN a \cup {SNI}
  <2>1. a \in [DOMAIN a -> Values] /\ DOMAIN a \in SUBSET Keys
    BY <1>3, RequestIs
  <2>2. b = [k \in {SNI} \cup DOMAIN a |-> IF k \in {SNI} THEN Yes ELSE a[k]]
    BY <1>3 DEF EnsureMatchSNI, MatchSNI, Over
  <2>3. b \in [K -> Values] /\ K \in SUBSET Keys
    BY <2>1, <2>2, OptionsTyped
  <2>4. b \in Request /\ b # Absent
    BY <2>3, IsRequest
  <2> QED BY <1>3, <2>2, <2>4 DEF HasMatchSNI, KeepsOptions
<1> QED BY <1>1, <1>2, <1>3

\* The upper of two overlaid requests keeps its options.
LEMMA OverlaidKeeps ==
  ASSUME NEW a \in Request, NEW b \in Request
  PROVE  /\ Overlaid(a, b) \in Request
         /\ KeepsOptions(b, Overlaid(a, b))
<1> DEFINE o == Overlaid(a, b)
<1>1. CASE a = Absent \/ b = Absent
  BY <1>1 DEF Overlaid, KeepsOptions
<1>2. CASE a # Absent /\ b # Absent
  <2> DEFINE K == DOMAIN b \cup DOMAIN a
  <2>1. /\ a \in [DOMAIN a -> Values] /\ DOMAIN a \in SUBSET Keys
        /\ b \in [DOMAIN b -> Values] /\ DOMAIN b \in SUBSET Keys
    BY <1>2, RequestIs
  <2>2. o = [k \in K |-> IF k \in DOMAIN b THEN b[k] ELSE a[k]]
    BY <1>2 DEF Overlaid, Over
  <2>3. o \in [K -> Values] /\ K \in SUBSET Keys
    BY <2>1, <2>2
  <2>4. o \in Request /\ o # Absent
    BY <2>3, IsRequest
  <2> QED BY <2>2, <2>4 DEF KeepsOptions
<1> QED BY <1>1, <1>2

----------------------------------------------------------------------------
(* Rules and what a merge makes of them.                                   *)

\* A set of positions has a last one, which Max returns.
LEMMA MaxIs ==
  ASSUME NEW I \in SUBSET Nat, IsFiniteSet(I), I # {}
  PROVE  Max(I) \in I /\ \A i \in I : i <= Max(I)
<1> DEFINE n == Cardinality(I)
<1> DEFINE p == Places(I)
<1>1. Enumerates(p, n, I)
  BY PlacesEnumerate
<1>2. n # 0 /\ n \in Nat
  BY <1>1, FS_EmptySet DEF Enumerates
<1> HIDE DEF n, p
<1>3. p[n] \in I /\ p[n] \in Nat
  <2>1. n \in 1 .. n /\ p \in [1 .. n -> I]
    BY <1>1, <1>2 DEF Enumerates
  <2> QED BY <2>1
<1>4. \A i \in I : p[n] >= i
  <2> SUFFICES ASSUME NEW i \in I
               PROVE  p[n] >= i
    OBVIOUS
  <2>1. PICK k \in 1 .. n : p[k] = i
    BY <1>1 DEF Enumerates
  <2>2. k = n \/ (k < n /\ p[k] < p[n])
    BY <1>1, <1>2 DEF Enumerates
  <2> QED BY <1>3, <2>1, <2>2
<1> QED BY <1>3, <1>4 DEF Max

\* inheritUnmanagedFields makes rules of rules: the hostname and the service
\* stay, so does every option but the managed one, which is set where wanted.
LEMMA InheritingIs ==
  ASSUME NEW current \in Seq(Rule), NEW r \in Rule
  PROVE  LET i == Inheriting(current)[r]
         IN  /\ i \in Rule
             /\ i.hostname = r.hostname
             /\ i.service = r.service
             /\ Matches(i)
             /\ KeepsOptions(r.originRequest, i.originRequest)
<1> DEFINE i == Inheriting(current)[r]
<1> DEFINE D == Donors(current, r.hostname)
<1>1. r.originRequest \in Request /\ r.path \in Paths \cup {NoPath}
  BY DEF Rule, Request
<1>2. CASE D = {}
  <2>1. i = [r EXCEPT !.originRequest = EnsureMatchSNI(r.originRequest, r.service)]
    BY <1>2 DEF Inheriting
  <2>2. /\ EnsureMatchSNI(r.originRequest, r.service) \in Request
        /\ WantsMatchSNI(r.service) => HasMatchSNI(EnsureMatchSNI(r.originRequest, r.service))
        /\ KeepsOptions(r.originRequest, EnsureMatchSNI(r.originRequest, r.service))
    BY <1>1, EnsureKeeps
  <2> QED BY <2>1, <2>2 DEF Rule, Request, Matches
<1>3. CASE D # {}
  <2> DEFINE prev == current[Max(D)]
  <2> DEFINE o == Overlaid(prev.originRequest, r.originRequest)
  <2>1. Max(D) \in DOMAIN current
    <3>1. D \in SUBSET DOMAIN current
      BY DEF Donors
    <3>2. D \in SUBSET Nat /\ IsFiniteSet(D)
      BY <3>1, PositionsFinite
    <3> QED BY <1>3, <3>1, <3>2, MaxIs
  <2>2. prev \in Rule
    BY <2>1, ElementOfSeq, LenProperties
  <2>3. prev.originRequest \in Request /\ prev.path \in Paths \cup {NoPath}
    BY <2>2 DEF Rule, Request
  <2>4. o \in Request /\ KeepsOptions(r.originRequest, o)
    BY <1>1, <2>3, OverlaidKeeps
  <2>5. /\ EnsureMatchSNI(o, r.service) \in Request
        /\ WantsMatchSNI(r.service) => HasMatchSNI(EnsureMatchSNI(o, r.service))
        /\ KeepsOptions(o, EnsureMatchSNI(o, r.service))
    BY <2>4, EnsureKeeps
  <2>6. KeepsOptions(r.originRequest, EnsureMatchSNI(o, r.service))
    BY <2>4, <2>5 DEF KeepsOptions
  <2>7. i = [r EXCEPT !.path = IF r.path = NoPath THEN prev.path ELSE r.path,
                      !.originRequest = EnsureMatchSNI(o, r.service)]
    BY <1>3 DEF Inheriting
  <2> HIDE DEF o, prev
  <2> QED BY <1>1, <2>3, <2>5, <2>6, <2>7 DEF Rule, Request, Matches
<1> QED BY <1>2, <1>3

\* Inherited maps rules to rules one by one.
LEMMA InheritedIs ==
  ASSUME NEW rules \in Seq(Rule), NEW current \in Seq(Rule)
  PROVE  /\ Inherited(rules, current) \in Seq(Rule)
         /\ Len(Inherited(rules, current)) = Len(rules)
         /\ \A i \in 1 .. Len(rules) :
              Inherited(rules, current)[i] = Inheriting(current)[rules[i]]
<1>1. DOMAIN rules = 1 .. Len(rules) /\ Len(rules) \in Nat
  BY LenProperties
<1>2. \A i \in 1 .. Len(rules) : rules[i] \in Rule
  BY ElementOfSeq
<1>3. Inherited(rules, current) = [i \in 1 .. Len(rules) |-> Inheriting(current)[rules[i]]]
  BY <1>1 DEF Inherited
<1>4. Inherited(rules, current) \in [1 .. Len(rules) -> Rule]
  BY <1>2, <1>3, InheritingIs
<1>5. Inherited(rules, current) \in Seq(Rule)
  BY <1>1, <1>4, IsASeq
<1> QED BY <1>1, <1>3, <1>5, LenProperties

\* The positions Without keeps.
Elsewhere(rules, hostnames) == {i \in DOMAIN rules : rules[i].hostname \notin hostnames}

\* Without leaves the rules at other hostnames, and only those.
LEMMA WithoutIs ==
  ASSUME NEW rules \in Seq(Rule), NEW hostnames
  PROVE  LET w == Without(rules, hostnames)
         IN  /\ w \in Seq(Rule)
             /\ \A k \in DOMAIN w : \E i \in Elsewhere(rules, hostnames) : w[k] = rules[i]
             /\ \A i \in Elsewhere(rules, hostnames) : \E k \in DOMAIN w : w[k] = rules[i]
             /\ HostsOf(w) = HostsOf(rules) \ hostnames
<1> DEFINE I == Elsewhere(rules, hostnames)
<1> DEFINE w == Without(rules, hostnames)
<1>1. /\ w \in Seq(Rule)
      /\ \A k \in DOMAIN w : \E i \in I : w[k] = rules[i]
      /\ \A i \in I : \E k \in DOMAIN w : w[k] = rules[i]
  <2>1. I \in SUBSET DOMAIN rules /\ w = Picked(rules, I)
    BY DEF Without, Elsewhere
  <2> HIDE DEF w, I
  <2> QED BY <2>1, PickedElements
<1>2. I = {i \in DOMAIN rules : rules[i].hostname \notin hostnames}
  BY DEF Elsewhere
<1> HIDE DEF w, I
<1>3. HostsOf(w) = HostsOf(rules) \ hostnames
  BY <1>1, <1>2 DEF HostsOf
<1> QED BY <1>1, <1>3 DEF w, I

\* Two lists of rules, one behind the other.
LEMMA ConcatRules ==
  ASSUME NEW a \in Seq(Rule), NEW b \in Seq(Rule)
  PROVE  /\ a \o b \in Seq(Rule)
         /\ Len(a \o b) = Len(a) + Len(b)
         /\ DOMAIN (a \o b) = 1 .. Len(a) + Len(b)
         /\ \A i \in 1 .. Len(a) : (a \o b)[i] = a[i]
         /\ \A i \in 1 .. Len(b) : (a \o b)[Len(a) + i] = b[i]
         /\ HostsOf(a \o b) = HostsOf(a) \cup HostsOf(b)
<1>1. /\ a \o b \in Seq(Rule)
      /\ Len(a \o b) = Len(a) + Len(b)
      /\ \A i \in 1 .. Len(a) + Len(b) :
           (a \o b)[i] = IF i <= Len(a) THEN a[i] ELSE b[i - Len(a)]
  BY ConcatProperties
<1>2. /\ Len(a) \in Nat /\ Len(b) \in Nat
      /\ DOMAIN a = 1 .. Len(a) /\ DOMAIN b = 1 .. Len(b)
      /\ DOMAIN (a \o b) = 1 .. Len(a) + Len(b)
  BY <1>1, LenProperties
<1> DEFINE c == a \o b
<1> HIDE DEF c
<1>3. \A i \in 1 .. Len(a) : i \in 1 .. Len(a) + Len(b) /\ c[i] = a[i]
  BY <1>1, <1>2 DEF c
<1>4. \A i \in 1 .. Len(b) :
        Len(a) + i \in 1 .. Len(a) + Len(b) /\ c[Len(a) + i] = b[i]
  BY <1>1, <1>2 DEF c
<1>5. \A i \in 1 .. Len(a) + Len(b) :
        i \in 1 .. Len(a) \/ \E j \in 1 .. Len(b) : i = Len(a) + j
  <2> SUFFICES ASSUME NEW i \in 1 .. Len(a) + Len(b), i \notin 1 .. Len(a)
               PROVE  i - Len(a) \in 1 .. Len(b) /\ i = Len(a) + (i - Len(a))
    OBVIOUS
  <2> QED BY <1>2
<1>6. HostsOf(c) = HostsOf(a) \cup HostsOf(b)
  <2> DEFINE all == {c[i].hostname : i \in 1 .. Len(a) + Len(b)}
  <2> DEFINE first == {a[i].hostname : i \in 1 .. Len(a)}
  <2> DEFINE second == {b[i].hostname : i \in 1 .. Len(b)}
  <2>1. all \subseteq first \cup second
    <3> SUFFICES ASSUME NEW i \in 1 .. Len(a) + Len(b)
                 PROVE  c[i].hostname \in first \cup second
      OBVIOUS
    <3>1. CASE i \in 1 .. Len(a)
      BY <1>3, <3>1
    <3>2. CASE \E j \in 1 .. Len(b) : i = Len(a) + j
      BY <1>4, <3>2
    <3> QED BY <1>5, <3>1, <3>2
  <2>2. first \subseteq all
    BY <1>3
  <2>3. second \subseteq all
    <3> SUFFICES ASSUME NEW j \in 1 .. Len(b)
                 PROVE  b[j].hostname \in all
      OBVIOUS
    <3>1. b[j].hostname = c[Len(a) + j].hostname /\ Len(a) + j \in 1 .. Len(a) + Len(b)
      BY <1>4
    <3> QED BY <3>1
  <2>4. /\ HostsOf(c) = all \ {NoHost}
        /\ HostsOf(a) = first \ {NoHost}
        /\ HostsOf(b) = second \ {NoHost}
    BY <1>2 DEF HostsOf, c
  <2> HIDE DEF all, first, second
  <2> QED BY <2>1, <2>2, <2>3, <2>4
<1> QED BY <1>1, <1>2, <1>3, <1>4, <1>6 DEF c

\* Inheriting changes neither the hosts of rules nor their places.
LEMMA InheritedHosts ==
  ASSUME NEW rules \in Seq(Rule), NEW current \in Seq(Rule)
  PROVE  /\ Inherited(rules, current) \in Seq(Rule)
         /\ Len(Inherited(rules, current)) = Len(rules)
         /\ DOMAIN Inherited(rules, current) = DOMAIN rules
         /\ HostsOf(Inherited(rules, current)) = HostsOf(rules)
         /\ \A i \in DOMAIN rules :
              LET r == Inherited(rules, current)[i]
              IN  /\ r \in Rule
                  /\ r.hostname = rules[i].hostname
                  /\ r.service = rules[i].service
                  /\ Matches(r)
                  /\ KeepsOptions(rules[i].originRequest, r.originRequest)
<1> DEFINE new == Inherited(rules, current)
<1>1. /\ DOMAIN rules = 1 .. Len(rules)
      /\ \A i \in DOMAIN rules : rules[i] \in Rule
  BY LenProperties, ElementOfSeq
<1>2. /\ new \in Seq(Rule) /\ Len(new) = Len(rules)
      /\ \A i \in 1 .. Len(rules) : new[i] = Inheriting(current)[rules[i]]
  BY InheritedIs
<1>3. DOMAIN new = DOMAIN rules
  BY <1>1, <1>2, LenProperties
<1> HIDE DEF new
<1>4. ASSUME NEW i \in DOMAIN rules
      PROVE  /\ new[i] \in Rule
             /\ new[i].hostname = rules[i].hostname
             /\ new[i].service = rules[i].service
             /\ Matches(new[i])
             /\ KeepsOptions(rules[i].originRequest, new[i].originRequest)
  BY <1>1, <1>2, InheritingIs
<1>5. HostsOf(new) = HostsOf(rules)
  BY <1>3, <1>4 DEF HostsOf
<1> QED BY <1>2, <1>3, <1>4, <1>5 DEF new

----------------------------------------------------------------------------
(* The plan.                                                               *)

\* A rule with nothing but what the plugin manages.
Authored(r) ==
  /\ r.path = NoPath
  /\ r.originRequest = EnsureMatchSNI(Absent, r.service)

\* A hostname has one rule at most.
OnePerHost(rules) ==
  \A i, j \in DOMAIN rules : rules[i].hostname = rules[j].hostname => i = j

Elements(hosts) == {hosts[i] : i \in DOMAIN hosts}

\* sort.Strings: the hosts, each once, by rising name.
LEMMA SortedIs ==
  ASSUME NEW hosts \in Seq(Hostnames)
  PROVE  LET n == Cardinality(Elements(hosts))
         IN  /\ Lists(Sorted(hosts), n, Elements(hosts), Rank)
             /\ Sorted(hosts) \in Seq(Hostnames)
             /\ Len(Sorted(hosts)) = n
             /\ Elements(Sorted(hosts)) = Elements(hosts)
<1> DEFINE S == Elements(hosts)
<1> DEFINE n == Cardinality(S)
<1> DEFINE o == Sorted(hosts)
<1>1. /\ DOMAIN hosts = 1 .. Len(hosts) /\ Len(hosts) \in Nat
      /\ \A i \in DOMAIN hosts : hosts[i] \in Hostnames
  BY LenProperties, ElementOfSeq
<1>2. S \subseteq Hostnames
  BY <1>1 DEF Elements
<1>3. IsFiniteSet(S)
  <2>1. hosts \in [DOMAIN hosts -> S] /\ \A x \in S : \E i \in DOMAIN hosts : hosts[i] = x
    <3>1. hosts \in [1 .. Len(hosts) -> Hostnames]
      BY LenProperties
    <3> QED BY <1>1, <3>1 DEF Elements
  <2>2. hosts \in Surjection(DOMAIN hosts, S)
    <3> HIDE DEF S
    <3> QED BY <2>1 DEF Surjection
  <2>3. IsFiniteSet(DOMAIN hosts)
    BY PositionsFinite
  <2> HIDE DEF S
  <2> QED BY <2>2, <2>3, FS_Surjection
<1>4. Ranks(S, Rank)
  BY <1>2, <1>3, RanksDiffer DEF Ranks
<1>5. o = Ordered(S, Rank)
  BY DEF Sorted, Elements
<1>6. Lists(o, n, S, Rank)
  BY <1>4, <1>5, OrderedLists
<1> HIDE DEF S, n, o
<1>7. n \in Nat /\ o \in [1 .. n -> S] /\ \A x \in S : \E i \in 1 .. n : o[i] = x
  BY <1>6 DEF Lists
<1>8. o \in [1 .. n -> Hostnames] /\ DOMAIN o = 1 .. n
  BY <1>2, <1>7
<1>9. o \in Seq(Hostnames)
  BY <1>7, <1>8, IsASeq
<1>10. Len(o) = n
  BY <1>7, <1>8, <1>9, LenProperties
<1>11. Elements(o) = S
  BY <1>7, <1>8 DEF Elements
<1> QED BY <1>6, <1>9, <1>10, <1>11 DEF S, n, o

\* The hosts that go through tunnel t.
On(hosts, decl, t) == {h \in Elements(hosts) : decl[h].tunnel = t}

\* Grouping by tunnel picks the hosts declared on it, and only those.
LEMMA OfTunnelIs ==
  ASSUME NEW hosts \in Seq(Hostnames), NEW decl, NEW t
  PROVE  /\ OfTunnel(hosts, decl, t) \in Seq(Hostnames)
         /\ Elements(OfTunnel(hosts, decl, t)) = On(hosts, decl, t)
<1> DEFINE I == {i \in DOMAIN hosts : decl[hosts[i]].tunnel = t}
<1> DEFINE some == OfTunnel(hosts, decl, t)
<1>1. some = Picked(hosts, I) /\ I \in SUBSET DOMAIN hosts
  BY DEF OfTunnel
<1>2. /\ some \in Seq(Hostnames)
      /\ \A k \in DOMAIN some : \E i \in I : some[k] = hosts[i]
      /\ \A i \in I : \E k \in DOMAIN some : some[k] = hosts[i]
  <2> HIDE DEF some, I
  <2> QED BY <1>1, PickedElements
<1> HIDE DEF some
<1>3. Elements(some) = On(hosts, decl, t)
  BY <1>2 DEF Elements, On
<1> QED BY <1>2, <1>3 DEF some

\* What a host declares, and the default, are services or left out.
Serviced(hosts, decl, configured) ==
  /\ \A h \in Elements(hosts) : decl[h].service \in Services \cup {Undeclared}
  /\ configured \in Services \cup {Undeclared}

\* A derived rule is a rule for its host and service.
LEMMA DerivedIs ==
  ASSUME NEW h \in Hostnames \cup {NoHost}, NEW service \in Services
  PROVE  /\ Derived(h, service) \in Rule
         /\ Derived(h, service).hostname = h
         /\ Derived(h, service).service = service
         /\ Authored(Derived(h, service))
<1>1. EnsureMatchSNI(Absent, service) \in Request
  BY EnsureKeeps DEF Request
<1> QED BY <1>1 DEF Derived, Rule, Request, Authored

\* A declaration and a default give a service.
LEMMA ServiceIs ==
  ASSUME NEW declared \in Services \cup {Undeclared}, NEW default \in Services
  PROVE  Service(declared, default) \in Services
BY DEF Service

\* deriveIngressPlan: a rule for every host of the tunnel with the service the
\* host is to have, and one for all traffic behind them, with nothing else.
THEOREM PlanIs ==
  ASSUME NEW hosts \in Seq(Hostnames), NEW decl, NEW t, NEW configured,
         Serviced(hosts, decl, configured)
  PROVE  LET plan == Plan(hosts, decl, t, configured)
             mine == On(hosts, decl, t)
         IN  /\ plan \in Seq(Rule)
             /\ plan = <<>> <=> mine = {}
             /\ HostsOf(plan) = mine
             /\ mine # {} =>
                  /\ Len(plan) \in DOMAIN plan
                  /\ \A i \in DOMAIN plan : plan[i].hostname = NoHost <=> i = Len(plan)
             /\ \A i \in DOMAIN plan :
                  plan[i].hostname # NoHost =>
                    plan[i].service = Service(decl[plan[i].hostname].service,
                                              Service(configured, DefaultService))
             /\ \A i \in DOMAIN plan : Authored(plan[i])
             /\ OnePerHost(plan)
<1> DEFINE default == Service(configured, DefaultService)
<1> DEFINE some == OfTunnel(hosts, decl, t)
<1> DEFINE mine == Sorted(some)
<1> DEFINE given == [h \in Hostnames |-> Derived(h, Service(decl[h].service, default))]
<1> DEFINE rule(i) == given[mine[i]]
<1> DEFINE rules == [i \in DOMAIN mine |-> rule(i)]
<1> DEFINE last == Derived(NoHost, default)
<1> DEFINE plan == Plan(hosts, decl, t, configured)
<1>1. plan = IF mine = <<>> THEN <<>> ELSE rules \o <<last>>
  BY DEF Plan
<1>2. default \in Services
  BY ServiceIs, ServicesTyped DEF Serviced
<1>3. last \in Rule /\ last.hostname = NoHost /\ Authored(last)
  <2> HIDE DEF default
  <2> QED BY <1>2, DerivedIs
<1>4. /\ mine \in Seq(Hostnames) /\ Elements(mine) = On(hosts, decl, t)
      /\ \A i, j \in 1 .. Len(mine) : i < j => Rank[mine[i]] < Rank[mine[j]]
  <2>1. some \in Seq(Hostnames) /\ Elements(some) = On(hosts, decl, t)
    BY OfTunnelIs
  <2> HIDE DEF some
  <2> QED BY <2>1, SortedIs DEF Lists
<1> HIDE DEF default, some, mine, last
<1>5. /\ DOMAIN mine = 1 .. Len(mine) /\ Len(mine) \in Nat
      /\ \A i \in DOMAIN mine : mine[i] \in Hostnames
  BY <1>4, LenProperties, ElementOfSeq
<1>6. ASSUME NEW i \in DOMAIN mine
      PROVE  /\ rule(i) \in Rule
             /\ rule(i).hostname = mine[i]
             /\ rule(i).service = Service(decl[mine[i]].service, default)
             /\ Authored(rule(i))
  <2>1. mine[i] \in On(hosts, decl, t)
    BY <1>4 DEF Elements
  <2>2. Service(decl[mine[i]].service, default) \in Services
    BY <1>2, <2>1, ServiceIs DEF On, Serviced
  <2>3. rule(i) = Derived(mine[i], Service(decl[mine[i]].service, default))
    BY <1>5
  <2> HIDE DEF rule
  <2> QED BY <1>5, <2>2, <2>3, DerivedIs
<1> HIDE DEF rule, given
<1>7. rules \in Seq(Rule) /\ Len(rules) = Len(mine) /\ DOMAIN rules = 1 .. Len(mine)
  <2>1. rules \in [1 .. Len(mine) -> Rule]
    BY <1>5, <1>6
  <2>2. rules \in Seq(Rule)
    BY <1>5, <2>1, IsASeq
  <2> QED BY <1>5, <2>2, LenProperties
<1>8. CASE mine = <<>>
  <2>1. On(hosts, decl, t) = {}
    <3>1. Len(mine) = 0
      BY <1>8, EmptySeq
    <3> QED BY <1>4, <1>5, <3>1 DEF Elements
  <2>2. plan = <<>> /\ plan \in Seq(Rule) /\ DOMAIN plan = {}
    <3>1. plan = <<>> /\ <<>> \in Seq(Rule) /\ Len(<<>>) = 0
      BY <1>1, <1>8, EmptySeq
    <3> QED BY <3>1, LenProperties
  <2> HIDE DEF plan
  <2>3. HostsOf(plan) = {} /\ OnePerHost(plan)
    BY <2>2 DEF HostsOf, OnePerHost
  <2> QED BY <2>1, <2>2, <2>3 DEF plan
<1>9. CASE mine # <<>>
  <2> DEFINE n == Len(mine)
  <2> HIDE DEF rules
  <2>1. n > 0
    BY <1>4, <1>9, EmptySeq
  <2>2. /\ <<last>> \in Seq(Rule) /\ Len(<<last>>) = 1
        /\ <<last>>[1] = last
    BY <1>3
  <2>3. /\ plan \in Seq(Rule)
        /\ Len(plan) = n + 1
        /\ DOMAIN plan = 1 .. n + 1
        /\ \A i \in 1 .. n : plan[i] = rules[i]
        /\ plan[n + 1] = last
    <3>1. plan = rules \o <<last>>
      BY <1>1, <1>9
    <3> HIDE DEF plan
    <3>2. 1 \in 1 .. Len(<<last>>)
      BY <2>2
    <3> QED BY <1>7, <2>2, <3>1, <3>2, ConcatRules
  <2> HIDE DEF plan
  <2>4. \A i \in 1 .. n : /\ plan[i].hostname = mine[i]
                          /\ plan[i].hostname # NoHost
                          /\ plan[i].service = Service(decl[mine[i]].service, default)
                          /\ Authored(plan[i])
    BY <1>5, <1>6, <2>3, BlanksDiffer DEF rules
  <2>5. \A i \in 1 .. n + 1 : i = n + 1 \/ i \in 1 .. n
    BY <1>5
  <2>6. n + 1 \in 1 .. n + 1 /\ n + 1 \notin 1 .. n /\ 1 \in 1 .. n
    BY <1>5, <2>1
  <2>7. HostsOf(plan) = {mine[i] : i \in 1 .. n}
    <3>1. ASSUME NEW i \in 1 .. n
          PROVE  i \in 1 .. n + 1
      BY <1>5
    <3> QED BY <1>3, <2>3, <2>4, <2>5, <3>1 DEF HostsOf
  <2>8. HostsOf(plan) = On(hosts, decl, t)
    BY <1>4, <1>5, <2>7 DEF Elements
  <2>9. On(hosts, decl, t) # {} /\ plan # <<>>
    <3>1. mine[1] \in HostsOf(plan)
      BY <2>6, <2>7
    <3>2. Len(plan) # 0 /\ Len(<<>>) = 0
      BY <1>5, <2>3
    <3> QED BY <2>8, <3>1, <3>2
  <2>10. /\ Len(plan) \in DOMAIN plan
         /\ \A i \in DOMAIN plan : plan[i].hostname = NoHost <=> i = Len(plan)
         /\ \A i \in DOMAIN plan :
              plan[i].hostname # NoHost =>
                plan[i].service = Service(decl[plan[i].hostname].service, default)
    BY <1>3, <2>3, <2>4, <2>5, <2>6
  <2>11. \A i \in DOMAIN plan : Authored(plan[i])
    BY <1>3, <2>3, <2>4, <2>5
  <2>12. \A i, j \in 1 .. n : i < j => mine[i] # mine[j]
    <3>1. \A i \in 1 .. n : Rank[mine[i]] \in Nat
      BY <1>5, RanksDiffer
    <3> QED BY <1>4, <3>1
  <2>13. OnePerHost(plan)
    <3> SUFFICES ASSUME NEW i \in 1 .. n + 1, NEW j \in 1 .. n + 1, i # j
                 PROVE  plan[i].hostname # plan[j].hostname
      BY <2>3 DEF OnePerHost
    <3>1. CASE i \in 1 .. n /\ j \in 1 .. n
      <4>1. i < j \/ j < i
        BY <3>1
      <4> QED BY <2>4, <2>12, <3>1, <4>1
    <3>2. CASE i = n + 1 \/ j = n + 1
      BY <1>3, <2>3, <2>4, <2>5, <3>2
    <3> QED BY <2>5, <3>1, <3>2
  <2> QED BY <2>3, <2>8, <2>9, <2>10, <2>11, <2>13 DEF default, plan
<1> QED BY <1>8, <1>9

\* The plan does not depend on the order in which hosts were provisioned.
THEOREM PlanDeterministic ==
  ASSUME NEW hosts \in Seq(Hostnames), NEW others \in Seq(Hostnames),
         Elements(hosts) = Elements(others), NEW decl, NEW t, NEW configured
  PROVE  Plan(hosts, decl, t, configured) = Plan(others, decl, t, configured)
<1>1. On(hosts, decl, t) = On(others, decl, t)
  BY DEF On
<1>2. Elements(OfTunnel(hosts, decl, t)) = Elements(OfTunnel(others, decl, t))
  BY <1>1, OfTunnelIs
<1>3. Sorted(OfTunnel(hosts, decl, t)) = Sorted(OfTunnel(others, decl, t))
  BY <1>2 DEF Sorted, Elements
<1> QED BY <1>3 DEF Plan

----------------------------------------------------------------------------
(* The merge and the pruning.                                              *)

\* A plan as PlanIs describes it: one rule for all traffic, the last.
Terminated(plan) ==
  /\ plan \in Seq(Rule)
  /\ Len(plan) \in DOMAIN plan
  /\ \A i \in DOMAIN plan : plan[i].hostname = NoHost <=> i = Len(plan)

\* mergeIngressPlan: the planned rules are there as planned, the last rule and
\* no other one is for all traffic, and of the hosts before only those that
\* are pruned and not planned are gone.
THEOREM MergedIs ==
  ASSUME NEW current \in Seq(Rule), NEW plan, Terminated(plan), NEW pruned
  PROVE  LET new == Merged(current, plan, pruned)
         IN  /\ Terminated(new)
             /\ HostsOf(new) = (HostsOf(current) \ pruned) \cup HostsOf(plan)
             /\ \A j \in DOMAIN plan : \E i \in DOMAIN new :
                  /\ new[i].hostname = plan[j].hostname
                  /\ new[i].service = plan[j].service
                  /\ Matches(new[i])
<1> DEFINE gone == HostsOf(plan) \cup pruned \cup {NoHost}
<1> DEFINE kept == Without(current, gone)
<1> DEFINE a == Inherited(kept, current)
<1> DEFINE b == Inherited(plan, current)
<1> DEFINE new == Merged(current, plan, pruned)
<1>1. new = a \o b
  BY DEF Merged, Preserved
<1>2. /\ kept \in Seq(Rule)
      /\ \A k \in DOMAIN kept : kept[k].hostname # NoHost
      /\ HostsOf(kept) = HostsOf(current) \ gone
  <2>1. /\ kept \in Seq(Rule)
        /\ \A k \in DOMAIN kept : \E i \in Elsewhere(current, gone) : kept[k] = current[i]
        /\ HostsOf(kept) = HostsOf(current) \ gone
    <3> HIDE DEF gone
    <3> QED BY WithoutIs
  <2>2. \A i \in Elsewhere(current, gone) : current[i].hostname # NoHost
    BY DEF Elsewhere
  <2> HIDE DEF kept
  <2> QED BY <2>1, <2>2
<1>3. plan \in Seq(Rule) /\ DOMAIN plan = 1 .. Len(plan) /\ Len(plan) \in Nat
  BY LenProperties DEF Terminated
<1>4. DOMAIN kept = 1 .. Len(kept) /\ Len(kept) \in Nat
  <2> HIDE DEF kept
  <2> QED BY <1>2, LenProperties
<1> HIDE DEF kept
<1>5. /\ a \in Seq(Rule) /\ Len(a) = Len(kept) /\ HostsOf(a) = HostsOf(kept)
      /\ \A i \in 1 .. Len(kept) : a[i].hostname # NoHost
  <2>1. /\ a \in Seq(Rule) /\ Len(a) = Len(kept) /\ HostsOf(a) = HostsOf(kept)
        /\ \A i \in DOMAIN kept : a[i].hostname = kept[i].hostname
    BY <1>2, InheritedHosts
  <2> QED BY <1>2, <1>4, <2>1
<1>6. /\ b \in Seq(Rule) /\ Len(b) = Len(plan) /\ HostsOf(b) = HostsOf(plan)
      /\ \A j \in 1 .. Len(plan) :
           /\ b[j].hostname = plan[j].hostname
           /\ b[j].service = plan[j].service
           /\ Matches(b[j])
  <2>1. /\ b \in Seq(Rule) /\ Len(b) = Len(plan) /\ HostsOf(b) = HostsOf(plan)
        /\ \A j \in DOMAIN plan :
             /\ b[j].hostname = plan[j].hostname
             /\ b[j].service = plan[j].service
             /\ Matches(b[j])
    BY <1>3, InheritedHosts
  <2> QED BY <1>3, <2>1
<1> HIDE DEF a, b, new
<1> DEFINE n == Len(kept)
<1> DEFINE m == Len(plan)
<1>7. /\ new \in Seq(Rule) /\ Len(new) = n + m /\ DOMAIN new = 1 .. n + m
      /\ \A i \in 1 .. n : new[i] = a[i]
      /\ \A i \in 1 .. m : new[n + i] = b[i]
      /\ HostsOf(new) = HostsOf(a) \cup HostsOf(b)
  <2>1. /\ a \o b \in Seq(Rule)
        /\ Len(a \o b) = Len(a) + Len(b)
        /\ DOMAIN (a \o b) = 1 .. Len(a) + Len(b)
        /\ \A i \in 1 .. Len(a) : (a \o b)[i] = a[i]
        /\ \A i \in 1 .. Len(b) : (a \o b)[Len(a) + i] = b[i]
        /\ HostsOf(a \o b) = HostsOf(a) \cup HostsOf(b)
    BY <1>5, <1>6, ConcatRules
  <2> QED BY <1>1, <1>5, <1>6, <2>1
<1>8. m > 0 /\ \A j \in 1 .. m : n + j \in 1 .. n + m
  BY <1>3, <1>4 DEF Terminated
<1>9. \A i \in 1 .. n + m : i \in 1 .. n \/ (i - n \in 1 .. m /\ i = n + (i - n))
  BY <1>3, <1>4
<1>10. \A i \in 1 .. n + m : new[i].hostname = NoHost <=> i = n + m
  <2> SUFFICES ASSUME NEW i \in 1 .. n + m
               PROVE  new[i].hostname = NoHost <=> i = n + m
    OBVIOUS
  <2>1. CASE i \in 1 .. n
    BY <1>3, <1>4, <1>5, <1>7, <1>8, <2>1
  <2>2. CASE i - n \in 1 .. m /\ i = n + (i - n)
    <3>1. new[i].hostname = plan[i - n].hostname
      BY <1>6, <1>7, <2>2
    <3>2. plan[i - n].hostname = NoHost <=> i - n = m
      BY <1>3, <2>2 DEF Terminated
    <3>3. i - n = m <=> i = n + m
      BY <1>3, <1>4
    <3> QED BY <3>1, <3>2, <3>3
  <2> QED BY <1>9, <2>1, <2>2
<1>11. Terminated(new)
  BY <1>3, <1>4, <1>7, <1>8, <1>10 DEF Terminated
<1>12. HostsOf(new) = (HostsOf(current) \ pruned) \cup HostsOf(plan)
  <2>1. HostsOf(current) \ gone = HostsOf(current) \ (HostsOf(plan) \cup pruned)
    BY DEF HostsOf
  <2> QED BY <1>2, <1>5, <1>6, <1>7, <2>1
<1>13. \A j \in 1 .. m : \E i \in DOMAIN new : new[i] = b[j]
  BY <1>7, <1>8
<1> QED BY <1>3, <1>6, <1>11, <1>12, <1>13 DEF new

\* The rules at hostnames in H.
Among(rules, H) == Picked(rules, {i \in DOMAIN rules : rules[i].hostname \in H})

\* Rule b is rule a, with other values at most for what is not compared.
Carries(a, b) ==
  /\ a.hostname = b.hostname
  /\ a.service = b.service
  /\ KeepsOptions(a.originRequest, b.originRequest)

\* A list that starts with the rules of current at positions I has the rules
\* at hostnames in H in their order, if current has them all at positions in I
\* and the rest of the list has none.
LEMMA AmongKept ==
  ASSUME NEW current \in Seq(Rule), NEW I \in SUBSET DOMAIN current, NEW H,
         NEW new \in Seq(Rule), Cardinality(I) <= Len(new),
         \A k \in 1 .. Cardinality(I) : Carries(current[Places(I)[k]], new[k]),
         \A i \in DOMAIN current : current[i].hostname \in H => i \in I,
         \A k \in DOMAIN new : new[k].hostname \in H => k <= Cardinality(I)
  PROVE  /\ Len(Among(current, H)) = Len(Among(new, H))
         /\ \A i \in DOMAIN Among(current, H) : Carries(Among(current, H)[i], Among(new, H)[i])
<1> DEFINE n == Cardinality(I)
<1> DEFINE p == Places(I)
<1> DEFINE J == {i \in DOMAIN current : current[i].hostname \in H}
<1> DEFINE K == {k \in DOMAIN new : new[k].hostname \in H}
<1> DEFINE inside == {k \in 1 .. n : p[k] \in J}
<1>1. I \in SUBSET Nat /\ IsFiniteSet(I) /\ Enumerates(p, n, I)
  <2>1. I \in SUBSET Nat /\ IsFiniteSet(I)
    BY PositionsFinite
  <2> QED BY <2>1, PlacesEnumerate
<1>2. J \in SUBSET I
  OBVIOUS
<1>3. /\ Cardinality(inside) = Cardinality(J)
      /\ \A i \in 1 .. Cardinality(J) : Places(J)[i] = p[Places(inside)[i]]
  <2> HIDE DEF J
  <2> QED BY <1>1, <1>2, PlacesWithin
<1>4. inside = K
  <2>1. DOMAIN new = 1 .. Len(new) /\ Len(new) \in Nat /\ n \in Nat
    BY <1>1, LenProperties DEF Enumerates
  <2>2. \A k \in 1 .. n : k \in DOMAIN new /\ p[k] \in DOMAIN current
    BY <1>1, <2>1 DEF Enumerates
  <2>3. \A k \in 1 .. n : p[k] \in J <=> new[k].hostname \in H
    BY <2>2 DEF Carries
  <2>4. \A k \in DOMAIN new : new[k].hostname \in H => k \in 1 .. n
    BY <2>1
  <2> HIDE DEF J, n, p
  <2> QED BY <2>2, <2>3, <2>4
<1>5. /\ Among(current, H) = Picked(current, J)
      /\ Among(new, H) = Picked(new, K)
  BY DEF Among
<1>6. /\ J \in SUBSET DOMAIN current
      /\ K \in SUBSET DOMAIN new
  OBVIOUS
<1>7. \A k \in K : k \in 1 .. n
  BY <1>4
<1> HIDE DEF J, K, inside
<1>8. /\ Len(Among(current, H)) = Cardinality(J)
      /\ DOMAIN Among(current, H) = 1 .. Cardinality(J)
      /\ \A i \in 1 .. Cardinality(J) : Among(current, H)[i] = current[Places(J)[i]]
  BY <1>5, <1>6, PickedIs
<1>9. /\ Len(Among(new, H)) = Cardinality(K)
      /\ Enumerates(Places(K), Cardinality(K), K)
      /\ \A i \in 1 .. Cardinality(K) : Among(new, H)[i] = new[Places(K)[i]]
  BY <1>5, <1>6, PickedIs
<1>10. Cardinality(K) = Cardinality(J)
  BY <1>3, <1>4
<1>11. ASSUME NEW i \in 1 .. Cardinality(J)
       PROVE  Carries(Among(current, H)[i], Among(new, H)[i])
  <2>1. Places(K)[i] \in 1 .. n
    BY <1>7, <1>9, <1>10 DEF Enumerates
  <2>2. Among(current, H)[i] = current[p[Places(K)[i]]]
    BY <1>3, <1>4, <1>8
  <2>3. Among(new, H)[i] = new[Places(K)[i]]
    BY <1>9, <1>10
  <2> QED BY <2>1, <2>2, <2>3
<1> QED BY <1>8, <1>9, <1>10, <1>11

\* What a merge keeps of the rules at hosts that are not planned: all of them,
\* in their order, with what the plugin does not manage.
THEOREM MergedKeeps ==
  ASSUME NEW current \in Seq(Rule), NEW plan, Terminated(plan), NEW pruned,
         NEW H, H \subseteq HostsOf(Merged(current, plan, pruned)) \ HostsOf(plan)
  PROVE  LET new == Merged(current, plan, pruned)
         IN  /\ Len(Among(current, H)) = Len(Among(new, H))
             /\ \A i \in DOMAIN Among(current, H) :
                  Carries(Among(current, H)[i], Among(new, H)[i])
<1> DEFINE gone == HostsOf(plan) \cup pruned \cup {NoHost}
<1> DEFINE I == Elsewhere(current, gone)
<1> DEFINE kept == Without(current, gone)
<1> DEFINE a == Inherited(kept, current)
<1> DEFINE b == Inherited(plan, current)
<1> DEFINE new == Merged(current, plan, pruned)
<1> DEFINE n == Cardinality(I)
<1>1. new = a \o b
  BY DEF Merged, Preserved
<1>2. I \in SUBSET DOMAIN current /\ kept = Picked(current, I)
  BY DEF Elsewhere, Without
<1>3. \A i \in DOMAIN current : current[i].hostname \in H => i \in I
  <2>1. HostsOf(new) = (HostsOf(current) \ pruned) \cup HostsOf(plan)
    BY MergedIs
  <2>2. \A h \in H : h \notin HostsOf(plan) \cup pruned
    <3>1. \A h \in H : h \in HostsOf(new) /\ h \notin HostsOf(plan)
      OBVIOUS
    <3> HIDE DEF new
    <3> QED BY <2>1, <3>1
  <2>3. NoHost \notin H
    BY DEF HostsOf
  <2> QED BY <2>2, <2>3 DEF Elsewhere
<1> HIDE DEF I, kept
<1>4. /\ kept \in Seq(Rule) /\ Len(kept) = n /\ DOMAIN kept = 1 .. n
      /\ \A k \in 1 .. n : kept[k] = current[Places(I)[k]]
  BY <1>2, PickedIs
<1>5. /\ a \in Seq(Rule) /\ Len(a) = n
      /\ \A k \in 1 .. n : Carries(kept[k], a[k])
  <2>1. /\ a \in Seq(Rule) /\ Len(a) = Len(kept)
        /\ \A k \in DOMAIN kept : /\ a[k].hostname = kept[k].hostname
                                  /\ a[k].service = kept[k].service
                                  /\ KeepsOptions(kept[k].originRequest, a[k].originRequest)
    BY <1>4, InheritedHosts
  <2> HIDE DEF a
  <2> QED BY <1>4, <2>1 DEF Carries
<1>6. /\ b \in Seq(Rule) /\ HostsOf(b) = HostsOf(plan)
  BY InheritedHosts DEF Terminated
<1> HIDE DEF a, b
<1>7. /\ a \o b \in Seq(Rule)
      /\ Len(a \o b) = Len(a) + Len(b)
      /\ DOMAIN (a \o b) = 1 .. Len(a) + Len(b)
      /\ \A i \in 1 .. Len(a) : (a \o b)[i] = a[i]
      /\ \A i \in 1 .. Len(b) : (a \o b)[Len(a) + i] = b[i]
  BY <1>5, <1>6, ConcatRules
<1> HIDE DEF new
<1>8. n \in Nat /\ Len(b) \in Nat /\ DOMAIN b = 1 .. Len(b)
  <2>1. Len(kept) \in Nat
    BY <1>4, LenProperties
  <2>2. Len(b) \in Nat /\ DOMAIN b = 1 .. Len(b)
    BY <1>6, LenProperties
  <2> QED BY <1>4, <2>1, <2>2
<1>9. /\ new \in Seq(Rule)
      /\ Len(new) = n + Len(b)
      /\ DOMAIN new = 1 .. n + Len(b)
      /\ \A k \in 1 .. n : new[k] = a[k]
      /\ \A k \in 1 .. Len(b) : new[n + k] = b[k]
  <2> HIDE DEF n
  <2> QED BY <1>1, <1>5, <1>7
<1>10. \A k \in 1 .. n : Carries(current[Places(I)[k]], new[k])
  BY <1>4, <1>5, <1>9
<1>11. ASSUME NEW k \in DOMAIN new, new[k].hostname \in H
       PROVE  k <= n
  <2> SUFFICES ASSUME k > n
               PROVE  FALSE
    BY <1>8, <1>9
  <2>1. k - n \in 1 .. Len(b) /\ k = n + (k - n)
    BY <1>8, <1>9
  <2>2. new[k].hostname = b[k - n].hostname
    BY <1>9, <2>1
  <2>3. b[k - n].hostname \in HostsOf(b) \cup {NoHost}
    BY <1>8, <2>1 DEF HostsOf
  <2> QED BY <1>6, <1>11, <2>2, <2>3 DEF HostsOf
<1>12. n <= Len(new)
  BY <1>8, <1>9
<1>13. /\ Len(Among(current, H)) = Len(Among(new, H))
       /\ \A i \in DOMAIN Among(current, H) : Carries(Among(current, H)[i], Among(new, H)[i])
  BY <1>2, <1>3, <1>9, <1>10, <1>11, <1>12, AmongKept
<1> QED BY <1>13 DEF new

\* A list with a rule for all traffic only at its end catches all.
LEMMA TerminatedCatches ==
  ASSUME NEW rules, Terminated(rules)
  PROVE  CatchesAll(rules)
<1>1. rules \in Seq(Rule) /\ DOMAIN rules = 1 .. Len(rules) /\ Len(rules) \in Nat
  BY LenProperties DEF Terminated
<1>2. Len(rules) \in 1 .. Len(rules)
  BY <1>1 DEF Terminated
<1>3. rules # <<>>
  <2>1. Len(rules) # 0 /\ Len(<<>>) = 0
    BY <1>1, <1>2
  <2> QED BY <2>1
<1>4. \A i \in 1 .. Len(rules) - 1 : i \in 1 .. Len(rules) /\ i # Len(rules)
  <2>1. Len(rules) \in Nat
    BY <1>1
  <2> QED BY <2>1
<1> QED BY <1>1, <1>2, <1>3, <1>4 DEF Terminated, CatchesAll

\* pruneOnlyIngress: of the hosts only the pruned ones that are not declared
\* are gone, and the rule for all traffic stays the last.
THEOREM PrunedOnlyIs ==
  ASSUME NEW current \in Seq(Rule), NEW pruned \in SUBSET Hostnames, NEW declared
  PROVE  LET new == PrunedOnly(current, pruned, declared)
         IN  /\ new \in Seq(Rule)
             /\ HostsOf(new) = HostsOf(current) \ (pruned \ declared)
             /\ current = <<>> => new = current
             /\ CatchesAll(current) => CatchesAll(new)
<1> DEFINE I == Elsewhere(current, pruned \ declared)
<1> DEFINE new == PrunedOnly(current, pruned, declared)
<1>1. /\ new = Without(current, pruned \ declared)
      /\ new = Picked(current, I)
      /\ I \in SUBSET DOMAIN current
  BY DEF PrunedOnly, Without, Elsewhere
<1>2. new \in Seq(Rule) /\ HostsOf(new) = HostsOf(current) \ (pruned \ declared)
  BY <1>1, WithoutIs
<1>3. DOMAIN current = 1 .. Len(current) /\ Len(current) \in Nat
  BY LenProperties
<1>4. ASSUME current = <<>>
      PROVE  new = current
  <2>1. DOMAIN current = {}
    BY <1>3, <1>4, EmptySeq
  <2>2. \A k \in DOMAIN new : FALSE
    <3> HIDE DEF new, I
    <3> QED BY <1>1, <2>1, PickedElements
  <2>3. DOMAIN new = 1 .. Len(new) /\ Len(new) \in Nat
    BY <1>2, LenProperties
  <2>4. Len(new) = 0
    <3> HIDE DEF new
    <3>1. Len(new) # 0 => 1 \in 1 .. Len(new)
      BY <2>3
    <3> QED BY <2>2, <2>3, <3>1
  <2> QED BY <1>2, <1>4, <2>4, EmptySeq
<1>5. ASSUME CatchesAll(current)
      PROVE  CatchesAll(new)
  <2>1. Len(current) \in I
    <3>1. Len(current) \in DOMAIN current
      <4>1. Len(current) # 0
        BY <1>5, EmptySeq DEF CatchesAll
      <4> QED BY <1>3, <4>1
    <3>2. NoHost \notin pruned
      BY BlanksDiffer
    <3> QED BY <1>5, <3>1, <3>2 DEF CatchesAll, Elsewhere
  <2>2. /\ Len(new) \in DOMAIN new
        /\ new[Len(new)] = current[Len(current)]
        /\ \A k \in 1 .. Len(new) - 1 : \E i \in 1 .. Len(current) - 1 : new[k] = current[i]
    <3> DEFINE r == Picked(current, I)
    <3> HIDE DEF I, new
    <3>1. /\ Len(r) \in DOMAIN r
          /\ r[Len(r)] = current[Len(current)]
          /\ \A k \in 1 .. Len(r) - 1 : \E i \in 1 .. Len(current) - 1 : r[k] = current[i]
      BY <1>1, <2>1, PickedLast
    <3> QED BY <1>1, <3>1
  <2>3. new # <<>>
    <3>1. DOMAIN new = 1 .. Len(new)
      BY <1>2, LenProperties
    <3>2. Len(new) # 0
      BY <2>2, <3>1
    <3> QED BY <3>2, EmptySeq
  <2> HIDE DEF new
  <2> QED BY <1>5, <2>2, <2>3 DEF CatchesAll
<1> QED BY <1>2, <1>4, <1>5

\* What is left of the rules at hosts that are not pruned is what there was.
THEOREM PrunedOnlyKeeps ==
  ASSUME NEW current \in Seq(Rule), NEW pruned \in SUBSET Hostnames, NEW declared,
         NEW H, H \subseteq HostsOf(PrunedOnly(current, pruned, declared))
  PROVE  LET new == PrunedOnly(current, pruned, declared)
         IN  /\ Len(Among(current, H)) = Len(Among(new, H))
             /\ \A i \in DOMAIN Among(current, H) :
                  Carries(Among(current, H)[i], Among(new, H)[i])
<1> DEFINE I == Elsewhere(current, pruned \ declared)
<1> DEFINE new == PrunedOnly(current, pruned, declared)
<1> DEFINE n == Cardinality(I)
<1>1. new = Picked(current, I) /\ I \in SUBSET DOMAIN current
  BY DEF PrunedOnly, Without, Elsewhere
<1>2. \A i \in DOMAIN current : current[i].hostname \in H => i \in I
  <2>1. HostsOf(new) = HostsOf(current) \ (pruned \ declared)
    BY PrunedOnlyIs
  <2>2. \A h \in H : h \notin pruned \ declared
    <3>1. \A h \in H : h \in HostsOf(new)
      OBVIOUS
    <3> HIDE DEF new
    <3> QED BY <2>1, <3>1
  <2> QED BY <2>2 DEF Elsewhere
<1> HIDE DEF I, new
<1>3. /\ new \in Seq(Rule) /\ Len(new) = n /\ DOMAIN new = 1 .. n
      /\ \A k \in 1 .. n : new[k] = current[Places(I)[k]]
  BY <1>1, PickedIs
<1>4. n \in Nat
  BY <1>3, LenProperties
<1>5. \A k \in 1 .. n : Carries(current[Places(I)[k]], new[k])
  <2>1. \A r \in Rule : Carries(r, r)
    BY DEF Carries, KeepsOptions
  <2>2. \A k \in 1 .. n : new[k] \in Rule
    BY <1>3, ElementOfSeq
  <2> QED BY <1>3, <2>1, <2>2
<1>6. (\A k \in DOMAIN new : new[k].hostname \in H => k <= n) /\ n <= Len(new)
  BY <1>3, <1>4
<1>7. /\ Len(Among(current, H)) = Len(Among(new, H))
      /\ \A i \in DOMAIN Among(current, H) : Carries(Among(current, H)[i], Among(new, H)[i])
  BY <1>1, <1>2, <1>3, <1>5, <1>6, AmongKept
<1> QED BY <1>7 DEF new

----------------------------------------------------------------------------
(* What a second merge finds: rules that call for no change.               *)

\* Request b has every option of request a, with whatever value.
Includes(b, a) == a # Absent => b # Absent /\ DOMAIN a \subseteq DOMAIN b

\* EnsureMatchSNI returns a request that has the managed option as it is.
LEMMA EnsureSame ==
  ASSUME NEW a \in Request, NEW service, WantsMatchSNI(service) => HasMatchSNI(a)
  PROVE  EnsureMatchSNI(a, service) = a
<1>1. CASE ~WantsMatchSNI(service)
  BY <1>1 DEF EnsureMatchSNI
<1>2. CASE WantsMatchSNI(service)
  <2>1. a # Absent /\ SNI \in DOMAIN a /\ a[SNI] = Yes
    BY <1>2 DEF HasMatchSNI
  <2>2. a \in [DOMAIN a -> Values]
    BY <2>1, RequestIs
  <2>3. EnsureMatchSNI(a, service) = [k \in {SNI} \cup DOMAIN a |-> IF k \in {SNI} THEN Yes ELSE a[k]]
    BY <1>2, <2>1 DEF EnsureMatchSNI, MatchSNI, Over
  <2>4. {SNI} \cup DOMAIN a = DOMAIN a
    BY <2>1
  <2>5. EnsureMatchSNI(a, service) = [k \in DOMAIN a |-> a[k]]
    BY <2>1, <2>3, <2>4
  <2> QED BY <2>2, <2>5
<1> QED BY <1>1, <1>2

\* EnsureMatchSNI loses no option, and adds none but the managed one where it
\* is wanted.
LEMMA EnsureIncludes ==
  ASSUME NEW a \in Request, NEW service
  PROVE  LET b == EnsureMatchSNI(a, service)
         IN  /\ Includes(b, a)
             /\ \A c : Includes(c, a) /\ (WantsMatchSNI(service) => HasMatchSNI(c))
                         => Includes(c, b)
<1> DEFINE b == EnsureMatchSNI(a, service)
<1>1. CASE ~WantsMatchSNI(service)
  BY <1>1 DEF EnsureMatchSNI, Includes
<1>2. CASE WantsMatchSNI(service) /\ a = Absent
  <2>1. b = [k \in {SNI} |-> Yes]
    BY <1>2 DEF EnsureMatchSNI, MatchSNI
  <2> QED BY <1>2, <2>1 DEF Includes, HasMatchSNI
<1>3. CASE WantsMatchSNI(service) /\ a # Absent
  <2>1. b = [k \in {SNI} \cup DOMAIN a |-> IF k \in {SNI} THEN Yes ELSE a[k]]
    BY <1>3 DEF EnsureMatchSNI, MatchSNI, Over
  <2>2. DOMAIN b = {SNI} \cup DOMAIN a
    BY <2>1
  <2>3. b # Absent
    <3>1. b \in Request /\ HasMatchSNI(b)
      BY <1>3, EnsureKeeps
    <3> QED BY <3>1 DEF HasMatchSNI
  <2> HIDE DEF b
  <2>4. Includes(b, a)
    BY <1>3, <2>2, <2>3 DEF Includes
  <2>5. ASSUME NEW c, Includes(c, a), HasMatchSNI(c)
        PROVE  Includes(c, b)
    BY <1>3, <2>2, <2>3, <2>5 DEF Includes, HasMatchSNI
  <2> QED BY <1>3, <2>4, <2>5 DEF b
<1> QED BY <1>1, <1>2, <1>3

\* Overlaying loses no option of either side, and changes nothing where the
\* upper side has all options of the lower one.
LEMMA OverlaidIncludes ==
  ASSUME NEW a \in Request, NEW b \in Request
  PROVE  /\ Includes(Overlaid(a, b), a)
         /\ Includes(b, a) => Overlaid(a, b) = b
         /\ b = Absent => Overlaid(a, b) = a
<1> DEFINE o == Overlaid(a, b)
<1>1. CASE a = Absent \/ b = Absent
  BY <1>1 DEF Overlaid, Includes
<1>2. CASE a # Absent /\ b # Absent
  <2>1. o = [k \in DOMAIN b \cup DOMAIN a |-> IF k \in DOMAIN b THEN b[k] ELSE a[k]]
    BY <1>2 DEF Overlaid, Over
  <2>2. DOMAIN o = DOMAIN b \cup DOMAIN a
    BY <2>1
  <2>3. o # Absent
    <3>1. /\ a \in [DOMAIN a -> Values] /\ DOMAIN a \in SUBSET Keys
          /\ b \in [DOMAIN b -> Values] /\ DOMAIN b \in SUBSET Keys
      BY <1>2, RequestIs
    <3> DEFINE K == DOMAIN b \cup DOMAIN a
    <3>2. o \in [K -> Values] /\ K \in SUBSET Keys
      BY <2>1, <3>1
    <3> QED BY <3>2, IsRequest
  <2>4. ASSUME DOMAIN a \subseteq DOMAIN b
        PROVE  o = b
    <3>1. DOMAIN b \cup DOMAIN a = DOMAIN b
      BY <2>4
    <3>2. o = [k \in DOMAIN b |-> b[k]]
      BY <2>1, <3>1
    <3>3. b \in [DOMAIN b -> Values]
      BY <1>2, RequestIs
    <3> QED BY <3>2, <3>3
  <2> HIDE DEF o
  <2>5. Includes(o, a)
    BY <2>2, <2>3 DEF Includes
  <2>6. Includes(b, a) => o = b
    BY <1>2, <2>4 DEF Includes
  <2> QED BY <1>2, <2>5, <2>6 DEF o
<1> QED BY <1>1, <1>2

\* The donor of a hostname, if there is one, is the last of its rules that has
\* something to hand over.
LEMMA DonorIs ==
  ASSUME NEW rules \in Seq(Rule), NEW h, Donors(rules, h) # {}
  PROVE  LET last == Max(Donors(rules, h))
         IN  /\ last \in Donors(rules, h)
             /\ last \in DOMAIN rules /\ rules[last] \in Rule /\ rules[last].hostname = h
             /\ \A i \in Donors(rules, h) : i <= last
<1> DEFINE D == Donors(rules, h)
<1>1. D \in SUBSET DOMAIN rules /\ D # {}
  BY DEF Donors
<1>2. D \in SUBSET Nat /\ IsFiniteSet(D)
  BY <1>1, PositionsFinite
<1>3. Max(D) \in D /\ \A i \in D : i <= Max(D)
  <2> HIDE DEF D
  <2> QED BY <1>1, <1>2, MaxIs
<1>4. Max(D) \in DOMAIN rules /\ rules[Max(D)].hostname = h
  BY <1>3 DEF Donors
<1>5. \A i \in DOMAIN rules : rules[i] \in Rule
  BY ElementOfSeq, LenProperties
<1> QED BY <1>3, <1>4, <1>5

\* The fields inheritUnmanagedFields gives a rule.
LEMMA InheritingFields ==
  ASSUME NEW current \in Seq(Rule), NEW r \in Rule
  PROVE  LET i == Inheriting(current)[r]
             prev == current[Max(Donors(current, r.hostname))]
             donated == Donors(current, r.hostname) # {}
         IN  /\ i.path = IF donated /\ r.path = NoPath THEN prev.path ELSE r.path
             /\ i.originRequest =
                  EnsureMatchSNI(IF donated THEN Overlaid(prev.originRequest, r.originRequest)
                                 ELSE r.originRequest, r.service)
<1> DEFINE i == Inheriting(current)[r]
<1> DEFINE D == Donors(current, r.hostname)
<1> DEFINE prev == current[Max(D)]
<1>1. CASE D = {}
  <2>1. i = [r EXCEPT !.originRequest = EnsureMatchSNI(r.originRequest, r.service)]
    BY <1>1 DEF Inheriting
  <2> QED BY <1>1, <2>1 DEF Rule
<1>2. CASE D # {}
  <2> DEFINE o == EnsureMatchSNI(Overlaid(prev.originRequest, r.originRequest), r.service)
  <2>1. i = [r EXCEPT !.path = IF r.path = NoPath THEN prev.path ELSE r.path,
                      !.originRequest = o]
    BY <1>2 DEF Inheriting
  <2> HIDE DEF o, prev, D
  <2>2. i.path = (IF r.path = NoPath THEN prev.path ELSE r.path) /\ i.originRequest = o
    BY <2>1 DEF Rule
  <2> QED BY <1>2, <2>2 DEF o, prev, D
<1> QED BY <1>1, <1>2

\* Rules with the same fields are one.
LEMMA SameRule ==
  ASSUME NEW r \in Rule, NEW s \in Rule,
         r.hostname = s.hostname, r.service = s.service,
         r.path = s.path, r.originRequest = s.originRequest
  PROVE  r = s
BY DEF Rule

\* What rule q may hand over, rule r has already.
Covers(r, q) ==
  /\ q.path # NoPath => r.path # NoPath
  /\ Includes(r.originRequest, q.originRequest)

\* A rule with its managed option that the donor has nothing new for stays.
LEMMA InheritingSettles ==
  ASSUME NEW rules \in Seq(Rule), NEW r \in Rule, Matches(r),
         LET D == Donors(rules, r.hostname) IN D # {} => Covers(r, rules[Max(D)])
  PROVE  Inheriting(rules)[r] = r
<1> DEFINE i == Inheriting(rules)[r]
<1> DEFINE D == Donors(rules, r.hostname)
<1> DEFINE prev == rules[Max(D)]
<1>1. i \in Rule /\ i.hostname = r.hostname /\ i.service = r.service
  BY InheritingIs
<1>2. r.originRequest \in Request
  BY DEF Rule, Request
<1>3. EnsureMatchSNI(r.originRequest, r.service) = r.originRequest
  BY <1>2, EnsureSame DEF Matches
<1>4. CASE D = {}
  <2>1. i.path = r.path /\ i.originRequest = r.originRequest
    BY <1>3, <1>4, InheritingFields
  <2> HIDE DEF i
  <2>2. i = r
    BY <1>1, <2>1, SameRule
  <2> QED BY <2>2 DEF i
<1>5. CASE D # {}
  <2>1. prev \in Rule /\ Covers(r, prev)
    BY <1>5, DonorIs
  <2>2. prev.originRequest \in Request
    BY <2>1 DEF Rule, Request
  <2>3. Overlaid(prev.originRequest, r.originRequest) = r.originRequest
    BY <1>2, <2>1, <2>2, OverlaidIncludes DEF Covers
  <2>4. /\ i.path = IF r.path = NoPath THEN prev.path ELSE r.path
        /\ i.originRequest = r.originRequest
    BY <1>3, <1>5, <2>3, InheritingFields
  <2>5. i.path = r.path
    BY <2>1, <2>4 DEF Covers
  <2> HIDE DEF i
  <2>6. i = r
    BY <1>1, <2>4, <2>5, SameRule
  <2> QED BY <2>6 DEF i
<1> QED BY <1>4, <1>5

\* What becomes of the donor of a hostname is a donor again.
LEMMA DonorsLast ==
  ASSUME NEW current \in Seq(Rule), NEW r \in Rule,
         r.path # NoPath \/ r.originRequest # Absent
  PROVE  LET i == Inheriting(current)[r] IN i.path # NoPath \/ i.originRequest # Absent
<1> DEFINE i == Inheriting(current)[r]
<1> DEFINE D == Donors(current, r.hostname)
<1>1. r.originRequest \in Request
  BY DEF Rule, Request
<1>2. CASE r.path # NoPath
  BY <1>2, InheritingFields
<1>3. CASE r.originRequest # Absent
  <2>1. CASE D = {}
    <3>1. i.originRequest = EnsureMatchSNI(r.originRequest, r.service)
      BY <2>1, InheritingFields
    <3> HIDE DEF i
    <3>2. i.originRequest # Absent
      BY <1>1, <1>3, <3>1, EnsureIncludes DEF Includes
    <3> QED BY <3>2 DEF i
  <2>2. CASE D # {}
    <3> DEFINE prev == current[Max(D)]
    <3> DEFINE o == Overlaid(prev.originRequest, r.originRequest)
    <3>1. i.originRequest = EnsureMatchSNI(o, r.service)
      BY <2>2, InheritingFields
    <3>2. prev.originRequest \in Request
      <4>1. prev \in Rule
        BY <2>2, DonorIs
      <4> QED BY <4>1 DEF Rule, Request
    <3>3. o \in Request
      BY <1>1, <3>2, OverlaidKeeps
    <3>4. o # Absent
      <4>1. CASE prev.originRequest = Absent
        BY <1>3, <4>1 DEF Overlaid
      <4>2. CASE prev.originRequest # Absent
        BY <1>1, <3>2, <4>2, OverlaidIncludes DEF Includes
      <4> QED BY <4>1, <4>2
    <3> HIDE DEF i, o
    <3>5. i.originRequest # Absent
      BY <3>1, <3>3, <3>4, EnsureIncludes DEF Includes
    <3> QED BY <3>5 DEF i
  <2> QED BY <2>1, <2>2
<1> QED BY <1>2, <1>3

\* What rule x of a host becomes has all that rule y may hand over next time, if
\* y is the donor of the host or comes behind it.
LEMMA ForeignSettles ==
  ASSUME NEW current \in Seq(Rule), NEW x \in DOMAIN current, NEW y \in DOMAIN current,
         current[x].hostname = current[y].hostname,
         LET D == Donors(current, current[y].hostname) IN D # {} => y >= Max(D),
         WantsMatchSNI(current[y].service) => WantsMatchSNI(current[x].service)
  PROVE  Covers(Inheriting(current)[current[x]], Inheriting(current)[current[y]])
<1> DEFINE r == current[x]
<1> DEFINE q == current[y]
<1> DEFINE i == Inheriting(current)[r]
<1> DEFINE j == Inheriting(current)[q]
<1> DEFINE D == Donors(current, r.hostname)
<1> DEFINE prev == current[Max(D)]
<1>1. r \in Rule /\ q \in Rule /\ q.hostname = r.hostname
  BY ElementOfSeq, LenProperties
<1>2. r.originRequest \in Request /\ q.originRequest \in Request
  BY <1>1 DEF Rule, Request
<1>3. i \in Rule /\ i.service = r.service /\ Matches(i)
  BY <1>1, InheritingIs
<1>4. WantsMatchSNI(q.service) => HasMatchSNI(i.originRequest)
  BY <1>3 DEF Matches
<1>5. Donors(current, q.hostname) = D
  BY <1>1
<1>6. /\ i.path = IF D # {} /\ r.path = NoPath THEN prev.path ELSE r.path
      /\ i.originRequest = EnsureMatchSNI(IF D # {} THEN Overlaid(prev.originRequest, r.originRequest)
                                          ELSE r.originRequest, r.service)
  BY <1>1, InheritingFields
<1>7. /\ j.path = IF D # {} /\ q.path = NoPath THEN prev.path ELSE q.path
      /\ j.originRequest = EnsureMatchSNI(IF D # {} THEN Overlaid(prev.originRequest, q.originRequest)
                                          ELSE q.originRequest, q.service)
  <2> DEFINE E == Donors(current, q.hostname)
  <2>1. /\ j.path = IF E # {} /\ q.path = NoPath THEN current[Max(E)].path ELSE q.path
        /\ j.originRequest =
             EnsureMatchSNI(IF E # {} THEN Overlaid(current[Max(E)].originRequest, q.originRequest)
                            ELSE q.originRequest, q.service)
    BY <1>1, InheritingFields
  <2> HIDE DEF D, q, j
  <2> QED BY <1>5, <2>1
<1>8. \A a \in Request :
        Includes(i.originRequest, a) => Includes(i.originRequest, EnsureMatchSNI(a, q.service))
  <2> HIDE DEF i, q
  <2> QED BY <1>4, EnsureIncludes
<1>9. CASE D = {}
  <2>1. q.path = NoPath /\ q.originRequest = Absent
    BY <1>1, <1>9 DEF Donors
  <2>2. j.path = NoPath /\ j.originRequest = EnsureMatchSNI(Absent, q.service)
    BY <1>7, <1>9, <2>1
  <2>3. Includes(i.originRequest, Absent)
    BY DEF Includes
  <2> HIDE DEF i, j
  <2>4. Covers(i, j)
    BY <1>2, <1>8, <2>1, <2>2, <2>3 DEF Covers
  <2> QED BY <2>4 DEF i, j
<1>10. CASE D # {}
  <2>1. Max(D) \in D /\ prev \in Rule /\ \A k \in D : k <= Max(D)
    BY <1>10, DonorIs
  <2>2. prev.originRequest \in Request
    BY <2>1 DEF Rule, Request
  <2>3. q = prev \/ (q.path = NoPath /\ q.originRequest = Absent)
    <3>1. y >= Max(D)
      BY <1>5, <1>10
    <3>2. y \in Nat /\ Max(D) \in Nat
      BY <2>1, LenProperties DEF Donors
    <3>3. y = Max(D) \/ y \notin D
      <4> HIDE DEF D
      <4> QED BY <2>1, <3>1, <3>2
    <3>4. CASE y = Max(D)
      BY <3>4
    <3>5. CASE y \notin D
      BY <1>1, <3>5 DEF Donors
    <3> QED BY <3>3, <3>4, <3>5
  <2>4. Overlaid(prev.originRequest, q.originRequest) = prev.originRequest
    <3>1. Includes(prev.originRequest, prev.originRequest)
      BY DEF Includes
    <3> HIDE DEF prev, q
    <3> QED BY <1>2, <2>2, <2>3, <3>1, OverlaidIncludes
  <2> DEFINE o == Overlaid(prev.originRequest, r.originRequest)
  <2>5. o \in Request /\ Includes(o, prev.originRequest)
    BY <1>2, <2>2, OverlaidKeeps, OverlaidIncludes
  <2>6. i.originRequest = EnsureMatchSNI(o, r.service)
    BY <1>6, <1>10
  <2>7. Includes(i.originRequest, prev.originRequest)
    <3>1. Includes(EnsureMatchSNI(o, r.service), o)
      <4> HIDE DEF o
      <4> QED BY <2>5, EnsureIncludes
    <3> HIDE DEF o, i, prev
    <3> QED BY <2>5, <2>6, <3>1 DEF Includes
  <2>8. j.originRequest = EnsureMatchSNI(prev.originRequest, q.service) /\ j.path = prev.path
    BY <1>7, <1>10, <2>3, <2>4
  <2>9. prev.path # NoPath => i.path # NoPath
    BY <1>6, <1>10
  <2> HIDE DEF i, j, prev
  <2>10. Covers(i, j)
    BY <1>8, <2>2, <2>7, <2>8, <2>9 DEF Covers
  <2> QED BY <2>10 DEF i, j
<1> QED BY <1>9, <1>10

\* A planned rule takes the same from what it has become, where that is the
\* only rule of its host.
LEMMA AuthoredSettles ==
  ASSUME NEW current \in Seq(Rule), NEW rules \in Seq(Rule),
         NEW r \in Rule, Authored(r), NEW k \in DOMAIN rules,
         rules[k] = Inheriting(current)[r],
         \A l \in DOMAIN rules : rules[l].hostname = r.hostname => l = k
  PROVE  Inheriting(rules)[r] = rules[k]
<1> DEFINE i == rules[k]
<1> DEFINE j == Inheriting(rules)[r]
<1> DEFINE D == Donors(rules, r.hostname)
<1> DEFINE prev == rules[Max(D)]
<1>1. /\ i \in Rule /\ i.hostname = r.hostname /\ i.service = r.service
      /\ WantsMatchSNI(r.service) => HasMatchSNI(i.originRequest)
  BY InheritingIs DEF Matches
<1>2. j \in Rule /\ j.hostname = r.hostname /\ j.service = r.service
  BY InheritingIs
<1>3. r.path = NoPath /\ r.originRequest = EnsureMatchSNI(Absent, r.service)
  BY DEF Authored
<1>4. i.originRequest \in Request /\ r.originRequest \in Request
  BY <1>1 DEF Rule, Request
<1>5. /\ j.path = IF D # {} THEN prev.path ELSE NoPath
      /\ j.originRequest = EnsureMatchSNI(IF D # {} THEN Overlaid(prev.originRequest, r.originRequest)
                                          ELSE r.originRequest, r.service)
  BY <1>3, InheritingFields
<1>6. EnsureMatchSNI(i.originRequest, r.service) = i.originRequest
  BY <1>1, <1>4, EnsureSame
<1>7. CASE D = {}
  <2>1. i.path = NoPath /\ i.originRequest = Absent
    BY <1>1, <1>7 DEF Donors
  <2>2. r.originRequest = Absent
    BY <1>1, <1>3, <2>1 DEF HasMatchSNI, EnsureMatchSNI
  <2>3. j.path = i.path /\ j.originRequest = i.originRequest
    BY <1>5, <1>6, <1>7, <2>1, <2>2
  <2> HIDE DEF i, j
  <2>4. j = i
    BY <1>1, <1>2, <2>3, SameRule
  <2> QED BY <2>4 DEF i, j
<1>8. CASE D # {}
  <2>1. Max(D) = k
    <3>1. Max(D) \in DOMAIN rules /\ rules[Max(D)].hostname = r.hostname
      BY <1>8, DonorIs
    <3> QED BY <3>1
  <2>2. EnsureMatchSNI(Overlaid(i.originRequest, r.originRequest), r.service) = i.originRequest
    <3>1. CASE WantsMatchSNI(r.service)
      <4>1. r.originRequest = MatchSNI /\ r.originRequest # Absent
        <5>1. r.originRequest = MatchSNI
          BY <1>3, <3>1 DEF EnsureMatchSNI
        <5>2. HasMatchSNI(EnsureMatchSNI(Absent, r.service))
          BY <3>1, EnsureKeeps DEF Request
        <5> QED BY <1>3, <5>1, <5>2 DEF HasMatchSNI
      <4>2. i.originRequest # Absent
        BY <1>1, <3>1 DEF HasMatchSNI
      <4>3. Overlaid(i.originRequest, r.originRequest) = Over(MatchSNI, i.originRequest)
        BY <4>1, <4>2 DEF Overlaid
      <4>4. EnsureMatchSNI(i.originRequest, r.service) = Over(MatchSNI, i.originRequest)
        BY <3>1, <4>2 DEF EnsureMatchSNI
      <4> QED BY <1>6, <4>3, <4>4
    <3>2. CASE ~WantsMatchSNI(r.service)
      <4>1. r.originRequest = Absent
        BY <1>3, <3>2 DEF EnsureMatchSNI
      <4>2. Overlaid(i.originRequest, Absent) = i.originRequest
        BY DEF Overlaid
      <4> QED BY <1>6, <4>1, <4>2
    <3> QED BY <3>1, <3>2
  <2>3. j.path = i.path /\ j.originRequest = i.originRequest
    BY <1>5, <1>8, <2>1, <2>2
  <2> HIDE DEF i, j
  <2>4. j = i
    BY <1>1, <1>2, <2>3, SameRule
  <2> QED BY <2>4 DEF i, j
<1> QED BY <1>7, <1>8

\* The rules of a merge, one by one: what becomes of the n foreign ones that stay,
\* which are at positions I of current, then what becomes of the planned ones.
MadeOf(new, current, plan, I, n) ==
  /\ I \in SUBSET DOMAIN current
  /\ n \in Nat /\ Enumerates(Places(I), n, I)
  /\ new \in Seq(Rule) /\ Len(new) = n + Len(plan)
  /\ DOMAIN new = 1 .. n + Len(plan)
  /\ \A k \in 1 .. n : new[k] = Inheriting(current)[current[Places(I)[k]]]
  /\ \A k \in 1 .. Len(plan) : new[n + k] = Inheriting(current)[plan[k]]

\* mergeIngressPlan makes the list of these.
LEMMA MergedParts ==
  ASSUME NEW current \in Seq(Rule), NEW plan, Terminated(plan), NEW pruned
  PROVE  LET I == Elsewhere(current, HostsOf(plan) \cup pruned \cup {NoHost})
         IN  MadeOf(Merged(current, plan, pruned), current, plan, I, Cardinality(I))
<1> DEFINE I == Elsewhere(current, HostsOf(plan) \cup pruned \cup {NoHost})
<1> DEFINE n == Cardinality(I)
<1> DEFINE kept == Without(current, HostsOf(plan) \cup pruned \cup {NoHost})
<1> DEFINE a == Inherited(kept, current)
<1> DEFINE b == Inherited(plan, current)
<1> DEFINE new == Merged(current, plan, pruned)
<1>1. new = a \o b /\ kept = Picked(current, I) /\ I \in SUBSET DOMAIN current
  BY DEF Merged, Preserved, Without, Elsewhere
<1> HIDE DEF I, kept
<1>2. /\ kept \in Seq(Rule) /\ Len(kept) = n
      /\ Enumerates(Places(I), n, I)
      /\ \A k \in 1 .. n : kept[k] = current[Places(I)[k]]
  BY <1>1, PickedIs
<1>3. n \in Nat
  BY <1>2 DEF Enumerates
<1>4. /\ a \in Seq(Rule) /\ Len(a) = n
      /\ \A k \in 1 .. n : a[k] = Inheriting(current)[kept[k]]
  <2>1. /\ a \in Seq(Rule) /\ Len(a) = Len(kept)
        /\ \A k \in 1 .. Len(kept) : a[k] = Inheriting(current)[kept[k]]
    BY <1>2, InheritedIs
  <2> HIDE DEF a, n
  <2> QED BY <1>2, <2>1
<1>5. /\ b \in Seq(Rule) /\ Len(b) = Len(plan)
      /\ \A k \in 1 .. Len(plan) : b[k] = Inheriting(current)[plan[k]]
  BY InheritedIs DEF Terminated
<1> HIDE DEF a, b, n
<1>6. /\ a \o b \in Seq(Rule)
      /\ Len(a \o b) = n + Len(plan)
      /\ DOMAIN (a \o b) = 1 .. n + Len(plan)
      /\ \A k \in 1 .. n : (a \o b)[k] = a[k]
      /\ \A k \in 1 .. Len(plan) : (a \o b)[n + k] = b[k]
  <2>1. /\ a \o b \in Seq(Rule)
        /\ Len(a \o b) = Len(a) + Len(b)
        /\ DOMAIN (a \o b) = 1 .. Len(a) + Len(b)
        /\ \A k \in 1 .. Len(a) : (a \o b)[k] = a[k]
        /\ \A k \in 1 .. Len(b) : (a \o b)[Len(a) + k] = b[k]
    BY <1>4, <1>5, ConcatRules
  <2> QED BY <1>4, <1>5, <2>1
<1> HIDE DEF new
<1>7. /\ new \in Seq(Rule) /\ Len(new) = n + Len(plan)
      /\ DOMAIN new = 1 .. n + Len(plan)
      /\ \A k \in 1 .. n : new[k] = a[k]
      /\ \A k \in 1 .. Len(plan) : new[n + k] = b[k]
  BY <1>1, <1>6
<1>8. \A k \in 1 .. n : new[k] = Inheriting(current)[current[Places(I)[k]]]
  BY <1>2, <1>4, <1>7
<1>9. \A k \in 1 .. Len(plan) : new[n + k] = Inheriting(current)[plan[k]]
  BY <1>5, <1>7
<1>10. MadeOf(new, current, plan, I, n)
  BY <1>1, <1>2, <1>3, <1>7, <1>8, <1>9 DEF MadeOf
<1> QED BY <1>10 DEF new, n, I

\* The places of the first positions are the positions.
LEMMA PlacesFirst ==
  ASSUME NEW n \in Nat
  PROVE  Cardinality(1 .. n) = n /\ Places(1 .. n) = [k \in 1 .. n |-> k]
<1> DEFINE p == [k \in 1 .. n |-> k]
<1>1. (1 .. n) \in SUBSET Nat /\ IsFiniteSet(1 .. n)
  BY FS_Interval
<1>2. Enumerates(p, n, 1 .. n)
  BY DEF Enumerates
<1> HIDE DEF p
<1>3. n = Cardinality(1 .. n) /\ p = Places(1 .. n)
  BY <1>1, <1>2, PlacesEnumerate
<1> QED BY <1>3 DEF p

\* A foreign rule that a merge has put into the list stays what it is when the
\* list is merged again.
LEMMA KeptSettles ==
  ASSUME NEW current \in Seq(Rule), NEW plan, Terminated(plan), NEW pruned,
         NEW k \in 1 .. Cardinality(Elsewhere(current, HostsOf(plan) \cup pruned \cup {NoHost})),
         DonorsSuit(Merged(current, plan, pruned))
  PROVE  LET new == Merged(current, plan, pruned) IN Inheriting(new)[new[k]] = new[k]
<1> DEFINE gone == HostsOf(plan) \cup pruned \cup {NoHost}
<1> DEFINE I == Elsewhere(current, gone)
<1> DEFINE n == Cardinality(I)
<1> DEFINE p == Places(I)
<1> DEFINE new == Merged(current, plan, pruned)
<1> DEFINE m == Len(plan)
<1> DEFINE h == new[k].hostname
<1> DEFINE D == Donors(new, h)
<1>1. /\ I \in SUBSET DOMAIN current
      /\ n \in Nat /\ Enumerates(p, n, I)
      /\ new \in Seq(Rule) /\ DOMAIN new = 1 .. n + m
      /\ \A l \in 1 .. n : new[l] = Inheriting(current)[current[p[l]]]
      /\ \A l \in 1 .. m : new[n + l] = Inheriting(current)[plan[l]]
  <2>1. MadeOf(new, current, plan, I, n)
    BY MergedParts
  <2> HIDE DEF I, n, new
  <2> QED BY <2>1 DEF MadeOf
<1>2. /\ \A i \in DOMAIN current : current[i] \in Rule
      /\ \A i \in DOMAIN current : i \in I <=> current[i].hostname \notin gone
      /\ \A i \in I : i \in DOMAIN current
  BY ElementOfSeq, LenProperties DEF Elsewhere
<1>3. m \in Nat /\ DOMAIN plan = 1 .. m /\ \A l \in 1 .. m : plan[l] \in Rule
  BY ElementOfSeq, LenProperties DEF Terminated
<1>4. \A l \in 1 .. m : plan[l].hostname \in gone
  BY <1>3 DEF HostsOf
<1> HIDE DEF I, new, gone
<1>5. \A l \in 1 .. n : /\ p[l] \in I /\ p[l] \in DOMAIN current /\ current[p[l]] \in Rule
                         /\ new[l].hostname = current[p[l]].hostname
                         /\ new[l].service = current[p[l]].service
                         /\ Matches(new[l])
  <2> SUFFICES ASSUME NEW l \in 1 .. n
               PROVE  /\ p[l] \in I /\ p[l] \in DOMAIN current /\ current[p[l]] \in Rule
                      /\ new[l].hostname = current[p[l]].hostname
                      /\ new[l].service = current[p[l]].service
                      /\ Matches(new[l])
    OBVIOUS
  <2>1. p[l] \in I
    <3> HIDE DEF p, n
    <3> QED BY <1>1 DEF Enumerates
  <2>2. new[l] = Inheriting(current)[current[p[l]]]
    BY <1>1
  <2>3. p[l] \in DOMAIN current /\ current[p[l]] \in Rule
    BY <1>2, <2>1
  <2> QED BY <2>1, <2>2, <2>3, InheritingIs
<1>6. ASSUME NEW l \in DOMAIN new, new[l].hostname \notin gone
      PROVE  l \in 1 .. n
  <2> SUFFICES ASSUME l \notin 1 .. n
               PROVE  FALSE
    OBVIOUS
  <2> HIDE DEF n, m
  <2>1. l - n \in 1 .. m /\ l = n + (l - n)
    BY <1>1, <1>3
  <2>2. new[l] = Inheriting(current)[plan[l - n]]
    BY <1>1, <2>1
  <2>3. new[l].hostname = plan[l - n].hostname
    BY <1>3, <2>1, <2>2, InheritingIs
  <2> QED BY <1>4, <1>6, <2>1, <2>3
<1>7. /\ k \in 1 .. n /\ k \in DOMAIN new
      /\ new[k] \in Rule
      /\ h \notin gone
  <2>1. k \in 1 .. n
    BY DEF I, gone
  <2> HIDE DEF n
  <2>2. k \in DOMAIN new
    BY <1>1, <1>3, <2>1
  <2>3. h \notin gone
    BY <1>2, <1>5, <2>1
  <2> QED BY <1>1, <2>1, <2>2, <2>3, ElementOfSeq, LenProperties
<1>8. ASSUME D # {}
      PROVE  Covers(new[k], new[Max(D)])
  <2> DEFINE d == Max(D)
  <2>1. d \in D /\ d \in DOMAIN new /\ new[d].hostname = h /\ \A i \in D : i <= d
    BY <1>1, <1>8, DonorIs
  <2>2. d \in 1 .. n
    BY <1>6, <1>7, <2>1
  <2> DEFINE x == p[k]
  <2> DEFINE y == p[d]
  <2> HIDE DEF d, n, p
  <2>3. /\ x \in DOMAIN current /\ y \in DOMAIN current
        /\ current[x].hostname = h /\ current[y].hostname = h
        /\ new[k] = Inheriting(current)[current[x]]
        /\ new[d] = Inheriting(current)[current[y]]
        /\ new[k].service = current[x].service
        /\ new[d].service = current[y].service
    BY <1>1, <1>5, <1>7, <2>1, <2>2
  <2>4. WantsMatchSNI(current[y].service) => WantsMatchSNI(current[x].service)
    <3>1. WantsMatchSNI(new[d].service) => WantsMatchSNI(new[k].service)
      BY <1>7, <1>8 DEF DonorsSuit, d, new
    <3> QED BY <2>3, <3>1
  <2>5. ASSUME Donors(current, h) # {}
        PROVE  y >= Max(Donors(current, h))
    <3> DEFINE c == Max(Donors(current, h))
    <3>1. c \in Donors(current, h) /\ c \in DOMAIN current /\ current[c].hostname = h
      BY <2>5, DonorIs
    <3> HIDE DEF c
    <3>2. c \in I
      BY <1>2, <1>7, <3>1
    <3>3. PICK e \in 1 .. n : p[e] = c
      BY <1>1, <3>2 DEF Enumerates
    <3>4. e \in D
      <4>1. current[c] \in Rule /\ (current[c].path # NoPath \/ current[c].originRequest # Absent)
        BY <1>2, <3>1 DEF Donors
      <4>2. new[e] = Inheriting(current)[current[c]] /\ new[e].hostname = h
        BY <1>1, <1>5, <3>1, <3>3
      <4>3. new[e].path # NoPath \/ new[e].originRequest # Absent
        BY <4>1, <4>2, DonorsLast
      <4>4. e \in DOMAIN new
        BY <1>1, <1>3
      <4> QED BY <4>2, <4>3, <4>4 DEF Donors
    <3>5. e <= d
      BY <2>1, <3>4
    <3>6. e < d \/ e = d
      BY <1>1, <2>2, <3>5
    <3>7. p[e] <= p[d]
      <4>1. p[e] \in Int /\ p[d] \in Int
        <5>1. p[e] \in DOMAIN current /\ p[d] \in DOMAIN current
          BY <1>5, <2>2
        <5> QED BY <5>1, LenProperties
      <4>2. e < d => p[e] < p[d]
        BY <1>1, <2>2 DEF Enumerates
      <4> QED BY <3>6, <4>1, <4>2
    <3>8. y >= c
      <4>1. c \in Int /\ y \in Int
        BY <2>3, <3>1, LenProperties
      <4> QED BY <3>3, <3>7, <4>1
    <3> QED BY <3>8 DEF c
  <2>6. Covers(Inheriting(current)[current[x]], Inheriting(current)[current[y]])
    <3> HIDE DEF x, y, h
    <3> QED BY <2>3, <2>4, <2>5, ForeignSettles
  <2> QED BY <2>3, <2>6 DEF d
<1>9. Matches(new[k])
  BY <1>5, <1>7
<1>10. Inheriting(new)[new[k]] = new[k]
  BY <1>1, <1>7, <1>8, <1>9, InheritingSettles
<1> QED BY <1>10 DEF new

\* Every rule of the merged list has the managed option if its service wants it.
LEMMA MergedMatch ==
  ASSUME NEW current \in Seq(Rule), NEW plan, Terminated(plan), NEW pruned,
         NEW k \in DOMAIN Merged(current, plan, pruned)
  PROVE  Matches(Merged(current, plan, pruned)[k])
<1> DEFINE I == Elsewhere(current, HostsOf(plan) \cup pruned \cup {NoHost})
<1> DEFINE n == Cardinality(I)
<1> DEFINE new == Merged(current, plan, pruned)
<1>1. MadeOf(new, current, plan, I, n)
  BY MergedParts
<1>2. I \in SUBSET DOMAIN current
  BY DEF Elsewhere
<1> HIDE DEF I, n, new
<1>3. /\ n \in Nat /\ Enumerates(Places(I), n, I)
      /\ k \in 1 .. n + Len(plan)
      /\ \A l \in 1 .. n : new[l] = Inheriting(current)[current[Places(I)[l]]]
      /\ \A l \in 1 .. Len(plan) : new[n + l] = Inheriting(current)[plan[l]]
  BY <1>1 DEF MadeOf, new
<1>4. Len(plan) \in Nat /\ \A l \in 1 .. Len(plan) : plan[l] \in Rule
  BY ElementOfSeq, LenProperties DEF Terminated
<1>5. PICK r \in Rule : new[k] = Inheriting(current)[r]
  <2>1. CASE k \in 1 .. n
    <3>1. Places(I)[k] \in DOMAIN current
      BY <1>2, <1>3, <2>1 DEF Enumerates
    <3>2. current[Places(I)[k]] \in Rule
      BY <3>1, ElementOfSeq, LenProperties
    <3> QED BY <1>3, <2>1, <3>2
  <2>2. CASE k \notin 1 .. n
    <3>1. k - n \in 1 .. Len(plan) /\ n + (k - n) = k
      BY <1>3, <1>4, <2>2
    <3> QED BY <1>3, <1>4, <3>1
  <2> QED BY <2>1, <2>2
<1> QED BY <1>5, InheritingIs DEF new

\* mergeIngressPlan: merged once more with the same plan, with nothing left to
\* prune, the rules are what they are, unless a host mixes https with other
\* services.
THEOREM MergedSettles ==
  ASSUME NEW current \in Seq(Rule), NEW plan, Terminated(plan), NEW pruned,
         OnePerHost(plan), \A k \in DOMAIN plan : Authored(plan[k]),
         DonorsSuit(Merged(current, plan, pruned))
  PROVE  Merged(Merged(current, plan, pruned), plan, {}) = Merged(current, plan, pruned)
<1> DEFINE gone == HostsOf(plan) \cup pruned \cup {NoHost}
<1> DEFINE I == Elsewhere(current, gone)
<1> DEFINE n == Cardinality(I)
<1> DEFINE m == Len(plan)
<1> DEFINE new == Merged(current, plan, pruned)
<1> DEFINE planned == HostsOf(plan) \cup {} \cup {NoHost}
<1> DEFINE J == Elsewhere(new, planned)
<1> DEFINE again == Merged(new, plan, {})
<1>1. /\ n \in Nat /\ Enumerates(Places(I), n, I)
      /\ new \in Seq(Rule) /\ Len(new) = n + m /\ DOMAIN new = 1 .. n + m
      /\ \A k \in 1 .. n : new[k] = Inheriting(current)[current[Places(I)[k]]]
      /\ \A k \in 1 .. m : new[n + k] = Inheriting(current)[plan[k]]
  <2>1. MadeOf(new, current, plan, I, n)
    BY MergedParts
  <2> HIDE DEF I, n, new
  <2> QED BY <2>1 DEF MadeOf
<1>2. \A k \in 1 .. n : Inheriting(new)[new[k]] = new[k]
  BY KeptSettles
<1>3. m \in Nat /\ DOMAIN plan = 1 .. m /\ \A k \in 1 .. m : plan[k] \in Rule
  BY ElementOfSeq, LenProperties DEF Terminated
<1>4. \A k \in 1 .. m : plan[k].hostname \in planned
  BY <1>3 DEF HostsOf
<1>5. \A k \in 1 .. n : new[k].hostname \notin planned
  <2> SUFFICES ASSUME NEW k \in 1 .. n
               PROVE  new[k].hostname \notin planned
    OBVIOUS
  <2>1. Places(I)[k] \in I
    <3> HIDE DEF I, n
    <3> QED BY <1>1 DEF Enumerates
  <2> DEFINE r == current[Places(I)[k]]
  <2>2. r \in Rule /\ r.hostname \notin gone
    BY <2>1, ElementOfSeq, LenProperties DEF Elsewhere
  <2>3. new[k] = Inheriting(current)[r]
    BY <1>1
  <2> HIDE DEF r, new
  <2>4. new[k].hostname = r.hostname
    BY <2>2, <2>3, InheritingIs
  <2> QED BY <2>2, <2>4
<1>6. ASSUME NEW k \in 1 .. m
      PROVE  new[n + k].hostname = plan[k].hostname
  <2> DEFINE r == plan[k]
  <2>1. r \in Rule /\ new[n + k] = Inheriting(current)[r]
    BY <1>1, <1>3
  <2> HIDE DEF r, new, n, m
  <2>2. Inheriting(current)[r].hostname = r.hostname
    BY <2>1, InheritingIs
  <2> QED BY <2>1, <2>2 DEF r
<1> HIDE DEF new, n, m, I, planned
<1>7. \A k \in 1 .. n + m : k \in 1 .. n \/ (k - n \in 1 .. m /\ k = n + (k - n))
  BY <1>1, <1>3
<1>8. J = 1 .. n
  <2>1. \A k \in 1 .. n + m : new[k].hostname \notin planned <=> k \in 1 .. n
    <3> SUFFICES ASSUME NEW k \in 1 .. n + m
                 PROVE  new[k].hostname \notin planned <=> k \in 1 .. n
      OBVIOUS
    <3>1. CASE k \in 1 .. n
      BY <1>5, <3>1
    <3>2. CASE k - n \in 1 .. m /\ k = n + (k - n)
      <4>1. new[k].hostname \in planned
        BY <1>4, <1>6, <3>2
      <4>2. k \notin 1 .. n
        BY <1>1, <1>3, <3>2
      <4> QED BY <4>1, <4>2
    <3> QED BY <1>7, <3>1, <3>2
  <2>2. 1 .. n \subseteq 1 .. n + m
    BY <1>1, <1>3
  <2> QED BY <1>1, <2>1, <2>2 DEF Elsewhere
<1>9. Cardinality(J) = n /\ \A k \in 1 .. n : Places(J)[k] = k
  <2> HIDE DEF J
  <2> QED BY <1>1, <1>8, PlacesFirst
<1>10. /\ again \in Seq(Rule) /\ Len(again) = n + m
       /\ \A k \in 1 .. n : again[k] = Inheriting(new)[new[Places(J)[k]]]
       /\ \A k \in 1 .. m : again[n + k] = Inheriting(new)[plan[k]]
  <2>1. MadeOf(again, new, plan, J, Cardinality(J))
    BY <1>1, MergedParts DEF planned
  <2> HIDE DEF J, again
  <2> QED BY <1>9, <2>1 DEF MadeOf, m
<1>11. \A k \in 1 .. n : again[k] = new[k]
  <2> HIDE DEF J, again
  <2> QED BY <1>2, <1>9, <1>10
<1>12. ASSUME NEW k \in 1 .. m
       PROVE  again[n + k] = new[n + k]
  <2> DEFINE r == plan[k]
  <2>1. r \in Rule /\ Authored(r)
    BY <1>3
  <2>2. n + k \in DOMAIN new /\ new[n + k] = Inheriting(current)[r]
    BY <1>1, <1>3
  <2>3. ASSUME NEW l \in DOMAIN new, new[l].hostname = r.hostname
        PROVE  l = n + k
    <3>1. r.hostname \in planned
      BY <1>4
    <3>2. l \notin 1 .. n
      BY <1>5, <2>3, <3>1
    <3>3. l - n \in 1 .. m /\ l = n + (l - n)
      BY <1>1, <1>7, <3>2
    <3>4. plan[l - n].hostname = plan[k].hostname
      BY <1>6, <2>3, <3>3
    <3>5. l - n = k
      BY <1>3, <3>3, <3>4 DEF OnePerHost
    <3> QED BY <3>3, <3>5
  <2> HIDE DEF r
  <2>4. Inheriting(new)[r] = new[n + k]
    BY <1>1, <2>1, <2>2, <2>3, AuthoredSettles
  <2> QED BY <1>10, <2>4 DEF r
<1> HIDE DEF again, J
<1>13. \A k \in 1 .. n + m : again[k] = new[k]
  BY <1>7, <1>11, <1>12
<1>14. again = new
  BY <1>1, <1>10, <1>13, SeqEqual
<1> QED BY <1>14 DEF again, new

=============================================================================
