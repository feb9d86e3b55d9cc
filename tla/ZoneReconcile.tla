--------------------------- MODULE ZoneReconcile ---------------------------
(***************************************************************************)
(* The DNS pass of the plugin: reconcileZone (reconcile.go), one step per  *)
(* Cloudflare API call, run by several Caddy servers that share one zone.  *)
(*                                                                         *)
(* Each server has an ownership tag of its own, writes it in the comment   *)
(* of the records it creates, and is meant to leave every other record     *)
(* alone.  The zone changes under a running pass: another server's pass,   *)
(* the operator's dashboard, and calls of an earlier pass that its client  *)
(* gave up on but Cloudflare had received.                                 *)
(*                                                                         *)
(* Record names are canonical here: canonicalNameKey is the subject of     *)
(* RecordNames.  Detection of public addresses is an input of the pass.    *)
(***************************************************************************)
EXTENDS Naturals, FiniteSets

CONSTANTS
  Servers,      \* Caddy servers whose configurations name this zone
  Tag,          \* Tag[s]: ownershipTag() of server s, "<tag_prefix>:<instance>"
  NoTag,        \* the comment of a record no server has tagged
  Names,        \* record names of the zone
  Ids,          \* record ids, in the order Cloudflare assigns and lists them:
                \* bounds the records ever made
  PageSize,     \* the records of one page of a listing
  V4, V6,       \* addresses a record or a configuration may hold
  Private,      \* the addresses isPrivateIP recognises
  Tunnels,      \* tunnel ids; also the CNAME targets that name a tunnel
  Elsewhere,    \* a CNAME target that names no tunnel
  None,         \* an empty string in the code: not declared, not detected
  IP6Auto,      \* publish the detected IPv6 address
  Unborn,       \* the slot of an id that has not been assigned yet
  Deleted,      \* the slot of an id whose record is gone
  Configs,      \* Configs[s]: the configurations server s may load
  Detections,   \* the outcomes of public-address detection
  InitZones,    \* the zones a run may start from
  MaxLoads,     \* bound: configuration loads, all servers together
  MaxFaults,    \* bound: failed calls and crashes
  MaxEdits      \* bound: edits in Cloudflare's dashboard

Types == {"A", "AAAA", "CNAME"}

Contents == V4 \cup V6 \cup Tunnels \cup {Elsewhere}

Tags == {Tag[s] : s \in Servers}

Record == [name : Names, type : Types, content : Contents,
           proxied : BOOLEAN, comment : Tags \cup {NoTag}]

Zone == [Ids -> Record \cup {Unborn, Deleted}]

\* HostConfig: the fields the DNS pass reads.
Decl == [tunnel : Tunnels \cup {None}, ip : V4 \cup {None},
         ip6 : V6 \cup {None, IP6Auto}, proxied : BOOLEAN, force : BOOLEAN]

Config == [hosts : UNION {[D -> Decl] : D \in SUBSET Names}, prune : BOOLEAN]

Detection == [v4 : V4 \cup {None}, v6 : V6 \cup {None}]

\* A DNS write on its way to Cloudflare.
Call == [server : Servers, op : {"create", "update", "delete"},
         id : Ids, rec : Record]

\* A CNAME shares its name with no address record (error 81054).
Coexists(ty1, ty2) == (ty1 = "CNAME") <=> (ty2 = "CNAME")

\* What a zone, or a listing of one, may hold: a CNAME alone at its name.
Legal(z) ==
  \A i, j \in Ids : /\ z[i] \in Record /\ z[j] \in Record /\ i # j
                    /\ z[i].name = z[j].name
                    => z[i].type # "CNAME" /\ z[j].type # "CNAME"

ASSUME TagsDistinct ==
  \A s, t \in Servers : Tag[s] = Tag[t] => s = t

ASSUME IdsOrdered == Ids # {} /\ Ids \subseteq Nat

ASSUME PageSizePositive == PageSize \in Nat \ {0}

ASSUME TagsNotEmpty == NoTag \notin Tags

ASSUME SlotsDistinct ==
  /\ Unborn \notin Record
  /\ Deleted \notin Record
  /\ Unborn # Deleted

ASSUME ContentsNotEmpty == None \notin Contents

ASSUME InputsTyped ==
  /\ \A s \in Servers : Configs[s] \subseteq Config
  /\ Detections \subseteq Detection
  /\ InitZones \subseteq Zone

\* Cloudflare never holds a CNAME and another record at one name.
ASSUME InitZonesLegal == \A z \in InitZones : Legal(z)

VARIABLES
  zone,     \* the zone at Cloudflare: record ids to records
  pass,     \* pass[s]: the local state of server s's reconcileZone
  late,     \* calls a client gave up on that Cloudflare may still apply
  intact,   \* servers since whose first page nobody else has changed the zone
            \* (history)
  used      \* how much of each bound is spent

vars == <<zone, pass, late, intact, used>>

----------------------------------------------------------------------------
(* Cloudflare's side: what a write does to the zone, and which it takes.   *)

Live(i) == zone[i] \in Record

At(n) == {i \in Ids : Live(i) /\ zone[i].name = n}

\* Creation is refused next to a record of the same name and type (81058)
\* or of the other class, and when the zone holds all the records it may.
Creatable(r) ==
  /\ \A i \in At(r.name) : zone[i].type # r.type /\ Coexists(zone[i].type, r.type)
  /\ \E i \in Ids : zone[i] = Unborn

NewId == CHOOSE i \in Ids : zone[i] = Unborn /\ \A j \in Ids : zone[j] = Unborn => i <= j

Accepts(c) == c.op = "create" => Creatable(c.rec)

\* A write to an id that is gone may be answered with an error or with success.
Refuses(c) == IF c.op = "create" THEN ~Creatable(c.rec) ELSE ~Live(c.id)

Applied(c) ==
  CASE c.op = "create" /\ Creatable(c.rec) -> [zone EXCEPT ![NewId] = c.rec]
    [] c.op = "update" /\ Live(c.id)       -> [zone EXCEPT ![c.id] = c.rec]
    [] c.op = "delete" /\ Live(c.id)       -> [zone EXCEPT ![c.id] = Deleted]
    [] OTHER                               -> zone

----------------------------------------------------------------------------
(* The local state of a pass.                                              *)

Families == Types

PassState ==
  [pc : {"idle", "lookup", "list", "hosts", "clear", "prune"} \cup Families,
   conf : Config,                  \* the configuration being loaded
   det : Detection,                \* familyDetection
   page : Nat,                     \* the page listRecords asks for next
   listed : Zone,                  \* what listRecords has read, or returned
   dropped : SUBSET Ids,           \* snapshot entries removed from `records`
   todo : SUBSET Names,            \* hosts the loop has not reached
   cur : Names \cup {None},        \* the host being reconciled
   queue : SUBSET Ids,             \* records the running phase has yet to delete
   blocked : BOOLEAN,              \* clearConflictingRecords' pending error
   cleared : SUBSET (Names \X (Tunnels \cup {None})),   \* clearedNames
   managed : SUBSET (Names \X Types),
   noted : SUBSET (Names \X Types),   \* what the log tells the operator about
   pruned : SUBSET (Names \X (Tunnels \cup {None})),    \* names deleted by prune
   report : SUBSET (Names \X (Tunnels \cup {None})),    \* prunedHosts returned
   status : {"none", "ok", "error"}]

NoConfig == [hosts |-> [n \in {} |-> None], prune |-> FALSE]

Fresh ==
  [pc |-> "idle", conf |-> NoConfig, det |-> [v4 |-> None, v6 |-> None],
   page |-> 1, listed |-> [i \in Ids |-> Unborn], dropped |-> {}, todo |-> {}, cur |-> None,
   queue |-> {}, blocked |-> FALSE, cleared |-> {}, managed |-> {}, noted |-> {},
   pruned |-> {}, report |-> {}, status |-> "none"]

\* reconcileZone returns: what the caller keeps, and the locals are gone.
Return(p, status, report) ==
  [Fresh EXCEPT !.conf = p.conf, !.det = p.det, !.noted = p.noted,
                !.report = report, !.status = status]

\* The records as they were listed, from which byName is built once, and the
\* snapshot `records`, from which the clearing removes what it deletes.
Listed(p) == {i \in Ids : p.listed[i] \in Record}

Kept(p) == Listed(p) \ p.dropped

\* Mutant of Owned: any instance's tag passes (a match on the shared prefix).
OwnedByPrefix(s, r) == r.comment \in Tags

\* isOwnedByInstance.
Owned(s, r) == r.comment = Tag[s]

Declared(p) == p.conf.hosts[p.cur]

\* tunnelIDFromCNAMETarget.
TunnelOf(r) == IF r.type = "CNAME" /\ r.content \in Tunnels THEN r.content ELSE None

\* resolveFamilyIP, and the tunnel target of a CNAME; None when unavailable.
Effective(d, det, ty) ==
  CASE ty = "CNAME" -> d.tunnel
    [] ty = "A"     -> IF d.ip # None THEN d.ip ELSE det.v4
    [] ty = "AAAA"  -> IF d.ip6 # IP6Auto THEN d.ip6 ELSE det.v6

\* effectiveProxied for an address, always TRUE for a tunnel's CNAME.
Proxied(d, ty, content) == ty = "CNAME" \/ (d.proxied /\ content \notin Private)

\* Mutant of Desired: the ownership tag is left out.
DesiredUntagged(s, p, ty) ==
  LET d == Declared(p)
      content == Effective(d, p.det, ty)
  IN  [name |-> p.cur, type |-> ty, content |-> content,
       proxied |-> Proxied(d, ty, content), comment |-> NoTag]

Desired(s, p, ty) ==
  LET d == Declared(p)
      content == Effective(d, p.det, ty)
  IN  [name |-> p.cur, type |-> ty, content |-> content,
       proxied |-> Proxied(d, ty, content), comment |-> Tag[s]]

\* Mutant of Blocking: a CNAME left behind is not in the way of addresses.
BlockingOnlyAddresses(d) == IF d.tunnel # None THEN {"A", "AAAA"} ELSE {}

\* Mutant of Blocking: an address host is cleared of its own types as well.
BlockingEverything(d) == IF d.tunnel # None THEN {"A", "AAAA"} ELSE Types

Blocking(d) == IF d.tunnel # None THEN {"A", "AAAA"} ELSE {"CNAME"}

----------------------------------------------------------------------------
(* One API call of a pass: applied and confirmed, refused by Cloudflare,   *)
(* or failed in transit -- and then Cloudflare may apply it at any later   *)
(* moment, or never.  A failed call is not retried.                        *)

Goto(s, p) == pass' = [pass EXCEPT ![s] = p]

Fail == used.fault < MaxFaults /\ used' = [used EXCEPT !.fault = @ + 1]

Write(s, c, good, bad) ==
  /\ \/ /\ Accepts(c)
        /\ zone' = Applied(c)
        /\ Goto(s, good)
        /\ UNCHANGED <<late, used>>
     \/ /\ Refuses(c)
        /\ Goto(s, bad)
        /\ UNCHANGED <<zone, late, used>>
     \/ /\ Fail
        /\ late' \in {late, late \cup {c}}
        /\ Goto(s, bad)
        /\ UNCHANGED zone
  /\ intact' = IF zone' = zone THEN intact ELSE intact \cap {s}

Creation(s, r) == [server |-> s, op |-> "create", id |-> CHOOSE i \in Ids : TRUE, rec |-> r]
Change(s, i, r) == [server |-> s, op |-> "update", id |-> i, rec |-> r]
Deletion(s, i, r) == [server |-> s, op |-> "delete", id |-> i, rec |-> r]

Local(s, p) == Goto(s, p) /\ UNCHANGED <<zone, late, intact, used>>

----------------------------------------------------------------------------
(* The pass.                                                               *)

\* Reconcile visits the zone when a host is declared in it or it is pruned.
Start(s) ==
  /\ pass[s].pc = "idle"
  /\ used.load < MaxLoads
  /\ used' = [used EXCEPT !.load = @ + 1]
  /\ \E conf \in Configs[s], det \in Detections :
       /\ DOMAIN conf.hosts # {} \/ conf.prune
       /\ Goto(s, [Fresh EXCEPT !.pc = "lookup", !.conf = conf, !.det = det])
  /\ UNCHANGED <<zone, late, intact>>

Lookup(s) ==
  /\ pass[s].pc = "lookup"
  /\ \/ /\ Goto(s, [pass[s] EXCEPT !.pc = "list"])
        /\ UNCHANGED used
     \/ /\ Fail
        /\ Goto(s, Return(pass[s], "error", {}))
  /\ UNCHANGED <<zone, late, intact>>

\* Page n of the zone as it is now: a record deleted since page 1 was read
\* makes the ones behind it move up.
Page(n) ==
  {i \in Ids : /\ Live(i)
               /\ Cardinality({j \in Ids : Live(j) /\ j < i})
                    \in (n - 1) * PageSize .. n * PageSize - 1}

\* Mutant of MorePages: one page is taken for the whole zone.
NoMorePages(n) == FALSE

\* A full page may have another one behind it.
MorePages(n) == Cardinality(Page(n)) = PageSize

\* One page of listRecords.
List(s) ==
  /\ pass[s].pc = "list"
  /\ \/ LET p == pass[s]
            page == Page(p.page)
            read == [p EXCEPT !.listed = [i \in Ids |-> IF i \in page THEN zone[i] ELSE @[i]]]
        IN  /\ Goto(s, IF MorePages(p.page)
                       THEN [read EXCEPT !.page = @ + 1]
                       ELSE [read EXCEPT !.pc = "hosts", !.page = 1,
                                         !.todo = DOMAIN p.conf.hosts])
            /\ intact' = IF p.page = 1 THEN intact \cup {s} ELSE intact
            /\ UNCHANGED used
     \/ /\ Fail
        /\ Goto(s, Return(pass[s], "error", {}))
        /\ UNCHANGED intact
  /\ UNCHANGED <<zone, late>>

\* The next host enters clearConflictingRecords; a tunnel host has its CNAME
\* marked managed first, an address host only once the name is clear.
NextHost(s) ==
  /\ pass[s].pc = "hosts"
  /\ \E n \in pass[s].todo :
       LET p == pass[s]
           d == p.conf.hosts[n]
           blockers == {i \in Kept(p) : /\ p.listed[i].name = n
                                        /\ p.listed[i].type \in Blocking(d)}
           mine == {i \in blockers : Owned(s, p.listed[i]) \/ d.force}
       IN  Local(s, [p EXCEPT
             !.pc = "clear", !.todo = @ \ {n}, !.cur = n, !.queue = mine,
             !.blocked = (mine # blockers),
             !.managed = @ \cup (IF d.tunnel # None THEN {<<n, "CNAME">>} ELSE {})])

\* One deletion of clearConflictingRecords; a failure blocks the host but the
\* loop over the records goes on.
ClearDelete(s) ==
  /\ pass[s].pc = "clear"
  /\ \E i \in pass[s].queue :
       LET p == pass[s]
           r == p.listed[i]
           rest == [p EXCEPT !.queue = @ \ {i}]
       IN  Write(s, Deletion(s, i, r),
             [rest EXCEPT !.dropped = @ \cup {i}], [rest EXCEPT !.blocked = TRUE])

\* Mutant of ClearedCNAMEs: attributed to the tunnel now declared, not to the
\* one the deleted record pointed at.
ClearedCNAMEsAsDeclared(p) ==
  {<<p.cur, Declared(p).tunnel>> :
     i \in {j \in p.dropped : p.listed[j].name = p.cur /\ p.listed[j].type = "CNAME"}}

\* The entry of a host whose CNAME clearConflictingRecords deleted, with the
\* tunnel that it pointed at: of several, the last one that names a tunnel.
ClearedCNAMEs(p) ==
  LET gone == {i \in p.dropped : p.listed[i].name = p.cur /\ p.listed[i].type = "CNAME"}
      NamesTunnel(i) == TunnelOf(p.listed[i]) # None
  IN  {<<p.cur, TunnelOf(p.listed[i])>> :
         i \in {j \in gone : \A k \in gone : NamesTunnel(k) => NamesTunnel(j) /\ k <= j}}

ManagedTypes(d) ==
  IF d.tunnel # None THEN {"CNAME"}
  ELSE {"A"} \cup (IF d.ip6 # None THEN {"AAAA"} ELSE {})

\* The name could not be cleared: the host is logged and skipped.
ClearBlocked(s) ==
  /\ pass[s].pc = "clear"
  /\ pass[s].queue = {}
  /\ pass[s].blocked
  /\ Local(s, [pass[s] EXCEPT
       !.pc = "hosts",
       !.noted = @ \cup ({pass[s].cur} \X ManagedTypes(Declared(pass[s])))])

ClearDone(s) ==
  /\ pass[s].pc = "clear"
  /\ pass[s].queue = {}
  /\ ~pass[s].blocked
  /\ LET p == pass[s] IN
       IF Declared(p).tunnel # None
       THEN Local(s, [p EXCEPT !.pc = "CNAME"])
       ELSE Local(s, [p EXCEPT !.pc = "A", !.cleared = @ \cup ClearedCNAMEs(p),
                               !.managed = @ \cup {<<p.cur, "A">>}])

----------------------------------------------------------------------------
(* reconcileFamily, for the family p.pc of the host p.cur.                 *)

\* Mutant of After: AAAA is marked managed only when it can be published.
AfterMarksPublished(p) ==
  IF p.pc = "A" /\ Declared(p).ip6 # None
  THEN [p EXCEPT !.pc = "AAAA",
                 !.managed = @ \cup (IF Effective(Declared(p), p.det, "AAAA") = None
                                     THEN {} ELSE {<<p.cur, "AAAA">>})]
  ELSE [p EXCEPT !.pc = "hosts"]

\* Mutant of After: the AAAA family follows itself.
AfterRepeats(p) ==
  IF Declared(p).ip6 # None
  THEN [p EXCEPT !.pc = "AAAA", !.managed = @ \cup {<<p.cur, "AAAA">>}]
  ELSE [p EXCEPT !.pc = "hosts"]

\* What follows a family: AAAA after A when the host asks for it (and it is
\* marked managed whatever becomes of it), else the next host.
After(p) ==
  IF p.pc = "A" /\ Declared(p).ip6 # None
  THEN [p EXCEPT !.pc = "AAAA", !.managed = @ \cup {<<p.cur, "AAAA">>}]
  ELSE [p EXCEPT !.pc = "hosts"]

Note(p) == [p EXCEPT !.noted = @ \cup {<<p.cur, p.pc>>}]

\* byName[key][type]: never told of what the clearing has deleted.
InByName(p) == {i \in Listed(p) : p.listed[i].name = p.cur /\ p.listed[i].type = p.pc}

\* What reconcileTunnelHost picks from the snapshot the clearing has reduced.
InKept(p) == {i \in Kept(p) : p.listed[i].name = p.cur /\ p.listed[i].type = p.pc}

\* The records the family is given as those it has to compare.
Existing(p) == IF p.pc = "CNAME" THEN InKept(p) ELSE InByName(p)

OwnedOnes(s, p) == {i \in Existing(p) : Owned(s, p.listed[i])}

InFamily(s) == pass[s].pc \in Families

\* Mutant of Available: an address that was not detected is published.
AvailableAlways(p) == TRUE

Available(p) == Effective(Declared(p), p.det, p.pc) # None

\* Mutant of InSync: a record of ours is rewritten on every load.
NeverInSync(r, want) == FALSE

InSync(r, want) == r.content = want.content /\ r.proxied = want.proxied

\* Mutant of Overwritten: the proxy mode keeps its old value.
OverwrittenContentOnly(r, want) ==
  [r EXCEPT !.content = want.content, !.comment = want.comment]

\* The record with its content and proxy mode overwritten and our tag on it.
Overwritten(r, want) ==
  [r EXCEPT !.content = want.content, !.proxied = want.proxied, !.comment = want.comment]

SkipUnavailable(s) ==
  /\ InFamily(s)
  /\ ~Available(pass[s])
  /\ Local(s, After(Note(pass[s])))

KeepInSync(s) ==
  /\ InFamily(s)
  /\ Available(pass[s])
  /\ \E i \in OwnedOnes(s, pass[s]) :
       InSync(pass[s].listed[i], Desired(s, pass[s], pass[s].pc))
  /\ Local(s, After(pass[s]))

UpdateOwned(s) ==
  /\ InFamily(s)
  /\ Available(pass[s])
  /\ \E i \in OwnedOnes(s, pass[s]) :
       LET p == pass[s]
           r == p.listed[i]
           want == Desired(s, p, p.pc)
       IN  /\ ~InSync(r, want)
           /\ Write(s, Change(s, i, Overwritten(r, want)), After(p), After(Note(p)))

LeaveUntagged(s) ==
  /\ InFamily(s)
  /\ Available(pass[s])
  /\ OwnedOnes(s, pass[s]) = {}
  /\ Existing(pass[s]) # {}
  /\ ~Declared(pass[s]).force
  /\ Local(s, After(Note(pass[s])))

ForceAdopt(s) ==
  /\ InFamily(s)
  /\ Available(pass[s])
  /\ OwnedOnes(s, pass[s]) = {}
  /\ Declared(pass[s]).force
  /\ \E i \in Existing(pass[s]) :
       LET p == pass[s]
           want == Desired(s, p, p.pc)
       IN  Write(s, Change(s, i, Overwritten(p.listed[i], want)), After(p), After(Note(p)))

Create(s) ==
  /\ InFamily(s)
  /\ Available(pass[s])
  /\ Existing(pass[s]) = {}
  /\ LET p == pass[s] IN
       Write(s, Creation(s, Desired(s, p, p.pc)), After(p), After(Note(p)))

----------------------------------------------------------------------------
(* The end of the pass.                                                    *)

FinishWithoutPrune(s) ==
  /\ pass[s].pc = "hosts"
  /\ pass[s].todo = {}
  /\ ~pass[s].conf.prune
  /\ Local(s, Return(pass[s], "ok", {}))

\* Mutant of Orphans: a name with any managed record keeps all of its records.
OrphansByName(s, p) ==
  {i \in Kept(p) : /\ Owned(s, p.listed[i])
                   /\ p.listed[i].name \notin {m[1] : m \in p.managed}}

Orphans(s, p) ==
  {i \in Kept(p) : /\ Owned(s, p.listed[i])
                   /\ <<p.listed[i].name, p.listed[i].type>> \notin p.managed}

StartPrune(s) ==
  /\ pass[s].pc = "hosts"
  /\ pass[s].todo = {}
  /\ pass[s].conf.prune
  /\ Local(s, [pass[s] EXCEPT !.pc = "prune", !.queue = Orphans(s, pass[s])])

\* pruneZone stops at the first deletion that fails; what was deleted before
\* is reported all the same.
PruneDelete(s) ==
  /\ pass[s].pc = "prune"
  /\ \E i \in pass[s].queue :
       LET p == pass[s]
           r == p.listed[i]
       IN  Write(s, Deletion(s, i, r),
             [p EXCEPT !.queue = @ \ {i}, !.pruned = @ \cup {<<r.name, TunnelOf(r)>>}],
             Return(p, "error", p.pruned \cup p.cleared))

FinishPrune(s) ==
  /\ pass[s].pc = "prune"
  /\ pass[s].queue = {}
  /\ Local(s, Return(pass[s], "ok", pass[s].pruned \cup pass[s].cleared))

----------------------------------------------------------------------------
(* What happens around the passes.                                         *)

\* The process dies in the middle of a pass; a restart is another Start.
Crash(s) ==
  /\ pass[s].pc # "idle"
  /\ Fail
  /\ Goto(s, Fresh)
  /\ UNCHANGED <<zone, late, intact>>

\* Cloudflare gets to a call whose client has given up on it.
Deliver(c) ==
  /\ c \in late
  /\ late' = late \ {c}
  /\ zone' = Applied(c)
  /\ intact' = IF zone' = zone THEN intact ELSE {}
  /\ UNCHANGED <<pass, used>>

\* The operator removes or repoints a record, or adds one, in the dashboard;
\* comments are not edited there.
Dashboard ==
  /\ used.edit < MaxEdits
  /\ used' = [used EXCEPT !.edit = @ + 1]
  /\ \/ \E i \in Ids : Live(i) /\ zone' = [zone EXCEPT ![i] = Deleted]
     \/ \E i \in Ids, v \in V4 :
          /\ Live(i)
          /\ zone[i].type = "A"
          /\ zone[i].content # v
          /\ zone' = [zone EXCEPT ![i].content = v]
     \/ \E n \in Names, v \in V4 :
          LET r == [name |-> n, type |-> "A", content |-> v,
                    proxied |-> FALSE, comment |-> NoTag]
          IN  Creatable(r) /\ zone' = [zone EXCEPT ![NewId] = r]
  /\ intact' = {}
  /\ UNCHANGED <<pass, late>>

----------------------------------------------------------------------------

Init ==
  /\ zone \in InitZones
  /\ pass = [s \in Servers |-> Fresh]
  /\ late = {}
  /\ intact = {}
  /\ used = [load |-> 0, fault |-> 0, edit |-> 0]

\* The steps that carry a pass forward.
Advance(s) ==
  \/ Lookup(s) \/ List(s) \/ NextHost(s)
  \/ ClearDelete(s) \/ ClearBlocked(s) \/ ClearDone(s)
  \/ SkipUnavailable(s) \/ KeepInSync(s) \/ UpdateOwned(s)
  \/ LeaveUntagged(s) \/ ForceAdopt(s) \/ Create(s)
  \/ FinishWithoutPrune(s) \/ StartPrune(s) \/ PruneDelete(s) \/ FinishPrune(s)

ServerStep(s) == Start(s) \/ Advance(s) \/ Crash(s)

Next ==
  \/ \E s \in Servers : ServerStep(s)
  \/ \E c \in late : Deliver(c)
  \/ Dashboard

Spec == Init /\ [][Next]_vars

\* Every call ends within the HTTP client's timeout, so a pass keeps moving.
FairSpec == Spec /\ \A s \in Servers : WF_vars(Advance(s))

----------------------------------------------------------------------------
(* Properties.                                                             *)

\* Every variable keeps its type: the shape of reconcileZone's locals and of
\* the records Cloudflare holds.
TypeOK ==
  /\ zone \in Zone
  /\ pass \in [Servers -> PassState]
  /\ late \subseteq Call
  /\ intact \subseteq Servers
  /\ used \in [load : Nat, fault : Nat, edit : Nat]

\* The names server s may ever force_adopt, and those where it may ever own
\* a record.
Adopts(s) ==
  {n \in Names : \E conf \in Configs[s] :
                    n \in DOMAIN conf.hosts /\ conf.hosts[n].force}

Scope(s) ==
  {n \in Names :
     \/ \E conf \in Configs[s] : n \in DOMAIN conf.hosts
     \/ \E z \in InitZones, i \in Ids :
          z[i] \in Record /\ z[i].name = n /\ z[i].comment = Tag[s]}

\* What docs/multiple-servers.md asks of an operator: no server is told to
\* force_adopt a name that another one looks after.
AdoptionDisjoint ==
  \A s, t \in Servers : s # t => Adopts(s) \cap Scope(t) = {}

\* The records server s may change or delete: its own, and records no server
\* has tagged at names it is told to adopt.
Entitled(s, r) == r.comment = Tag[s] \/ (r.comment = NoTag /\ r.name \in Adopts(s))

ActsNow(s) == pass'[s] # pass[s]
ActsLate(s) == \E c \in late \ late' : c.server = s

Changed(i) == zone'[i] # zone[i]

\* Ownership (docs/multiple-servers.md, record-ownership spec): whatever the
\* interleaving of passes, whatever was listed long ago, lost and applied
\* late, a server's calls only ever change records that are its own when the
\* change lands (or untagged ones it adopts), and only leave its own tag.
OwnershipRespected ==
  [][\A s \in Servers : ActsNow(s) \/ ActsLate(s) =>
       \A i \in Ids : Changed(i) =>
         /\ Live(i) => Entitled(s, zone[i])
         /\ zone'[i] \in Record => zone'[i].comment = Tag[s]]_vars

\* The passes, whatever they have listed, lost or left behind, amount to the
\* ownership protocol: every change of the zone is one the protocol allows,
\* and only the operator's own count as the operator's.
Protocol == INSTANCE OwnershipProtocol
              WITH MayAdopt <- [s \in Servers |-> Adopts(s)], edits <- used.edit

ImplementsProtocol == Protocol!Spec

\* The (name, type) pairs a configuration asks for.
Wanted(conf) ==
  {w \in Names \X Types :
     /\ w[1] \in DOMAIN conf.hosts
     /\ LET d == conf.hosts[w[1]]
        IN  IF d.tunnel # None THEN w[2] = "CNAME"
            ELSE w[2] = "A" \/ (w[2] = "AAAA" /\ d.ip6 # None)}

\* A pass never deletes a record its own configuration asks for, although
\* prune works from marks that a host's failed clearing skips: that skip is
\* harmless only because Cloudflare lets no CNAME live beside an address, so
\* that no listing shows both, unless the zone changed between two pages.  There
\* the promise "never from whether a reconcile attempt succeeded"
\* (reconcile.go:312-314) is broken, and nothing is claimed.
DeclaredSpared ==
  [][\A s \in Servers, i \in Ids :
       ActsNow(s) /\ Live(i) /\ zone'[i] = Deleted /\ Legal(pass[s].listed)
         => <<zone[i].name, zone[i].type>> \notin Wanted(pass[s].conf)]_vars

\* The call that creates a record is never one Cloudflare refuses, as long as
\* nobody else touched the zone: conflicting records were cleared first.
CreationIsLegal ==
  \A s \in Servers :
    s \in intact /\ InFamily(s) /\ Existing(pass[s]) = {}
      => \A i \in At(pass[s].cur) :
           zone[i].type # pass[s].pc /\ Coexists(zone[i].type, pass[s].pc)

\* What a family compares, overwrites or adopts is what the zone holds, as long
\* as nobody else touched the zone: byName is built once from the listing and
\* never told what the clearing has deleted since.
FoundAsListed ==
  \A s \in Servers :
    s \in intact /\ InFamily(s)
      => \A i \in Existing(pass[s]) : zone[i] = pass[s].listed[i]

Finishing(s) ==
  /\ pass[s].pc \in {"hosts", "prune"}
  /\ pass'[s].pc = "idle"
  /\ pass'[s].status # "none"

\* The record declared for w, tagged by s.
Fulfilled(s, p, z, w) ==
  LET d == p.conf.hosts[w[1]]
      content == Effective(d, p.det, w[2])
  IN  \E i \in Ids :
        z[i] = [name |-> w[1], type |-> w[2], content |-> content,
                proxied |-> Proxied(d, w[2], content), comment |-> Tag[s]]

\* No silent failure: when a pass that nobody interfered with returns, each
\* record the configuration asks for is in the zone as declared, or the log
\* says it is not.
FulfilledOrNoted ==
  [][\A s \in Servers : Finishing(s) /\ s \in intact =>
       \A w \in Wanted(pass[s].conf) \ pass'[s].noted :
         Fulfilled(s, pass[s], zone', w)]_vars

\* After a prune that reports success the zone holds no record of this server
\* that its configuration does not ask for.
NoOrphanAfterPrune ==
  [][\A s \in Servers :
       Finishing(s) /\ s \in intact /\ pass[s].conf.prune /\ pass'[s].status = "ok"
         => \A i \in Ids : zone'[i] \in Record /\ zone'[i].comment = Tag[s]
              => <<zone'[i].name, zone'[i].type>> \in Wanted(pass[s].conf)]_vars

\* A listed record with our tag has what its declaration says, if that much
\* is known.
AsDeclared(p, r) ==
  LET d == p.conf.hosts[r.name]
      content == Effective(d, p.det, r.type)
  IN  content # None => r.content = content /\ r.proxied = Proxied(d, r.type, content)

\* Nothing in the listing calls for a change: what can be published is, and
\* every other record is one the configuration leaves alone.
Settled(s, p) ==
  /\ Legal(p.listed)
  /\ \A w \in Wanted(p.conf) :
       Effective(p.conf.hosts[w[1]], p.det, w[2]) # None => Fulfilled(s, p, p.listed, w)
  /\ \A i \in Ids : p.listed[i] \in Record =>
       LET r == p.listed[i]
       IN  \/ /\ <<r.name, r.type>> \in Wanted(p.conf)
              /\ r.comment = Tag[s] => AsDeclared(p, r)
           \/ /\ r.name \in DOMAIN p.conf.hosts
              /\ r.comment # Tag[s]
              /\ ~p.conf.hosts[r.name].force
           \/ /\ r.name \notin DOMAIN p.conf.hosts
              /\ r.comment = Tag[s] => ~p.conf.prune

WritesOf(s) ==
  ClearDelete(s) \/ UpdateOwned(s) \/ ForceAdopt(s) \/ Create(s) \/ PruneDelete(s)

\* Reloading an unchanged configuration writes nothing: a pass whose listing
\* already shows what the configuration asks for issues no write call.
WritesOnlyToSettle ==
  [][\A s \in Servers : WritesOf(s) => ~Settled(s, pass[s])]_vars

\* The names a pruning pass reports, each with the tunnel whose route may be
\* deleted, are exactly the tunnel CNAMEs it listed and that are gone now.
ReportExact ==
  [][\A s \in Servers :
       Finishing(s) /\ s \in intact /\ pass[s].conf.prune =>
         {e \in pass'[s].report : e[2] # None} =
           {<<pass[s].listed[i].name, TunnelOf(pass[s].listed[i])>> :
              i \in {j \in Ids : /\ pass[s].listed[j] \in Record
                                 /\ TunnelOf(pass[s].listed[j]) # None
                                 /\ zone'[j] = Deleted}}]_vars

----------------------------------------------------------------------------
(* What documents and comments say, and the code does not keep.            *)

\* "another instance's tag -> never touched, not even by force_adopt"
\* (docs/multiple-servers.md:23).
TaggedByOthersUntouched ==
  [][\A s \in Servers, i \in Ids :
       ActsNow(s) /\ Live(i) /\ Changed(i) => zone[i].comment \in {Tag[s], NoTag}]_vars

\* An untagged record in the way is "a descriptive error and nothing is
\* deleted" (docs/architecture.md:127).
BlockedClearingDeletesNothing ==
  [][\A s \in Servers :
       ClearDelete(s) /\ zone' # zone
         => \A i \in Kept(pass[s]) :
              LET r == pass[s].listed[i]
              IN  r.name = pass[s].cur /\ r.type \in Blocking(Declared(pass[s]))
                    => r.comment # NoTag \/ Declared(pass[s]).force]_vars

\* A failed detection leaves "existing Cloudflare records of auto-IP hosts
\* unchanged" (openspec/specs/public-ip-detection/spec.md:58).
UndetectedLeftUnchanged ==
  [][\A s \in Servers, i \in Ids :
       LET p == pass[s]
           n == zone[i].name
       IN  /\ ActsNow(s) /\ Live(i) /\ Changed(i)
           /\ n \in DOMAIN p.conf.hosts
           => \E ty \in Types : /\ <<n, ty>> \in Wanted(p.conf)
                               /\ Effective(p.conf.hosts[n], p.det, ty) # None]_vars

\* The conflicting CNAME is cleared first because otherwise "prune only removes
\* the CNAME afterwards, leaving the name with no record" (reconcile.go:347).
PruneNeverEmptiesAHost ==
  [][\A s \in Servers, i \in Ids :
       PruneDelete(s) /\ Live(i) /\ Changed(i) /\ zone[i].name \in DOMAIN pass[s].conf.hosts
         => \E j \in Ids : zone'[j] \in Record /\ zone'[j].name = zone[i].name]_vars

----------------------------------------------------------------------------

\* Every pass ends, whatever fails in it.
PassEnds == \A s \in Servers : pass[s].pc # "idle" ~> pass[s].pc = "idle"

=============================================================================
