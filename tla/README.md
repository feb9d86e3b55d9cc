# Verification of the Cloudflare DNS manager for Caddy

This directory holds TLA+ models of the plugin (Go package `cfdnsmanager`), the
TLC configurations that check them on small instances, and proofs checked by
TLAPS. The reference is the Go source; line numbers in `PROJECT.json` point into
it.

## The system

A Caddy server with this plugin publishes the hosts of its Caddyfile at
Cloudflare. A configuration load adapts the Caddyfile (`caddyfile.go`), provisions
the handlers, which register their hosts (`registry.go`), and starts the app
(`app.go`), which reconciles once and synchronously (`reconcile.go`): it detects
public addresses (`publicip.go`), reconciles all zones in parallel through the
DNS API (`cloudflare.go`), waits, and then brings the ingress rules of the
tunnels up to date (`tunnelingress.go`, `tunnel.go`). Nothing is persisted by
the plugin: its only memory is the comment `<tag_prefix>:<instance>` on the
records it made, and nothing runs between loads.

| Component | State it keeps | Operations | Talks to |
|---|---|---|---|
| Caddyfile adapter | none | parse the global block and the site blocks, resolve tunnel names | App and HostConfig JSON |
| Host registry | the hosts of one app, under a mutex | `addHost`, `hostsSnapshot`, tunnel lookups, `assignZone` | handlers, `Start` |
| Lifecycle | the app instance of a load | Provision, Validate, Start, Stop | Caddy |
| Address detection | none | one HTTP lookup per family, in parallel | echo services |
| Load (`Reconcile`) | groups by zone, accounts, deleted names, errors | fan out, wait, ingress phase, aggregate | zone passes, tunnels |
| DNS pass of a zone | the listing, marks of managed (name, type) pairs, deleted names | look up, list, clear, create, update, adopt, prune | Cloudflare zone, shared with other servers and the operator |
| Ingress phase | plan, names to prune, per-tunnel goroutines | derive, read, merge, write | Cloudflare tunnels, shared likewise |
| API client | none | calls with a timeout, no retry | Cloudflare |

What is hard: several servers share a zone and act on listings that age; calls
time out and may be applied later; a pass fails half-way and prune still runs;
two record classes exclude each other at Cloudflare; routes may be deleted only
when their record is known to be gone, knowledge that lives for one load; a
write of a tunnel replaces a document that others edit too. `PROJECT.json`
lists these hazards at their lines with the properties that cover them.

What makes each component correct:

- *DNS pass*: touches only records of its own tag (or untagged ones it adopts);
  publishes what is declared or says that it did not; prune removes exactly the
  owned records that are not declared; a settled zone gets no write; a pass ends.
- *Ingress phase*: declared hosts are routed; only dead routes of zones that
  opted in are deleted; foreign rules survive with their settings and order; the
  configuration ends with a catch-all; reloading writes nothing.
- *Load*: every declaration reaches the pass of its zone once, with the
  addresses it waits for; the failure of one part does not stop the rest; the
  answer to Caddy tells what happened; a load ends.
- *Registry*: one declaration per host, also when handlers race.
- *Adapter*: what a block means does not depend on the order of its lines, and a
  host is one host however it is spelled.
- *Names*: relative and full forms of a name meet in one key.

## Modules

| Module | What it is |
|---|---|
| `OwnershipProtocol` | abstract: the records of a shared zone change only by their owner, or by the operator |
| `ZoneReconcile` | `reconcileZone` and what it calls, one step per API call, several servers on one zone |
| `MCZoneReconcile`, `MCZoneShared` | small instances; the second adds the assumption of the ownership theorems |
| `ZoneReconcileProofs` | type correctness of `ZoneReconcile` |
| `ZoneOwnershipProofs` | ownership and refinement of `OwnershipProtocol` |
| `ZonePassProofs` | what a pass as a whole does to its zone: publishes, spares, prunes, reports, settles |
| `RecordNames` | zone assignment, relative names and record keys on sequences of labels |
| `AddressClasses`, `AddressClassesProofs` | `isPrivateIP` on octets, and the blocks it stands for |
| `Caddyfile` | the adapter: a global block and site blocks to the app and its handlers |
| `Startup`, `MCStartup` | a load around its reconciliation: adapt, provision, detect, fan out, answer |
| `StartupProofs` | what record names, the adapter, the registry, the grouping, the detection and the answer of a load promise |
| `Subsequences`, `SubsequencesProofs` | what a sort and a filtering loop return, as sequences, and what is proved of them |
| `IngressRules`, `IngressRulesProofs` | rules of a tunnel: plan, merge, prune, comparison, as operators; what they keep, drop and end with |
| `Reconcile`, `ReconcileProofs` | one server's load: parallel zone passes, wait, ingress phase; its safety |
| `MCReconcile` | small instances of it |

### ZoneReconcile

`zone` maps record ids to records (`cfDNSRecord`), to `Unborn` or to `Deleted`.
`pass[s]` holds the locals of server *s*'s `reconcileZone`: `listed` the listing,
from which `byName` is built once (`Listed`), `dropped` what clearing removed from
the snapshot `records` (`Kept`), `managed` the marks, `cleared` and `pruned` the names to report, `pc`
the place in the code. An action is an API call with the code up to the next
one: `Lookup`, `List` (one page of the listing), `NextHost` (entering `clearConflictingRecords`),
`ClearDelete`, `ClearBlocked`/`ClearDone`, then per family `SkipUnavailable`,
`KeepInSync`, `UpdateOwned`, `LeaveUntagged`, `ForceAdopt` or `Create` (the
branches of `reconcileFamily`, over the `Existing` records: an address family
gets those of `byName`, which is never told of deletions, the CNAME those of the
reduced snapshot), then `StartPrune`, `PruneDelete`, `FinishPrune`.
`Write` gives a call its outcomes: applied, refused, or failed in transit, and
then it may be in `late`, from which `Deliver` applies it at any time. `Crash`
ends a pass anywhere; `Dashboard` is the operator. Cloudflare's rules (no CNAME
beside addresses, no second record of one name and type on creation) follow the
repository's mock server. Cloudflare itself refuses only a second record with the
same content, so duplicates made by a late creation do not occur in the model;
duplicates that were there from the start do. `noted` stands for the log: which of a host's records
the log says were not published. `intact` is a history variable: the servers
whose listing nobody else has changed since its first page was read.

A listing is read page by page in the order of creation, with anything in
between: a record deleted meanwhile moves later ones forward, and they are
missed; one created meanwhile may or may not be seen. `MorePages` is the loop's
condition (`len(pageRecords) < 100`, with `PageSize` for the 100). Records of
other types, which fill pages and are then left out, are abstracted.

Data: names are canonical, addresses and tunnels are model values,
`Private` is the set `isPrivateIP` recognises; a writable record has the
fields the code compares. The loop over hosts and over records may take them in
any order (the registry's and Cloudflare's orders are not fixed).

`Private` is computed by the small instances with `IsPrivateIP` of
`AddressClasses`, from one address of each sort they use (`PrivateAsCoded`).

### RecordNames, Caddyfile and Startup

`RecordNames` has a name as its labels, lower-case, without the final dot; the
apex (`@`) is the empty sequence. `Key` is what `reconcileZone` computes for a
host, which normalises twice; `Doubled` says when that matters.

`Caddyfile` folds the lines of a block as `parseGlobalOption` and
`parseHostBlock` do: `ReadGlobal` and `ReadHostLine` are the `switch` of each,
`GlobalRead` and `HostRead` what the loop has after each number of lines,
`Coherent` the checks after the loop, `Directive` the resolution of zone and
tunnel, and its result the fields of `HostConfig` that survive in the handler's
JSON. Names are normalised where the code does it, and only there. Any error is
`Rejected`. Words are members of sets: addresses by the family `net.ParseIP`
gives them (with the mapped ones, which are IPv4 to `To4`), services and UUIDs by
whether they are accepted.

`Startup` is one Caddy process. `Adapt` or `RefuseFile` is the adapter,
`ProvisionApp`/`RefuseApp` are `Provision` and `Validate`, then handlers
register concurrently: `Lock`, `FindFree` or `FindTaken`, `Append1` are
the steps of `addHost` around its mutex. `Start` takes the snapshot and decides
which families to detect, `Detect` ends one request, `Group` is the grouping by
zone after `wg.Wait`, `PassEnds` the return of one zone's goroutine, `Ingress`
the phase after it and `Return` Caddy's reaction. A pass is only its outcome
here; `ZoneReconcile` has its steps and `Reconcile` the ingress phase. `Crash`
ends it anywhere. The configuration Caddy runs is `running`.

### IngressRules and Reconcile

`IngressRules` translates the pure functions of `tunnelingress.go` and
`tunnel.go`. An origin request is absent or a JSON object, a function from keys
to values; hostnames are in lower case, as the code compares them. `Ordered` is
the sort of `deriveIngressPlan`, `Picked` the loops that keep some elements of a
slice; both come from `Subsequences`, where they have no recursion but that of a
function, so that they can be proved about.

`Reconcile` is `App.Reconcile` of one server. `ZonePass(z)` is the goroutine of a
zone in one step: every record of this server at a name reaches its goal, or not
(`stuck`), or was cleared and not replaced (`emptied`); with `prune` the deleted
tunnel CNAMEs are reported, which is what `ReportExact` checks of the detailed
pass. `BeginIngress` is the return of `wg.Wait`; then each tunnel is read
(`ReadFails`, `RefuseLocal`, `Read`) and, if its rules have `Drifted`, written (`Written`,
`WriteFails`) by a goroutine of its own. `Edit` is the dashboard or another
server; `Deliver` a timed-out PUT. `retired` remembers all CNAMEs deleted under
prune, `intact` the tunnels that no one else has changed since this load began or, if
later, since it read them: a write replaces what the plugin read, the API has no
version to check, and a property of a write can only speak of such tunnels.

## Runs

| Run | Shows |
|---|---|
| `zone_alone` | one server, every declaration against every kind of record, 2 loads, 2 failures or crashes, calls lost and late, listings in pages of 2 |
| `zone_shared` | two servers and one operator's edit, 3 loads, 1 failure: ownership, and refinement of the protocol |
| `load_many` | 2 loads over 2 zones and 3 tunnels in 2 accounts, 1 failure, 1 edit, over hosts with a tunnel record, an address or nothing, and over hosts that all have tunnel records: routes are published, only dead ones go, foreign rules stay, and every load returns |
| `app_load` | 2 loads out of 17 Caddyfiles: what is refused, how handlers race, which detection a pass waits for, which pass a host reaches, what Caddy is answered |
| `zone_force_adopt`, `zone_blocked`, `zone_undetected`, `zone_revert_fails` | a document or comment against what the DNS pass does |
| `load_scheme`, `load_catch_all_path`, `load_foreign_path`, `load_removal` | the same for the ingress phase |

Bounds. `MaxLoads`, `MaxFaults` and `MaxEdits` bound loads, failures with
crashes, and edits; `Ids` bounds the records ever created. Two names are
enough for a pass to have a host behind it and one before it, two loads for a
late call of the first to meet the second and for a partial failure to be
repaired, four ids for two initial records and two creations. Three servers add
no new kind of conflict: a record has one owner, and the theorems hold
for any number. Two zones and three tunnels give a tunnel fed by two zones, one
without a plan, and one that is local or of another account. Pages hold 2 records in the passing zone runs, so that a zone of
three or four records takes two requests and one of two the empty second page
the code asks for; in the runs of the findings (3) one page is enough. The files
of `app_load` are one for each way a file can be refused and each way its parts
can meet: nested zones declared in either order, one host in three spellings, a
name that ends in the zone twice, prune without hosts, a zone twice, a tunnel
beside an address host, both families to detect. Two or three handlers are all
that a lock can be contended by in a new way. Deadlock checking
is off where the system may stop: when the loads are used up nothing is left to
do.

Fairness. `FairSpec` asks weak fairness of the steps of a pass only: each is an
HTTP call with a 15 s client timeout, or local code. In `Reconcile` the same is
asked of the steps of a load (`Advance`), in `Startup` of `Progress`: goroutines
run, detection requests have timeouts of 15 and 5 s, and Caddy goes on when
what it waits for is there. Nothing is asked of late calls, crashes, the
operator or the start of loads.

What the violated properties show is listed under `findings`, with the lines of
the code and of the text that disagree:

1. `force_adopt` overwrites records tagged by other instances.
2. A host blocked by an untagged record loses its owned records all the same.
3. Clearing the CNAME of a reverting host does not wait for a detected address.
4. A clearing that fails once ends with prune emptying the name.
5. A service that leaves https keeps `matchSNItoHost`, which the comparison then
   counts as drift for ever: one write per load.
6. The path of a rule without hostname moves to the emitted catch-all.
7. Two foreign rules of one hostname: the one without a path gets the other's.
8. A route whose deletion failed is never tried again.

Observed without a text to hold it against: `a.example.com.example.com` and
`a.example.com` are two hosts to `addHost` and one record to `reconcileZone`,
because the relative name of the first is normalised again (the theorems on names
say for which hosts keys are unique); of two entries for one zone the last gives
the token and the first decides on prune; `ip ::ffff:1.2.3.4` is accepted and
sent as an A record; a load whose reconciliation fails is refused, so Caddy goes
on with the old configuration while DNS already has the new one's
(`docs/architecture.md:249` says Caddy still starts, of failures of a host).
When a host moves from one tunnel to another its CNAME is updated and not
deleted, so that no load ever deletes its route on the old tunnel: only the
deletion of a record frees a route.

A text is also broken by a listing that is torn between two pages. A load's
creation of an address times out; a later configuration makes the name a tunnel
host's; then it becomes an address host's again. The load for that reads the CNAME
on the first page; before the next one the operator deletes the CNAME, and the
late creation lands. The snapshot then shows both records, which the zone never
held together. Deleting the CNAME fails, since it is gone, the `continue` at
`reconcile.go:359` leaves the host's families unmarked, and prune deletes the
declared address; the next load repairs it. The comment at `reconcile.go:312` and
`docs/architecture.md:92` promise that what prune spares is derived from the
configuration, "never from whether a reconcile attempt succeeded". No run of its
own shows it: `DeclaredSpared` is stated for listings without a CNAME beside another
record, which is what the code keeps, and without that condition TLC finds this
behaviour from an empty zone with two names, 3 loads, 1 failure, 1 edit and pages
of one record.

## Proofs

All constants are arbitrary: any servers, names, ids, configurations and bounds,
under the assumptions `ZoneReconcile` names (tags differ, markers are not
records, inputs are typed, initial zones are legal).

*Type correctness* (`TypeCorrect`). `TypeOK` alone is not inductive: that the
record to delete is a record needs `queue` to hold listed records only, and that
the host being reconciled has a declaration needs `cur` to be in the
configuration. `TypeInv` adds this as `Coherent`.

*Ownership* (`OwnershipTheorem`). Assumption `AdoptionDisjoint`: no server may
`force_adopt` a name where another one declares or owns records, what
`docs/multiple-servers.md` asks of operators. That one server adopts what another
one is about to delete is thereby excluded, in the theorems and in `zone_shared`;
`zone_force_adopt` shows what such an adoption does. A call acts on what was listed long before, so
the invariant has to speak of every id a server may still act on. `OwnershipInv`
adds to `TypeInv` that live tagged records lie in their owner's scope (`InScope`)
and that whatever a pass has listed and may act on, and whatever a late call
names, is still this server's to change, or is gone (`Rightful`, `Legit`). The
key lemma is that such rights last: ids are never reused, nobody else may
rewrite such a record, and the name of a record never changes. From it every
landing call is within its server's rights.

*Refinement* (`RefinementTheorem`). With the same invariant every step that
changes `zone` is `Create`, `Rewrite`, `Remove` or an operator's step of
`OwnershipProtocol`; all others leave `zone` alone. The mapping is the identity
on `zone` and takes the operator's edits from `used.edit`, so that no step of a
server passes for one of the operator. The protocol does not record which server
took a step; that it was the owner is what `OwnershipRespected` adds.

*A pass as a whole* (`ZonePassProofs`). The properties of a pass relate its last
step to all it did before, over a zone that late calls, other servers and the
operator change. None is inductive; `ZoneInv` is, and has

- `TypeInv`, as above, and that the zone has a CNAME alone at its name (`Legal`);
- `Remembered`: a record that was listed, or that a late call updates, has the
  name and type it was taken for, or is gone. True whoever changes the zone,
  because ids are given once and no change renames a record (`Moves`);
- `Orderly`: the order of `reconcileZone`, also independent of the zone. What is
  marked managed is wanted and no longer to do; the clearing has before it just
  what is in the way of the host; when a host has had its turn (`Past`), each of
  its families is marked, or something listed was left in its way; what prune
  still has to delete are orphans;
- `Reading`: while nobody else has changed the zone since its first page, the
  pages read are the first records of the zone in the order of their ids;
- `Exact`: from the last page on, again while nobody else has changed the zone,
  every record of it is as listed, or of a family the pass has dealt with, and
  every listed one that is gone was cleared or pruned (`Tracked`); what was
  cleared or pruned will be reported, and nothing else (`Reported`); the orphans
  prune has behind it are gone (`Taken`); a family that is done is in the zone
  as declared or is noted (`Published`).

The first three give what holds under any interference. `DeclaredTheorem`:
clearing deletes records of the other class only, and prune an unmarked one only
if its family is not wanted or its host was skipped; a host is skipped with
something in its way, and then a legal listing shows none of its records.
`SettledTheorem`: in a settled listing every branch of the pass leads past the
writes. `Reading` turns into `Exact` at the last page (`LastPageExact`), which
needs that a page with room left is the end of the zone: the ranks of live
records have no gaps (`RankReached`), so a page with a record behind it is full
(`FullPage`). Then every step of the pass keeps `Exact`
(`ServerExact`). `CreationTheorem` and `FoundTheorem` follow from `Tracked`, `PublishedTheorem` from
`Published` once no host is left to do, `OrphanTheorem` from `Taken` and `Tracked`,
`ReportTheorem` from `Reported` and `Tracked`.

The attempt to prove two of these properties as they stood first showed where
they were wrong, outside the bounds of the runs. `DeclaredSpared` fails when a
listing was torn between pages, as told above, so it speaks of legal listings.
`WritesOnlyToSettle` called a listing settled when it showed the declared record
and another one of the same server and family with other contents, which the pass
rightly corrects; `Settled` now asks that of every owned record (`AsDeclared`).

*The registry* (`RegistryTheorem`). `HostsDistinct` is not inductive: a handler
that found its host free is about to append it. `RegistryInv` adds that whoever
is between lock and unlock is the holder (`Exclusive`) and that what such a
handler found still holds (`StillFree`): only the holder appends.

*The answer of a load* (`OutcomeTheorem`). `OutcomeInv` says that `failed` is
exactly the zones whose pass failed and the ingress phase, while passes run
(`Outcomes`), and that nothing has failed before there are passes (`Staged`).
`Return` is then the only step from "return" that answers, apart from a crash,
which answers nothing.

*A load from the Caddyfile to its passes* (`StartupProofs`). The loops of the
adapter are recursive functions of the number of lines read; that they have a
solution, so that their recursion may be used, follows from the least number at
which there would be none (`GlobalReadIs`, `HostReadIs`). What a prefix of the
lines has made of the app or the host is then an invariant of the loop, extended
line by line (`ReadGlobalTyped`, `ReadHostLineTyped`) and shown for all of them
by the least line at which it would fail (`ParsedTyped`, `BlockTyped`). For the
whole load `InputInv` has

- `Carried`: app and declarations are what the adapter makes of the file, names
  normalised, tunnels resolved;
- `Registered`: a handler that is done has its declaration in the registry, and
  after provisioning all are;
- `Grouped`: a pass is what `Picked` takes from the registry for its zone;
- `Detecting`: from `Start` on a family that is needed is asked for, and in the
  passes nothing is still asked;
- `Plain`: types of the rest.

With the registry's invariant this gives `TypeTheorem` (with `DeclarationClean`
and `PassTyped`: what the adapter hands over, and so what a pass gets, is
normalised), `ZoneTheorem`,
`InformedTheorem`, `TunnelTheorem`, and, with `KeysTellHostsApart` below,
`OneRecordTheorem`: two hosts of a pass are two records, because they differ in
the registry and nothing is left for the pass to normalise. `OrderTheorem` says
of a host block what it is without mentioning the order of its lines: `Rejected`
if one of them is, else the value of its line for each setting given and the
initial one for the others (`ReadsAs`); two orders of the same lines then meet in
one value (`OrderForgotten`).

Assumed of the inputs: lowering letters twice is lowering them once
(`LabelsLowered`); zones and hosts are names or, for hosts, matchers, and no zone
ends in two dots (`FilesTyped`: the code trims one, so a zone written so would
be kept with the other and hold no host); the value that stands for an error is
no host (`RejectedApart`); addresses of the two families and the words for a
missing one differ (`AddressesApart`).

*Names*. `FormsMeet`: the key of a host is the key of the record Cloudflare
lists for it. `PublishedUnderItsName`, `KeysTellHostsApart`: outside doubled names
a record has the declared name and no two hosts share a key. `ListedNamesApart`:
two listed names never share one. They rest on two lemmas, that a name is what
is in front of its zone followed by the zone (`StripThenZone`, `ZoneThenStrip`).

*Address classes*. `CarrierBlock`, `PrivateBlocks` and `UniqueLocalBlock` put the
octet comparisons of `isCGNAT`, `isPrivateIP` and `isULA` against the blocks as
ranges of 16-bit prefixes, for every address.

*Sorts and loops* (`SubsequencesProofs`). `OrderedLists`: the elements of a
finite set in the order of distinct ranks are one sequence, ascending and without
repetition, and `ListsUnique`: no other one is. `PickedIs`: a filtering loop
returns the elements at the chosen places, once each and in order. The loop is a
recursive function; that it has the closed form follows from the least place at
which it would not (`Least`, from the well-foundedness of the naturals).

*The rules of a tunnel* (`IngressRulesProofs`). `PlanIs`, `PlanDeterministic`: a
plan has one rule for each host of the tunnel and a last one for all traffic,
whatever the order of provisioning. `MergedIs`, `MergedKeeps`: a merge has the
planned rules and the foreign ones, no host but those, ends as the plan does, and
keeps foreign rules in order with their services and options. `PrunedOnlyIs`,
`PrunedOnlyKeeps` say the same of the prune-only path.

*A load's writes and what it leaves* (`ReconcileProofs`). None of the properties
of `Reconcile` is inductive. `Inv` adds to `TypeOK`:

- `PhasesOK`: which locals are in use in which phase, that a tunnel is either to
  be read or to be written, and that without an error each visited zone has told
  its account. Without the last a load could end well having skipped its tunnels.
- `ReportOK`: a reported name's zone declares prune, its pass is over, and its
  record leads to the tunnel no more. This carries what the DNS phase knew to the
  write that deletes the route.
- `WritesOK`: a write to come settles its tunnel, ends with a catch-all, and is
  exactly what the rules *now* at Cloudflare call for, as long as nobody else has
  changed them (`intact`). It ties the GET to the PUT.
- `ProgressOK`: while nothing has failed, a tunnel that was read is settled or
  about to be written.
- `RulesOK`: rules at Cloudflare and in late writes are ones its API takes.

From it follow `WritesAreAuthorised`, `WritesEndWithCatchAll`,
`DeletedRoutesAreDead` and `ForeignRulesStay` for each write, and `LoadSettles`,
with `LoadPublishes` and `LoadDeletes`, for a load that returns without an error.
The assumptions are those of the modules: configurations are finite and name
registered tunnels (`ConfigsValid`, what the adapter admits), rules written by
others are valid (`SetupsValidated`, `docs/cloudflare-tunnel.md:392`: what the
API requires), ranks order hostnames as strings, blanks are no values.

`WritesSettle` says that computed once more from what was written the rules come
out as they are (`MergeSettles`). This is not yet that a second load writes
nothing: the comparison also counts a `matchSNItoHost` on a service that is not
https as drift, which is finding 5. Where no rule has one (`SNIWanted`), there is
nothing to write, and `MergeSettles` says so. The condition `DonorsSuit` leaves
out tunnels where the rules of a host mix https with other services: there a rule
may inherit `matchSNItoHost` from a donor that a later merge no longer finds
first, and the result does change. Otherwise (`MergedSettles`) a rule that follows the plan is
what the plan makes of itself (`AuthoredSettles`); a foreign rule has, after one
merge, nothing left to take from the first rule of its host (`ForeignSettles`);
and both keep their places (`MergedParts`, `KeptSettles`).

The shared run checks `AdoptionDisjoint` for its configurations and the two
properties by enumeration. Only model-checked: liveness (`PassEnds`, `LoadEnds`,
`LoadAnswered`), which is out of the prover's reach, and in `load_many` what the
list above does not name. Of the zone runs and of `app_load` all but liveness is
proved.

## Not modelled

- DNS calls landing late in `Reconcile` (they do in `ZoneReconcile`), and the
  steps of a pass inside a load of `Startup`: the product would be too large,
  and the passes of two zones share nothing but the errors and names they report.
- Two servers that write one tunnel at the same time: `Edit` stands for the
  other one. What a PUT overwrites that was written after its GET is lost, in the
  code as in the model; no property of a write speaks of such a tunnel (`intact`).
- The tunnel-level settings carried through a write; origin requests that are
  not objects (the API does not return them).
- Syntax without a state behind it: service URLs, UUIDs, Caddy's own grammar,
  which the adapter gets as tokens and matchers; encoding of requests; log texts
  and the warning about shadowing wildcards.
- Edits of comments in the dashboard: whoever changes a tag gives the record
  away, which the model has as an untagged record or another server's.
- Caddy beyond what the plugin sees: that it stops the old app after starting
  the new one does not matter, as `Stop` does nothing.
- `ServeHTTP` passes requests through; the test environment provisions a tunnel.

## Plan

Done: all modules of the table, with their runs, and proofs of every property of
the passing runs but liveness. Left: what connects the models of one thing at two
levels, above all that the one-step `ZonePass` of `Reconcile` allows whatever
`ZonePassProofs` shows the passes of `ZoneReconcile` to do, as an abstract
specification of a pass that the first uses and the second implements.
