--------------------------- MODULE ZonePassProofs ---------------------------
(***************************************************************************)
(* What a DNS pass does to its zone, proved for any servers, listings,     *)
(* page sizes, configurations, faults and edits.                           *)
(*                                                                         *)
(* The argument has two halves.  Whoever changes the zone, an id is given  *)
(* once and a record keeps its name and type, so a listed record that is   *)
(* still there is what the pass takes it for; and the pass keeps to the    *)
(* order of reconcileZone (Orderly): what is marked is wanted, and a host  *)
(* that is done is marked or had something in its way.  And while nobody   *)
(* else has changed the zone since its first page, the pages make up the   *)
(* zone (Reading), and from then on the pass can account for every record  *)
(* (Exact): it is as listed, was deleted by the pass and is reported, or   *)
(* is of a family it has dealt with, published or noted.                   *)
(***************************************************************************)
EXTENDS ZoneReconcileProofs, FiniteSetTheorems

----------------------------------------------------------------------------
(* What every change of the zone leaves as it was.                         *)

\* Record i has been made and is still known by the name and type of r.
Known(z, i, r) == z[i] # Unborn /\ Same(z, i, r)

\* An id is given once, and a record keeps its name and type until it is gone.
Moves(z, y) ==
  \A i \in Ids : y[i] # z[i] =>
    \/ z[i] = Unborn /\ y[i] \in Record
    \/ z[i] \in Record /\ y[i] = Deleted
    \/ z[i] \in Record /\ y[i] \in Record /\ Same(y, i, z[i])

\* A change that is made of a record is made of one that is known.
Apt(z, c) == c.op = "update" => Known(z, c.id, c.rec)

\* What passes have listed and calls under way are about.
Remembered ==
  /\ \A s \in Servers : \A i \in Listed(pass[s]) : Known(zone, i, pass[s].listed[i])
  /\ \A c \in late : Apt(zone, c)

\* What is known of a record stays true, whatever happens to the zone.
LEMMA KnownLasts ==
  ASSUME NEW z, NEW y, Moves(z, y), NEW i \in Ids, NEW r, Known(z, i, r)
  PROVE  Known(y, i, r)
BY SlotsDistinct DEF Moves, Known, Same

\* A write moves the zone as every change does.
LEMMA AppliedMoves ==
  ASSUME zone \in Zone, NEW c \in Call, Apt(zone, c)
  PROVE  Moves(zone, Applied(c))
<1>1. /\ c.id \in Ids /\ c.rec \in Record /\ c.op \in {"create", "update", "delete"}
  BY DEF Call
<1>2. CASE c.op = "create" /\ Creatable(c.rec)
  <2>1. NewId \in Ids /\ zone[NewId] = Unborn
    BY <1>2, NewIdFree
  <2>2. Applied(c) = [zone EXCEPT ![NewId] = c.rec]
    BY <1>2 DEF Applied
  <2> QED BY <1>1, <2>1, <2>2 DEF Moves, Zone
<1>3. CASE c.op = "update" /\ Live(c.id)
  <2>1. Applied(c) = [zone EXCEPT ![c.id] = c.rec]
    BY <1>3 DEF Applied
  <2> QED BY <1>1, <1>3, <2>1 DEF Moves, Zone, Apt, Known, Same, Live
<1>4. CASE c.op = "delete" /\ Live(c.id)
  <2>1. Applied(c) = [zone EXCEPT ![c.id] = Deleted]
    BY <1>4 DEF Applied
  <2> QED BY <1>1, <1>4, <2>1 DEF Moves, Zone, Live
<1>5. CASE Applied(c) = zone
  BY <1>5 DEF Moves
<1> QED BY <1>1, <1>2, <1>3, <1>4, <1>5 DEF Applied

\* A creation that is not refused leaves every CNAME alone at its name.
LEMMA CreatedLegal ==
  ASSUME zone \in Zone, Legal(zone), NEW r \in Record, Creatable(r)
  PROVE  Legal([zone EXCEPT ![NewId] = r])
<1> DEFINE y == [zone EXCEPT ![NewId] = r]
<1>1. NewId \in Ids /\ zone[NewId] = Unborn
  BY NewIdFree
<1>2. /\ y[NewId] = r
      /\ \A i \in Ids : i # NewId => y[i] = zone[i]
  BY <1>1 DEF Zone
<1>3. \A i \in Ids : zone[i] \in Record /\ zone[i].name = r.name
                       => zone[i].type # "CNAME" /\ r.type # "CNAME"
  BY DEF Creatable, At, Live, Coexists
<1> HIDE DEF y
<1>4. Legal(y)
  <2> SUFFICES ASSUME NEW i \in Ids, NEW j \in Ids, y[i] \in Record, y[j] \in Record,
                      i # j, y[i].name = y[j].name
               PROVE  y[i].type # "CNAME" /\ y[j].type # "CNAME"
    BY DEF Legal
  <2>1. CASE i = NewId
    BY <1>2, <1>3, <2>1
  <2>2. CASE j = NewId
    BY <1>2, <1>3, <2>2
  <2>3. CASE i # NewId /\ j # NewId
    BY <1>2, <2>3 DEF Legal
  <2> QED BY <2>1, <2>2, <2>3
<1> QED BY <1>4 DEF y

\* Nor does a change that makes no record.
LEMMA UnbornLegal ==
  ASSUME NEW z, NEW y, Legal(z), Moves(z, y), \A i \in Ids : z[i] = Unborn => y[i] = Unborn
  PROVE  Legal(y)
<1>1. \A i \in Ids : y[i] \in Record =>
        z[i] \in Record /\ y[i].name = z[i].name /\ y[i].type = z[i].type
  BY SlotsDistinct DEF Moves, Same
<1> QED BY <1>1 DEF Legal

\* A write leaves a CNAME alone at its name.
LEMMA AppliedLegal ==
  ASSUME zone \in Zone, Legal(zone), NEW c \in Call, Apt(zone, c)
  PROVE  Legal(Applied(c))
<1>1. c.id \in Ids /\ c.rec \in Record /\ c.op \in {"create", "update", "delete"}
  BY DEF Call
<1>2. CASE c.op = "create" /\ Creatable(c.rec)
  BY <1>1, <1>2, CreatedLegal DEF Applied
<1>3. CASE ~(c.op = "create" /\ Creatable(c.rec))
  <2>1. \A i \in Ids : zone[i] = Unborn => Applied(c)[i] = Unborn
    BY <1>1, <1>3, SlotsDistinct DEF Applied, Live, Zone
  <2> HIDE <1>3
  <2> QED BY <2>1, AppliedMoves, UnbornLegal
<1> QED BY <1>2, <1>3

\* The operator's edits are such moves as well.
LEMMA DashboardMoves ==
  ASSUME TypeInv, Legal(zone), Dashboard
  PROVE  Moves(zone, zone') /\ Legal(zone')
<1>1. zone \in Zone
  BY DEF TypeInv, TypeOK
<1>2. CASE \E i \in Ids : Live(i) /\ zone' = [zone EXCEPT ![i] = Deleted]
  <2>1. Moves(zone, zone') /\ \A i \in Ids : zone[i] = Unborn => zone'[i] = Unborn
    BY <1>1, <1>2, SlotsDistinct DEF Moves, Zone, Live
  <2> QED BY <2>1, UnbornLegal
<1>3. CASE \E i \in Ids, v \in V4 : Live(i) /\ zone' = [zone EXCEPT ![i].content = v]
  <2>1. PICK i \in Ids, v \in V4 : Live(i) /\ zone' = [zone EXCEPT ![i].content = v]
    BY <1>3
  <2>2. /\ [zone[i] EXCEPT !.content = v] \in Record
        /\ [zone[i] EXCEPT !.content = v].name = zone[i].name
        /\ [zone[i] EXCEPT !.content = v].type = zone[i].type
    BY <2>1 DEF Live, Record, Contents
  <2>3. Moves(zone, zone') /\ \A j \in Ids : zone[j] = Unborn => zone'[j] = Unborn
    BY <1>1, <2>1, <2>2, SlotsDistinct DEF Moves, Same, Zone, Live
  <2> QED BY <2>3, UnbornLegal
<1>4. CASE \E n \in Names, v \in V4 :
             LET r == [name |-> n, type |-> "A", content |-> v,
                       proxied |-> FALSE, comment |-> NoTag]
             IN  Creatable(r) /\ zone' = [zone EXCEPT ![NewId] = r]
  <2>1. PICK r \in Record : Creatable(r) /\ zone' = [zone EXCEPT ![NewId] = r]
    <3>1. \A n \in Names, v \in V4 :
            [name |-> n, type |-> "A", content |-> v,
             proxied |-> FALSE, comment |-> NoTag] \in Record
      BY DEF Record, Types, Contents
    <3> QED BY <1>4, <3>1
  <2>2. NewId \in Ids /\ zone[NewId] = Unborn
    BY <2>1, NewIdFree
  <2>3. Moves(zone, zone')
    BY <1>1, <2>1, <2>2 DEF Moves, Zone
  <2> QED BY <1>1, <2>1, <2>3, CreatedLegal
<1> QED BY <1>2, <1>3, <1>4 DEF Dashboard

----------------------------------------------------------------------------
(* The steps of a pass, as what they do to its locals.                     *)

\* The listed records that are in the way of host n.
InTheWay(p, n) ==
  {i \in Listed(p) : p.listed[i].name = n /\ p.listed[i].type \in Blocking(p.conf.hosts[n])}

\* What stays as it is once the zone is listed.
SameInput(p, q) == q.conf = p.conf /\ q.det = p.det /\ q.listed = p.listed

SameLoop(p, q) == q.todo = p.todo /\ q.cur = p.cur

SameReport(p, q) == q.cleared = p.cleared /\ q.pruned = p.pruned

\* NextHost: p enters the clearing of host n, as q.
Entered(s, p, q, n) ==
  /\ p.pc = "hosts" /\ q.pc = "clear"
  /\ SameInput(p, q) /\ SameReport(p, q) /\ q.noted = p.noted /\ q.dropped = p.dropped
  /\ n \in p.todo /\ q.todo = p.todo \ {n} /\ q.cur = n
  /\ q.queue = {i \in InTheWay(p, n) \ p.dropped :
                  Owned(s, p.listed[i]) \/ p.conf.hosts[n].force}
  /\ q.blocked = (q.queue # InTheWay(p, n) \ p.dropped)
  /\ q.managed = p.managed \cup (IF p.conf.hosts[n].tunnel # None THEN {<<n, "CNAME">>} ELSE {})

\* A deletion of the clearing, with its outcome.
ClearedOne(p, q, i, good) ==
  /\ p.pc = "clear" /\ q.pc = "clear"
  /\ SameInput(p, q) /\ SameLoop(p, q) /\ SameReport(p, q)
  /\ q.noted = p.noted /\ q.managed = p.managed
  /\ i \in p.queue /\ q.queue = p.queue \ {i}
  /\ q.dropped = (IF good THEN p.dropped \cup {i} ELSE p.dropped)
  /\ q.blocked = (IF good THEN p.blocked ELSE TRUE)

\* ClearBlocked.
GaveUp(p, q) ==
  /\ p.pc = "clear" /\ p.queue = {} /\ p.blocked /\ q.pc = "hosts"
  /\ SameInput(p, q) /\ SameLoop(p, q) /\ SameReport(p, q)
  /\ q.managed = p.managed /\ q.dropped = p.dropped
  /\ q.noted = p.noted \cup ({p.cur} \X ManagedTypes(Declared(p)))

\* ClearDone.
Cleared(p, q) ==
  /\ p.pc = "clear" /\ p.queue = {} /\ ~p.blocked
  /\ SameInput(p, q) /\ SameLoop(p, q) /\ q.pruned = p.pruned /\ q.dropped = p.dropped
  /\ q.noted = p.noted
  /\ IF Declared(p).tunnel # None
     THEN q.pc = "CNAME" /\ q.managed = p.managed /\ q.cleared = p.cleared
     ELSE /\ q.pc = "A" /\ q.managed = p.managed \cup {<<p.cur, "A">>}
          /\ q.cleared = p.cleared \cup ClearedCNAMEs(p)

\* The end of a family: what After makes of p, noted or not.
MovedOn(p, q) ==
  /\ p.pc \in Families
  /\ SameInput(p, q) /\ SameLoop(p, q) /\ SameReport(p, q) /\ q.dropped = p.dropped
  /\ IF p.pc = "A" /\ Declared(p).ip6 # None
     THEN q.pc = "AAAA" /\ q.managed = p.managed \cup {<<p.cur, "AAAA">>}
     ELSE q.pc = "hosts" /\ q.managed = p.managed

\* StartPrune.
PruneStarted(s, p, q) ==
  /\ p.pc = "hosts" /\ p.todo = {} /\ p.conf.prune /\ q.pc = "prune"
  /\ SameInput(p, q) /\ SameLoop(p, q) /\ SameReport(p, q)
  /\ q.noted = p.noted /\ q.managed = p.managed /\ q.dropped = p.dropped
  /\ q.queue = Orphans(s, p)

\* PruneDelete, when the deletion of record i is confirmed.
PrunedOne(p, q, i) ==
  /\ p.pc = "prune" /\ q.pc = "prune"
  /\ SameInput(p, q) /\ SameLoop(p, q) /\ q.cleared = p.cleared
  /\ q.noted = p.noted /\ q.managed = p.managed /\ q.dropped = p.dropped
  /\ i \in p.queue /\ q.queue = p.queue \ {i}
  /\ q.pruned = p.pruned \cup {<<p.listed[i].name, TunnelOf(p.listed[i])>>}

\* The locals of a pass that is not there, or has not listed anything.
Empty(q) ==
  /\ q.pc \in {"idle", "lookup", "list"} /\ q.page = 1
  /\ q.listed = [i \in Ids |-> Unborn]
  /\ q.queue = {} /\ q.dropped = {} /\ q.todo = {}
  /\ q.managed = {} /\ q.noted = {} /\ q.cleared = {} /\ q.pruned = {}

\* A pass has ended: only its log and its report are left.
Ended(q) ==
  /\ q.pc = "idle" /\ q.listed = [i \in Ids |-> Unborn] /\ q.queue = {} /\ q.dropped = {}
  /\ q.managed = {} /\ q.todo = {}

\* Fresh and Return are passes that have ended.
LEMMA FreshEnded == Ended(Fresh)
BY DEF Ended, Fresh

LEMMA ReturnEnded == \A p, st, rep : Ended(Return(p, st, rep))
BY DEF Ended, Return, Fresh

\* A pass that starts has nothing of an earlier one.
LEMMA StartShape ==
  ASSUME NEW s \in Servers, Start(s)
  PROVE  \E q : Goto(s, q) /\ q.pc = "lookup" /\ Empty(q) /\ UNCHANGED <<zone, late, intact>>
<1>1. PICK conf \in Configs[s], det \in Detections :
        Goto(s, [Fresh EXCEPT !.pc = "lookup", !.conf = conf, !.det = det])
  BY DEF Start
<1> DEFINE q == [Fresh EXCEPT !.pc = "lookup", !.conf = conf, !.det = det]
<1>2. q.pc = "lookup" /\ Empty(q)
  BY DEF Fresh, Empty
<1> QED BY <1>1, <1>2 DEF Start

LEMMA NextHostShape ==
  ASSUME TypeInv, NEW s \in Servers, NextHost(s)
  PROVE  \E q : \E n \in Names : Local(s, q) /\ Entered(s, pass[s], q, n)
<1> DEFINE p == pass[s]
<1>1. p \in PassState /\ p.pc = "hosts"
  BY DEF TypeInv, TypeOK, NextHost
<1>2. PICK n \in p.todo :
        LET d == p.conf.hosts[n]
            blockers == {i \in Kept(p) : /\ p.listed[i].name = n
                                         /\ p.listed[i].type \in Blocking(d)}
            mine == {i \in blockers : Owned(s, p.listed[i]) \/ d.force}
        IN  Local(s, [p EXCEPT
              !.pc = "clear", !.todo = @ \ {n}, !.cur = n, !.queue = mine,
              !.blocked = (mine # blockers),
              !.managed = @ \cup (IF d.tunnel # None THEN {<<n, "CNAME">>} ELSE {})])
  BY DEF NextHost
<1> DEFINE d == p.conf.hosts[n]
           blockers == {i \in Kept(p) : /\ p.listed[i].name = n
                                        /\ p.listed[i].type \in Blocking(d)}
           mine == {i \in blockers : Owned(s, p.listed[i]) \/ d.force}
           marks == IF d.tunnel # None THEN {<<n, "CNAME">>} ELSE {}
           q == [p EXCEPT !.pc = "clear", !.todo = @ \ {n}, !.cur = n, !.queue = mine,
                          !.blocked = (mine # blockers), !.managed = @ \cup marks]
<1>3. Local(s, q)
  BY <1>2
<1>4. blockers = InTheWay(p, n) \ p.dropped
  BY DEF InTheWay, Kept, Listed
<1>5. n \in Names
  BY <1>1 DEF PassState
<1>6. /\ q.pc = "clear" /\ q.todo = p.todo \ {n} /\ q.cur = n /\ q.queue = mine
      /\ q.blocked = (mine # blockers) /\ q.managed = p.managed \cup marks
      /\ q.conf = p.conf /\ q.det = p.det /\ q.listed = p.listed
      /\ q.cleared = p.cleared /\ q.pruned = p.pruned /\ q.noted = p.noted
      /\ q.dropped = p.dropped
  <2> HIDE DEF mine, marks, blockers
  <2> QED BY <1>1 DEF PassState
<1>7. Entered(s, p, q, n)
  <2> HIDE DEF q
  <2> QED BY <1>1, <1>2, <1>4, <1>6 DEF Entered, SameInput, SameReport
<1> QED BY <1>3, <1>5, <1>7

LEMMA ClearDeleteShape ==
  ASSUME TypeInv, NEW s \in Servers, ClearDelete(s)
  PROVE  \E i \in Ids : \E good, bad :
           /\ Write(s, Deletion(s, i, pass[s].listed[i]), good, bad)
           /\ ClearedOne(pass[s], good, i, TRUE) /\ ClearedOne(pass[s], bad, i, FALSE)
<1> DEFINE p == pass[s]
<1>1. p \in PassState /\ p.pc = "clear"
  BY DEF TypeInv, TypeOK, ClearDelete
<1>2. PICK i \in p.queue :
        Write(s, Deletion(s, i, p.listed[i]),
              [[p EXCEPT !.queue = @ \ {i}] EXCEPT !.dropped = @ \cup {i}],
              [[p EXCEPT !.queue = @ \ {i}] EXCEPT !.blocked = TRUE])
  BY DEF ClearDelete
<1> DEFINE good == [[p EXCEPT !.queue = @ \ {i}] EXCEPT !.dropped = @ \cup {i}]
           bad == [[p EXCEPT !.queue = @ \ {i}] EXCEPT !.blocked = TRUE]
<1>3. i \in Ids
  BY <1>1, <1>2 DEF PassState
<1>4. ClearedOne(p, good, i, TRUE)
  BY <1>1, <1>2 DEF PassState, ClearedOne, SameInput, SameLoop, SameReport
<1>5. ClearedOne(p, bad, i, FALSE)
  BY <1>1, <1>2 DEF PassState, ClearedOne, SameInput, SameLoop, SameReport
<1> HIDE DEF good, bad
<1> QED BY <1>2, <1>3, <1>4, <1>5 DEF good, bad

LEMMA ClearBlockedShape ==
  ASSUME TypeInv, NEW s \in Servers, ClearBlocked(s)
  PROVE  \E q : Local(s, q) /\ GaveUp(pass[s], q)
<1> DEFINE p == pass[s]
           told == p.noted \cup ({p.cur} \X ManagedTypes(Declared(p)))
           q == [p EXCEPT !.pc = "hosts", !.noted = told]
<1>1. p \in PassState /\ p.pc = "clear" /\ p.queue = {} /\ p.blocked /\ Local(s, q)
  BY DEF TypeInv, TypeOK, ClearBlocked
<1>2. GaveUp(p, q)
  <2> HIDE DEF told
  <2>1. /\ q.pc = "hosts" /\ q.noted = told /\ q.conf = p.conf /\ q.det = p.det
        /\ q.listed = p.listed /\ q.todo = p.todo /\ q.cur = p.cur
        /\ q.cleared = p.cleared /\ q.pruned = p.pruned
        /\ q.managed = p.managed /\ q.dropped = p.dropped
    BY <1>1 DEF PassState
  <2> HIDE DEF q
  <2> QED BY <1>1, <2>1 DEF GaveUp, SameInput, SameLoop, SameReport, told
<1> QED BY <1>1, <1>2

LEMMA ClearDoneShape ==
  ASSUME TypeInv, NEW s \in Servers, ClearDone(s)
  PROVE  \E q : Local(s, q) /\ Cleared(pass[s], q)
<1> DEFINE p == pass[s]
<1>1. p \in PassState /\ p.pc = "clear" /\ p.queue = {} /\ ~p.blocked
  BY DEF TypeInv, TypeOK, ClearDone
<1>2. CASE Declared(p).tunnel # None
  <2> DEFINE q == [p EXCEPT !.pc = "CNAME"]
  <2>1. Local(s, q)
    BY <1>2 DEF ClearDone
  <2>2. /\ q.pc = "CNAME" /\ q.noted = p.noted /\ q.conf = p.conf /\ q.det = p.det
        /\ q.listed = p.listed /\ q.todo = p.todo /\ q.cur = p.cur
        /\ q.cleared = p.cleared /\ q.pruned = p.pruned
        /\ q.managed = p.managed /\ q.dropped = p.dropped
    BY <1>1 DEF PassState
  <2> HIDE DEF q
  <2>3. Cleared(p, q)
    BY <1>1, <1>2, <2>2 DEF Cleared, SameInput, SameLoop
  <2> QED BY <2>1, <2>3
<1>3. CASE Declared(p).tunnel = None
  <2> DEFINE names == p.cleared \cup ClearedCNAMEs(p)
             marks == p.managed \cup {<<p.cur, "A">>}
             q == [p EXCEPT !.pc = "A", !.cleared = names, !.managed = marks]
  <2>1. Local(s, q)
    BY <1>3 DEF ClearDone
  <2>2. /\ q.pc = "A" /\ q.noted = p.noted /\ q.conf = p.conf /\ q.det = p.det
        /\ q.listed = p.listed /\ q.todo = p.todo /\ q.cur = p.cur
        /\ q.cleared = names /\ q.pruned = p.pruned
        /\ q.managed = marks /\ q.dropped = p.dropped
    <3> HIDE DEF names, marks
    <3> QED BY <1>1 DEF PassState
  <2> HIDE DEF q
  <2>3. Cleared(p, q)
    BY <1>1, <1>3, <2>2 DEF Cleared, SameInput, SameLoop
  <2> QED BY <2>1, <2>3
<1> QED BY <1>2, <1>3

\* A family is left as it is, or noted as not published.
LEMMA AfterShape ==
  ASSUME NEW p \in PassState, p.pc \in Families
  PROVE  /\ MovedOn(p, After(p)) /\ After(p).noted = p.noted
         /\ MovedOn(p, After(Note(p))) /\ After(Note(p)).noted = p.noted \cup {<<p.cur, p.pc>>}
<1>1. /\ Note(p).pc = p.pc /\ SameInput(p, Note(p)) /\ SameLoop(p, Note(p))
      /\ SameReport(p, Note(p)) /\ Note(p).dropped = p.dropped
      /\ Note(p).managed = p.managed /\ Note(p).noted = p.noted \cup {<<p.cur, p.pc>>}
  BY DEF Note, PassState, SameInput, SameLoop, SameReport
<1>2. Declared(Note(p)) = Declared(p)
  BY <1>1 DEF Declared, SameInput, SameLoop
<1>3. MovedOn(p, After(p)) /\ After(p).noted = p.noted
  <2>1. CASE p.pc = "A" /\ Declared(p).ip6 # None
    <3> DEFINE m == p.managed \cup {<<p.cur, "AAAA">>}
               q == [p EXCEPT !.pc = "AAAA", !.managed = m]
    <3>1. After(p) = q
      BY <2>1 DEF After
    <3>2. /\ q.pc = "AAAA" /\ q.managed = m /\ SameInput(p, q) /\ SameLoop(p, q)
          /\ SameReport(p, q) /\ q.dropped = p.dropped /\ q.noted = p.noted
      <4> HIDE DEF m
      <4> QED BY DEF PassState, SameInput, SameLoop, SameReport
    <3> HIDE DEF q
    <3> QED BY <2>1, <3>1, <3>2 DEF MovedOn
  <2>2. CASE ~(p.pc = "A" /\ Declared(p).ip6 # None)
    <3> DEFINE q == [p EXCEPT !.pc = "hosts"]
    <3>1. After(p) = q
      BY <2>2 DEF After
    <3>2. /\ q.pc = "hosts" /\ q.managed = p.managed /\ SameInput(p, q) /\ SameLoop(p, q)
          /\ SameReport(p, q) /\ q.dropped = p.dropped /\ q.noted = p.noted
      BY DEF PassState, SameInput, SameLoop, SameReport
    <3> HIDE DEF q
    <3> QED BY <2>2, <3>1, <3>2 DEF MovedOn
  <2> QED BY <2>1, <2>2
<1> DEFINE r == Note(p)
           more == p.noted \cup {<<p.cur, p.pc>>}
<1>4. r = [p EXCEPT !.noted = more]
  BY DEF Note
<1>5. MovedOn(p, After(r)) /\ After(r).noted = more
  <2> HIDE DEF more
  <2>1. CASE r.pc = "A" /\ Declared(r).ip6 # None
    <3> DEFINE m == r.managed \cup {<<r.cur, "AAAA">>}
               q == [r EXCEPT !.pc = "AAAA", !.managed = m]
    <3>1. After(r) = q
      BY <2>1 DEF After
    <3>2. /\ q.pc = "AAAA" /\ q.managed = m /\ SameInput(p, q) /\ SameLoop(p, q)
          /\ SameReport(p, q) /\ q.dropped = p.dropped /\ q.noted = more
      <4> HIDE DEF m, r
      <4> QED BY <1>4 DEF PassState, SameInput, SameLoop, SameReport
    <3> HIDE DEF q
    <3> QED BY <1>1, <1>2, <2>1, <3>1, <3>2 DEF MovedOn, SameLoop
  <2>2. CASE ~(r.pc = "A" /\ Declared(r).ip6 # None)
    <3> DEFINE q == [r EXCEPT !.pc = "hosts"]
    <3>1. After(r) = q
      BY <2>2 DEF After
    <3>2. /\ q.pc = "hosts" /\ q.managed = r.managed /\ SameInput(p, q) /\ SameLoop(p, q)
          /\ SameReport(p, q) /\ q.dropped = p.dropped /\ q.noted = more
      <4> HIDE DEF r
      <4> QED BY <1>4 DEF PassState, SameInput, SameLoop, SameReport
    <3> HIDE DEF q
    <3> QED BY <1>1, <1>2, <2>2, <3>1, <3>2 DEF MovedOn, SameLoop
  <2> QED BY <2>1, <2>2
<1> QED BY <1>3, <1>5

LEMMA StartPruneShape ==
  ASSUME TypeInv, NEW s \in Servers, StartPrune(s)
  PROVE  \E q : Local(s, q) /\ PruneStarted(s, pass[s], q)
<1> DEFINE p == pass[s]
           orphans == Orphans(s, p)
           q == [p EXCEPT !.pc = "prune", !.queue = orphans]
<1>1. /\ p \in PassState /\ p.pc = "hosts" /\ p.todo = {} /\ p.conf.prune
      /\ Local(s, q)
  BY DEF TypeInv, TypeOK, StartPrune
<1>2. PruneStarted(s, p, q)
  <2> HIDE DEF orphans
  <2>1. /\ q.pc = "prune" /\ q.queue = orphans /\ SameInput(p, q) /\ SameLoop(p, q)
        /\ SameReport(p, q) /\ q.dropped = p.dropped /\ q.noted = p.noted
        /\ q.managed = p.managed
    BY <1>1 DEF PassState, SameInput, SameLoop, SameReport
  <2> HIDE DEF q
  <2> QED BY <1>1, <2>1 DEF PruneStarted, orphans
<1> QED BY <1>1, <1>2

LEMMA PruneDeleteShape ==
  ASSUME TypeInv, NEW s \in Servers, PruneDelete(s)
  PROVE  \E i \in Ids : \E good :
           /\ Write(s, Deletion(s, i, pass[s].listed[i]), good,
                    Return(pass[s], "error", pass[s].pruned \cup pass[s].cleared))
           /\ PrunedOne(pass[s], good, i)
<1> DEFINE p == pass[s]
<1>1. p \in PassState /\ p.pc = "prune"
  BY DEF TypeInv, TypeOK, PruneDelete
<1>2. PICK i \in p.queue :
        Write(s, Deletion(s, i, p.listed[i]),
              [p EXCEPT !.queue = @ \ {i},
                        !.pruned = @ \cup {<<p.listed[i].name, TunnelOf(p.listed[i])>>}],
              Return(p, "error", p.pruned \cup p.cleared))
  BY DEF PruneDelete
<1> DEFINE gone == <<p.listed[i].name, TunnelOf(p.listed[i])>>
           good == [p EXCEPT !.queue = @ \ {i}, !.pruned = @ \cup {gone}]
<1>3. i \in Ids
  BY <1>1, <1>2 DEF PassState
<1>4. PrunedOne(p, good, i)
  <2> HIDE DEF gone
  <2>1. /\ good.pc = "prune" /\ good.queue = p.queue \ {i}
        /\ good.pruned = p.pruned \cup {gone} /\ SameInput(p, good) /\ SameLoop(p, good)
        /\ good.cleared = p.cleared /\ good.dropped = p.dropped /\ good.noted = p.noted
        /\ good.managed = p.managed
    BY <1>1 DEF PassState, SameInput, SameLoop
  <2> HIDE DEF good
  <2> QED BY <1>1, <1>2, <2>1 DEF PrunedOne, gone
<1> HIDE DEF good
<1> QED BY <1>2, <1>3, <1>4 DEF good

\* A family that is written: an existing record overwritten, or a new one.
LEMMA FamilyWriteShape ==
  ASSUME TypeInv, NEW s \in Servers, UpdateOwned(s) \/ ForceAdopt(s) \/ Create(s)
  PROVE  LET p == pass[s]
             want == Desired(s, p, p.pc)
         IN  /\ p \in PassState /\ p.pc \in Families /\ Available(p) /\ want \in Record
             /\ \/ /\ Existing(p) = {}
                   /\ Write(s, Creation(s, want), After(p), After(Note(p)))
                \/ \E i \in Existing(p) :
                     Write(s, Change(s, i, Overwritten(p.listed[i], want)),
                           After(p), After(Note(p)))
<1> DEFINE p == pass[s]
           want == Desired(s, p, p.pc)
<1>1. p \in PassState /\ p.pc \in Families /\ Available(p) /\ Coherent(s, p)
  BY DEF TypeInv, TypeOK, UpdateOwned, ForceAdopt, Create, InFamily
<1>2. want \in Record
  BY <1>1, DesiredTyped
<1>3. CASE UpdateOwned(s)
  BY <1>1, <1>2, <1>3 DEF UpdateOwned, OwnedOnes
<1>4. CASE ForceAdopt(s)
  BY <1>1, <1>2, <1>4 DEF ForceAdopt
<1>5. CASE Create(s)
  BY <1>1, <1>2, <1>5 DEF Create
<1> QED BY <1>3, <1>4, <1>5

----------------------------------------------------------------------------
(* What is listed, or asked for by a late call, is known by its name.      *)

\* The zone as server s leaves it: nothing happened, or an apt call landed, or
\* is on its way.
Calls(s) ==
  \/ UNCHANGED <<zone, late>>
  \/ \E c \in Call : /\ Apt(zone, c)
                     /\ zone' \in {zone, Applied(c)}
                     /\ late' \subseteq late \cup {c}

\* What the next locals have listed was listed before, or is read now.
Lists(s, q) ==
  \A i \in Listed(q) :
    \/ i \in Listed(pass[s]) /\ q.listed[i] = pass[s].listed[i]
    \/ zone[i] \in Record /\ q.listed[i] = zone[i]

\* A write turns one pass into another and leaves at most its call behind.
LEMMA WriteCalls ==
  ASSUME NEW s \in Servers, NEW c \in Call, Apt(zone, c), NEW good, NEW bad,
         Write(s, c, good, bad), Lists(s, good), Lists(s, bad)
  PROVE  Calls(s) /\ \E q : Goto(s, q) /\ Lists(s, q)
BY DEF Write, Calls

LEMMA UnlistedLists ==
  ASSUME NEW s \in Servers, NEW q, q.listed = [i \in Ids |-> Unborn]
  PROVE  Lists(s, q)
BY SlotsDistinct DEF Lists, Listed

LEMMA SameInputLists ==
  ASSUME NEW s \in Servers, NEW q, SameInput(pass[s], q)
  PROVE  Lists(s, q)
BY DEF Lists, Listed, SameInput

\* A step of a server puts one pass in its place and adds at most a call of its own.
LEMMA ServerCalls ==
  ASSUME TypeInv, Remembered, NEW s \in Servers, ServerStep(s)
  PROVE  Calls(s) /\ \E q : Goto(s, q) /\ Lists(s, q)
<1> DEFINE p == pass[s]
<1>1. p \in PassState /\ Coherent(s, p)
  BY DEF TypeInv, TypeOK
<1>2. \A i \in Listed(p) : Known(zone, i, p.listed[i]) /\ p.listed[i] \in Record /\ i \in Ids
  BY DEF Remembered, Listed
<1>ended. \A st, rep : Lists(s, Return(p, st, rep)) /\ Lists(s, Fresh)
  BY ReturnEnded, FreshEnded, UnlistedLists DEF Ended
<1>3. CASE Start(s)
  BY <1>3, StartShape, UnlistedLists DEF Empty, Calls
<1>4. CASE Lookup(s)
  <2>1. Lists(s, [p EXCEPT !.pc = "list"])
    BY <1>1 DEF Lists, Listed, PassState
  <2> QED BY <1>4, <1>ended, <2>1 DEF Lookup, Calls
<1>5. CASE List(s)
  <2>1. NextPage(p).listed = ReadPage(p) /\ LastPage(p).listed = ReadPage(p)
    BY <1>1 DEF NextPage, LastPage, PassState
  <2>2. Lists(s, NextPage(p)) /\ Lists(s, LastPage(p))
    BY <2>1 DEF Lists, Listed, ReadPage
  <2> QED BY <1>1, <1>5, <1>ended, <2>2, ListShape DEF List, Calls
<1>6. CASE NextHost(s)
  BY <1>6, NextHostShape, SameInputLists DEF Entered, Local, Calls
<1>7. CASE ClearDelete(s)
  <2>0. PICK i \in Ids : \E good, bad :
           /\ Write(s, Deletion(s, i, p.listed[i]), good, bad)
           /\ ClearedOne(p, good, i, TRUE) /\ ClearedOne(p, bad, i, FALSE)
    BY <1>7, ClearDeleteShape
  <2>1. PICK good, bad :
           /\ Write(s, Deletion(s, i, p.listed[i]), good, bad)
           /\ ClearedOne(p, good, i, TRUE) /\ ClearedOne(p, bad, i, FALSE)
    BY <2>0
  <2>2. i \in Listed(p)
    BY <1>1, <2>1 DEF ClearedOne, Coherent
  <2>3. Deletion(s, i, p.listed[i]) \in Call /\ Apt(zone, Deletion(s, i, p.listed[i]))
    BY <1>2, <2>2 DEF Deletion, Call, Apt
  <2>4. Lists(s, good) /\ Lists(s, bad)
    BY <2>1, SameInputLists DEF ClearedOne
  <2> QED BY <2>1, <2>3, <2>4, WriteCalls
<1>8. CASE ClearBlocked(s)
  BY <1>8, ClearBlockedShape, SameInputLists DEF GaveUp, Local, Calls
<1>9. CASE ClearDone(s)
  BY <1>9, ClearDoneShape, SameInputLists DEF Cleared, Local, Calls
<1>after. p.pc \in Families => Lists(s, After(p)) /\ Lists(s, After(Note(p)))
  BY <1>1, AfterShape, SameInputLists DEF MovedOn
<1>10. CASE SkipUnavailable(s) \/ KeepInSync(s) \/ LeaveUntagged(s)
  BY <1>10, <1>after DEF SkipUnavailable, KeepInSync, LeaveUntagged, InFamily, Local, Calls
<1>11. CASE UpdateOwned(s) \/ ForceAdopt(s) \/ Create(s)
  <2> DEFINE want == Desired(s, p, p.pc)
  <2>1. /\ p.pc \in Families /\ want \in Record
        /\ \/ Write(s, Creation(s, want), After(p), After(Note(p)))
           \/ \E i \in Existing(p) :
                Write(s, Change(s, i, Overwritten(p.listed[i], want)), After(p), After(Note(p)))
    BY <1>11, FamilyWriteShape
  <2>2. Creation(s, want) \in Call /\ Apt(zone, Creation(s, want))
    <3>1. (CHOOSE i \in Ids : TRUE) \in Ids
      BY IdsOrdered
    <3> QED BY <2>1, <3>1 DEF Creation, Call, Apt
  <2>3. ASSUME NEW i \in Existing(p)
        PROVE  LET c == Change(s, i, Overwritten(p.listed[i], want))
               IN  c \in Call /\ Apt(zone, c)
    <3>1. i \in Listed(p)
      BY ExistingListed
    <3>2. /\ Overwritten(p.listed[i], want) \in Record
          /\ Overwritten(p.listed[i], want).name = p.listed[i].name
          /\ Overwritten(p.listed[i], want).type = p.listed[i].type
      BY <1>2, <2>1, <3>1, OverwrittenTyped
    <3> HIDE DEF want, p
    <3> QED BY <1>2, <3>1, <3>2 DEF Change, Call, Apt, Known, Same
  <2> HIDE DEF want
  <2> QED BY <1>after, <2>1, <2>2, <2>3, WriteCalls
<1>12. CASE FinishWithoutPrune(s) \/ FinishPrune(s)
  BY <1>12, <1>ended DEF FinishWithoutPrune, FinishPrune, Local, Calls
<1>13. CASE StartPrune(s)
  BY <1>13, StartPruneShape, SameInputLists DEF PruneStarted, Local, Calls
<1>14. CASE PruneDelete(s)
  <2>0. PICK i \in Ids : \E good :
           /\ Write(s, Deletion(s, i, p.listed[i]), good,
                    Return(p, "error", p.pruned \cup p.cleared))
           /\ PrunedOne(p, good, i)
    BY <1>14, PruneDeleteShape
  <2>1. PICK good :
           /\ Write(s, Deletion(s, i, p.listed[i]), good,
                    Return(p, "error", p.pruned \cup p.cleared))
           /\ PrunedOne(p, good, i)
    BY <2>0
  <2>2. i \in Listed(p)
    BY <1>1, <2>1 DEF PrunedOne, Coherent
  <2>3. Deletion(s, i, p.listed[i]) \in Call /\ Apt(zone, Deletion(s, i, p.listed[i]))
    BY <1>2, <2>2 DEF Deletion, Call, Apt
  <2>4. Lists(s, good)
    BY <2>1, SameInputLists DEF PrunedOne
  <2> QED BY <1>ended, <2>1, <2>3, <2>4, WriteCalls
<1>15. CASE Crash(s)
  BY <1>15, <1>ended DEF Crash, Calls
<1> QED BY <1>3, <1>4, <1>5, <1>6, <1>7, <1>8, <1>9, <1>10, <1>11, <1>12, <1>13, <1>14, <1>15
        DEF ServerStep, Advance

\* Every step moves the zone as above.
LEMMA StepMoves ==
  ASSUME TypeInv, Remembered, Legal(zone), [Next]_vars
  PROVE  Moves(zone, zone') /\ Legal(zone')
<1>1. zone \in Zone /\ late \subseteq Call
  BY DEF TypeInv, TypeOK
<1>2. zone' = zone => Moves(zone, zone') /\ Legal(zone')
  BY DEF Moves
<1>3. ASSUME NEW c \in Call, Apt(zone, c), zone' = Applied(c)
      PROVE  Moves(zone, zone') /\ Legal(zone')
  BY <1>1, <1>3, AppliedMoves, AppliedLegal
<1>4. ASSUME NEW s \in Servers, ServerStep(s)
      PROVE  Moves(zone, zone') /\ Legal(zone')
  <2>1. Calls(s)
    BY <1>4, ServerCalls
  <2> QED BY <1>2, <1>3, <2>1 DEF Calls
<1>5. ASSUME NEW c \in late, Deliver(c)
      PROVE  Moves(zone, zone') /\ Legal(zone')
  BY <1>1, <1>3, <1>5 DEF Deliver, Remembered
<1> QED BY <1>2, <1>4, <1>5, DashboardMoves DEF Next, vars

\* What passes have listed stays known by its name, whatever happens.
LEMMA RememberedNext ==
  ASSUME TypeInv, Remembered, Legal(zone), [Next]_vars
  PROVE  Remembered'
<1>1. /\ late \subseteq Call /\ Moves(zone, zone')
  BY StepMoves DEF TypeInv, TypeOK
<1>2. \A c \in Call : Apt(zone, c) => Apt(zone', c)
  BY <1>1, KnownLasts DEF Apt, Call
<1>3. \A s \in Servers : \A i \in Listed(pass[s]) : Known(zone', i, pass[s].listed[i])
  BY <1>1, KnownLasts DEF Remembered, Listed
<1>same. ASSUME UNCHANGED pass, \A c \in late' : Apt(zone', c)
         PROVE  Remembered'
  BY <1>3, <1>same DEF Remembered, Listed, Known, Same, Apt
<1>4. ASSUME NEW s \in Servers, ServerStep(s)
      PROVE  Remembered'
  <2>1. PICK q : Goto(s, q) /\ Lists(s, q)
    BY <1>4, ServerCalls
  <2>2. Calls(s)
    BY <1>4, ServerCalls
  <2>3. \A c \in late' : Apt(zone', c)
    BY <1>1, <1>2, <2>2 DEF Calls, Remembered
  <2>4. \A i \in Listed(q) : Known(zone', i, q.listed[i])
    <3> SUFFICES ASSUME NEW i \in Listed(q)
                 PROVE  Known(zone', i, q.listed[i])
      OBVIOUS
    <3>1. CASE i \in Listed(pass[s]) /\ q.listed[i] = pass[s].listed[i]
      BY <1>3, <3>1
    <3>2. CASE zone[i] \in Record /\ q.listed[i] = zone[i]
      <4>1. Known(zone, i, q.listed[i])
        BY <3>2, SlotsDistinct DEF Known, Same
      <4> QED BY <1>1, <4>1, KnownLasts DEF Listed
    <3> QED BY <2>1, <3>1, <3>2 DEF Lists
  <2>5. \A t \in Servers : \A i \in Listed(pass'[t]) : Known(zone', i, pass'[t].listed[i])
    BY <1>3, <2>1, <2>4 DEF Goto, TypeInv, TypeOK
  <2> QED BY <2>3, <2>5 DEF Remembered, Listed, Known, Same, Apt
<1>5. ASSUME NEW c \in late, Deliver(c)
      PROVE  Remembered'
  <2>1. \A d \in late' : Apt(zone', d)
    BY <1>1, <1>2, <1>5 DEF Deliver, Remembered
  <2> QED BY <1>5, <1>same, <2>1 DEF Deliver
<1>6. CASE Dashboard
  <2>1. \A d \in late' : Apt(zone', d)
    BY <1>1, <1>2, <1>6 DEF Dashboard, Remembered
  <2> QED BY <1>6, <1>same, <2>1 DEF Dashboard
<1>7. CASE UNCHANGED vars
  <2>1. \A d \in late' : Apt(zone', d)
    BY <1>1, <1>2, <1>7 DEF vars, Remembered
  <2> QED BY <1>7, <1>same, <2>1 DEF vars
<1> QED BY <1>4, <1>5, <1>6, <1>7 DEF Next

----------------------------------------------------------------------------
(* The order of a pass, whatever the zone does meanwhile.                  *)

\* The phases that work from the listing.
Working == {"hosts", "clear", "prune"} \cup Families

\* The pass is done with the family w[2] of host w[1].
Past(p, w) ==
  /\ w[1] \notin p.todo
  /\ w[1] = p.cur => p.pc \in {"hosts", "prune"} \/ (p.pc = "AAAA" /\ w[2] = "A")

\* Before the listing is complete nothing has been done.
Untouched(p) ==
  p.pc \in {"lookup", "list"} =>
    /\ p.managed = {} /\ p.noted = {} /\ p.cleared = {} /\ p.pruned = {}
    /\ p.page # 0
    /\ p.pc = "lookup" => p.page = 1
    /\ p.page = 1 => p.listed = [i \in Ids |-> Unborn]

\* clearConflictingRecords has before it what is in the way of a host, and
\* gives up only when something stays in the way.
Clearing(s, p) ==
  p.pc = "clear" =>
    /\ p.queue \subseteq InTheWay(p, p.cur) \ p.dropped
    /\ \A i \in p.queue : Owned(s, p.listed[i]) \/ Declared(p).force
    /\ p.blocked => InTheWay(p, p.cur) \ (p.queue \cup p.dropped) # {}
    /\ ~p.blocked => InTheWay(p, p.cur) \subseteq p.queue \cup p.dropped

\* What it removed from the listing was in the way of a host, and the families
\* of a host begin when nothing is any more.
Dropping(p) ==
  /\ \A i \in p.dropped :
       /\ p.listed[i].name \in DOMAIN p.conf.hosts
       /\ p.listed[i].name \notin p.todo
       /\ i \in InTheWay(p, p.listed[i].name)
  /\ p.pc \in Families => InTheWay(p, p.cur) \subseteq p.dropped

\* Marks are for what is declared, and only a host that something is in the
\* way of can be left without one.
Marking(p) ==
  /\ p.pc \in {"clear"} \cup Families => p.cur \notin p.todo
  /\ p.pc # "idle" => \A w \in p.managed : w \in Wanted(p.conf) /\ w[1] \notin p.todo
  /\ p.pc = "clear" /\ Declared(p).tunnel # None => <<p.cur, "CNAME">> \in p.managed
  /\ p.pc \in Families => <<p.cur, p.pc>> \in p.managed
  /\ p.pc \in Working => \A w \in Wanted(p.conf) :
       Past(p, w) => w \in p.managed \/ InTheWay(p, w[1]) # {}

\* pruneZone deletes orphans of the zone as it was listed.
Pruning(s, p) ==
  p.pc = "prune" => p.todo = {} /\ p.conf.prune /\ p.queue \subseteq Orphans(s, p)

\* What holds of the locals of every pass, whoever changes the zone.
Orderly(s, p) == Untouched(p) /\ Clearing(s, p) /\ Dropping(p) /\ Marking(p) /\ Pruning(s, p)

\* What a host declares.
LEMMA WantedIs ==
  ASSUME NEW conf \in Config, NEW n \in DOMAIN conf.hosts
  PROVE  /\ conf.hosts[n].tunnel # None =>
              \A w \in Wanted(conf) : w[1] = n => w = <<n, "CNAME">>
         /\ conf.hosts[n].tunnel = None =>
              \A w \in Wanted(conf) : w[1] = n =>
                w = <<n, "A">> \/ (w = <<n, "AAAA">> /\ conf.hosts[n].ip6 # None)
         /\ conf.hosts[n].tunnel # None => <<n, "CNAME">> \in Wanted(conf)
         /\ conf.hosts[n].tunnel = None => <<n, "A">> \in Wanted(conf)
         /\ conf.hosts[n].tunnel = None /\ conf.hosts[n].ip6 # None => <<n, "AAAA">> \in Wanted(conf)
<1>1. n \in Names
  BY ConfigShape
<1>2. \A ty \in Types : <<n, ty>> \in Names \X Types
  BY <1>1
<1>3. \A w \in Wanted(conf) : w = <<w[1], w[2]>> /\ w \in Names \X Types
  BY DEF Wanted
<1> QED BY <1>2, <1>3 DEF Wanted, Types

\* What is listed, and what is in the way, depend on the pass's input alone.
LEMMA SameInTheWay ==
  ASSUME NEW p, NEW q, SameInput(p, q)
  PROVE  /\ Listed(q) = Listed(p)
         /\ \A n : InTheWay(q, n) = InTheWay(p, n)
BY DEF SameInput, Listed, InTheWay

\* A pass that has not listed, or has ended, is in order.
LEMMA EmptyOrderly ==
  ASSUME NEW s, NEW q, Empty(q)
  PROVE  Orderly(s, q)
BY DEF Empty, Orderly, Untouched, Clearing, Dropping, Marking, Pruning, Working, Families, Types

LEMMA EndedOrderly ==
  ASSUME NEW s, NEW q, Ended(q)
  PROVE  Orderly(s, q)
BY DEF Ended, Orderly, Untouched, Clearing, Dropping, Marking, Pruning, Working, Families, Types

\* Entering the clearing of a host keeps a pass in order.
LEMMA EnteredOrderly ==
  ASSUME NEW s \in Servers, NEW p, Coherent(s, p), Orderly(s, p), NEW q, NEW n \in Names,
         Entered(s, p, q, n)
  PROVE  Orderly(s, q)
<1>1. p \in PassState /\ p.conf \in Config /\ n \in DOMAIN p.conf.hosts
  BY DEF Coherent, PassState, Entered
<1>2. /\ Listed(q) = Listed(p) /\ q.listed = p.listed /\ q.conf = p.conf
      /\ \A m : InTheWay(q, m) = InTheWay(p, m)
      /\ Declared(q) = p.conf.hosts[n]
  BY SameInTheWay DEF Entered, SameInput, Declared
<1>3. q.pc = "clear" /\ q.cur = n /\ q.todo = p.todo \ {n} /\ q.dropped = p.dropped
  BY DEF Entered
<1>4. Clearing(s, q)
  BY <1>2, <1>3 DEF Entered, Clearing
<1>5. Dropping(q)
  BY <1>2, <1>3 DEF Dropping, Orderly, Families, Types
<1>6. ASSUME NEW w \in q.managed
      PROVE  w \in Wanted(p.conf) /\ w[1] \notin q.todo
  <2>1. CASE w \in p.managed
    BY <1>3, <2>1 DEF Orderly, Marking, Entered
  <2>2. CASE w = <<n, "CNAME">> /\ p.conf.hosts[n].tunnel # None
    BY <1>1, <1>3, <2>2, WantedIs
  <2> QED BY <2>1, <2>2 DEF Entered
<1>7. ASSUME NEW w \in Wanted(p.conf), Past(q, w)
      PROVE  w \in q.managed \/ InTheWay(p, w[1]) # {}
  <2>1. w[1] \notin p.todo /\ w[1] # n
    BY <1>3, <1>7 DEF Past
  <2>2. Past(p, w)
    BY <2>1 DEF Past, Entered
  <2> QED BY <2>2 DEF Orderly, Marking, Entered, Working
<1>8. Marking(q)
  BY <1>2, <1>3, <1>6, <1>7 DEF Marking, Entered, Families, Types
<1> QED BY <1>3, <1>4, <1>5, <1>8 DEF Orderly, Untouched, Pruning

LEMMA ClearedOneOrderly ==
  ASSUME NEW s \in Servers, NEW p, Coherent(s, p), Orderly(s, p), NEW q, NEW i, NEW good \in BOOLEAN,
         ClearedOne(p, q, i, good)
  PROVE  Orderly(s, q)
<1>1. p \in PassState /\ p.conf \in Config
  BY DEF Coherent, PassState
<1>2. /\ Listed(q) = Listed(p) /\ q.listed = p.listed /\ q.conf = p.conf
      /\ \A m : InTheWay(q, m) = InTheWay(p, m)
      /\ Declared(q) = Declared(p)
  BY SameInTheWay DEF ClearedOne, SameInput, SameLoop, Declared
<1>3. /\ q.pc = "clear" /\ q.cur = p.cur /\ q.todo = p.todo /\ q.managed = p.managed
      /\ p.pc = "clear" /\ q.queue = p.queue \ {i} /\ i \in p.queue
  BY DEF ClearedOne, SameLoop
<1>4. i \in InTheWay(p, p.cur) \ p.dropped
  BY <1>3 DEF Orderly, Clearing
<1>5. Clearing(s, q)
  <2>1. CASE good
    BY <1>2, <1>3, <1>4, <2>1 DEF Orderly, Clearing, ClearedOne
  <2>2. CASE ~good
    BY <1>2, <1>3, <1>4, <2>2 DEF Orderly, Clearing, ClearedOne
  <2> QED BY <2>1, <2>2
<1>6. Dropping(q)
  <2>1. q.dropped \subseteq p.dropped \cup {i}
    BY DEF ClearedOne
  <2>2. p.cur \in DOMAIN p.conf.hosts /\ p.cur \notin p.todo
    BY <1>3 DEF Orderly, Marking, Coherent
  <2>3. p.listed[i].name = p.cur
    BY <1>4 DEF InTheWay
  <2> QED BY <1>2, <1>3, <1>4, <2>1, <2>2, <2>3 DEF Orderly, Dropping, Families, Types
<1>7. Marking(q)
  <2>1. \A w : Past(q, w) => Past(p, w)
    BY <1>3 DEF Past
  <2> QED BY <1>2, <1>3, <2>1 DEF Orderly, Marking, Working, Families, Types
<1> QED BY <1>3, <1>5, <1>6, <1>7 DEF Orderly, Untouched, Pruning

LEMMA GaveUpOrderly ==
  ASSUME NEW s \in Servers, NEW p, Coherent(s, p), Orderly(s, p), NEW q, GaveUp(p, q)
  PROVE  Orderly(s, q)
<1>2. /\ q.listed = p.listed /\ q.conf = p.conf
      /\ \A m : InTheWay(q, m) = InTheWay(p, m)
  BY SameInTheWay DEF GaveUp, SameInput
<1>3. /\ q.pc = "hosts" /\ q.cur = p.cur /\ q.todo = p.todo /\ q.managed = p.managed
      /\ p.pc = "clear" /\ p.blocked /\ q.dropped = p.dropped
  BY DEF GaveUp, SameLoop
<1>4. InTheWay(p, p.cur) # {}
  BY <1>3 DEF Orderly, Clearing
<1>5. Dropping(q)
  BY <1>2, <1>3 DEF Orderly, Dropping, Families, Types
<1>6. Marking(q)
  <2>1. \A w : Past(q, w) => Past(p, w) \/ w[1] = p.cur
    BY <1>3 DEF Past
  <2> QED BY <1>2, <1>3, <1>4, <2>1 DEF Orderly, Marking, Working, Families, Types
<1> QED BY <1>3, <1>5, <1>6 DEF Orderly, Untouched, Clearing, Pruning

LEMMA ClearedOrderly ==
  ASSUME NEW s \in Servers, NEW p, Coherent(s, p), Orderly(s, p), NEW q, Cleared(p, q)
  PROVE  Orderly(s, q)
<1>1. /\ p \in PassState /\ p.conf \in Config /\ p.pc = "clear"
      /\ p.cur \in DOMAIN p.conf.hosts
  BY DEF Coherent, PassState, Cleared
<1>2. /\ q.listed = p.listed /\ q.conf = p.conf
      /\ \A m : InTheWay(q, m) = InTheWay(p, m)
      /\ Declared(p) = p.conf.hosts[p.cur] /\ Declared(q) = Declared(p)
  BY SameInTheWay DEF Cleared, SameInput, SameLoop, Declared
<1>3. /\ q.pc \in {"A", "CNAME"} /\ q.cur = p.cur /\ q.todo = p.todo
      /\ q.dropped = p.dropped
      /\ q.managed \subseteq p.managed \cup {<<p.cur, q.pc>>}
      /\ p.managed \subseteq q.managed
  BY DEF Cleared, SameLoop
<1>4. <<p.cur, q.pc>> \in q.managed /\ <<p.cur, q.pc>> \in Wanted(p.conf)
  BY <1>1, <1>2, WantedIs DEF Cleared, Orderly, Marking
<1>5. Dropping(q)
  BY <1>1, <1>2, <1>3 DEF Orderly, Dropping, Clearing, Cleared
<1>6. Marking(q)
  <2>1. \A w : Past(q, w) => Past(p, w)
    BY <1>1, <1>3 DEF Past
  <2>2. p.cur \notin p.todo
    BY <1>1 DEF Orderly, Marking
  <2> QED BY <1>1, <1>2, <1>3, <1>4, <2>1, <2>2 DEF Orderly, Marking, Working
<1> QED BY <1>3, <1>5, <1>6 DEF Orderly, Untouched, Clearing, Pruning

\* Moving on ends the family in hand, and no other that is declared.
LEMMA MovedOnPast ==
  ASSUME NEW s \in Servers, NEW p, Coherent(s, p), Orderly(s, p), NEW q, MovedOn(p, q)
  PROVE  /\ p.cur \in DOMAIN p.conf.hosts /\ p.cur \notin p.todo
         /\ <<p.cur, p.pc>> \in p.managed /\ <<p.cur, p.pc>> \in Wanted(p.conf)
         /\ \A w : Past(p, w) => Past(q, w)
         /\ Past(q, <<p.cur, p.pc>>) /\ ~Past(p, <<p.cur, p.pc>>)
         /\ \A w \in Wanted(p.conf) : Past(q, w) => Past(p, w) \/ w = <<p.cur, p.pc>>
<1>1. /\ p \in PassState /\ p.conf \in Config /\ p.pc \in Families
      /\ p.cur \in DOMAIN p.conf.hosts /\ p.cur \notin p.todo
      /\ <<p.cur, p.pc>> \in p.managed /\ <<p.cur, p.pc>> \in Wanted(p.conf)
      /\ Declared(p) = p.conf.hosts[p.cur]
  BY DEF Coherent, PassState, MovedOn, Orderly, Marking, Families, Types, Declared
<1>2. q.cur = p.cur /\ q.todo = p.todo
  BY DEF MovedOn, SameLoop
<1>3. \/ p.pc = "A" /\ Declared(p).ip6 # None /\ q.pc = "AAAA"
      \/ ~(p.pc = "A" /\ Declared(p).ip6 # None) /\ q.pc = "hosts"
  BY DEF MovedOn
<1>4. \A w : Past(p, w) => Past(q, w)
  BY <1>1, <1>2, <1>3 DEF Past, Families, Types
<1>5. Past(q, <<p.cur, p.pc>>) /\ ~Past(p, <<p.cur, p.pc>>)
  <2>1. <<p.cur, p.pc>>[1] = p.cur /\ <<p.cur, p.pc>>[2] = p.pc
    OBVIOUS
  <2> QED BY <1>1, <1>2, <1>3, <2>1 DEF Past, Families, Types
<1>6. ASSUME NEW w \in Wanted(p.conf), Past(q, w), ~Past(p, w)
      PROVE  w = <<p.cur, p.pc>>
  <2>1. w[1] = p.cur /\ ~(p.pc = "AAAA" /\ w[2] = "A") /\ (q.pc = "AAAA" => w[2] = "A")
    BY <1>1, <1>2, <1>3, <1>6 DEF Past
  <2>2. CASE p.conf.hosts[p.cur].tunnel # None
    BY <1>1, <2>1, <2>2, WantedIs
  <2>3. CASE p.conf.hosts[p.cur].tunnel = None
    <3>1. p.pc \in {"A", "AAAA"}
      <4>1. \/ <<p.cur, p.pc>> = <<p.cur, "A">>
            \/ <<p.cur, p.pc>> = <<p.cur, "AAAA">>
        BY <1>1, <2>3, WantedIs
      <4> QED BY <4>1
    <3>2. w = <<p.cur, "A">> \/ (w = <<p.cur, "AAAA">> /\ Declared(p).ip6 # None)
      <4>1. \A v \in Wanted(p.conf) : v[1] = p.cur =>
              v = <<p.cur, "A">> \/ (v = <<p.cur, "AAAA">> /\ p.conf.hosts[p.cur].ip6 # None)
        BY <1>1, <2>3, WantedIs
      <4> QED BY <1>1, <2>1, <4>1
    <3> QED BY <1>3, <2>1, <3>1, <3>2
  <2> QED BY <2>2, <2>3
<1> QED BY <1>1, <1>4, <1>5, <1>6

LEMMA MovedOnOrderly ==
  ASSUME NEW s \in Servers, NEW p, Coherent(s, p), Orderly(s, p), NEW q, MovedOn(p, q)
  PROVE  Orderly(s, q)
<1>1. /\ p \in PassState /\ p.conf \in Config /\ p.pc \in Families
      /\ p.cur \in DOMAIN p.conf.hosts /\ p.cur \notin p.todo
      /\ <<p.cur, p.pc>> \in p.managed /\ <<p.cur, p.pc>> \in Wanted(p.conf)
  BY DEF Coherent, PassState, MovedOn, Orderly, Marking, Families, Types
<1>2. /\ q.listed = p.listed /\ q.conf = p.conf
      /\ \A m : InTheWay(q, m) = InTheWay(p, m)
      /\ Declared(p) = p.conf.hosts[p.cur]
  BY SameInTheWay DEF MovedOn, SameInput, Declared
<1>3. q.cur = p.cur /\ q.todo = p.todo /\ q.dropped = p.dropped
  BY DEF MovedOn, SameLoop
<1>4. ASSUME NEW w \in Wanted(p.conf), Past(q, w)
      PROVE  w \in p.managed \/ InTheWay(p, w[1]) # {}
  BY <1>1, <1>4, MovedOnPast DEF Orderly, Marking, Working
<1>5. CASE p.pc = "A" /\ Declared(p).ip6 # None
  <2>1. q.pc = "AAAA" /\ q.managed = p.managed \cup {<<p.cur, "AAAA">>}
    BY <1>5 DEF MovedOn
  <2>2. <<p.cur, "AAAA">> \in Wanted(p.conf)
    <3>1. p.conf.hosts[p.cur].tunnel = None
      <4>1. p.conf.hosts[p.cur].tunnel # None => <<p.cur, p.pc>> = <<p.cur, "CNAME">>
        BY <1>1, WantedIs
      <4>2. <<p.cur, p.pc>> # <<p.cur, "CNAME">>
        BY <1>5
      <4> QED BY <4>1, <4>2
    <3>2. p.conf.hosts[p.cur].ip6 # None
      BY <1>2, <1>5
    <3> QED BY <1>1, <3>1, <3>2, WantedIs
  <2>3. Dropping(q)
    BY <1>1, <1>2, <1>3, <2>1 DEF Orderly, Dropping
  <2>4. Marking(q)
    BY <1>1, <1>2, <1>3, <1>4, <1>5, <2>1, <2>2 DEF Orderly, Marking
  <2> QED BY <2>1, <2>3, <2>4 DEF Orderly, Untouched, Clearing, Pruning
<1>6. CASE ~(p.pc = "A" /\ Declared(p).ip6 # None)
  <2>1. q.pc = "hosts" /\ q.managed = p.managed
    BY <1>6 DEF MovedOn
  <2>2. Dropping(q)
    BY <1>2, <1>3, <2>1 DEF Orderly, Dropping, Families, Types
  <2>3. Marking(q)
    BY <1>1, <1>2, <1>3, <1>4, <2>1 DEF Orderly, Marking, Families, Types
  <2> QED BY <2>1, <2>2, <2>3 DEF Orderly, Untouched, Clearing, Pruning
<1> QED BY <1>5, <1>6

LEMMA PruneOrderly ==
  ASSUME NEW s \in Servers, NEW p, Coherent(s, p), Orderly(s, p), NEW q, NEW i,
         PruneStarted(s, p, q) \/ PrunedOne(p, q, i)
  PROVE  Orderly(s, q)
<1>1. /\ q.listed = p.listed /\ q.conf = p.conf
      /\ \A m : InTheWay(q, m) = InTheWay(p, m)
  BY SameInTheWay DEF PruneStarted, PrunedOne, SameInput
<1>2. /\ q.cur = p.cur /\ q.todo = p.todo /\ q.dropped = p.dropped /\ q.managed = p.managed
      /\ p.pc \in {"hosts", "prune"} /\ q.pc = "prune"
  BY DEF PruneStarted, PrunedOne, SameLoop
<1>3. Orphans(s, q) = Orphans(s, p)
  BY <1>1, <1>2 DEF Orphans, Kept, Listed
<1>4. Pruning(s, q)
  BY <1>1, <1>2, <1>3 DEF Orderly, Pruning, PruneStarted, PrunedOne
<1>5. Dropping(q)
  BY <1>1, <1>2 DEF Orderly, Dropping, Families, Types
<1>6. Marking(q)
  <2>1. \A w : Past(q, w) => Past(p, w)
    BY <1>2 DEF Past
  <2> QED BY <1>1, <1>2, <2>1 DEF Orderly, Marking, Working, Families, Types
<1> QED BY <1>2, <1>4, <1>5, <1>6 DEF Orderly, Untouched, Clearing

\* Reading a page keeps the order, and the last page starts the loop over the
\* hosts with nothing marked.
LEMMA ListOrderly ==
  ASSUME NEW s \in Servers, NEW p, Coherent(s, p), Orderly(s, p), p.pc = "list"
  PROVE  Orderly(s, NextPage(p)) /\ Orderly(s, LastPage(p))
<1>1. /\ p \in PassState /\ p.page \in Nat /\ p.queue = {} /\ p.dropped = {}
      /\ p.managed = {} /\ p.noted = {} /\ p.cleared = {} /\ p.pruned = {} /\ p.page # 0
  BY DEF Coherent, PassState, Orderly, Untouched
<1>2. Orderly(s, NextPage(p))
  <2> DEFINE q == NextPage(p)
  <2>1. /\ q.pc = "list" /\ q.dropped = {} /\ q.managed = {} /\ q.noted = {}
        /\ q.cleared = {} /\ q.pruned = {} /\ q.page = p.page + 1
    BY <1>1 DEF NextPage, PassState
  <2>2. q.page # 0 /\ q.page # 1
    BY <1>1, <2>1
  <2> HIDE DEF q
  <2>3. Orderly(s, q)
    BY <2>1, <2>2
       DEF Orderly, Untouched, Clearing, Dropping, Marking, Pruning, Working, Families, Types
  <2> QED BY <2>3 DEF q
<1>3. Orderly(s, LastPage(p))
  <2> DEFINE q == LastPage(p)
  <2>1. /\ q.pc = "hosts" /\ q.dropped = {} /\ q.managed = {} /\ q.conf = p.conf
        /\ q.todo = DOMAIN p.conf.hosts
    BY <1>1 DEF LastPage, PassState
  <2> HIDE DEF q
  <2>2. \A w \in Wanted(q.conf) : ~Past(q, w)
    BY <2>1 DEF Past, Wanted
  <2>3. Orderly(s, q)
    BY <2>1, <2>2
       DEF Orderly, Untouched, Clearing, Dropping, Marking, Pruning, Families, Types
  <2> QED BY <2>3 DEF q
<1> QED BY <1>2, <1>3

\* A call moves a server on to one of its two continuations.
LEMMA WriteGoes ==
  ASSUME NEW s \in Servers, NEW c, NEW good, NEW bad, Write(s, c, good, bad)
  PROVE  Goto(s, good) \/ Goto(s, bad)
BY DEF Write

\* Every step of a server keeps its pass in order.
LEMMA ServerOrderly ==
  ASSUME TypeInv, NEW s \in Servers, Orderly(s, pass[s]), ServerStep(s)
  PROVE  \E q : Goto(s, q) /\ Orderly(s, q)
<1> DEFINE p == pass[s]
<1>1. p \in PassState /\ Coherent(s, p) /\ Orderly(s, p)
  BY DEF TypeInv, TypeOK
<1>ended. \A st, rep : Orderly(s, Return(p, st, rep)) /\ Orderly(s, Fresh)
  BY ReturnEnded, FreshEnded, EndedOrderly
<1> HIDE DEF p
<1>3. CASE Start(s)
  BY <1>3, StartShape, EmptyOrderly
<1>4. CASE Lookup(s)
  <2> DEFINE q == [p EXCEPT !.pc = "list"]
  <2>1. Orderly(s, q)
    <3>1. /\ q.pc = "list" /\ q.dropped = p.dropped /\ q.managed = p.managed /\ q.noted = p.noted
          /\ q.cleared = p.cleared /\ q.pruned = p.pruned /\ q.page = p.page
          /\ q.listed = p.listed
      BY <1>1 DEF PassState
    <3>2. p.pc = "lookup" /\ p.dropped = {} /\ p.managed = {}
      BY <1>1, <1>4 DEF Lookup, Coherent, Orderly, Untouched, p
    <3> HIDE DEF q
    <3> QED BY <1>1, <3>1, <3>2
            DEF Orderly, Untouched, Clearing, Dropping, Marking, Pruning, Working, Families, Types
  <2>2. Goto(s, q) \/ Goto(s, Return(p, "error", {}))
    BY <1>4 DEF Lookup, p
  <2> QED BY <1>ended, <2>1, <2>2
<1>5. CASE List(s)
  <2>1. p.pc = "list"
    BY <1>5 DEF List, p
  <2>2. Orderly(s, NextPage(p)) /\ Orderly(s, LastPage(p))
    BY <1>1, <2>1, ListOrderly
  <2>3. \/ Goto(s, NextPage(p)) \/ Goto(s, LastPage(p)) \/ Goto(s, Return(p, "error", {}))
    BY <1>1, <1>5, ListShape DEF p
  <2> QED BY <1>ended, <2>2, <2>3
<1>6. CASE NextHost(s)
  BY <1>1, <1>6, NextHostShape, EnteredOrderly DEF Local, p
<1>7. CASE ClearDelete(s)
  <2>0. PICK i \in Ids : \E good, bad :
           /\ Write(s, Deletion(s, i, p.listed[i]), good, bad)
           /\ ClearedOne(p, good, i, TRUE) /\ ClearedOne(p, bad, i, FALSE)
    BY <1>7, ClearDeleteShape DEF p
  <2>1. PICK good, bad :
           /\ Write(s, Deletion(s, i, p.listed[i]), good, bad)
           /\ ClearedOne(p, good, i, TRUE) /\ ClearedOne(p, bad, i, FALSE)
    BY <2>0
  <2>2. Orderly(s, good) /\ Orderly(s, bad)
    BY <1>1, <2>1, ClearedOneOrderly
  <2> QED BY <2>1, <2>2, WriteGoes
<1>8. CASE ClearBlocked(s)
  BY <1>1, <1>8, ClearBlockedShape, GaveUpOrderly DEF Local, p
<1>9. CASE ClearDone(s)
  BY <1>1, <1>9, ClearDoneShape, ClearedOrderly DEF Local, p
<1>after. p.pc \in Families => Orderly(s, After(p)) /\ Orderly(s, After(Note(p)))
  BY <1>1, AfterShape, MovedOnOrderly
<1>10. CASE SkipUnavailable(s) \/ KeepInSync(s) \/ LeaveUntagged(s)
  BY <1>10, <1>after DEF SkipUnavailable, KeepInSync, LeaveUntagged, InFamily, Local, p
<1>11. CASE UpdateOwned(s) \/ ForceAdopt(s) \/ Create(s)
  <2> DEFINE want == Desired(s, p, p.pc)
  <2>1. /\ p.pc \in Families
        /\ \/ Write(s, Creation(s, want), After(p), After(Note(p)))
           \/ \E i \in Existing(p) :
                Write(s, Change(s, i, Overwritten(p.listed[i], want)), After(p), After(Note(p)))
    BY <1>11, FamilyWriteShape DEF p
  <2> HIDE DEF want
  <2> QED BY <1>after, <2>1, WriteGoes
<1>12. CASE FinishWithoutPrune(s) \/ FinishPrune(s)
  BY <1>12, <1>ended DEF FinishWithoutPrune, FinishPrune, Local, p
<1>13. CASE StartPrune(s)
  BY <1>1, <1>13, StartPruneShape, PruneOrderly DEF Local, p
<1>14. CASE PruneDelete(s)
  <2>0. PICK i \in Ids : \E good :
           /\ Write(s, Deletion(s, i, p.listed[i]), good,
                    Return(p, "error", p.pruned \cup p.cleared))
           /\ PrunedOne(p, good, i)
    BY <1>14, PruneDeleteShape DEF p
  <2>1. PICK good :
           /\ Write(s, Deletion(s, i, p.listed[i]), good,
                    Return(p, "error", p.pruned \cup p.cleared))
           /\ PrunedOne(p, good, i)
    BY <2>0
  <2>2. Orderly(s, good)
    BY <1>1, <2>1, PruneOrderly
  <2> QED BY <1>ended, <2>1, <2>2, WriteGoes
<1>15. CASE Crash(s)
  BY <1>15, <1>ended DEF Crash
<1> QED BY <1>3, <1>4, <1>5, <1>6, <1>7, <1>8, <1>9, <1>10, <1>11, <1>12, <1>13, <1>14, <1>15
        DEF ServerStep, Advance

----------------------------------------------------------------------------
(* What follows from that order: declared records are spared, and nothing  *)
(* is written when there is nothing to do.                                 *)

\* The inductive invariant of the passes, on a zone that anybody changes.
PassInv ==
  /\ TypeInv
  /\ Remembered
  /\ Legal(zone)
  /\ \A s \in Servers : Orderly(s, pass[s])

\* No pass has begun.
LEMMA InitPass ==
  ASSUME Init
  PROVE  PassInv
<1>1. TypeInv /\ zone \in InitZones /\ late = {}
  BY InitTyped DEF Init
<1>2. Legal(zone)
  BY <1>1, InitZonesLegal
<1>3. \A s \in Servers : pass[s] = Fresh
  BY DEF Init
<1>4. \A s \in Servers : Orderly(s, pass[s]) /\ Listed(pass[s]) = {}
  BY <1>3, FreshEnded, EndedOrderly, SlotsDistinct DEF Ended, Listed
<1> QED BY <1>1, <1>2, <1>4 DEF PassInv, Remembered

\* The order of every pass outlasts every step.
LEMMA NextPass ==
  ASSUME PassInv, [Next]_vars
  PROVE  PassInv'
<1>1. TypeInv' /\ Remembered' /\ Legal(zone')
  BY NextTyped, RememberedNext, StepMoves DEF PassInv
<1>2. ASSUME NEW s \in Servers, ServerStep(s), NEW t \in Servers
      PROVE  Orderly(t, pass'[t])
  <2>1. PICK q : Goto(s, q) /\ Orderly(s, q)
    BY <1>2, ServerOrderly DEF PassInv
  <2>2. pass'[t] = IF t = s THEN q ELSE pass[t]
    BY <2>1 DEF Goto, PassInv, TypeInv, TypeOK
  <2> QED BY <2>1, <2>2 DEF PassInv
<1>3. ASSUME UNCHANGED pass
      PROVE  \A t \in Servers : Orderly(t, pass'[t])
  BY <1>3 DEF PassInv
<1>4. \A t \in Servers : Orderly(t, pass'[t])
  BY <1>2, <1>3 DEF Next, Deliver, Dashboard, vars
<1>5. (\A t \in Servers : Orderly(t, pass[t]))'
  BY <1>4 DEF Orderly, Untouched, Clearing, Dropping, Marking, Pruning, Working, Families,
              Types, InTheWay, Listed, Past, Orphans, Kept, Owned, Declared, Blocking, Wanted
<1> QED BY <1>1, <1>5 DEF PassInv, Legal

\* No declaration asks for what is in its way.
LEMMA BlockingUnwanted ==
  ASSUME NEW conf \in Config, NEW n \in DOMAIN conf.hosts,
         NEW ty \in Blocking(conf.hosts[n])
  PROVE  <<n, ty>> \notin Wanted(conf)
BY DEF Wanted, Blocking

\* A record it asks for is a CNAME, or what is in its way is one.
LEMMA BlockingMixed ==
  ASSUME NEW conf \in Config, NEW w \in Wanted(conf), NEW ty \in Blocking(conf.hosts[w[1]])
  PROVE  w[1] \in DOMAIN conf.hosts /\ (w[2] = "CNAME" \/ ty = "CNAME")
BY DEF Wanted, Blocking

\* Nothing pruneZone has queued is asked for.
LEMMA OrphanUnwanted ==
  ASSUME NEW s \in Servers, NEW p, Coherent(s, p), Orderly(s, p), p.pc = "prune",
         Legal(p.listed), NEW i \in p.queue
  PROVE  /\ i \in Listed(p) /\ Owned(s, p.listed[i])
         /\ <<p.listed[i].name, p.listed[i].type>> \notin Wanted(p.conf)
<1> DEFINE w == <<p.listed[i].name, p.listed[i].type>>
<1>1. /\ i \in Orphans(s, p) /\ p.todo = {} /\ p.conf \in Config
      /\ i \in Ids /\ i \in Listed(p) /\ Owned(s, p.listed[i]) /\ w \notin p.managed
  BY DEF Orderly, Pruning, Orphans, Coherent, PassState, Listed
<1>2. ASSUME w \in Wanted(p.conf)
      PROVE  FALSE
  <2>1. Past(p, w)
    BY <1>1 DEF Past
  <2>2. InTheWay(p, w[1]) # {}
    BY <1>1, <1>2, <2>1 DEF Orderly, Marking, Working
  <2>3. PICK j \in InTheWay(p, w[1]) : TRUE
    BY <2>2
  <2>4. /\ j \in Ids /\ p.listed[j] \in Record /\ p.listed[j].name = p.listed[i].name
        /\ p.listed[j].type \in Blocking(p.conf.hosts[w[1]])
    BY <2>3 DEF InTheWay, Listed
  <2>5. w[1] \in DOMAIN p.conf.hosts /\ (p.listed[i].type = "CNAME" \/ p.listed[j].type = "CNAME")
    BY <1>1, <1>2, <2>4, BlockingMixed
  <2>6. i # j
    BY <1>1, <1>2, <2>4, <2>5, BlockingUnwanted
  <2> QED BY <1>1, <2>4, <2>5, <2>6 DEF Legal, Listed
<1> QED BY <1>1, <1>2

\* A step that changes a pass is a step of its server.
LEMMA OwnStep ==
  ASSUME PassInv, [Next]_vars, NEW s \in Servers, ActsNow(s)
  PROVE  ServerStep(s)
<1>1. ASSUME NEW t \in Servers, ServerStep(t), t # s
      PROVE  pass'[s] = pass[s]
  <2>1. \E q : Goto(t, q)
    BY <1>1, ServerCalls DEF PassInv
  <2> QED BY <1>1, <2>1 DEF Goto, PassInv, TypeInv, TypeOK
<1> QED BY <1>1 DEF Next, Deliver, Dashboard, vars, ActsNow

\* Applying a deletion takes that record and no other.
LEMMA DeletionApplied ==
  ASSUME zone \in Zone, NEW s \in Servers, NEW r \in Record, NEW i \in Ids,
         NEW y, y \in {zone, Applied(Deletion(s, i, r))}
  PROVE  \A j \in Ids : y[j] # zone[j] => j = i /\ Live(i) /\ y[j] = Deleted
BY DEF Applied, Deletion, Zone

\* Applying a creation or a change deletes nothing.
LEMMA NothingDeleted ==
  ASSUME zone \in Zone, NEW c \in Call, c.op # "delete", NEW y, y \in {zone, Applied(c)}
  PROVE  \A j \in Ids : Live(j) => y[j] # Deleted
<1>1. c.rec \in Record /\ c.id \in Ids
  BY DEF Call
<1>2. Creatable(c.rec) => NewId \in Ids
  BY NewIdFree
<1> QED BY <1>1, <1>2, SlotsDistinct DEF Applied, Zone, Live

\* What a server deletes itself is a record its configuration does not ask for.
LEMMA DeletesUnwanted ==
  ASSUME PassInv, NEW s \in Servers, ServerStep(s), Legal(pass[s].listed),
         NEW i \in Ids, Live(i), zone'[i] = Deleted
  PROVE  <<zone[i].name, zone[i].type>> \notin Wanted(pass[s].conf)
<1> DEFINE p == pass[s]
<1>1. /\ p \in PassState /\ Coherent(s, p) /\ Orderly(s, p) /\ p.conf \in Config
      /\ zone \in Zone /\ zone' # zone
      /\ \A j \in Listed(p) : Known(zone, j, p.listed[j]) /\ p.listed[j] \in Record
  BY SlotsDistinct DEF PassInv, TypeInv, TypeOK, Coherent, PassState, Live, Remembered, Listed
<1> HIDE DEF p
<1>2. CASE ClearDelete(s)
  <2>0. PICK j \in Ids : \E good, bad :
           /\ Write(s, Deletion(s, j, p.listed[j]), good, bad)
           /\ ClearedOne(p, good, j, TRUE)
    BY <1>2, ClearDeleteShape DEF p, PassInv
  <2>1. PICK good, bad :
           /\ Write(s, Deletion(s, j, p.listed[j]), good, bad)
           /\ ClearedOne(p, good, j, TRUE)
    BY <2>0
  <2>2. /\ j \in InTheWay(p, p.cur) /\ j \in Listed(p) /\ p.cur \in DOMAIN p.conf.hosts
    BY <1>1, <2>1 DEF ClearedOne, Orderly, Clearing, Coherent
  <2>3. j = i
    <3>1. zone' \in {zone, Applied(Deletion(s, j, p.listed[j]))}
      BY <2>1 DEF Write
    <3> QED BY <1>1, <2>2, <3>1, DeletionApplied, SlotsDistinct DEF Live
  <2>4. zone[i].name = p.cur /\ zone[i].type \in Blocking(p.conf.hosts[p.cur])
    BY <1>1, <2>2, <2>3 DEF Known, Same, Live, InTheWay
  <2> QED BY <1>1, <2>2, <2>4, BlockingUnwanted DEF p
<1>3. CASE PruneDelete(s)
  <2>0. PICK j \in Ids : \E good, bad :
           /\ Write(s, Deletion(s, j, p.listed[j]), good, bad)
           /\ PrunedOne(p, good, j)
    BY <1>3, PruneDeleteShape DEF p, PassInv
  <2>1. PICK good, bad :
           /\ Write(s, Deletion(s, j, p.listed[j]), good, bad)
           /\ PrunedOne(p, good, j)
    BY <2>0
  <2>2. /\ j \in p.queue /\ p.pc = "prune" /\ j \in Listed(p)
    BY <1>1, <2>1 DEF PrunedOne, Coherent
  <2>3. j = i
    <3>1. zone' \in {zone, Applied(Deletion(s, j, p.listed[j]))}
      BY <2>1 DEF Write
    <3> QED BY <1>1, <2>2, <3>1, DeletionApplied, SlotsDistinct DEF Live
  <2>4. <<p.listed[i].name, p.listed[i].type>> \notin Wanted(p.conf)
    BY <1>1, <2>2, <2>3, OrphanUnwanted DEF p
  <2>5. zone[i].name = p.listed[i].name /\ zone[i].type = p.listed[i].type
    BY <1>1, <2>2, <2>3 DEF Known, Same, Live
  <2> QED BY <2>4, <2>5 DEF p
<1>4. CASE UpdateOwned(s) \/ ForceAdopt(s) \/ Create(s)
  <2> DEFINE want == Desired(s, p, p.pc)
  <2>1. /\ want \in Record
        /\ \/ Write(s, Creation(s, want), After(p), After(Note(p)))
           \/ \E j \in Existing(p) :
                Write(s, Change(s, j, Overwritten(p.listed[j], want)), After(p), After(Note(p)))
    BY <1>4, FamilyWriteShape DEF p, PassInv
  <2>2. Creation(s, want) \in Call /\ Creation(s, want).op # "delete"
    <3>1. (CHOOSE j \in Ids : TRUE) \in Ids
      BY IdsOrdered
    <3> QED BY <2>1, <3>1 DEF Creation, Call
  <2>3. ASSUME NEW j \in Existing(p)
        PROVE  LET c == Change(s, j, Overwritten(p.listed[j], want))
               IN  c \in Call /\ c.op # "delete"
    <3>1. j \in Ids /\ Overwritten(p.listed[j], want) \in Record
      BY <2>1, ExistingListed, OverwrittenTyped
    <3> QED BY <3>1 DEF Change, Call
  <2> HIDE DEF want
  <2>4. PICK c \in Call : c.op # "delete" /\ zone' \in {zone, Applied(c)}
    BY <2>1, <2>2, <2>3 DEF Write
  <2> QED BY <1>1, <2>4, NothingDeleted
<1>5. CASE UNCHANGED zone
  BY <1>1, <1>5
<1> QED BY <1>2, <1>3, <1>4, <1>5
        DEF ServerStep, Advance, Start, Lookup, List, NextHost, ClearBlocked, ClearDone,
            SkipUnavailable, KeepInSync, LeaveUntagged, FinishWithoutPrune, StartPrune,
            FinishPrune, Crash, Local

\* A pass never deletes a record its own configuration asks for, in the
\* clearing or in the pruning, whoever changes the zone meanwhile: pruneZone
\* goes by the managed marks, which a host whose clearing failed may lack, and
\* what spares such a host's records is that its listing, shown no CNAME
\* beside an address, holds none of them.
THEOREM DeclaredTheorem == Spec => DeclaredSpared
<1>1. PassInv /\ [Next]_vars =>
        [\A s \in Servers, i \in Ids :
           ActsNow(s) /\ Live(i) /\ zone'[i] = Deleted /\ Legal(pass[s].listed)
             => <<zone[i].name, zone[i].type>> \notin Wanted(pass[s].conf)]_vars
  BY OwnStep, DeletesUnwanted
<1> QED BY <1>1, InitPass, NextPass, PTL DEF Spec, DeclaredSpared

\* What a family finds has not been cleared: what is cleared is in the way of
\* the host, and a host's own records are not.
LEMMA FoundKept ==
  ASSUME NEW s \in Servers, NEW p, Coherent(s, p), Orderly(s, p), p.pc \in Families,
         NEW i \in Existing(p)
  PROVE  i \notin p.dropped
<1>1. /\ p.conf \in Config /\ p.cur \in DOMAIN p.conf.hosts
      /\ <<p.cur, p.pc>> \in Wanted(p.conf)
  BY DEF Coherent, PassState, Orderly, Marking, Families, Types
<1>2. p.listed[i].name = p.cur /\ p.listed[i].type = p.pc
  BY ExistingListed
<1> SUFFICES ASSUME i \in p.dropped
             PROVE  FALSE
  OBVIOUS
<1>3. p.pc \in Blocking(p.conf.hosts[p.cur])
  BY <1>2 DEF Orderly, Dropping, InTheWay
<1> QED BY <1>1, <1>3, BlockingUnwanted

\* The record declared for the family in hand, if it is listed, is an entry
\* the family finds.
LEMMA ListedFound ==
  ASSUME NEW s \in Servers, NEW p, Coherent(s, p), Orderly(s, p), p.pc \in Families,
         Available(p), Fulfilled(s, p, p.listed, <<p.cur, p.pc>>)
  PROVE  OwnedOnes(s, p) # {}
<1> DEFINE want == Desired(s, p, p.pc)
<1>1. /\ p.conf \in Config /\ p.cur \in DOMAIN p.conf.hosts
      /\ <<p.cur, p.pc>> \in Wanted(p.conf)
  BY DEF Coherent, PassState, Orderly, Marking, Families, Types
<1>2. PICK i \in Ids : p.listed[i] = want
  BY DEF Fulfilled, Desired, Declared
<1>3. want \in Record
  BY DesiredTyped
<1>4. want.name = p.cur /\ want.type = p.pc /\ want.comment = Tag[s]
  BY DEF Desired
<1> HIDE DEF want
<1>5. i \notin p.dropped
  <2> SUFFICES ASSUME i \in p.dropped
               PROVE  FALSE
    OBVIOUS
  <2>1. i \in InTheWay(p, p.cur)
    BY <1>2, <1>4 DEF Orderly, Dropping
  <2>2. p.pc \in Blocking(p.conf.hosts[p.cur])
    BY <1>2, <1>4, <2>1 DEF InTheWay
  <2> QED BY <1>1, <2>2, BlockingUnwanted
<1> QED BY <1>2, <1>3, <1>4, <1>5 DEF OwnedOnes, Existing, InByName, InKept, Kept, Listed, Owned

\* No write call goes out when the listing is settled.
LEMMA SettledSilent ==
  ASSUME PassInv, NEW s \in Servers, WritesOf(s), Settled(s, pass[s])
  PROVE  FALSE
<1> DEFINE p == pass[s]
<1>1. /\ p \in PassState /\ Coherent(s, p) /\ Orderly(s, p) /\ p.conf \in Config
      /\ Settled(s, p)
  BY DEF PassInv, TypeInv, TypeOK, Coherent, PassState
<1>2. CASE ClearDelete(s)
  <2>1. PICK i \in p.queue : p.pc = "clear"
    BY <1>2 DEF ClearDelete
  <2> DEFINE r == p.listed[i]
  <2>2. /\ p.cur \in DOMAIN p.conf.hosts /\ i \in Ids /\ r \in Record
        /\ r.name = p.cur /\ r.type \in Blocking(p.conf.hosts[p.cur])
        /\ Owned(s, r) \/ p.conf.hosts[p.cur].force
    BY <1>1, <2>1 DEF Coherent, Orderly, Clearing, InTheWay, Listed, Declared
  <2>3. <<r.name, r.type>> \notin Wanted(p.conf)
    BY <1>1, <2>2, BlockingUnwanted
  <2> QED BY <1>1, <2>2, <2>3 DEF Settled, Owned
<1>3. CASE PruneDelete(s)
  <2>1. PICK i \in p.queue : p.pc = "prune"
    BY <1>3 DEF PruneDelete
  <2> DEFINE r == p.listed[i]
  <2>2. /\ i \in Ids /\ r \in Record /\ r.comment = Tag[s] /\ p.conf.prune
        /\ <<r.name, r.type>> \notin Wanted(p.conf)
    BY <1>1, <2>1, OrphanUnwanted DEF Settled, Listed, Owned, Orderly, Pruning
  <2> QED BY <1>1, <2>2 DEF Settled
<1>family. CASE UpdateOwned(s) \/ ForceAdopt(s) \/ Create(s)
  <2>1. /\ p.pc \in Families /\ Available(p) /\ p.cur \in DOMAIN p.conf.hosts
        /\ <<p.cur, p.pc>> \in Wanted(p.conf)
    <3>1. p.pc \in Families /\ Available(p)
      BY <1>family DEF UpdateOwned, ForceAdopt, Create, InFamily
    <3> QED BY <1>1, <3>1 DEF Coherent, Orderly, Marking, Families, Types
  <2>2. Fulfilled(s, p, p.listed, <<p.cur, p.pc>>)
    BY <1>1, <2>1 DEF Settled, Available, Declared
  <2>3. OwnedOnes(s, p) # {} /\ Existing(p) # {}
    BY <1>1, <2>1, <2>2, ListedFound DEF OwnedOnes
  <2>4. UpdateOwned(s)
    BY <1>family, <2>3 DEF ForceAdopt, Create
  <2>5. PICK i \in OwnedOnes(s, p) : ~InSync(p.listed[i], Desired(s, p, p.pc))
    BY <2>4 DEF UpdateOwned
  <2> DEFINE r == p.listed[i]
  <2>6. /\ i \in Ids /\ r \in Record /\ r.name = p.cur /\ r.type = p.pc /\ r.comment = Tag[s]
    BY <2>5, ExistingListed DEF OwnedOnes, Owned
  <2>7. AsDeclared(p, r)
    BY <1>1, <2>1, <2>6 DEF Settled
  <2>8. InSync(r, Desired(s, p, p.pc))
    BY <2>1, <2>6, <2>7 DEF AsDeclared, InSync, Desired, Available, Declared
  <2> QED BY <2>5, <2>8
<1> QED BY <1>2, <1>3, <1>family DEF WritesOf

\* Reloading an unchanged configuration writes nothing (reconcileFamily,
\* clearConflictingRecords, pruneZone): a pass whose listing shows what the
\* configuration asks for makes no write call in any of its phases.
THEOREM SettledTheorem == Spec => WritesOnlyToSettle
<1>1. PassInv /\ [Next]_vars => [\A s \in Servers : WritesOf(s) => ~Settled(s, pass[s])]_vars
  BY SettledSilent
<1> QED BY <1>1, InitPass, NextPass, PTL DEF Spec, WritesOnlyToSettle

----------------------------------------------------------------------------
(* The listing, page by page.                                              *)

\* The place of a record in the listing: the live ids before it.
Before(i) == {j \in Ids : Live(j) /\ j < i}

Rank(i) == Cardinality(Before(i))

\* The zone's first n pages.
Seen(n) == [i \in Ids |-> IF Live(i) /\ Rank(i) < n * PageSize THEN zone[i] ELSE Unborn]

\* A pass that listed while nobody else changed the zone has its first pages.
Reading(s) ==
  pass[s].pc = "list" /\ pass[s].page # 1 /\ s \in intact
    => pass[s].listed = Seen(pass[s].page - 1)

\* Ids are numbers, and those before one are smaller.
LEMMA BeforeIs ==
  ASSUME NEW i \in Ids
  PROVE  /\ i \in Nat
         /\ Before(i) \in SUBSET Ids /\ Before(i) \in SUBSET Nat
         /\ \A j \in Before(i) : j \in Ids /\ j \in Nat /\ Live(j) /\ j < i /\ j <= i
         /\ \A j \in Ids : Live(j) /\ j < i => j \in Before(i)
<1>1. i \in Nat
  BY IdsOrdered
<1>2. ASSUME NEW j \in Before(i)
      PROVE  j \in Ids /\ j \in Nat /\ Live(j) /\ j < i /\ j <= i
  <2>1. j \in Ids /\ Live(j) /\ j < i
    BY DEF Before
  <2>2. j \in Nat
    BY <2>1, IdsOrdered
  <2> QED BY <1>1, <2>1, <2>2
<1>3. \A j \in Ids : Live(j) /\ j < i => j \in Before(i)
  BY DEF Before
<1>4. Before(i) \in SUBSET Ids /\ Before(i) \in SUBSET Nat
  BY <1>2
<1> QED BY <1>1, <1>2, <1>3, <1>4

\* Finitely many ids come before one, so its rank is a number.
LEMMA RankTyped ==
  ASSUME NEW i \in Ids
  PROVE  IsFiniteSet(Before(i)) /\ Rank(i) \in Nat
<1>1. Before(i) \in SUBSET Nat /\ i \in Nat /\ \A j \in Before(i) : j <= i
  BY BeforeIs
<1>2. IsFiniteSet(Before(i))
  BY <1>1, FS_BoundedSetOfNaturals
<1> QED BY <1>2, FS_CardinalityType DEF Rank

\* Ranks grow with the ids.
LEMMA RankGrows ==
  ASSUME NEW i \in Ids, NEW k \in Ids, Live(i), i < k
  PROVE  Rank(i) + 1 <= Rank(k)
<1>1. IsFiniteSet(Before(i)) /\ IsFiniteSet(Before(k))
  BY RankTyped
<1>2. i \notin Before(i) /\ Before(i) \cup {i} \in SUBSET Before(k)
  <2>1. i \in Nat /\ k \in Nat
    BY BeforeIs
  <2>2. i \notin Before(i) /\ i \in Before(k)
    BY <2>1, BeforeIs
  <2>3. ASSUME NEW j \in Before(i)
        PROVE  j \in Before(k)
    <3>1. j \in Ids /\ j \in Nat /\ Live(j) /\ j < i
      BY BeforeIs
    <3>2. j < k
      BY <2>1, <3>1
    <3> QED BY <3>1, <3>2, BeforeIs
  <2> QED BY <2>2, <2>3
<1>3. Cardinality(Before(i) \cup {i}) = Rank(i) + 1
  BY <1>1, <1>2, FS_AddElement DEF Rank
<1>4. Cardinality(Before(i) \cup {i}) <= Rank(k)
  BY <1>1, <1>2, FS_Subset DEF Rank
<1> QED BY <1>3, <1>4

\* Among numbers with a bound there is a greatest one.
LEMMA Greatest ==
  ASSUME NEW S \in SUBSET Nat, S # {}, NEW b \in Nat, \A n \in S : n <= b
  PROVE  \E n \in S : \A m \in S : m <= n
<1> DEFINE U == {u \in Nat : \A m \in S : m <= u}
<1>1. U \in SUBSET Nat /\ U # {}
  OBVIOUS
<1>2. PICK u \in U : \A v \in U : u <= v
  <2> HIDE DEF U
  <2> QED BY <1>1, Least
<1>3. u \in S
  <2> SUFFICES ASSUME u \notin S
               PROVE  FALSE
    OBVIOUS
  <2>1. PICK m \in S : TRUE
    OBVIOUS
  <2>2. \A n \in S : n <= u - 1
    BY <1>2
  <2>3. u - 1 \in Nat
    BY <1>2, <2>1, <2>2
  <2> QED BY <1>2, <2>2, <2>3
<1> QED BY <1>2, <1>3

\* Every number up to the rank of a record is the rank of one.
LEMMA RankReached ==
  ASSUME NEW i \in Ids, Live(i), NEW k \in Nat, k <= Rank(i)
  PROVE  \E j \in Ids : Live(j) /\ Rank(j) = k
<1> SUFFICES ASSUME \A j \in Ids : Live(j) => Rank(j) # k
             PROVE  FALSE
  OBVIOUS
<1> DEFINE S == {j \in Ids : Live(j) /\ Rank(j) > k}
<1>1. S \in SUBSET Nat /\ S # {}
  <2>1. Rank(i) \in Nat /\ Rank(i) # k
    BY RankTyped
  <2>2. Rank(i) > k
    BY <2>1
  <2>3. i \in S
    BY <2>2
  <2> QED BY <2>3, IdsOrdered
<1>2. PICK m \in S : \A j \in S : m <= j
  <2> HIDE DEF S
  <2> QED BY <1>1, Least
<1>3. m \in Ids /\ m \in Nat /\ Live(m) /\ Rank(m) > k /\ Rank(m) \in Nat
  BY <1>2, BeforeIs, RankTyped
<1>4. ASSUME NEW j \in Before(m)
      PROVE  j \in Ids /\ j \in Nat /\ Live(j) /\ Rank(j) \in Nat /\ Rank(j) < k /\ j < m
  <2>1. j \in Ids /\ j \in Nat /\ Live(j) /\ j < m
    BY <1>3, BeforeIs
  <2>2. Rank(j) \in Nat /\ Rank(j) # k
    BY <2>1, RankTyped
  <2>3. ~(m <= j)
    BY <1>3, <2>1
  <2>4. ~(Rank(j) > k)
    BY <1>2, <2>1, <2>3
  <2> QED BY <2>1, <2>2, <2>4
<1>5. Before(m) # {}
  <2>1. Cardinality(Before(m)) # 0
    BY <1>3 DEF Rank
  <2> QED BY <2>1, FS_EmptySet
<1>6. PICK g \in Before(m) : \A j \in Before(m) : j <= g
  <2>1. Before(m) \in SUBSET Nat /\ \A j \in Before(m) : j <= m
    BY <1>3, BeforeIs
  <2> HIDE <1>4
  <2> QED BY <1>3, <1>5, <2>1, Greatest
<1>7. Before(m) = Before(g) \cup {g} /\ g \notin Before(g)
  <2>1. g \in Ids /\ g \in Nat /\ Live(g) /\ g < m
    BY <1>4
  <2>2. g \notin Before(g)
    BY <2>1, BeforeIs
  <2>3. ASSUME NEW j \in Before(g)
        PROVE  j \in Before(m)
    <3>1. j \in Ids /\ j \in Nat /\ Live(j) /\ j < g
      BY <2>1, BeforeIs
    <3>2. j < m
      BY <1>3, <2>1, <3>1
    <3> QED BY <1>3, <3>1, <3>2, BeforeIs
  <2>4. ASSUME NEW j \in Before(m), j # g
        PROVE  j \in Before(g)
    <3>1. j \in Ids /\ j \in Nat /\ Live(j) /\ j <= g
      BY <1>4, <1>6
    <3>2. j < g
      BY <2>1, <2>4, <3>1
    <3> QED BY <2>1, <3>1, <3>2, BeforeIs
  <2> QED BY <2>1, <2>2, <2>3, <2>4
<1>8. Rank(m) = Rank(g) + 1
  BY <1>4, <1>6, <1>7, RankTyped, FS_AddElement DEF Rank
<1> QED BY <1>3, <1>4, <1>6, <1>8

\* The bounds of a page.
LEMMA PageBounds ==
  ASSUME NEW n \in Nat \ {0}
  PROVE  /\ (n - 1) * PageSize \in Nat /\ n * PageSize \in Nat
         /\ n * PageSize = (n - 1) * PageSize + PageSize
         /\ PageSize \in Nat /\ PageSize # 0
<1>1. PageSize \in Nat \ {0} /\ n - 1 \in Nat
  BY PageSizePositive
<1>2. \A a, b \in Nat : a * b \in Nat /\ (a + 1) * b = a * b + b
  OBVIOUS
<1>3. n = (n - 1) + 1
  OBVIOUS
<1> QED BY <1>1, <1>2, <1>3

\* A page is the live records with its ranks.
LEMMA PageIs ==
  ASSUME NEW n \in Nat \ {0}, NEW i \in Ids
  PROVE  i \in Page(n) <=>
           /\ Live(i)
           /\ (n - 1) * PageSize <= Rank(i)
           /\ Rank(i) < n * PageSize
<1> DEFINE a == (n - 1) * PageSize
           b == n * PageSize
<1>1. a \in Nat /\ b \in Nat /\ Rank(i) \in Nat
  BY PageBounds, RankTyped
<1>2. i \in Page(n) <=> Live(i) /\ Rank(i) \in a .. b - 1
  BY DEF Page, Rank, Before
<1> HIDE DEF a, b
<1>3. Rank(i) \in a .. b - 1 <=> a <= Rank(i) /\ Rank(i) < b
  BY <1>1
<1> QED BY <1>2, <1>3 DEF a, b

\* A page with a record behind it is full.
LEMMA FullPage ==
  ASSUME NEW n \in Nat \ {0}, NEW i \in Ids, Live(i), n * PageSize <= Rank(i)
  PROVE  Cardinality(Page(n)) = PageSize
<1> DEFINE a == (n - 1) * PageSize
           b == n * PageSize
           S == Page(n)
           T == a .. b - 1
           f == [j \in S |-> Rank(j)]
<1>1. /\ a \in Nat /\ b \in Nat /\ b = a + PageSize /\ PageSize \in Nat /\ PageSize # 0
      /\ Rank(i) \in Nat
  BY PageBounds, RankTyped
<1>2. \A j \in S : j \in Ids /\ Live(j) /\ Rank(j) \in Nat /\ a <= Rank(j) /\ Rank(j) < b
  <2>1. S \subseteq Ids
    BY DEF Page
  <2> QED BY <2>1, PageIs, RankTyped
<1>3. \A j \in Ids : Live(j) /\ Rank(j) \in T => j \in S
  <2> SUFFICES ASSUME NEW j \in Ids, Live(j), Rank(j) \in T
               PROVE  j \in S
    OBVIOUS
  <2>1. a <= Rank(j) /\ Rank(j) < b
    <3> HIDE DEF a, b
    <3> QED BY <1>1, RankTyped
  <2> QED BY <2>1, PageIs
<1>4. IsFiniteSet(S)
  <2>1. ASSUME NEW j \in S
        PROVE  j \in Before(i)
    <3>1. j \in Ids /\ Live(j) /\ Rank(j) \in Nat /\ Rank(j) < Rank(i)
      <4> HIDE DEF S, a
      <4> QED BY <1>1, <1>2
    <3>2. j \in Nat /\ i \in Nat
      BY <3>1, BeforeIs
    <3>3. ~(i < j)
      <4>1. i < j => Rank(i) + 1 <= Rank(j)
        BY <3>1, RankGrows
      <4> QED BY <1>1, <3>1, <4>1
    <3>4. i # j
      BY <1>1, <3>1
    <3> QED BY <3>1, <3>2, <3>3, <3>4, BeforeIs
  <2>2. S \in SUBSET Before(i)
    BY <2>1
  <2> QED BY <2>2, RankTyped, FS_Subset
<1>5. f \in Bijection(S, T)
  <2>1. f \in [S -> T]
    <3>1. \A j \in S : Rank(j) \in T
      <4> HIDE DEF S, a, b
      <4> QED BY <1>1, <1>2
    <3> HIDE DEF S, T
    <3> QED BY <3>1
  <2>2. ASSUME NEW j \in S, NEW k \in S, Rank(j) = Rank(k)
        PROVE  j = k
    <3>1. /\ j \in Ids /\ Live(j) /\ Rank(j) \in Nat /\ k \in Ids /\ Live(k)
      BY <1>2
    <3>2. j \in Nat /\ k \in Nat
      BY <3>1, BeforeIs
    <3>3. (j < k => Rank(j) + 1 <= Rank(k)) /\ (k < j => Rank(k) + 1 <= Rank(j))
      BY <3>1, RankGrows
    <3>4. ~(j < k) /\ ~(k < j)
      BY <2>2, <3>1, <3>3
    <3> QED BY <3>2, <3>4
  <2>3. ASSUME NEW k \in T
        PROVE  \E j \in S : Rank(j) = k
    <3>1. k \in Nat /\ k <= Rank(i)
      <4> HIDE DEF a
      <4> QED BY <1>1
    <3>2. PICK j \in Ids : Live(j) /\ Rank(j) = k
      BY <3>1, RankReached
    <3> QED BY <1>3, <3>2
  <2> HIDE DEF S, T
  <2> QED BY <2>1, <2>2, <2>3 DEF Bijection, Injection, Surjection, IsInjective
<1>6. Cardinality(T) = PageSize
  <2> HIDE DEF a, b
  <2>1. a \in Int /\ b - 1 \in Int /\ ~(a > b - 1) /\ (b - 1) - a + 1 = PageSize
    BY <1>1
  <2> QED BY <2>1, FS_Interval
<1>7. ExistsBijection(S, T)
  BY <1>5 DEF ExistsBijection
<1> HIDE DEF S, T
<1>8. Cardinality(S) = PageSize
  BY <1>4, <1>6, <1>7, FS_Bijection
<1> QED BY <1>8 DEF S

\* Of no page, nothing is seen.
LEMMA SeenNone == Seen(0) = [i \in Ids |-> Unborn]
<1>1. 0 * PageSize = 0
  BY PageSizePositive
<1>2. \A i \in Ids : ~(Rank(i) < 0 * PageSize)
  BY <1>1, RankTyped
<1> QED BY <1>2 DEF Seen

\* A page is read behind the ones before it.
LEMMA ReadSeen ==
  ASSUME NEW p, p.page \in Nat \ {0}, p.listed = Seen(p.page - 1)
  PROVE  ReadPage(p) = Seen(p.page)
<1> DEFINE n == p.page
           a == (n - 1) * PageSize
           b == n * PageSize
<1>1. /\ a \in Nat /\ b \in Nat /\ b = a + PageSize /\ PageSize \in Nat
  BY PageBounds
<1>2. ASSUME NEW i \in Ids
      PROVE  ReadPage(p)[i] = Seen(n)[i]
  <2>1. Rank(i) \in Nat
    BY RankTyped
  <2>2. i \in Page(n) <=> Live(i) /\ a <= Rank(i) /\ Rank(i) < b
    BY PageIs
  <2>3. p.listed[i] = IF Live(i) /\ Rank(i) < a THEN zone[i] ELSE Unborn
    BY DEF Seen
  <2>4. Seen(n)[i] = IF Live(i) /\ Rank(i) < b THEN zone[i] ELSE Unborn
    BY DEF Seen
  <2>5. ReadPage(p)[i] = IF i \in Page(n) THEN zone[i] ELSE p.listed[i]
    BY DEF ReadPage
  <2>6. Rank(i) < a => Rank(i) < b
    <3> HIDE DEF a, b, n
    <3> QED BY <1>1, <2>1
  <2>7. a <= Rank(i) <=> ~(Rank(i) < a)
    <3> HIDE DEF a, b, n
    <3> QED BY <1>1, <2>1
  <2> HIDE DEF a, b, n
  <2> QED BY <2>2, <2>3, <2>4, <2>5, <2>6, <2>7
<1> QED BY <1>2 DEF ReadPage, Seen

\* The last page completes the listing.
LEMMA SeenAll ==
  ASSUME NEW n \in Nat \ {0}, ~MorePages(n)
  PROVE  Seen(n) = [i \in Ids |-> IF Live(i) THEN zone[i] ELSE Unborn]
<1>1. ASSUME NEW i \in Ids, Live(i)
      PROVE  Rank(i) < n * PageSize
  <2>1. ~(n * PageSize <= Rank(i))
    BY <1>1, FullPage DEF MorePages
  <2>2. Rank(i) \in Nat /\ n * PageSize \in Nat
    BY RankTyped, PageBounds
  <2> QED BY <2>1, <2>2
<1> QED BY <1>1 DEF Seen

\* What a call for a page does, and to whom the zone has been its own.
LEMMA ListOutcome ==
  ASSUME NEW s \in Servers, List(s), pass[s] \in PassState
  PROVE  /\ UNCHANGED zone
         /\ \/ Goto(s, NextPage(pass[s]))
            \/ Goto(s, LastPage(pass[s])) /\ ~MorePages(pass[s].page)
            \/ Goto(s, Return(pass[s], "error", {}))
         /\ intact' \subseteq intact \cup {s}
         /\ s \in intact' => s \in intact \/ pass[s].page = 1
<1> DEFINE p == pass[s]
           read == [p EXCEPT !.listed = [i \in Ids |-> IF i \in Page(p.page) THEN zone[i] ELSE @[i]]]
<1>1. \/ Goto(s, IF MorePages(p.page)
                 THEN [read EXCEPT !.page = @ + 1]
                 ELSE [read EXCEPT !.pc = "hosts", !.page = 1, !.todo = DOMAIN p.conf.hosts])
      \/ Goto(s, Return(p, "error", {}))
  BY DEF List
<1>2. read = [p EXCEPT !.listed = ReadPage(p)]
  BY DEF ReadPage, PassState
<1>3. /\ [read EXCEPT !.page = @ + 1] = NextPage(p)
      /\ [read EXCEPT !.pc = "hosts", !.page = 1, !.todo = DOMAIN p.conf.hosts] = LastPage(p)
  BY <1>2 DEF NextPage, LastPage, PassState
<1>4. /\ UNCHANGED zone
      /\ intact' \subseteq intact \cup {s}
      /\ s \in intact' => s \in intact \/ p.page = 1
  BY DEF List
<1> QED BY <1>1, <1>3, <1>4

\* The pages a pass has read after this one, if it has been alone.
LEMMA ReadOn ==
  ASSUME TypeInv, NEW s \in Servers, Orderly(s, pass[s]), Reading(s),
         pass[s].pc = "list", s \in intact \/ pass[s].page = 1
  PROVE  ReadPage(pass[s]) = Seen(pass[s].page)
<1> DEFINE p == pass[s]
<1>1. p.page \in Nat \ {0} /\ (p.page = 1 => p.listed = [i \in Ids |-> Unborn])
  BY DEF TypeInv, TypeOK, PassState, Orderly, Untouched
<1>2. p.listed = Seen(p.page - 1)
  <2>1. CASE p.page = 1
    <3>1. p.page - 1 = 0
      BY <2>1
    <3> QED BY <1>1, <2>1, <3>1, SeenNone
  <2>2. CASE p.page # 1
    BY <2>2 DEF Reading
  <2> QED BY <2>1, <2>2
<1> QED BY <1>1, <1>2, ReadSeen

----------------------------------------------------------------------------
(* What a pass knows of a zone that is its own.                            *)

\* The family a record belongs to, and its entry in the report.
Pair(r) == <<r.name, r.type>>

Entry(r) == <<r.name, TunnelOf(r)>>

\* A family the pass has dealt with.
Dealt(p, w) == w \in p.managed /\ Past(p, w)

\* A record that pruneZone has deleted.
Pruned(s, p, i) ==
  p.pc = "prune" /\ i \in Orphans(s, p) \ p.queue /\ Entry(p.listed[i]) \in p.pruned

\* A listed record is as it was listed, unless the pass has dealt with its
\* family or deleted it; one that is not listed is of a family dealt with.
TrackedAt(s, p, z, i) ==
  /\ z[i] \in Record /\ i \in Listed(p) =>
       /\ i \notin p.dropped
       /\ Same(z, i, p.listed[i])
       /\ z[i] = p.listed[i] \/ Dealt(p, Pair(z[i]))
  /\ z[i] \in Record /\ i \notin Listed(p) => Dealt(p, Pair(z[i]))
  /\ z[i] \notin Record /\ i \in Listed(p) =>
       z[i] = Deleted /\ (i \in p.dropped \/ Pruned(s, p, i))

\* Every record of the zone, and every listed one, is accounted for.
Tracked(s, p, z) == \A i \in Ids : TrackedAt(s, p, z, i)

\* Every CNAME that was cleared is reported, and what is reported is gone.
Reported(p, z) ==
  /\ \A i \in p.dropped : p.listed[i].type = "CNAME" =>
       \/ Entry(p.listed[i]) \in p.cleared
       \/ p.pc = "clear" /\ p.cur = p.listed[i].name /\ ~p.blocked
  /\ \A e \in p.cleared \cup p.pruned :
       \E i \in Listed(p) : z[i] = Deleted /\ e = Entry(p.listed[i])

\* The orphans that pruneZone has behind it are gone.
Taken(s, p, z) == p.pc = "prune" => \A i \in Orphans(s, p) \ p.queue : z[i] \notin Record

\* The record declared for w is there, and what it holds is known.
Placed(s, p, z, w) ==
  Effective(p.conf.hosts[w[1]], p.det, w[2]) # None /\ Fulfilled(s, p, z, w)

\* A family that is done is as declared, or the log says that it is not.
Published(s, p, z) ==
  \A w \in Wanted(p.conf) : Past(p, w) =>
     w \in p.noted \/ (w \in p.managed /\ Placed(s, p, z, w))

\* All that a pass knows of a zone it has to itself, once it has listed it.
Exact(s, p, z) ==
  p.pc \in Working =>
    /\ Legal(p.listed)
    /\ Tracked(s, p, z)
    /\ Reported(p, z)
    /\ Taken(s, p, z)
    /\ Published(s, p, z)

\* A pass between two of its steps, on a zone it has to itself.
Sound(s, p, z) ==
  /\ Coherent(s, p) /\ Orderly(s, p) /\ Exact(s, p, z) /\ z \in Zone
  /\ \A i \in Listed(p) : Known(z, i, p.listed[i])

\* The pass keeps its input, and forgets nothing it has done.
Onward(p, q) ==
  /\ SameInput(p, q)
  /\ p.managed \subseteq q.managed
  /\ \A w : Past(p, w) => Past(q, w)

\* The record server s is to have for w.
Wish(s, p, w) ==
  LET d == p.conf.hosts[w[1]]
      content == Effective(d, p.det, w[2])
  IN  [name |-> w[1], type |-> w[2], content |-> content,
       proxied |-> Proxied(d, w[2], content), comment |-> Tag[s]]

\* A record that is placed is a record of the family it is placed for.
LEMMA PlacedRecord ==
  ASSUME NEW s \in Servers, NEW p, p.conf \in Config, p.det \in Detection, NEW z,
         NEW w \in Wanted(p.conf), Placed(s, p, z, w)
  PROVE  \E j \in Ids : z[j] \in Record /\ Pair(z[j]) = w /\ z[j] = Wish(s, p, w)
<1> DEFINE d == p.conf.hosts[w[1]]
           content == Effective(d, p.det, w[2])
<1>1. w[1] \in Names /\ w[2] \in Types /\ w[1] \in DOMAIN p.conf.hosts /\ w = <<w[1], w[2]>>
  BY DEF Wanted
<1>2. d \in Decl
  BY <1>1, ConfigShape
<1>3. content \in Contents
  <2>1. content # None
    BY DEF Placed
  <2> QED BY <1>1, <1>2, <2>1 DEF Effective, Decl, Detection, Contents, Types
<1>4. Proxied(d, w[2], content) \in BOOLEAN
  BY <1>2 DEF Proxied, Decl
<1>5. Tag[s] \in Tags
  BY DEF Tags
<1> HIDE DEF d, content
<1>6. Wish(s, p, w) \in Record /\ Pair(Wish(s, p, w)) = w
  BY <1>1, <1>3, <1>4, <1>5 DEF Wish, Record, Pair, d, content
<1>7. PICK j \in Ids : z[j] = Wish(s, p, w)
  BY DEF Placed, Fulfilled, Wish
<1> QED BY <1>6, <1>7

\* What is tracked stays tracked while neither it nor the snapshot changes.
LEMMA TrackedOn ==
  ASSUME NEW s, NEW p, NEW q, NEW z, NEW y, NEW i \in Ids, Onward(p, q),
         TrackedAt(s, p, z, i), y[i] = z[i], i \in p.dropped <=> i \in q.dropped,
         Pruned(s, p, i) => Pruned(s, q, i)
  PROVE  TrackedAt(s, q, y, i)
<1>1. Listed(q) = Listed(p) /\ q.listed = p.listed
  BY SameInTheWay DEF Onward, SameInput
<1>2. \A w : Dealt(p, w) => Dealt(q, w)
  BY DEF Onward, Dealt
<1> QED BY <1>1, <1>2 DEF TrackedAt, Same

\* What is published stays published while it is still there.
LEMMA PublishedOn ==
  ASSUME NEW s, NEW p, NEW q, NEW z, NEW y, Onward(p, q), Published(s, p, z),
         p.noted \subseteq q.noted,
         \A w \in Wanted(p.conf) : Past(p, w) /\ Placed(s, p, z, w) => Placed(s, p, y, w),
         \A w \in Wanted(p.conf) : Past(q, w) =>
           Past(p, w) \/ w \in q.noted \/ (w \in q.managed /\ Placed(s, p, y, w))
  PROVE  Published(s, q, y)
<1>1. q.conf = p.conf /\ \A w : Placed(s, q, y, w) <=> Placed(s, p, y, w)
  BY DEF Onward, SameInput, Placed, Fulfilled
<1> QED BY <1>1 DEF Published, Onward

\* Entering the clearing of a host, the pass knows what it knew.
LEMMA EnteredExact ==
  ASSUME NEW s \in Servers, NEW p, NEW z, Sound(s, p, z), NEW q, NEW n \in Names,
         Entered(s, p, q, n)
  PROVE  Exact(s, q, z)
<1>1. /\ p.pc = "hosts" /\ q.pc = "clear" /\ q.dropped = p.dropped /\ SameInput(p, q)
      /\ q.cleared = p.cleared /\ q.pruned = p.pruned /\ q.noted = p.noted
      /\ q.cur = n /\ n \in p.todo /\ q.todo = p.todo \ {n} /\ p.managed \subseteq q.managed
  BY DEF Entered, SameReport
<1>2. Exact(s, p, z) /\ p.pc \in Working
  BY <1>1 DEF Sound, Working
<1>3. \A w : Past(p, w) <=> Past(q, w)
  BY <1>1 DEF Past
<1>4. Onward(p, q)
  BY <1>1, <1>3 DEF Onward
<1>5. Tracked(s, q, z)
  <2>1. \A i \in Ids : TrackedAt(s, p, z, i) /\ ~Pruned(s, p, i)
    BY <1>1, <1>2 DEF Exact, Tracked, Pruned
  <2> QED BY <1>1, <1>4, <2>1, TrackedOn DEF Tracked
<1>6. Reported(q, z)
  BY <1>1, <1>2, SameInTheWay DEF Exact, Reported, SameInput
<1>7. Published(s, q, z)
  BY <1>1, <1>2, <1>3, <1>4, PublishedOn DEF Exact
<1> QED BY <1>1, <1>2, <1>5, <1>6, <1>7 DEF Exact, Taken, SameInput

LEMMA PruneStartedExact ==
  ASSUME NEW s \in Servers, NEW p, NEW z, Sound(s, p, z), NEW q, PruneStarted(s, p, q)
  PROVE  Exact(s, q, z)
<1>1. /\ p.pc = "hosts" /\ q.pc = "prune" /\ q.dropped = p.dropped /\ SameInput(p, q)
      /\ q.cleared = p.cleared /\ q.pruned = p.pruned /\ q.noted = p.noted
      /\ q.cur = p.cur /\ q.todo = p.todo /\ p.managed = q.managed
      /\ q.queue = Orphans(s, p)
  BY DEF PruneStarted, SameReport, SameLoop
<1>2. Exact(s, p, z) /\ p.pc \in Working
  BY <1>1 DEF Sound, Working
<1>3. \A w : Past(p, w) <=> Past(q, w)
  BY <1>1 DEF Past
<1>4. Onward(p, q)
  BY <1>1, <1>3 DEF Onward
<1>5. Tracked(s, q, z)
  <2>1. \A i \in Ids : TrackedAt(s, p, z, i) /\ ~Pruned(s, p, i)
    BY <1>1, <1>2 DEF Exact, Tracked, Pruned
  <2> QED BY <1>1, <1>4, <2>1, TrackedOn DEF Tracked
<1>6. Reported(q, z)
  BY <1>1, <1>2, SameInTheWay DEF Exact, Reported, SameInput
<1>7. Published(s, q, z)
  BY <1>1, <1>2, <1>3, <1>4, PublishedOn DEF Exact
<1>8. Orphans(s, q) = Orphans(s, p)
  BY <1>1 DEF Orphans, Kept, Listed, SameInput
<1> QED BY <1>1, <1>2, <1>5, <1>6, <1>7, <1>8 DEF Exact, Taken, SameInput

\* The families of a host are the ones that are noted when it is skipped.
LEMMA WantedManaged ==
  ASSUME NEW conf \in Config, NEW n \in DOMAIN conf.hosts, NEW w \in Wanted(conf), w[1] = n
  PROVE  w \in {n} \X ManagedTypes(conf.hosts[n])
<1>1. w = <<w[1], w[2]>> /\ w[2] \in ManagedTypes(conf.hosts[n])
  BY DEF Wanted, ManagedTypes
<1> QED BY <1>1

LEMMA GaveUpExact ==
  ASSUME NEW s \in Servers, NEW p, NEW z, Sound(s, p, z), NEW q, GaveUp(p, q)
  PROVE  Exact(s, q, z)
<1>1. /\ p.pc = "clear" /\ p.blocked /\ q.pc = "hosts" /\ q.dropped = p.dropped
      /\ SameInput(p, q) /\ q.cleared = p.cleared /\ q.pruned = p.pruned
      /\ q.noted = p.noted \cup ({p.cur} \X ManagedTypes(Declared(p)))
      /\ q.cur = p.cur /\ q.todo = p.todo /\ p.managed = q.managed
  BY DEF GaveUp, SameReport, SameLoop
<1>2. Exact(s, p, z) /\ p.pc \in Working /\ p.conf \in Config /\ p.cur \in DOMAIN p.conf.hosts
  BY <1>1 DEF Sound, Working, Coherent, PassState
<1>3. \A w : (Past(p, w) => Past(q, w)) /\ (Past(q, w) => Past(p, w) \/ w[1] = p.cur)
  BY <1>1 DEF Past
<1>4. Onward(p, q)
  BY <1>1, <1>3 DEF Onward
<1>5. Tracked(s, q, z)
  <2>1. \A i \in Ids : TrackedAt(s, p, z, i) /\ ~Pruned(s, p, i)
    BY <1>1, <1>2 DEF Exact, Tracked, Pruned
  <2> QED BY <1>1, <1>4, <2>1, TrackedOn DEF Tracked
<1>6. Reported(q, z)
  BY <1>1, <1>2, SameInTheWay DEF Exact, Reported, SameInput
<1>7. Published(s, q, z)
  <2>1. \A w \in Wanted(p.conf) : w[1] = p.cur => w \in q.noted
    BY <1>1, <1>2, WantedManaged DEF Declared
  <2> QED BY <1>1, <1>2, <1>3, <1>4, <2>1, PublishedOn DEF Exact
<1> QED BY <1>1, <1>2, <1>5, <1>6, <1>7 DEF Exact, Taken, SameInput

LEMMA ClearedExact ==
  ASSUME NEW s \in Servers, NEW p, NEW z, Sound(s, p, z), NEW q, Cleared(p, q)
  PROVE  Exact(s, q, z)
<1>1. /\ p.pc = "clear" /\ ~p.blocked /\ q.pc \in Families /\ q.dropped = p.dropped
      /\ q.pc = "AAAA" => FALSE
      /\ SameInput(p, q) /\ q.pruned = p.pruned /\ q.noted = p.noted
      /\ q.cur = p.cur /\ q.todo = p.todo /\ p.managed \subseteq q.managed
  BY DEF Cleared, SameLoop, Families, Types
<1>2. Exact(s, p, z) /\ p.pc \in Working /\ p.conf \in Config /\ p.cur \in DOMAIN p.conf.hosts
  BY <1>1 DEF Sound, Working, Coherent, PassState
<1>3. \A w : Past(p, w) <=> Past(q, w)
  BY <1>1 DEF Past, Families, Types
<1>4. Onward(p, q)
  BY <1>1, <1>3 DEF Onward
<1>5. \A i \in Ids : TrackedAt(s, p, z, i) /\ ~Pruned(s, p, i)
  BY <1>1, <1>2 DEF Exact, Tracked, Pruned
<1>6. Tracked(s, q, z)
  BY <1>1, <1>4, <1>5, TrackedOn DEF Tracked
<1>same. q.listed = p.listed /\ q.conf = p.conf /\ Listed(q) = Listed(p)
  BY <1>1, SameInTheWay DEF SameInput
<1>drop. \A i \in p.dropped : i \in Listed(p) /\ i \in Ids
  BY DEF Sound, Coherent, Listed
<1>7. Reported(q, z)
  <2>1. CASE p.conf.hosts[p.cur].tunnel # None
    <3>1. q.cleared = p.cleared
      BY <2>1 DEF Cleared, Declared
    <3>2. ASSUME NEW i \in p.dropped, p.listed[i].type = "CNAME"
          PROVE  p.listed[i].name # p.cur
      <4>1. i \in InTheWay(p, p.listed[i].name)
        BY DEF Sound, Orderly, Dropping
      <4> QED BY <2>1, <3>2, <4>1 DEF InTheWay, Blocking
    <3> QED BY <1>1, <1>2, <1>same, <3>1, <3>2 DEF Exact, Reported
  <2>2. CASE p.conf.hosts[p.cur].tunnel = None
    <3>1. q.cleared = p.cleared \cup ClearedCNAMEs(p)
      BY <2>2 DEF Cleared, Declared
    <3>2. ASSUME NEW i \in p.dropped, p.listed[i].type = "CNAME"
          PROVE  Entry(p.listed[i]) \in q.cleared
      <4>1. CASE p.listed[i].name = p.cur
        <5>1. \A k \in p.dropped :
                p.listed[k].name = p.cur /\ p.listed[k].type = "CNAME" => k = i
          BY <1>2, <1>drop, <3>2, <4>1 DEF Exact, Legal, Listed
        <5>2. i <= i
          <6>1. i \in Ids
            BY <1>drop
          <6>2. i \in Nat
            BY <6>1, IdsOrdered
          <6> QED BY <6>2
        <5>3. <<p.cur, TunnelOf(p.listed[i])>> \in ClearedCNAMEs(p)
          BY <3>2, <4>1, <5>1, <5>2 DEF ClearedCNAMEs
        <5> QED BY <3>1, <4>1, <5>3 DEF Entry
      <4>2. CASE p.listed[i].name # p.cur
        BY <1>2, <3>1, <3>2, <4>2 DEF Exact, Reported
      <4> QED BY <4>1, <4>2
    <3>3. ASSUME NEW e \in ClearedCNAMEs(p)
          PROVE  \E i \in Listed(p) : z[i] = Deleted /\ e = Entry(p.listed[i])
      <4>1. PICK i \in p.dropped : p.listed[i].name = p.cur /\ e = <<p.cur, TunnelOf(p.listed[i])>>
        BY <3>3 DEF ClearedCNAMEs
      <4>2. z[i] = Deleted
        BY <1>5, <1>drop DEF TrackedAt
      <4> QED BY <1>drop, <4>1, <4>2 DEF Entry
    <3> QED BY <1>1, <1>2, <1>same, <3>1, <3>2, <3>3 DEF Exact, Reported
  <2> QED BY <2>1, <2>2
<1>8. Published(s, q, z)
  BY <1>1, <1>2, <1>3, <1>4, PublishedOn DEF Exact
<1> QED BY <1>1, <1>2, <1>6, <1>7, <1>8, <1>same DEF Exact, Taken, Families, Types

\* What a pass has queued for deletion is there, and is not asked for.
LEMMA QueuedThere ==
  ASSUME NEW s \in Servers, NEW p, NEW z, Sound(s, p, z), p.pc \in {"clear", "prune"},
         NEW i \in p.queue
  PROVE  /\ i \in Ids /\ i \in Listed(p) /\ i \notin p.dropped /\ p.listed[i] \in Record
         /\ z[i] \in Record /\ Same(z, i, p.listed[i])
         /\ Pair(z[i]) \notin Wanted(p.conf)
<1>1. /\ Exact(s, p, z) /\ p.pc \in Working /\ p.conf \in Config
      /\ Orderly(s, p) /\ Coherent(s, p)
      /\ i \in Listed(p) /\ i \in Ids /\ p.listed[i] \in Record
      /\ Known(z, i, p.listed[i])
  BY DEF Sound, Working, Coherent, PassState, Listed
<1>2. TrackedAt(s, p, z, i) /\ Legal(p.listed)
  BY <1>1 DEF Exact, Tracked
<1>3. i \notin p.dropped /\ ~Pruned(s, p, i) /\ Pair(p.listed[i]) \notin Wanted(p.conf)
  <2>1. CASE p.pc = "clear"
    <3>1. /\ i \in InTheWay(p, p.cur) /\ i \notin p.dropped /\ p.cur \in DOMAIN p.conf.hosts
      BY <1>1, <2>1 DEF Orderly, Clearing, Coherent
    <3>2. p.listed[i].name = p.cur /\ p.listed[i].type \in Blocking(p.conf.hosts[p.cur])
      BY <3>1 DEF InTheWay
    <3> QED BY <1>1, <2>1, <3>1, <3>2, BlockingUnwanted DEF Pair, Pruned
  <2>2. CASE p.pc = "prune"
    <3>1. i \in Orphans(s, p)
      BY <1>1, <2>2 DEF Orderly, Pruning
    <3> QED BY <1>1, <1>2, <2>2, <3>1, OrphanUnwanted DEF Pair, Pruned, Orphans, Kept
  <2> QED BY <2>1, <2>2
<1>4. z[i] \in Record /\ Same(z, i, p.listed[i])
  BY <1>1, <1>2, <1>3 DEF TrackedAt
<1> QED BY <1>1, <1>3, <1>4 DEF Same, Pair

\* A deletion of something else leaves what is declared.
LEMMA StillPlaced ==
  ASSUME NEW s, NEW p, NEW z, NEW y, NEW w, Placed(s, p, z, w),
         w = <<w[1], w[2]>>, \A j \in Ids : y[j] # z[j] => Pair(z[j]) # w
  PROVE  Placed(s, p, y, w)
BY DEF Placed, Fulfilled, Pair

\* What is wanted are pairs.
LEMMA WantedPairs == \A conf : \A w \in Wanted(conf) : w = <<w[1], w[2]>>
BY DEF Wanted

\* A CNAME in the way is all there is at its name.
LEMMA AloneInTheWay ==
  ASSUME NEW p, Legal(p.listed), NEW n, NEW i \in InTheWay(p, n), NEW j \in InTheWay(p, n),
         p.listed[i].type = "CNAME"
  PROVE  i = j
BY DEF Legal, InTheWay, Listed

LEMMA ClearedOneExact ==
  ASSUME NEW s \in Servers, NEW p, NEW z, Sound(s, p, z), NEW q, NEW i, NEW good \in BOOLEAN,
         ClearedOne(p, q, i, good), NEW y,
         y = IF good THEN [z EXCEPT ![i] = Deleted] ELSE z
  PROVE  Exact(s, q, y)
<1>1. /\ p.pc = "clear" /\ q.pc = "clear" /\ i \in p.queue
      /\ SameInput(p, q) /\ q.cleared = p.cleared /\ q.pruned = p.pruned /\ q.noted = p.noted
      /\ q.cur = p.cur /\ q.todo = p.todo /\ p.managed = q.managed
      /\ q.dropped = (IF good THEN p.dropped \cup {i} ELSE p.dropped)
      /\ q.blocked = (IF good THEN p.blocked ELSE TRUE)
  BY DEF ClearedOne, SameReport, SameLoop
<1>2. /\ Exact(s, p, z) /\ p.pc \in Working /\ p.conf \in Config /\ p.cur \in DOMAIN p.conf.hosts
      /\ z \in Zone /\ Legal(p.listed)
  BY <1>1 DEF Sound, Working, Coherent, PassState, Exact
<1>3. /\ i \in Ids /\ i \in Listed(p) /\ i \notin p.dropped /\ z[i] \in Record
      /\ Same(z, i, p.listed[i]) /\ Pair(z[i]) \notin Wanted(p.conf)
  BY <1>1, QueuedThere
<1>4. \A j \in Ids : y[j] = IF good /\ j = i THEN Deleted ELSE z[j]
  BY <1>2, <1>3 DEF Zone
<1>5. i \in InTheWay(p, p.cur)
  BY <1>1 DEF Sound, Orderly, Clearing
<1>6. \A w : Past(p, w) <=> Past(q, w)
  BY <1>1 DEF Past
<1>7. Onward(p, q)
  BY <1>1, <1>6 DEF Onward
<1>same. q.listed = p.listed /\ q.conf = p.conf /\ Listed(q) = Listed(p)
  BY <1>1, SameInTheWay DEF SameInput
<1>8. Tracked(s, q, y)
  <2>1. ASSUME NEW j \in Ids, j # i
        PROVE  TrackedAt(s, q, y, j)
    <3>1. TrackedAt(s, p, z, j) /\ ~Pruned(s, p, j)
      BY <1>1, <1>2 DEF Exact, Tracked, Pruned
    <3>2. y[j] = z[j] /\ (j \in p.dropped <=> j \in q.dropped)
      BY <1>1, <1>4, <2>1
    <3> QED BY <1>7, <3>1, <3>2, TrackedOn
  <2>2. CASE good
    <3>1. y[i] = Deleted /\ i \in q.dropped
      BY <1>1, <1>3, <1>4, <2>2
    <3>2. TrackedAt(s, q, y, i)
      BY <1>3, <1>same, <3>1, SlotsDistinct DEF TrackedAt
    <3> QED BY <2>1, <3>2 DEF Tracked
  <2>3. CASE ~good
    <3>1. TrackedAt(s, p, z, i) /\ ~Pruned(s, p, i)
      BY <1>1, <1>2, <1>3 DEF Exact, Tracked, Pruned
    <3>2. y[i] = z[i] /\ (i \in p.dropped <=> i \in q.dropped)
      BY <1>1, <2>3
    <3>3. TrackedAt(s, q, y, i)
      BY <1>3, <1>7, <3>1, <3>2, TrackedOn
    <3> QED BY <2>1, <3>3 DEF Tracked
  <2> QED BY <2>2, <2>3
<1>9. Reported(q, y)
  <2>1. ASSUME NEW j \in q.dropped, p.listed[j].type = "CNAME", Entry(p.listed[j]) \notin p.cleared
        PROVE  p.cur = p.listed[j].name /\ ~q.blocked
    <3>1. CASE j = i
      <4>1. good /\ p.listed[i].type = "CNAME" /\ p.listed[i].name = p.cur
        BY <1>1, <1>3, <1>5, <2>1, <3>1 DEF InTheWay
      <4>2. ~p.blocked
        <5> SUFFICES ASSUME p.blocked
                     PROVE  FALSE
          OBVIOUS
        <5>1. PICK k \in InTheWay(p, p.cur) : k \notin p.queue
          BY <1>1 DEF Sound, Orderly, Clearing
        <5> QED BY <1>1, <1>2, <1>5, <4>1, <5>1, AloneInTheWay
      <4> QED BY <1>1, <3>1, <4>1, <4>2
    <3>2. CASE j # i
      <4>1. j \in p.dropped
        BY <1>1, <3>2
      <4>2. p.cur = p.listed[j].name /\ ~p.blocked
        BY <1>2, <2>1, <4>1 DEF Exact, Reported
      <4>3. j \in InTheWay(p, p.cur)
        BY <4>1, <4>2 DEF Sound, Orderly, Dropping
      <4> QED BY <1>2, <1>5, <2>1, <3>2, <4>3, AloneInTheWay
    <3> QED BY <3>1, <3>2
  <2>2. \A e \in p.cleared \cup p.pruned :
          \E j \in Listed(p) : y[j] = Deleted /\ e = Entry(p.listed[j])
    <3>1. \A j \in Listed(p) : z[j] = Deleted => y[j] = Deleted
      BY <1>4 DEF Listed
    <3> QED BY <1>2, <3>1 DEF Exact, Reported
  <2> QED BY <1>1, <1>same, <2>1, <2>2 DEF Reported
<1>10. Published(s, q, y)
  <2>1. ASSUME NEW w \in Wanted(p.conf), Placed(s, p, z, w)
        PROVE  Placed(s, p, y, w)
    <3>1. \A j \in Ids : y[j] # z[j] => Pair(z[j]) # w
      BY <1>3, <1>4
    <3>2. w = <<w[1], w[2]>>
      BY WantedPairs
    <3> QED BY <2>1, <3>1, <3>2, StillPlaced
  <2> QED BY <1>1, <1>2, <1>6, <1>7, <2>1, PublishedOn DEF Exact
<1> QED BY <1>1, <1>2, <1>8, <1>9, <1>10, <1>same DEF Exact, Taken

LEMMA PrunedOneExact ==
  ASSUME NEW s \in Servers, NEW p, NEW z, Sound(s, p, z), NEW q, NEW i,
         PrunedOne(p, q, i), NEW y, y = [z EXCEPT ![i] = Deleted]
  PROVE  Exact(s, q, y)
<1>1. /\ p.pc = "prune" /\ q.pc = "prune" /\ i \in p.queue /\ q.queue = p.queue \ {i}
      /\ SameInput(p, q) /\ q.cleared = p.cleared /\ q.noted = p.noted
      /\ q.cur = p.cur /\ q.todo = p.todo /\ p.managed = q.managed /\ q.dropped = p.dropped
      /\ q.pruned = p.pruned \cup {Entry(p.listed[i])}
  BY DEF PrunedOne, SameLoop, Entry
<1>2. Exact(s, p, z) /\ p.pc \in Working /\ z \in Zone
  BY <1>1 DEF Sound, Working
<1>3. /\ i \in Ids /\ i \in Listed(p) /\ z[i] \in Record /\ Pair(z[i]) \notin Wanted(p.conf)
  BY <1>1, QueuedThere
<1>4. \A j \in Ids : y[j] = IF j = i THEN Deleted ELSE z[j]
  BY <1>2, <1>3 DEF Zone
<1>5. \A w : Past(p, w) <=> Past(q, w)
  BY <1>1 DEF Past
<1>6. Onward(p, q)
  BY <1>1, <1>5 DEF Onward
<1>same. q.listed = p.listed /\ q.conf = p.conf /\ Listed(q) = Listed(p)
  BY <1>1, SameInTheWay DEF SameInput
<1>7. Orphans(s, q) = Orphans(s, p) /\ i \in Orphans(s, p)
  BY <1>1 DEF Orphans, Kept, Listed, SameInput, Sound, Orderly, Pruning
<1>8. \A j : Pruned(s, p, j) => Pruned(s, q, j)
  BY <1>1, <1>7, <1>same DEF Pruned
<1>9. Tracked(s, q, y)
  <2>1. ASSUME NEW j \in Ids, j # i
        PROVE  TrackedAt(s, q, y, j)
    <3>1. TrackedAt(s, p, z, j) /\ y[j] = z[j] /\ (j \in p.dropped <=> j \in q.dropped)
      BY <1>1, <1>2, <1>4, <2>1 DEF Exact, Tracked
    <3> QED BY <1>6, <1>8, <3>1, TrackedOn
  <2>2. Pruned(s, q, i)
    BY <1>1, <1>7, <1>same DEF Pruned
  <2>3. TrackedAt(s, q, y, i)
    BY <1>3, <1>4, <2>2, SlotsDistinct DEF TrackedAt
  <2> QED BY <2>1, <2>3 DEF Tracked
<1>10. Reported(q, y)
  <2>1. \A j \in Listed(p) : z[j] = Deleted => y[j] = Deleted
    BY <1>4 DEF Listed
  <2>2. \A j \in q.dropped : p.listed[j].type = "CNAME" => Entry(p.listed[j]) \in q.cleared
    BY <1>1, <1>2 DEF Exact, Reported
  <2>3. \A e \in q.cleared \cup q.pruned :
          \E j \in Listed(p) : y[j] = Deleted /\ e = Entry(p.listed[j])
    BY <1>1, <1>2, <1>3, <1>4, <2>1 DEF Exact, Reported
  <2> QED BY <1>same, <2>2, <2>3 DEF Reported
<1>11. Published(s, q, y)
  <2>1. ASSUME NEW w \in Wanted(p.conf), Placed(s, p, z, w)
        PROVE  Placed(s, p, y, w)
    <3>1. \A j \in Ids : y[j] # z[j] => Pair(z[j]) # w
      BY <1>3, <1>4
    <3>2. w = <<w[1], w[2]>>
      BY WantedPairs
    <3> QED BY <2>1, <3>1, <3>2, StillPlaced
  <2> QED BY <1>1, <1>2, <1>5, <1>6, <2>1, PublishedOn DEF Exact
<1>12. Taken(s, q, y)
  <2>1. \A j \in Orphans(s, p) \ p.queue : j \in Ids /\ z[j] \notin Record
    BY <1>1, <1>2 DEF Exact, Taken, Orphans, Kept, Listed
  <2> QED BY <1>1, <1>3, <1>4, <1>7, <2>1, SlotsDistinct DEF Taken
<1> QED BY <1>2, <1>9, <1>10, <1>11, <1>12, <1>same DEF Exact

\* The zone changed in records of the family w only, and none was removed.
Rewritten(z, y, w) ==
  \A j \in Ids : y[j] # z[j] =>
    /\ y[j] \in Record /\ Pair(y[j]) = w
    /\ z[j] = Unborn \/ (z[j] \in Record /\ Pair(z[j]) = w)

LEMMA MovedOnExact ==
  ASSUME NEW s \in Servers, NEW p, NEW z, Sound(s, p, z), NEW q, MovedOn(p, q),
         p.noted \subseteq q.noted, NEW y, Rewritten(z, y, <<p.cur, p.pc>>),
         <<p.cur, p.pc>> \in q.noted \/ Placed(s, p, y, <<p.cur, p.pc>>)
  PROVE  Exact(s, q, y)
<1> DEFINE now == <<p.cur, p.pc>>
<1>1. /\ p.pc \in Families /\ SameInput(p, q) /\ q.cleared = p.cleared /\ q.pruned = p.pruned
      /\ q.cur = p.cur /\ q.todo = p.todo /\ q.dropped = p.dropped
      /\ p.managed \subseteq q.managed /\ q.pc \in {"hosts", "AAAA"}
  BY DEF MovedOn, SameReport, SameLoop
<1>2. Exact(s, p, z) /\ p.pc \in Working /\ Coherent(s, p) /\ Orderly(s, p)
  BY <1>1 DEF Sound, Working
<1>3. /\ now \in p.managed /\ \A w : Past(p, w) => Past(q, w)
      /\ Past(q, now) /\ ~Past(p, now)
      /\ \A w \in Wanted(p.conf) : Past(q, w) => Past(p, w) \/ w = now
  BY <1>2, MovedOnPast
<1>4. Onward(p, q) /\ Dealt(q, now)
  BY <1>1, <1>3 DEF Onward, Dealt
<1>same. q.listed = p.listed /\ q.conf = p.conf /\ Listed(q) = Listed(p)
  BY <1>1, SameInTheWay DEF SameInput
<1> HIDE DEF now
<1>5. ASSUME NEW j \in Ids
      PROVE  TrackedAt(s, q, y, j)
  <2>1. TrackedAt(s, p, z, j) /\ ~Pruned(s, p, j)
    BY <1>1, <1>2 DEF Exact, Tracked, Pruned, Families, Types
  <2>2. CASE y[j] = z[j]
    BY <1>1, <1>4, <2>1, <2>2, TrackedOn
  <2>3. CASE y[j] # z[j]
    <3>1. y[j] \in Record /\ Pair(y[j]) = now /\ (z[j] = Unborn \/ (z[j] \in Record /\ Pair(z[j]) = now))
      BY <2>3 DEF Rewritten, now
    <3>2. CASE j \in Listed(p)
      <4>1. z[j] # Unborn
        BY <3>2 DEF Sound, Known
      <4>2. z[j] \in Record /\ Same(z, j, p.listed[j]) /\ j \notin p.dropped
        BY <2>1, <3>1, <3>2, <4>1 DEF TrackedAt
      <4>3. Same(y, j, p.listed[j])
        BY <3>1, <4>1, <4>2 DEF Same, Pair
      <4> QED BY <1>1, <1>4, <1>same, <3>1, <3>2, <4>2, <4>3 DEF TrackedAt
    <3>3. CASE j \notin Listed(p)
      BY <1>4, <1>same, <3>1, <3>3 DEF TrackedAt
    <3> QED BY <3>2, <3>3
  <2> QED BY <2>2, <2>3
<1>6. Reported(q, y)
  <2>1. \A j \in Listed(p) : z[j] = Deleted => y[j] = Deleted
    BY SlotsDistinct DEF Rewritten, Listed
  <2>2. \A j \in q.dropped : p.listed[j].type = "CNAME" => Entry(p.listed[j]) \in q.cleared
    BY <1>1, <1>2 DEF Exact, Reported, Families, Types
  <2>3. \A e \in q.cleared \cup q.pruned :
          \E j \in Listed(p) : y[j] = Deleted /\ e = Entry(p.listed[j])
    BY <1>1, <1>2, <2>1 DEF Exact, Reported
  <2> QED BY <1>same, <2>2, <2>3 DEF Reported
<1>7. Published(s, q, y)
  <2>1. ASSUME NEW w \in Wanted(p.conf), Past(p, w), Placed(s, p, z, w)
        PROVE  Placed(s, p, y, w)
    <3>1. PICK j \in Ids : z[j] \in Record /\ Pair(z[j]) = w /\ z[j] = Wish(s, p, w)
      BY <1>2, <2>1, PlacedRecord DEF Coherent, PassState
    <3>2. w # now
      BY <1>3, <2>1
    <3>3. y[j] = z[j]
      BY <3>1, <3>2, SlotsDistinct DEF Rewritten, now
    <3> QED BY <2>1, <3>1, <3>3 DEF Placed, Fulfilled, Wish
  <2> QED BY <1>1, <1>2, <1>3, <1>4, <2>1, PublishedOn DEF Exact, now
<1> QED BY <1>1, <1>2, <1>5, <1>6, <1>7, <1>same DEF Exact, Tracked, Taken

\* What a family finds listed is what the zone has.
LEMMA FoundThere ==
  ASSUME NEW s \in Servers, NEW p, NEW z, Sound(s, p, z), p.pc \in Families, NEW i \in Existing(p)
  PROVE  /\ i \in Ids /\ p.listed[i] \in Record /\ z[i] = p.listed[i]
         /\ p.listed[i].name = p.cur /\ p.listed[i].type = p.pc
<1>1. /\ i \in Ids /\ i \in Listed(p) /\ i \notin p.dropped /\ p.listed[i] \in Record
      /\ p.listed[i].name = p.cur /\ p.listed[i].type = p.pc
  <2>1. /\ i \in Ids /\ i \in Listed(p) /\ p.listed[i] \in Record
        /\ p.listed[i].name = p.cur /\ p.listed[i].type = p.pc
    BY ExistingListed
  <2>2. i \notin p.dropped
    BY FoundKept DEF Sound
  <2> QED BY <2>1, <2>2
<1>2. TrackedAt(s, p, z, i) /\ ~Pruned(s, p, i)
  BY <1>1 DEF Sound, Exact, Working, Tracked, Pruned, Families, Types
<1>3. z[i] \in Record /\ Pair(z[i]) = <<p.cur, p.pc>>
  BY <1>1, <1>2 DEF TrackedAt, Same, Pair
<1>4. ~Past(p, <<p.cur, p.pc>>)
  BY DEF Past, Families, Types
<1> QED BY <1>1, <1>2, <1>3, <1>4 DEF TrackedAt, Dealt

\* The record reconcileFamily wants is the one the pass is checked against.
LEMMA DesiredWish == \A s, p : Desired(s, p, p.pc) = Wish(s, p, <<p.cur, p.pc>>)
BY DEF Desired, Wish, Declared

LEMMA DesiredPlaced ==
  ASSUME NEW s, NEW p, Available(p), NEW z, NEW i \in Ids, z[i] = Desired(s, p, p.pc)
  PROVE  Placed(s, p, z, <<p.cur, p.pc>>)
<1>1. Effective(p.conf.hosts[p.cur], p.det, p.pc) # None
  BY DEF Available, Declared
<1>2. z[i] = Wish(s, p, <<p.cur, p.pc>>)
  BY DesiredWish
<1> QED BY <1>1, <1>2 DEF Placed, Fulfilled, Wish

\* A record in sync with what is wanted is what is wanted, once it is ours.
LEMMA OverwrittenIs ==
  ASSUME NEW r \in Record, NEW want \in Record, r.name = want.name, r.type = want.type
  PROVE  /\ Overwritten(r, want) = want
         /\ InSync(r, want) /\ r.comment = want.comment => r = want
<1>1. /\ r = [name |-> r.name, type |-> r.type, content |-> r.content,
              proxied |-> r.proxied, comment |-> r.comment]
      /\ want = [name |-> want.name, type |-> want.type, content |-> want.content,
                 proxied |-> want.proxied, comment |-> want.comment]
  BY DEF Record
<1>2. Overwritten(r, want) =
        [name |-> r.name, type |-> r.type, content |-> want.content,
         proxied |-> want.proxied, comment |-> want.comment]
  BY <1>1 DEF Overwritten
<1>3. Overwritten(r, want) = want
  BY <1>1, <1>2
<1>4. InSync(r, want) /\ r.comment = want.comment => r = want
  BY <1>1 DEF InSync
<1> QED BY <1>3, <1>4

\* A zone that has not changed has no record rewritten.
LEMMA NotRewritten == \A z, w : Rewritten(z, z, w)
BY DEF Rewritten

\* The families that are left as they are.
LEMMA FamilyLocalExact ==
  ASSUME NEW s \in Servers, Sound(s, pass[s], zone), pass[s] \in PassState,
         SkipUnavailable(s) \/ KeepInSync(s) \/ LeaveUntagged(s)
  PROVE  \E q : Local(s, q) /\ Exact(s, q, zone)
<1> DEFINE p == pass[s]
           now == <<p.cur, p.pc>>
<1>1. p.pc \in Families
  BY DEF SkipUnavailable, KeepInSync, LeaveUntagged, InFamily
<1>2. /\ MovedOn(p, After(p)) /\ After(p).noted = p.noted
      /\ MovedOn(p, After(Note(p))) /\ After(Note(p)).noted = p.noted \cup {now}
  BY <1>1, AfterShape
<1>3. CASE SkipUnavailable(s) \/ LeaveUntagged(s)
  <2>1. Exact(s, After(Note(p)), zone)
    <3> HIDE DEF p, now
    <3> QED BY <1>2, MovedOnExact, NotRewritten DEF p, now
  <2> QED BY <1>3, <2>1 DEF SkipUnavailable, LeaveUntagged
<1>4. CASE KeepInSync(s)
  <2> DEFINE want == Desired(s, p, p.pc)
  <2>1. PICK i \in OwnedOnes(s, p) : Available(p) /\ InSync(p.listed[i], want)
    BY <1>4 DEF KeepInSync
  <2>2. i \in Existing(p) /\ p.listed[i].comment = Tag[s]
    BY <2>1 DEF OwnedOnes, Owned
  <2>3. want \in Record /\ want.name = p.cur /\ want.type = p.pc /\ want.comment = Tag[s]
    BY <1>1, <2>1, DesiredTyped DEF Sound, Desired
  <2>4. i \in Ids /\ zone[i] = want
    <3> HIDE DEF want
    <3> QED BY <1>1, <2>1, <2>2, <2>3, FoundThere, OverwrittenIs
  <2>5. Placed(s, p, zone, now)
    BY <2>1, <2>4, DesiredPlaced
  <2>6. Fulfilled(s, p, zone, now)
    BY <2>5 DEF Placed
  <2>7. Exact(s, After(p), zone)
    <3> HIDE DEF p, now
    <3> QED BY <1>2, <2>5, <2>6, MovedOnExact, NotRewritten DEF p, now
  <2> QED BY <1>4, <2>7 DEF KeepInSync
<1> QED BY <1>3, <1>4

\* A write is applied and confirmed, or the pass takes its other branch and the
\* zone is left as it is.
LEMMA WriteOutcome ==
  ASSUME NEW s \in Servers, NEW c, NEW good, NEW bad, Write(s, c, good, bad)
  PROVE  /\ intact' \subseteq intact
         /\ \/ Accepts(c) /\ zone' = Applied(c) /\ Goto(s, good)
            \/ zone' = zone /\ Goto(s, bad)
BY DEF Write

\* The families that are written.
LEMMA FamilyWriteExact ==
  ASSUME TypeInv, NEW s \in Servers, Sound(s, pass[s], zone),
         UpdateOwned(s) \/ ForceAdopt(s) \/ Create(s)
  PROVE  /\ intact' \subseteq intact
         /\ \E q : Goto(s, q) /\ Exact(s, q, zone')
<1> DEFINE p == pass[s]
           now == <<p.cur, p.pc>>
           want == Desired(s, p, p.pc)
<1>1. /\ p \in PassState /\ p.pc \in Families /\ Available(p) /\ want \in Record
      /\ \/ /\ Existing(p) = {}
            /\ Write(s, Creation(s, want), After(p), After(Note(p)))
         \/ \E i \in Existing(p) :
              Write(s, Change(s, i, Overwritten(p.listed[i], want)),
                    After(p), After(Note(p)))
  BY FamilyWriteShape
<1>2. /\ MovedOn(p, After(p)) /\ After(p).noted = p.noted
      /\ MovedOn(p, After(Note(p))) /\ After(Note(p)).noted = p.noted \cup {now}
  BY <1>1, AfterShape
<1>3. want.name = p.cur /\ want.type = p.pc /\ Pair(want) = now
  BY DEF Desired, Pair
<1>4. zone \in Zone
  BY DEF Sound
<1>bad. Exact(s, After(Note(p)), zone)
  <2> HIDE DEF p, now
  <2> QED BY <1>2, MovedOnExact, NotRewritten DEF p, now
<1>good. ASSUME NEW i \in Ids, zone[i] = Unborn \/ (zone[i] \in Record /\ Pair(zone[i]) = now),
                zone' = [zone EXCEPT ![i] = want]
         PROVE  Exact(s, After(p), zone')
  <2>1. zone'[i] = want /\ \A j \in Ids : j # i => zone'[j] = zone[j]
    BY <1>4, <1>good DEF Zone
  <2>2. Placed(s, p, zone', now)
    BY <1>1, <2>1, DesiredPlaced
  <2> HIDE DEF want
  <2>3. Rewritten(zone, zone', now)
    BY <1>1, <1>3, <1>good, <2>1 DEF Rewritten
  <2> HIDE DEF p, now
  <2> QED BY <1>2, <2>2, <2>3, MovedOnExact DEF p, now, Placed
<1>5. CASE Write(s, Creation(s, want), After(p), After(Note(p)))
  <2>1. \/ zone' = zone /\ Goto(s, After(Note(p)))
        \/ /\ Creatable(want) /\ Goto(s, After(p))
           /\ zone' = [zone EXCEPT ![NewId] = want]
    BY <1>5, WriteOutcome DEF Accepts, Creation, Applied
  <2> HIDE DEF want
  <2>2. Creatable(want) => NewId \in Ids /\ zone[NewId] = Unborn
    BY NewIdFree
  <2> QED BY <1>5, <1>bad, <1>good, <2>1, <2>2, WriteOutcome
<1>6. ASSUME NEW i \in Existing(p),
             Write(s, Change(s, i, Overwritten(p.listed[i], want)), After(p), After(Note(p)))
      PROVE  /\ intact' \subseteq intact
             /\ \E q : Goto(s, q) /\ Exact(s, q, zone')
  <2>1. /\ i \in Ids /\ p.listed[i] \in Record /\ zone[i] = p.listed[i]
        /\ p.listed[i].name = p.cur /\ p.listed[i].type = p.pc
    BY <1>1, FoundThere
  <2>2. Overwritten(p.listed[i], want) = want
    <3> HIDE DEF want
    <3> QED BY <1>1, <1>3, <2>1, OverwrittenIs
  <2> HIDE DEF want
  <2>3. Live(i) /\ Pair(zone[i]) = now
    BY <2>1 DEF Live, Pair
  <2>4. \/ zone' = zone /\ Goto(s, After(Note(p)))
        \/ Goto(s, After(p)) /\ zone' = [zone EXCEPT ![i] = want]
    BY <1>6, <2>2, <2>3, WriteOutcome DEF Change, Applied
  <2> QED BY <1>6, <1>bad, <1>good, <2>1, <2>3, <2>4, WriteOutcome
<1> HIDE DEF want
<1> QED BY <1>1, <1>5, <1>6

\* The listing that the last page completes is exact, and nothing is done yet.
LEMMA LastPageExact ==
  ASSUME NEW s \in Servers, NEW p, Coherent(s, p), Orderly(s, p), p.pc = "list",
         zone \in Zone, Legal(zone),
         ReadPage(p) = [i \in Ids |-> IF Live(i) THEN zone[i] ELSE Unborn]
  PROVE  Exact(s, LastPage(p), zone)
<1> DEFINE q == LastPage(p)
<1>1. /\ p \in PassState /\ p.dropped = {} /\ p.managed = {} /\ p.cleared = {} /\ p.pruned = {}
  BY DEF Coherent, Orderly, Untouched
<1>2. /\ q.pc = "hosts" /\ q.dropped = {} /\ q.cleared = {} /\ q.pruned = {}
      /\ q.conf = p.conf /\ q.todo = DOMAIN p.conf.hosts
      /\ q.listed = [i \in Ids |-> IF Live(i) THEN zone[i] ELSE Unborn]
  BY <1>1 DEF LastPage, PassState
<1> HIDE DEF q
<1>3. \A i \in Ids : /\ i \in Listed(q) <=> zone[i] \in Record
                     /\ zone[i] \in Record => q.listed[i] = zone[i]
  BY <1>2, SlotsDistinct DEF Listed, Live
<1>4. Legal(q.listed)
  BY <1>3 DEF Legal, Listed
<1>5. Tracked(s, q, zone)
  BY <1>2, <1>3 DEF Tracked, TrackedAt, Same
<1>6. Reported(q, zone) /\ Taken(s, q, zone)
  BY <1>2 DEF Reported, Taken
<1>7. Published(s, q, zone)
  <2>1. \A w \in Wanted(q.conf) : ~Past(q, w)
    BY <1>2 DEF Past, Wanted
  <2> QED BY <2>1 DEF Published
<1>8. Exact(s, q, zone)
  BY <1>4, <1>5, <1>6, <1>7 DEF Exact
<1> QED BY <1>8 DEF q

\* Before the zone is listed there is nothing to be exact about.
LEMMA IdleExact ==
  ASSUME NEW s, NEW q, q.pc \in {"idle", "lookup", "list"}, NEW z
  PROVE  Exact(s, q, z)
BY DEF Exact, Working, Families, Types

\* Every step of a server that has the zone to itself keeps its knowledge of it.
LEMMA ServerExact ==
  ASSUME PassInv, NEW s \in Servers, ServerStep(s), Reading(s),
         s \in intact => Exact(s, pass[s], zone)
  PROVE  \E q : Goto(s, q) /\ (s \in intact' => Exact(s, q, zone'))
<1> DEFINE p == pass[s]
<1>1. /\ p \in PassState /\ Coherent(s, p) /\ Orderly(s, p) /\ zone \in Zone /\ Legal(zone)
      /\ TypeInv
  BY DEF PassInv, TypeInv, TypeOK
<1>2. s \in intact => Sound(s, p, zone)
  BY <1>1 DEF PassInv, Remembered, Sound
<1>ended. \A st, rep, z : Exact(s, Return(p, st, rep), z) /\ Exact(s, Fresh, z)
  BY ReturnEnded, FreshEnded, IdleExact DEF Ended
<1>3. CASE Start(s)
  BY <1>3, StartShape, IdleExact
<1>4. CASE Lookup(s)
  <2> DEFINE q == [p EXCEPT !.pc = "list"]
  <2>1. q.pc = "list"
    BY <1>1 DEF PassState
  <2>2. Goto(s, q) \/ Goto(s, Return(p, "error", {}))
    BY <1>4 DEF Lookup
  <2> HIDE DEF q
  <2> QED BY <1>ended, <2>1, <2>2, IdleExact
<1>5. CASE List(s)
  <2>1. /\ UNCHANGED zone
        /\ \/ Goto(s, NextPage(p))
           \/ Goto(s, LastPage(p)) /\ ~MorePages(p.page)
           \/ Goto(s, Return(p, "error", {}))
        /\ s \in intact' => s \in intact \/ p.page = 1
    BY <1>1, <1>5, ListOutcome
  <2>2. p.pc = "list" /\ p.page \in Nat \ {0}
    BY <1>1, <1>5 DEF List, PassState, Orderly, Untouched
  <2>3. NextPage(p).pc = "list"
    BY <1>1, <2>2 DEF NextPage, PassState
  <2>4. ASSUME s \in intact', ~MorePages(p.page)
        PROVE  Exact(s, LastPage(p), zone)
    <3>1. ReadPage(p) = Seen(p.page)
      BY <1>1, <2>1, <2>2, <2>4, ReadOn
    <3>2. Seen(p.page) = [i \in Ids |-> IF Live(i) THEN zone[i] ELSE Unborn]
      BY <2>2, <2>4, SeenAll
    <3> QED BY <1>1, <2>2, <3>1, <3>2, LastPageExact
  <2> QED BY <1>ended, <2>1, <2>3, <2>4, IdleExact
<1>6. CASE NextHost(s)
  <2>1. PICK q : \E n \in Names : Local(s, q) /\ Entered(s, p, q, n)
    BY <1>1, <1>6, NextHostShape
  <2> QED BY <1>2, <2>1, EnteredExact DEF Local
<1>7. CASE ClearDelete(s)
  <2>0. PICK i \in Ids : \E good, bad :
           /\ Write(s, Deletion(s, i, p.listed[i]), good, bad)
           /\ ClearedOne(p, good, i, TRUE) /\ ClearedOne(p, bad, i, FALSE)
    BY <1>1, <1>7, ClearDeleteShape
  <2>1. PICK good, bad :
           /\ Write(s, Deletion(s, i, p.listed[i]), good, bad)
           /\ ClearedOne(p, good, i, TRUE) /\ ClearedOne(p, bad, i, FALSE)
    BY <2>0
  <2>2. i \in p.queue /\ p.pc = "clear"
    BY <2>1 DEF ClearedOne
  <2>3. intact' \subseteq intact
    BY <2>1, WriteOutcome
  <2>4. CASE s \in intact
    <3>1. Live(i)
      BY <1>2, <2>2, <2>4, QueuedThere DEF Live
    <3>2. \/ zone' = [zone EXCEPT ![i] = Deleted] /\ Goto(s, good)
          \/ zone' = zone /\ Goto(s, bad)
      BY <2>1, <3>1, WriteOutcome DEF Deletion, Applied
    <3>3. Exact(s, good, [zone EXCEPT ![i] = Deleted])
      BY <1>2, <2>1, <2>4, ClearedOneExact
    <3>4. Exact(s, bad, zone)
      BY <1>2, <2>1, <2>4, ClearedOneExact
    <3> QED BY <3>2, <3>3, <3>4
  <2> QED BY <2>1, <2>3, <2>4, WriteOutcome
<1>8. CASE ClearBlocked(s)
  <2>1. PICK q : Local(s, q) /\ GaveUp(p, q)
    BY <1>1, <1>8, ClearBlockedShape
  <2> QED BY <1>2, <2>1, GaveUpExact DEF Local
<1>9. CASE ClearDone(s)
  <2>1. PICK q : Local(s, q) /\ Cleared(p, q)
    BY <1>1, <1>9, ClearDoneShape
  <2> QED BY <1>2, <2>1, ClearedExact DEF Local
<1>10. CASE SkipUnavailable(s) \/ KeepInSync(s) \/ LeaveUntagged(s)
  <2>1. \E q : Local(s, q)
    BY <1>10 DEF SkipUnavailable, KeepInSync, LeaveUntagged
  <2> QED BY <1>1, <1>2, <1>10, <2>1, FamilyLocalExact DEF Local
<1>11. CASE UpdateOwned(s) \/ ForceAdopt(s) \/ Create(s)
  <2>1. intact' \subseteq intact /\ \E q : Goto(s, q)
    BY <1>1, <1>11, FamilyWriteShape, WriteOutcome
  <2> QED BY <1>1, <1>2, <1>11, <2>1, FamilyWriteExact
<1>12. CASE FinishWithoutPrune(s) \/ FinishPrune(s)
  BY <1>12, <1>ended DEF FinishWithoutPrune, FinishPrune, Local
<1>13. CASE StartPrune(s)
  <2>1. PICK q : Local(s, q) /\ PruneStarted(s, p, q)
    BY <1>1, <1>13, StartPruneShape
  <2> QED BY <1>2, <2>1, PruneStartedExact DEF Local
<1>14. CASE PruneDelete(s)
  <2> DEFINE bad == Return(p, "error", p.pruned \cup p.cleared)
  <2>0. PICK i \in Ids : \E good :
           Write(s, Deletion(s, i, p.listed[i]), good, bad) /\ PrunedOne(p, good, i)
    BY <1>1, <1>14, PruneDeleteShape
  <2>1. PICK good :
           Write(s, Deletion(s, i, p.listed[i]), good, bad) /\ PrunedOne(p, good, i)
    BY <2>0
  <2>2. i \in p.queue /\ p.pc = "prune"
    BY <2>1 DEF PrunedOne
  <2>3. intact' \subseteq intact
    BY <2>1, WriteOutcome
  <2>4. CASE s \in intact
    <3>1. Live(i)
      BY <1>2, <2>2, <2>4, QueuedThere DEF Live
    <3>2. \/ zone' = [zone EXCEPT ![i] = Deleted] /\ Goto(s, good)
          \/ zone' = zone /\ Goto(s, bad)
      BY <2>1, <3>1, WriteOutcome DEF Deletion, Applied
    <3>3. Exact(s, good, [zone EXCEPT ![i] = Deleted])
      BY <1>2, <2>1, <2>4, PrunedOneExact
    <3> QED BY <1>ended, <3>2, <3>3
  <2> QED BY <2>1, <2>3, <2>4, WriteOutcome
<1>15. CASE Crash(s)
  BY <1>15, <1>ended DEF Crash
<1> QED BY <1>3, <1>4, <1>5, <1>6, <1>7, <1>8, <1>9, <1>10, <1>11, <1>12, <1>13, <1>14, <1>15
        DEF ServerStep, Advance

\* Only the lookup of the zone and the calls for its pages lead to another page.
LEMMA OnlyListingLists ==
  ASSUME TypeInv, NEW s \in Servers, ServerStep(s)
  PROVE  Lookup(s) \/ List(s) \/ \E q : Goto(s, q) /\ q.pc # "list"
<1> DEFINE p == pass[s]
<1>1. p \in PassState
  BY DEF TypeInv, TypeOK
<1>ended. \A st, rep : Return(p, st, rep).pc # "list" /\ Fresh.pc # "list"
  BY ReturnEnded, FreshEnded DEF Ended
<1>after. p.pc \in Families => After(p).pc # "list" /\ After(Note(p)).pc # "list"
  BY <1>1, AfterShape DEF MovedOn
<1>3. CASE Start(s)
  BY <1>3, StartShape
<1>6. CASE NextHost(s)
  BY <1>6, NextHostShape DEF Local, Entered
<1>7. CASE ClearDelete(s)
  <2>0. PICK i \in Ids : \E good, bad :
           /\ Write(s, Deletion(s, i, p.listed[i]), good, bad)
           /\ good.pc # "list" /\ bad.pc # "list"
    BY <1>7, ClearDeleteShape DEF ClearedOne
  <2>1. PICK good, bad :
           /\ Write(s, Deletion(s, i, p.listed[i]), good, bad)
           /\ good.pc # "list" /\ bad.pc # "list"
    BY <2>0
  <2> QED BY <2>1, WriteGoes
<1>8. CASE ClearBlocked(s)
  BY <1>8, ClearBlockedShape DEF Local, GaveUp
<1>9. CASE ClearDone(s)
  BY <1>9, ClearDoneShape DEF Local, Cleared
<1>10. CASE SkipUnavailable(s) \/ KeepInSync(s) \/ LeaveUntagged(s)
  BY <1>10, <1>after DEF SkipUnavailable, KeepInSync, LeaveUntagged, InFamily, Local
<1>11. CASE UpdateOwned(s) \/ ForceAdopt(s) \/ Create(s)
  <2>1. p.pc \in Families /\ \E c : Write(s, c, After(p), After(Note(p)))
    BY <1>11, FamilyWriteShape
  <2> QED BY <1>after, <2>1, WriteGoes
<1>12. CASE FinishWithoutPrune(s) \/ FinishPrune(s)
  BY <1>12, <1>ended DEF FinishWithoutPrune, FinishPrune, Local
<1>13. CASE StartPrune(s)
  BY <1>13, StartPruneShape DEF Local, PruneStarted
<1>14. CASE PruneDelete(s)
  <2>0. PICK i \in Ids : \E good :
           /\ Write(s, Deletion(s, i, p.listed[i]), good,
                    Return(p, "error", p.pruned \cup p.cleared))
           /\ good.pc # "list"
    BY <1>14, PruneDeleteShape DEF PrunedOne
  <2>1. PICK good :
           /\ Write(s, Deletion(s, i, p.listed[i]), good,
                    Return(p, "error", p.pruned \cup p.cleared))
           /\ good.pc # "list"
    BY <2>0
  <2> QED BY <1>ended, <2>1, WriteGoes
<1>15. CASE Crash(s)
  BY <1>15, <1>ended DEF Crash
<1> QED BY <1>3, <1>6, <1>7, <1>8, <1>9, <1>10, <1>11, <1>12, <1>13, <1>14, <1>15
        DEF ServerStep, Advance

\* The steps of a server that changes the zone are nobody else's any more.
LEMMA OthersIntact ==
  ASSUME TypeInv, NEW s \in Servers, ServerStep(s)
  PROVE  \A t \in Servers : t # s /\ t \in intact' => t \in intact /\ zone' = zone
<1>1. CASE List(s)
  BY <1>1, ListOutcome DEF TypeInv, TypeOK
<1>2. CASE UNCHANGED <<zone, intact>>
  BY <1>2
<1>3. CASE \E c, good, bad : Write(s, c, good, bad)
  BY <1>3 DEF Write
<1> QED BY <1>1, <1>2, <1>3
        DEF ServerStep, Advance, Start, Lookup, NextHost, ClearDelete, ClearBlocked, ClearDone,
            SkipUnavailable, KeepInSync, UpdateOwned, LeaveUntagged, ForceAdopt, Create,
            FinishWithoutPrune, StartPrune, PruneDelete, FinishPrune, Crash, Local

----------------------------------------------------------------------------
(* The invariant of a zone and the passes over it.                         *)

\* The inductive invariant: the order of every pass, and what the passes that
\* have the zone to themselves know of it, during the listing and after.
ZoneInv ==
  /\ PassInv
  /\ \A s \in Servers : Reading(s)
  /\ \A s \in intact : Exact(s, pass[s], zone)

\* No pass has begun, and nobody has the zone to itself yet.
LEMMA InitZone ==
  ASSUME Init
  PROVE  ZoneInv
<1>1. \A s \in Servers : pass[s] = Fresh
  BY DEF Init
<1>2. \A s \in Servers : Reading(s)
  BY <1>1 DEF Reading, Fresh
<1> QED BY <1>2, InitPass DEF Init, ZoneInv

\* A pass that has the zone to itself goes on reading the zone as it is.
LEMMA NextReading ==
  ASSUME ZoneInv, [Next]_vars, NEW t \in Servers
  PROVE  Reading(t)'
<1>1. TypeInv /\ PassInv /\ Reading(t) /\ Orderly(t, pass[t]) /\ pass[t] \in PassState
  BY DEF ZoneInv, PassInv, TypeInv, TypeOK
<1>2. ASSUME t \in intact' => t \in intact /\ zone' = zone, pass'[t] = pass[t]
      PROVE  Reading(t)'
  <2> SUFFICES ASSUME pass[t].pc = "list", pass[t].page # 1, t \in intact, zone' = zone
               PROVE  pass[t].listed = Seen(pass[t].page - 1)'
    BY <1>2 DEF Reading
  <2>1. \A i \in Ids : Live(i)' = Live(i) /\ Rank(i)' = Rank(i)
    BY DEF Live, Rank, Before
  <2> QED BY <1>1, <1>2, <2>1 DEF Reading, Seen
<1>3. ASSUME NEW s \in Servers, ServerStep(s), s # t
      PROVE  Reading(t)'
  <2>1. t \in intact' => t \in intact /\ zone' = zone
    BY <1>1, <1>3, OthersIntact
  <2>2. \E q : Goto(s, q)
    BY <1>3, ServerCalls DEF ZoneInv, PassInv
  <2>3. pass'[t] = pass[t]
    BY <1>1, <1>3, <2>2 DEF Goto, TypeInv, TypeOK
  <2> QED BY <1>2, <2>1, <2>3
<1>goes. \A q : Goto(t, q) => pass'[t] = q
  BY <1>1 DEF Goto, TypeInv, TypeOK
<1>4. ASSUME NEW q, Goto(t, q), q.pc # "list" \/ q.page = 1
      PROVE  Reading(t)'
  BY <1>4, <1>goes DEF Reading
<1>5. CASE Lookup(t)
  <2> DEFINE q == [pass[t] EXCEPT !.pc = "list"]
  <2>1. pass[t].page = 1
    BY <1>1, <1>5 DEF Lookup, Orderly, Untouched
  <2>2. q.page = 1
    BY <1>1, <2>1 DEF PassState
  <2>3. \A st, rep : Return(pass[t], st, rep).pc # "list"
    BY ReturnEnded DEF Ended
  <2>4. Goto(t, q) \/ Goto(t, Return(pass[t], "error", {}))
    BY <1>5 DEF Lookup
  <2> HIDE DEF q
  <2> QED BY <1>4, <2>2, <2>3, <2>4
<1>6. CASE List(t)
  <2> DEFINE p == pass[t]
             q == NextPage(p)
  <2>1. /\ UNCHANGED zone
        /\ Goto(t, q) \/ Goto(t, LastPage(p)) \/ Goto(t, Return(p, "error", {}))
        /\ t \in intact' => t \in intact \/ p.page = 1
    BY <1>1, <1>6, ListOutcome
  <2>2. p.pc = "list" /\ p.page \in Nat
    BY <1>1, <1>6 DEF List, PassState
  <2>3. q.page = p.page + 1 /\ q.listed = ReadPage(p)
    BY <1>1 DEF NextPage, PassState
  <2>4. LastPage(p).pc # "list" /\ \A st, rep : Return(p, st, rep).pc # "list"
    BY <1>1, ReturnEnded DEF Ended, LastPage, PassState
  <2>5. CASE Goto(t, q)
    <3> SUFFICES ASSUME t \in intact'
                 PROVE  q.listed = Seen(pass[t].page - 1)'
      BY <1>goes, <2>5 DEF Reading
    <3>1. q.listed = Seen(p.page)
      BY <1>1, <2>1, <2>2, <2>3, ReadOn
    <3>2. \A i \in Ids : Live(i)' = Live(i) /\ Rank(i)' = Rank(i)
      BY <2>1 DEF Live, Rank, Before
    <3>3. pass'[t].page - 1 = p.page
      BY <1>goes, <2>2, <2>3, <2>5
    <3> HIDE DEF q, p
    <3> QED BY <2>1, <3>1, <3>2, <3>3 DEF Seen
  <2> QED BY <1>4, <2>1, <2>4, <2>5
<1>7. ASSUME ServerStep(t), ~Lookup(t), ~List(t)
      PROVE  Reading(t)'
  BY <1>1, <1>4, <1>7, OnlyListingLists
<1>8. CASE Dashboard \/ UNCHANGED vars \/ \E c \in late : Deliver(c)
  BY <1>2, <1>8 DEF Dashboard, Deliver, vars
<1> QED BY <1>3, <1>5, <1>6, <1>7, <1>8 DEF Next

\* What a pass that has the zone to itself knows of it stays true.
LEMMA NextExact ==
  ASSUME ZoneInv, [Next]_vars, NEW t \in Servers, t \in intact'
  PROVE  Exact(t, pass'[t], zone')
<1>1. TypeInv /\ PassInv /\ Reading(t) /\ (t \in intact => Exact(t, pass[t], zone))
  BY DEF ZoneInv, PassInv
<1>2. ASSUME t \in intact /\ zone' = zone, pass'[t] = pass[t]
      PROVE  Exact(t, pass'[t], zone')
  BY <1>1, <1>2
<1>3. ASSUME NEW s \in Servers, ServerStep(s), s # t
      PROVE  Exact(t, pass'[t], zone')
  <2>1. t \in intact /\ zone' = zone
    BY <1>1, <1>3, OthersIntact
  <2>2. \E q : Goto(s, q)
    BY <1>3, ServerCalls DEF ZoneInv, PassInv
  <2>3. pass'[t] = pass[t]
    BY <1>1, <1>3, <2>2 DEF Goto, TypeInv, TypeOK
  <2> QED BY <1>2, <2>1, <2>3
<1>4. CASE ServerStep(t)
  <2>1. PICK q : Goto(t, q) /\ Exact(t, q, zone')
    BY <1>1, <1>4, ServerExact
  <2> QED BY <1>1, <2>1 DEF Goto, TypeInv, TypeOK
<1>5. CASE Dashboard \/ UNCHANGED vars \/ \E c \in late : Deliver(c)
  BY <1>2, <1>5 DEF Dashboard, Deliver, vars
<1> QED BY <1>3, <1>4, <1>5 DEF Next

\* The invariant outlasts every step, so it is inductive.
LEMMA NextZone ==
  ASSUME ZoneInv, [Next]_vars
  PROVE  ZoneInv'
<1>1. PassInv' /\ \A t \in Servers : Reading(t)'
  BY NextPass, NextReading DEF ZoneInv
<1>2. \A t \in intact' : t \in Servers
  BY NextTyped DEF ZoneInv, PassInv, TypeInv, TypeOK
<1>3. \A t \in intact' : Exact(t, pass'[t], zone')
  BY <1>2, NextExact
<1>4. (\A t \in intact : Exact(t, pass[t], zone))'
  BY <1>3 DEF Exact, Working, Families, Types, Legal, Tracked, TrackedAt, Listed, Same, Dealt,
              Pruned, Orphans, Kept, Owned, Past, Reported, Taken, Published, Placed, Fulfilled,
              Wanted, Effective, Proxied, Entry, TunnelOf, Pair
<1>5. (\A t \in Servers : Reading(t))'
  BY <1>1
<1> QED BY <1>1, <1>4, <1>5 DEF ZoneInv

\* Cloudflare never refuses a creation of a pass that has the zone to itself.
LEMMA LegalCreation ==
  ASSUME NEW s \in Servers, NEW p, Sound(s, p, zone), p.pc \in Families, Existing(p) = {},
         NEW i \in At(p.cur)
  PROVE  zone[i].type # p.pc /\ Coexists(zone[i].type, p.pc)
<1>1. /\ Coherent(s, p) /\ Orderly(s, p) /\ p.conf \in Config /\ p.det \in Detection
      /\ p.cur \in DOMAIN p.conf.hosts /\ <<p.cur, p.pc>> \in Wanted(p.conf)
  BY DEF Sound, Coherent, PassState, Orderly, Marking, Families, Types
<1>2. i \in Ids /\ zone[i] \in Record /\ zone[i].name = p.cur /\ zone[i].type \in Types
  BY DEF At, Live, Record
<1>3. TrackedAt(s, p, zone, i)
  BY <1>2 DEF Sound, Exact, Working, Tracked
<1>4. p.conf.hosts[p.cur].tunnel # None <=> p.pc = "CNAME"
  <2>1. \A w \in Wanted(p.conf) : p.conf.hosts[w[1]].tunnel # None <=> w[2] = "CNAME"
    BY DEF Wanted
  <2> QED BY <1>1, <2>1
<1>5. CASE i \in Listed(p)
  <2>1. i \notin p.dropped /\ p.listed[i].name = p.cur /\ p.listed[i].type = zone[i].type
    BY <1>2, <1>3, <1>5 DEF TrackedAt, Same
  <2>2. i \in Kept(p)
    BY <1>5, <2>1 DEF Kept, Listed
  <2>3. zone[i].type # p.pc
    BY <1>5, <2>1, <2>2 DEF Existing, InByName, InKept
  <2>4. zone[i].type \notin Blocking(p.conf.hosts[p.cur])
    BY <1>1, <1>5, <2>1 DEF Orderly, Dropping, InTheWay
  <2> QED BY <1>2, <1>4, <2>3, <2>4 DEF Blocking, Coexists, Types
<1>6. CASE i \notin Listed(p)
  <2>1. Dealt(p, Pair(zone[i])) /\ Pair(zone[i]) = <<p.cur, zone[i].type>>
    BY <1>2, <1>3, <1>6 DEF TrackedAt, Pair
  <2>2. p.pc = "AAAA" /\ zone[i].type = "A"
    BY <2>1 DEF Dealt, Past, Families, Types
  <2> QED BY <2>2 DEF Coexists
<1> QED BY <1>5, <1>6

\* The creation call of reconcileFamily is one Cloudflare takes, on a zone that
\* nobody else changed since it was listed: what was in the way of the name is
\* gone and no record of the family is there, on any page of the listing.
THEOREM CreationTheorem == Spec => []CreationIsLegal
<1>1. ZoneInv => CreationIsLegal
  <2> SUFFICES ASSUME ZoneInv, NEW s \in Servers, s \in intact, InFamily(s),
                      Existing(pass[s]) = {}, NEW i \in At(pass[s].cur)
               PROVE  zone[i].type # pass[s].pc /\ Coexists(zone[i].type, pass[s].pc)
    BY DEF CreationIsLegal
  <2>1. Sound(s, pass[s], zone)
    BY DEF ZoneInv, PassInv, TypeInv, TypeOK, Remembered, Sound
  <2> QED BY <2>1, LegalCreation DEF InFamily
<1> QED BY <1>1, InitZone, NextZone, PTL DEF Spec

\* What reconcileFamily works from, byName among it, is still what the zone
\* holds when nobody else changed the zone: the clearing deletes only what no
\* family of the host looks for.
THEOREM FoundTheorem == Spec => []FoundAsListed
<1>1. ZoneInv => FoundAsListed
  <2> SUFFICES ASSUME ZoneInv, NEW s \in Servers, s \in intact, InFamily(s),
                      NEW i \in Existing(pass[s])
               PROVE  zone[i] = pass[s].listed[i]
    BY DEF FoundAsListed
  <2>1. Sound(s, pass[s], zone)
    BY DEF ZoneInv, PassInv, TypeInv, TypeOK, Remembered, Sound
  <2> QED BY <2>1, FoundThere DEF InFamily
<1> QED BY <1>1, InitZone, NextZone, PTL DEF Spec

\* How a pass ends: the zone is left as it is, and every host has had its turn.
LEMMA EndOfPass ==
  ASSUME ZoneInv, [Next]_vars, NEW s \in Servers, Finishing(s), s \in intact
  PROVE  LET p == pass[s]
         IN  /\ Sound(s, p, zone) /\ p.pc \in {"hosts", "prune"} /\ zone' = zone
             /\ p.todo = {} /\ pass'[s].noted = p.noted
             /\ p.conf.prune => p.pc = "prune" /\ pass'[s].report = p.pruned \cup p.cleared
             /\ p.conf.prune /\ pass'[s].status = "ok" => p.queue = {}
<1> DEFINE p == pass[s]
<1>1. /\ Sound(s, p, zone) /\ p \in PassState /\ Orderly(s, p) /\ TypeInv
      /\ p.pc \in {"hosts", "prune"} /\ pass'[s].pc = "idle" /\ pass'[s].status # "none"
  BY DEF ZoneInv, PassInv, TypeInv, TypeOK, Remembered, Sound, Finishing
<1>2. ServerStep(s)
  <2>1. ActsNow(s)
    BY <1>1 DEF ActsNow
  <2> QED BY <2>1, OwnStep DEF ZoneInv
<1>goes. \A q : Goto(s, q) => pass'[s] = q
  BY <1>1 DEF Goto, TypeInv, TypeOK
<1>ret. \A st, rep : /\ Return(p, st, rep).noted = p.noted /\ Return(p, st, rep).status = st
                     /\ Return(p, st, rep).report = rep
  BY DEF Return, Fresh
<1>3. CASE FinishWithoutPrune(s)
  BY <1>1, <1>3, <1>goes, <1>ret DEF FinishWithoutPrune, Local
<1>4. CASE FinishPrune(s)
  <2>1. p.todo = {} /\ p.queue = {} /\ zone' = zone
    BY <1>1, <1>4 DEF FinishPrune, Local, Orderly, Pruning
  <2> QED BY <1>1, <1>4, <1>goes, <1>ret, <2>1 DEF FinishPrune, Local
<1>5. CASE PruneDelete(s)
  <2> DEFINE bad == Return(p, "error", p.pruned \cup p.cleared)
  <2>0. PICK i \in Ids : \E good :
           Write(s, Deletion(s, i, p.listed[i]), good, bad) /\ PrunedOne(p, good, i)
    BY <1>1, <1>5, PruneDeleteShape
  <2>1. PICK good :
           Write(s, Deletion(s, i, p.listed[i]), good, bad) /\ PrunedOne(p, good, i)
    BY <2>0
  <2>2. p.pc = "prune" /\ good.pc = "prune"
    BY <2>1 DEF PrunedOne
  <2>3. zone' = zone /\ Goto(s, bad)
    BY <1>1, <1>goes, <2>1, <2>2, WriteOutcome
  <2>4. p.todo = {}
    BY <1>1, <2>2 DEF Orderly, Pruning
  <2> QED BY <1>1, <1>goes, <1>ret, <2>2, <2>3, <2>4
<1>6. CASE Crash(s)
  <2>1. pass'[s].status = "none"
    BY <1>6, <1>goes DEF Crash, Fresh
  <2> QED BY <1>1, <2>1
<1>7. ASSUME NEW q, Goto(s, q), q.pc # "idle"
      PROVE  FALSE
  BY <1>1, <1>7, <1>goes
<1>8. CASE NextHost(s)
  BY <1>1, <1>7, <1>8, NextHostShape DEF Local, Entered
<1>9. CASE StartPrune(s)
  BY <1>1, <1>7, <1>9, StartPruneShape DEF Local, PruneStarted
<1> QED BY <1>1, <1>2, <1>3, <1>4, <1>5, <1>6, <1>8, <1>9
        DEF ServerStep, Advance, Start, Lookup, List, ClearDelete, ClearBlocked, ClearDone,
            SkipUnavailable, KeepInSync, UpdateOwned, LeaveUntagged, ForceAdopt, Create,
            InFamily, Families, Types

\* No silent failure (reconcileZone, reconcileFamily): when a pass returns on
\* a zone nobody else changed, each record its configuration asks for is in
\* the zone as declared or the log has told of it, whatever the zone held
\* before, whatever failed, and however many pages the listing took.
THEOREM PublishedTheorem == Spec => FulfilledOrNoted
<1>1. ASSUME ZoneInv, [Next]_vars, NEW s \in Servers, Finishing(s), s \in intact,
             NEW w \in Wanted(pass[s].conf) \ pass'[s].noted
      PROVE  Fulfilled(s, pass[s], zone', w)
  <2> DEFINE p == pass[s]
  <2>1. /\ Sound(s, p, zone) /\ p.pc \in {"hosts", "prune"} /\ zone' = zone
        /\ p.todo = {} /\ pass'[s].noted = p.noted
    BY <1>1, EndOfPass
  <2>2. Published(s, p, zone)
    BY <2>1 DEF Sound, Exact, Working
  <2>3. Past(p, w)
    BY <2>1 DEF Past
  <2>4. Placed(s, p, zone, w)
    BY <1>1, <2>1, <2>2, <2>3 DEF Published
  <2> QED BY <2>1, <2>4 DEF Placed
<1>2. ZoneInv /\ [Next]_vars =>
        [\A s \in Servers : Finishing(s) /\ s \in intact =>
           \A w \in Wanted(pass[s].conf) \ pass'[s].noted :
             Fulfilled(s, pass[s], zone', w)]_vars
  BY <1>1
<1> QED BY <1>2, InitZone, NextZone, PTL DEF Spec, FulfilledOrNoted

\* After a prune that reports success (pruneZone), on a zone nobody else
\* changed since it was listed, every record with this server's tag is one the
\* configuration asks for: none is overlooked, not even one that a family of
\* the same pass has made or that a page boundary has moved.
THEOREM OrphanTheorem == Spec => NoOrphanAfterPrune
<1>1. ASSUME ZoneInv, [Next]_vars, NEW s \in Servers, Finishing(s), s \in intact,
             pass[s].conf.prune, pass'[s].status = "ok", NEW i \in Ids,
             zone'[i] \in Record, zone'[i].comment = Tag[s]
      PROVE  <<zone'[i].name, zone'[i].type>> \in Wanted(pass[s].conf)
  <2> DEFINE p == pass[s]
             r == zone[i]
  <2>1. /\ Sound(s, p, zone) /\ zone' = zone /\ p.pc = "prune" /\ p.queue = {}
    BY <1>1, EndOfPass
  <2>2. TrackedAt(s, p, zone, i) /\ Taken(s, p, zone) /\ Marking(p)
    BY <2>1 DEF Sound, Exact, Working, Tracked, Orderly
  <2>3. \A w \in p.managed : w \in Wanted(p.conf)
    BY <2>1, <2>2 DEF Marking
  <2>4. CASE Dealt(p, Pair(r))
    BY <2>1, <2>3, <2>4 DEF Dealt, Pair
  <2>5. CASE ~Dealt(p, Pair(r))
    <3>1. i \in Listed(p) /\ i \notin p.dropped /\ r = p.listed[i]
      BY <1>1, <2>1, <2>2, <2>5 DEF TrackedAt
    <3>2. i \in Kept(p) /\ Owned(s, p.listed[i])
      BY <1>1, <2>1, <3>1 DEF Kept, Listed, Owned
    <3>3. i \notin Orphans(s, p)
      BY <1>1, <2>1, <2>2 DEF Taken
    <3>4. <<r.name, r.type>> \in p.managed
      BY <3>1, <3>2, <3>3 DEF Orphans
    <3> QED BY <2>1, <2>3, <3>4
  <2> QED BY <2>4, <2>5
<1>2. ZoneInv /\ [Next]_vars =>
        [\A s \in Servers :
           Finishing(s) /\ s \in intact /\ pass[s].conf.prune /\ pass'[s].status = "ok"
             => \A i \in Ids : zone'[i] \in Record /\ zone'[i].comment = Tag[s]
                  => <<zone'[i].name, zone'[i].type>> \in Wanted(pass[s].conf)]_vars
  BY <1>1
<1> QED BY <1>2, InitZone, NextZone, PTL DEF Spec, NoOrphanAfterPrune

\* What a pruning pass returns to its caller (prunedHosts, from pruneZone and
\* from the CNAMEs clearConflictingRecords removed) is exactly the CNAMEs it
\* listed that are gone, each with the tunnel it pointed at: the tunnel pass
\* deletes the routes of those hosts and of no other.
THEOREM ReportTheorem == Spec => ReportExact
<1>1. ASSUME ZoneInv, [Next]_vars, NEW s \in Servers, Finishing(s), s \in intact,
             pass[s].conf.prune
      PROVE  {e \in pass'[s].report : e[2] # None} =
               {<<pass[s].listed[i].name, TunnelOf(pass[s].listed[i])>> :
                  i \in {j \in Ids : /\ pass[s].listed[j] \in Record
                                     /\ TunnelOf(pass[s].listed[j]) # None
                                     /\ zone'[j] = Deleted}}
  <2> DEFINE p == pass[s]
  <2>1. /\ Sound(s, p, zone) /\ zone' = zone /\ p.pc = "prune"
        /\ pass'[s].report = p.pruned \cup p.cleared
    BY <1>1, EndOfPass
  <2>2. Tracked(s, p, zone) /\ Reported(p, zone)
    BY <2>1 DEF Sound, Exact, Working
  <2>3. ASSUME NEW e \in pass'[s].report, e[2] # None
        PROVE  \E i \in Ids : /\ p.listed[i] \in Record /\ TunnelOf(p.listed[i]) # None
                              /\ zone'[i] = Deleted
                              /\ e = <<p.listed[i].name, TunnelOf(p.listed[i])>>
    <3>1. PICK i \in Listed(p) : zone[i] = Deleted /\ e = Entry(p.listed[i])
      BY <2>1, <2>2, <2>3 DEF Reported
    <3> QED BY <2>1, <2>3, <3>1 DEF Listed, Entry
  <2>4. ASSUME NEW i \in Ids, p.listed[i] \in Record, TunnelOf(p.listed[i]) # None,
               zone'[i] = Deleted
        PROVE  Entry(p.listed[i]) \in pass'[s].report
    <3>1. i \in Listed(p) /\ zone[i] \notin Record
      BY <2>1, <2>4, SlotsDistinct DEF Listed
    <3>2. TrackedAt(s, p, zone, i)
      BY <2>2 DEF Tracked
    <3>3. i \in p.dropped \/ Pruned(s, p, i)
      BY <3>1, <3>2 DEF TrackedAt
    <3>4. p.listed[i].type = "CNAME"
      BY <2>4 DEF TunnelOf
    <3>5. CASE i \in p.dropped
      BY <2>1, <2>2, <3>4, <3>5 DEF Reported
    <3>6. CASE Pruned(s, p, i)
      BY <2>1, <3>6 DEF Pruned
    <3> QED BY <3>3, <3>5, <3>6
  <2> QED BY <2>3, <2>4 DEF Entry
<1>2. ZoneInv /\ [Next]_vars =>
        [\A s \in Servers :
           Finishing(s) /\ s \in intact /\ pass[s].conf.prune =>
             {e \in pass'[s].report : e[2] # None} =
               {<<pass[s].listed[i].name, TunnelOf(pass[s].listed[i])>> :
                  i \in {j \in Ids : /\ pass[s].listed[j] \in Record
                                     /\ TunnelOf(pass[s].listed[j]) # None
                                     /\ zone'[j] = Deleted}}]_vars
  BY <1>1
<1> QED BY <1>2, InitZone, NextZone, PTL DEF Spec, ReportExact

=============================================================================
