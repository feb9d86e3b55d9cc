------------------------ MODULE ZoneOwnershipProofs ------------------------
(***************************************************************************)
(* Ownership, proved for any servers, configurations, faults and edits, as *)
(* long as no server is told to adopt a name another one looks after: a    *)
(* server's calls only touch records it is entitled to, and the passes     *)
(* together implement OwnershipProtocol.                                   *)
(*                                                                         *)
(* The argument.  A pass works from a listing that may be stale, and its   *)
(* calls may land late, so neither knows what the zone holds by then.  But *)
(* entitlement, once listed, cannot be lost to another server: a record    *)
(* with our tag is nobody else's to change, and an untagged one at a name  *)
(* we adopt is at a name nobody else may adopt.  So what every pass queues *)
(* and every late call targets is Held: gone, or still ours to change.     *)
(***************************************************************************)
EXTENDS ZoneReconcileProofs

\* A listed record that server s is going to act on if it has to.
Claim(s, r) == r.comment = Tag[s] \/ r.name \in Adopts(s)

\* In zone z, the record i has been born, and is gone or s's to change.
Held(z, s, i) == z[i] # Unborn /\ (z[i] \in Record => Entitled(s, z[i]))

\* A call that may land in zone z: it leaves its server's tag, on a new record
\* of that server's scope or on a record that is its server's to change.
Legit(z, c) ==
  /\ c.op # "delete" => c.rec.comment = Tag[c.server]
  /\ c.op = "create" => c.rec.name \in Scope(c.server)
  /\ c.op # "create" => Held(z, c.server, c.id)
  /\ c.op = "update" => Same(z, c.id, c.rec)

\* Every tagged record is at a name its owner looks after.
InScope(z) ==
  \A i \in Ids, t \in Servers :
    z[i] \in Record /\ z[i].comment = Tag[t] => z[i].name \in Scope(t)

\* What a pass lists and claims is held, and it only queues what it claims.
Rightful(z, s, p) ==
  /\ \A i \in Listed(p) : Claim(s, p.listed[i]) => Held(z, s, i) /\ Same(z, i, p.listed[i])
  /\ \A i \in p.queue : Claim(s, p.listed[i])

Rights ==
  /\ InScope(zone)
  /\ \A c \in late : Legit(zone, c)
  /\ \A s \in Servers : Rightful(zone, s, pass[s])

\* The inductive invariant.
OwnershipInv == TypeInv /\ Rights

----------------------------------------------------------------------------
(* How one zone becomes the next.                                          *)

\* Server s turned zone z into y, within its rights.
Owns(s, z, y) ==
  \A i \in Ids : y[i] # z[i] =>
    /\ z[i] \in Record => Entitled(s, z[i])
    /\ y[i] \in Record => y[i].comment = Tag[s]
    /\ z[i] = Unborn => y[i] \in Record /\ y[i].name \in Scope(s)
    /\ z[i] # Unborn => z[i] \in Record /\ (y[i] = Deleted \/ y[i] \in Record)
    /\ z[i] \in Record => Same(y, i, z[i])

\* Server s left the zone alone, or a legitimate call of its landed.
Acted(s) ==
  \/ zone' = zone
  \/ \E c \in Call : c.server = s /\ Legit(zone, c) /\ zone' = Applied(c)

\* The operator did, without editing a comment.
Operated(z, y) ==
  \A i \in Ids : y[i] # z[i] =>
    /\ z[i] = Unborn => y[i] \in Record /\ y[i].comment = NoTag
    /\ z[i] # Unborn => z[i] \in Record /\ (y[i] = Deleted \/ y[i] \in Record)
    /\ z[i] \in Record => Same(y, i, z[i])
    /\ z[i] \in Record /\ y[i] \in Record => y[i].comment = z[i].comment

LEMMA AdoptsInScope == \A s \in Servers : Adopts(s) \subseteq Scope(s)
BY DEF Adopts, Scope

\* Nobody's action loosens what a server holds, or moves a record.
LEMMA HoldingLasts ==
  ASSUME AdoptionDisjoint, NEW z \in Zone, NEW y \in Zone,
         (\E t \in Servers : Owns(t, z, y)) \/ Operated(z, y)
  PROVE  /\ \A s \in Servers, i \in Ids : Held(z, s, i) => Held(y, s, i)
         /\ \A i \in Ids : \A r : z[i] # Unborn /\ Same(z, i, r) => Same(y, i, r)
<1>1. ASSUME NEW s \in Servers, NEW i \in Ids, Held(z, s, i)
      PROVE  Held(y, s, i)
  <2>1. CASE y[i] = z[i]
    BY <1>1, <2>1 DEF Held
  <2>2. CASE y[i] # z[i] /\ Operated(z, y)
    BY <1>1, <2>2, SlotsDistinct DEF Held, Operated, Entitled, Same
  <2>3. ASSUME y[i] # z[i], NEW t \in Servers, Owns(t, z, y)
        PROVE  Held(y, s, i)
    <3>1. z[i] \in Record /\ Entitled(s, z[i]) /\ Entitled(t, z[i])
      BY <1>1, <2>3 DEF Held, Owns
    <3>2. s = t
      <4>1. Tag[s] # NoTag /\ Tag[t] # NoTag
        BY TagsNotEmpty DEF Tags
      <4>2. z[i].comment = Tag[s] /\ z[i].comment = Tag[t] => s = t
        BY TagsDistinct
      <4>3. z[i].name \in Adopts(s) /\ z[i].name \in Adopts(t) => s = t
        BY AdoptsInScope DEF AdoptionDisjoint
      <4> QED BY <3>1, <4>1, <4>2, <4>3 DEF Entitled
    <3>3. y[i] = Deleted \/ (y[i] \in Record /\ y[i].comment = Tag[s])
      BY <2>3, <3>1, <3>2, SlotsDistinct DEF Owns
    <3> QED BY <3>3, SlotsDistinct DEF Held, Entitled
  <2> QED BY <2>1, <2>2, <2>3
<1>2. ASSUME NEW i \in Ids, NEW r, z[i] # Unborn, Same(z, i, r)
      PROVE  Same(y, i, r)
  BY <1>2 DEF Owns, Operated, Same
<1> QED BY <1>1, <1>2

\* So scopes, calls under way and the rights of every pass survive it.
LEMMA RightsLast ==
  ASSUME AdoptionDisjoint, NEW z \in Zone, NEW y \in Zone,
         (\E t \in Servers : Owns(t, z, y)) \/ Operated(z, y)
  PROVE  /\ InScope(z) => InScope(y)
         /\ \A c \in Call : Legit(z, c) => Legit(y, c)
         /\ \A s \in Servers, p \in PassState : Rightful(z, s, p) => Rightful(y, s, p)
<1>1. ASSUME InScope(z), NEW i \in Ids, NEW t \in Servers,
             y[i] \in Record, y[i].comment = Tag[t]
      PROVE  y[i].name \in Scope(t)
  <2>1. CASE y[i] = z[i]
    BY <1>1, <2>1 DEF InScope
  <2>2. CASE y[i] # z[i] /\ Operated(z, y)
    <3>1. Tag[t] # NoTag
      BY TagsNotEmpty DEF Tags
    <3> QED BY <1>1, <2>2, <3>1 DEF Operated, InScope, Same
  <2>3. ASSUME y[i] # z[i], NEW s \in Servers, Owns(s, z, y)
        PROVE  y[i].name \in Scope(t)
    <3>1. s = t
      BY <1>1, <2>3, TagsDistinct DEF Owns
    <3>2. CASE z[i] = Unborn
      BY <2>3, <3>1, <3>2 DEF Owns
    <3>3. CASE z[i] # Unborn
      <4>1. z[i] \in Record /\ Entitled(s, z[i]) /\ y[i].name = z[i].name
        BY <1>1, <2>3, <3>3 DEF Owns, Same
      <4> QED BY <1>1, <3>1, <4>1, AdoptsInScope DEF Entitled, InScope
    <3> QED BY <3>2, <3>3
  <2> QED BY <2>1, <2>2, <2>3
<1>2. ASSUME NEW c \in Call, Legit(z, c)
      PROVE  Legit(y, c)
  <2>1. c.server \in Servers /\ c.id \in Ids /\ c.op \in {"create", "update", "delete"}
    BY DEF Call
  <2> QED BY <1>2, <2>1, HoldingLasts DEF Legit, Held
<1>3. ASSUME NEW s \in Servers, NEW p \in PassState, Rightful(z, s, p)
      PROVE  Rightful(y, s, p)
  BY <1>3, HoldingLasts DEF Rightful, Listed, Held
<1> QED BY <1>1, <1>2, <1>3 DEF InScope

\* A legitimate call, applied, is within its server's rights.
LEMMA AppliedWithinRights ==
  ASSUME zone \in Zone, NEW c \in Call, Legit(zone, c)
  PROVE  Owns(c.server, zone, Applied(c))
<1>1. /\ c.server \in Servers /\ c.id \in Ids /\ c.rec \in Record
      /\ c.op \in {"create", "update", "delete"}
  BY DEF Call
<1>2. CASE c.op = "create" /\ Creatable(c.rec)
  <2>1. NewId \in Ids /\ zone[NewId] = Unborn
    BY <1>2, NewIdFree
  <2>2. Applied(c) = [zone EXCEPT ![NewId] = c.rec]
    BY <1>2 DEF Applied
  <2> QED BY <1>1, <1>2, <2>1, <2>2, SlotsDistinct DEF Owns, Legit, Zone
<1>3. CASE c.op = "update" /\ Live(c.id)
  <2>1. Applied(c) = [zone EXCEPT ![c.id] = c.rec]
    BY <1>3 DEF Applied
  <2> QED BY <1>1, <1>3, <2>1, SlotsDistinct DEF Owns, Legit, Held, Same, Live, Zone
<1>4. CASE c.op = "delete" /\ Live(c.id)
  <2>1. Applied(c) = [zone EXCEPT ![c.id] = Deleted]
    BY <1>4 DEF Applied
  <2> QED BY <1>1, <1>4, <2>1, SlotsDistinct DEF Owns, Legit, Held, Same, Live, Zone
<1>5. CASE Applied(c) = zone
  BY <1>5 DEF Owns
<1> QED BY <1>1, <1>2, <1>3, <1>4, <1>5 DEF Applied

LEMMA ActedOwns ==
  ASSUME zone \in Zone, NEW s \in Servers, Acted(s)
  PROVE  Owns(s, zone, zone')
<1>1. CASE zone' = zone
  BY <1>1 DEF Owns
<1>2. CASE \E c \in Call : c.server = s /\ Legit(zone, c) /\ zone' = Applied(c)
  BY <1>2, AppliedWithinRights
<1> QED BY <1>1, <1>2 DEF Acted

----------------------------------------------------------------------------
(* What the steps of a pass do to its rights.                              *)

\* A pass that lists the same and queues no more keeps its rights.
LEMMA FewerQueued ==
  ASSUME NEW s \in Servers, NEW p, NEW q, Rightful(zone, s, p),
         q.listed = p.listed, q.queue \subseteq p.queue
  PROVE  Rightful(zone, s, q)
BY DEF Rightful, Listed

\* A pass that lists nothing claims nothing.
LEMMA NothingListed ==
  ASSUME NEW s \in Servers, NEW q, q.listed = [i \in Ids |-> Unborn], q.queue = {}
  PROVE  Rightful(zone, s, q)
BY SlotsDistinct DEF Rightful, Listed

LEMMA ReturnRightful ==
  ASSUME NEW s \in Servers, NEW p, NEW st, NEW rep
  PROVE  Rightful(zone, s, Return(p, st, rep))
<1>1. /\ Return(p, st, rep).listed = [i \in Ids |-> Unborn]
      /\ Return(p, st, rep).queue = {}
  BY DEF Return, Fresh
<1> QED BY <1>1, NothingListed

LEMMA AfterRightful ==
  ASSUME NEW s \in Servers, NEW p \in PassState, Rightful(zone, s, p)
  PROVE  Rightful(zone, s, After(p)) /\ Rightful(zone, s, After(Note(p)))
<1>1. \A q \in PassState : After(q).listed = q.listed /\ After(q).queue = q.queue
  BY DEF After, PassState
<1>2. /\ Note(p).listed = p.listed /\ Note(p).queue = p.queue
      /\ After(Note(p)).listed = Note(p).listed /\ After(Note(p)).queue = Note(p).queue
  BY DEF Note, After, PassState
<1> QED BY <1>1, <1>2, FewerQueued

\* A step that leaves the zone alone and moves one pass within its rights.
LEMMA LocalKeepsRights ==
  ASSUME OwnershipInv, NEW s \in Servers, NEW q, Rightful(zone, s, q), Goto(s, q),
         UNCHANGED <<zone, late>>
  PROVE  Rights' /\ Acted(s)
<1>1. \A t \in Servers : Rightful(zone, t, pass'[t])
  BY DEF OwnershipInv, Rights, TypeInv, TypeOK, Goto
<1>2. \A t \in Servers : Rightful(zone, t, pass[t])'
  BY <1>1 DEF Rightful, Listed, Held, Same
<1>3. InScope(zone)' /\ (\A c \in late : Legit(zone, c))'
  BY DEF OwnershipInv, Rights, InScope, Legit, Held, Same
<1> QED BY <1>2, <1>3 DEF Rights, Acted

\* An API call whose landing is legitimate, now or late.
LEMMA WriteKeepsRights ==
  ASSUME AdoptionDisjoint, OwnershipInv, NEW s \in Servers, NEW c \in Call,
         NEW good \in PassState, NEW bad \in PassState,
         c.server = s, Legit(zone, c),
         Rightful(zone, s, good), Rightful(zone, s, bad), Write(s, c, good, bad)
  PROVE  Rights' /\ Acted(s)
<1>1. PICK q \in PassState : Rightful(zone, s, q) /\ Goto(s, q)
  BY DEF Write
<1>2. zone' = Applied(c) \/ zone' = zone
  BY DEF Write
<1>3. zone \in Zone /\ zone' \in Zone /\ late \subseteq Call /\ late' \subseteq late \cup {c}
  BY <1>2, AppliedTyped DEF OwnershipInv, TypeInv, TypeOK, Write
<1>4. Acted(s) /\ Owns(s, zone, zone')
  BY <1>2, <1>3, ActedOwns DEF Acted
<1>5. \A t \in Servers : pass'[t] \in PassState /\ Rightful(zone, t, pass'[t])
  BY <1>1 DEF OwnershipInv, Rights, TypeInv, TypeOK, Goto
<1>6. \A t \in Servers : Rightful(zone', t, pass'[t])
  BY <1>3, <1>4, <1>5, RightsLast
<1>7. InScope(zone')
  BY <1>3, <1>4, RightsLast DEF OwnershipInv, Rights
<1>8. \A d \in late' : Legit(zone', d)
  BY <1>3, <1>4, RightsLast DEF OwnershipInv, Rights
<1>9. \A t \in Servers : Rightful(zone, t, pass[t])'
  BY <1>6 DEF Rightful, Listed, Held, Same
<1>10. InScope(zone)' /\ (\A d \in late : Legit(zone, d))'
  BY <1>7, <1>8 DEF InScope, Legit, Held, Same
<1> QED BY <1>4, <1>9, <1>10 DEF Rights

\* What a server declares is in its scope, and what it forces it adopts.
LEMMA DeclaredInScope ==
  ASSUME TypeInv, NEW s \in Servers, pass[s].pc # "idle",
         NEW n \in DOMAIN pass[s].conf.hosts
  PROVE  /\ n \in Scope(s)
         /\ pass[s].conf.hosts[n].force => n \in Adopts(s)
<1>1. pass[s].conf \in Configs[s] /\ pass[s].conf \in Config
  BY DEF TypeInv, Coherent, PassState
<1>2. n \in Names
  BY <1>1, ConfigShape
<1> QED BY <1>1, <1>2 DEF Scope, Adopts

LEMMA ListRights ==
  ASSUME AdoptionDisjoint, OwnershipInv, NEW s \in Servers, List(s)
  PROVE  Rights' /\ Acted(s)
<1> DEFINE p == pass[s]
           q == LastPage(p)
           m == NextPage(p)
<1>1. /\ p \in PassState /\ zone \in Zone /\ p.queue = {}
      /\ Rightful(zone, s, p)
  BY DEF OwnershipInv, Rights, TypeInv, TypeOK, Coherent, List
<1>2. /\ q.listed = ReadPage(p) /\ q.queue = {}
      /\ m.listed = ReadPage(p) /\ m.queue = {}
  BY <1>1 DEF PassState, LastPage, NextPage
<1>3. ASSUME NEW i \in Ids, zone[i] \in Record, Claim(s, zone[i])
      PROVE  Held(zone, s, i)
  <2>1. zone[i].comment \in Tags \cup {NoTag}
    BY <1>3 DEF Record
  <2>2. ASSUME NEW t \in Servers, zone[i].comment = Tag[t], zone[i].name \in Adopts(s)
        PROVE  t = s
    BY <1>3, <2>2 DEF OwnershipInv, Rights, InScope, AdoptionDisjoint
  <2>3. Entitled(s, zone[i])
    BY <1>3, <2>1, <2>2 DEF Claim, Entitled, Tags
  <2> QED BY <1>3, <2>3, SlotsDistinct DEF Held
<1>4. ASSUME NEW i \in Ids, ReadPage(p)[i] \in Record, Claim(s, ReadPage(p)[i])
      PROVE  Held(zone, s, i) /\ Same(zone, i, ReadPage(p)[i])
  <2>1. CASE ReadPage(p)[i] = zone[i]
    BY <1>3, <1>4, <2>1 DEF Same
  <2>2. CASE ReadPage(p)[i] = p.listed[i]
    BY <1>1, <1>4, <2>2 DEF Rightful, Listed
  <2> QED BY <2>1, <2>2 DEF ReadPage
<1>5. Rightful(zone, s, q) /\ Rightful(zone, s, m)
  <2> HIDE DEF q, m
  <2> QED BY <1>2, <1>4 DEF Rightful, Listed
<1>6. PICK r : Rightful(zone, s, r) /\ Goto(s, r)
  BY <1>1, <1>5, ReturnRightful, ListShape
<1> QED BY <1>6, LocalKeepsRights DEF List

LEMMA NextHostRights ==
  ASSUME OwnershipInv, NEW s \in Servers, NextHost(s)
  PROVE  Rights' /\ Acted(s)
<1> DEFINE p == pass[s]
<1>1. /\ p \in PassState /\ p.pc = "hosts" /\ Rightful(zone, s, p)
      /\ p.todo \subseteq DOMAIN p.conf.hosts
  BY DEF OwnershipInv, Rights, TypeInv, Coherent, NextHost
<1>2. PICK q : /\ Local(s, q)
               /\ q.listed = p.listed
               /\ \A i \in q.queue : Claim(s, p.listed[i])
  <2>1. PICK n \in p.todo :
          LET d == p.conf.hosts[n]
              blockers == {i \in Kept(p) : /\ p.listed[i].name = n
                                           /\ p.listed[i].type \in Blocking(d)}
              mine == {i \in blockers : Owned(s, p.listed[i]) \/ d.force}
          IN  Local(s, [p EXCEPT
                !.pc = "clear", !.todo = @ \ {n}, !.cur = n, !.queue = mine,
                !.blocked = (mine # blockers),
                !.managed = @ \cup (IF d.tunnel # None THEN {<<n, "CNAME">>} ELSE {})])
    BY DEF NextHost
  <2> DEFINE d == p.conf.hosts[n]
             blockers == {i \in Kept(p) : /\ p.listed[i].name = n
                                          /\ p.listed[i].type \in Blocking(d)}
             mine == {i \in blockers : Owned(s, p.listed[i]) \/ d.force}
             q == [p EXCEPT
                !.pc = "clear", !.todo = @ \ {n}, !.cur = n, !.queue = mine,
                !.blocked = (mine # blockers),
                !.managed = @ \cup (IF d.tunnel # None THEN {<<n, "CNAME">>} ELSE {})]
  <2>2. d.force => n \in Adopts(s)
    BY <1>1, <2>1, DeclaredInScope DEF OwnershipInv
  <2>3. \A i \in mine : Claim(s, p.listed[i])
    BY <2>2 DEF Claim, Owned
  <2>4. q.listed = p.listed /\ q.queue = mine
    BY <1>1 DEF PassState
  <2>5. Local(s, q)
    BY <2>1
  <2> QED BY <2>3, <2>4, <2>5
<1>3. Rightful(zone, s, q)
  BY <1>1, <1>2 DEF Rightful, Listed
<1> QED BY <1>2, <1>3, LocalKeepsRights DEF Local

LEMMA ClearDeleteRights ==
  ASSUME AdoptionDisjoint, OwnershipInv, NEW s \in Servers, ClearDelete(s)
  PROVE  Rights' /\ Acted(s)
<1> DEFINE p == pass[s]
           rest(i) == [p EXCEPT !.queue = @ \ {i}]
           good(i) == [rest(i) EXCEPT !.dropped = @ \cup {i}]
           bad(i) == [rest(i) EXCEPT !.blocked = TRUE]
<1>1. p \in PassState /\ Rightful(zone, s, p) /\ p.queue \subseteq Listed(p)
  BY DEF OwnershipInv, Rights, TypeInv, Coherent
<1>2. PICK i \in p.queue : Write(s, Deletion(s, i, p.listed[i]), good(i), bad(i))
  BY DEF ClearDelete
<1>3. i \in Ids /\ p.listed[i] \in Record /\ Held(zone, s, i)
  BY <1>1, <1>2 DEF Rightful, Listed
<1>4. /\ Deletion(s, i, p.listed[i]) \in Call
      /\ Deletion(s, i, p.listed[i]).server = s
      /\ Legit(zone, Deletion(s, i, p.listed[i]))
  BY <1>3 DEF Deletion, Call, Legit
<1>5. rest(i) \in PassState
  BY <1>1 DEF PassState
<1>6. good(i) \in PassState /\ bad(i) \in PassState
  <2>1. rest(i).dropped \cup {i} \in SUBSET Ids
    BY <1>3, <1>5 DEF PassState
  <2> HIDE DEF rest
  <2> QED BY <1>5, <2>1 DEF PassState
<1>7. /\ good(i).listed = p.listed /\ good(i).queue = p.queue \ {i}
      /\ bad(i).listed = p.listed /\ bad(i).queue = p.queue \ {i}
  BY <1>1 DEF PassState
<1>8. Rightful(zone, s, good(i)) /\ Rightful(zone, s, bad(i))
  <2> HIDE DEF good, bad
  <2> QED BY <1>1, <1>7, FewerQueued
<1> HIDE DEF good, bad
<1> QED BY <1>2, <1>4, <1>6, <1>8, WriteKeepsRights

LEMMA FamilyWriteRights ==
  ASSUME AdoptionDisjoint, OwnershipInv, NEW s \in Servers,
         UpdateOwned(s) \/ ForceAdopt(s) \/ Create(s)
  PROVE  Rights' /\ Acted(s)
<1> DEFINE p == pass[s]
           want == Desired(s, p, p.pc)
<1>1. /\ p \in PassState /\ Coherent(s, p) /\ Rightful(zone, s, p)
      /\ p.pc \in Families /\ Available(p)
  BY DEF OwnershipInv, Rights, TypeInv, Coherent, UpdateOwned, ForceAdopt, Create, InFamily
<1>2. p.cur \in DOMAIN p.conf.hosts /\ p.pc # "idle"
  BY <1>1 DEF Coherent, Families, Types
<1>3. p.cur \in Scope(s) /\ (Declared(p).force => p.cur \in Adopts(s))
  BY <1>2, DeclaredInScope DEF OwnershipInv, Declared
<1>4. want \in Record /\ want.comment = Tag[s] /\ want.name = p.cur
  BY <1>1, DesiredTyped DEF Desired
<1>5. ASSUME NEW i \in Existing(p), Owned(s, p.listed[i]) \/ Declared(p).force
      PROVE  /\ Change(s, i, Overwritten(p.listed[i], want)) \in Call
             /\ Legit(zone, Change(s, i, Overwritten(p.listed[i], want)))
  <2>1. i \in Ids /\ p.listed[i] \in Record /\ p.listed[i].name = p.cur /\ i \in Listed(p)
    BY ExistingListed
  <2>2. Claim(s, p.listed[i])
    BY <1>3, <1>5, <2>1 DEF Claim, Owned
  <2>3. Held(zone, s, i) /\ Same(zone, i, p.listed[i])
    BY <1>1, <2>1, <2>2 DEF Rightful
  <2> DEFINE r == Overwritten(p.listed[i], want)
  <2>4. /\ r \in Record /\ r.comment = Tag[s]
        /\ r.name = p.listed[i].name /\ r.type = p.listed[i].type
    BY <1>4, <2>1, OverwrittenTyped
  <2> HIDE DEF r
  <2>5. /\ Change(s, i, r) \in Call
        /\ Legit(zone, Change(s, i, r))
    BY <2>1, <2>3, <2>4 DEF Change, Call, Legit, Same
  <2> QED BY <2>5 DEF r
<1>6. /\ Creation(s, want) \in Call
      /\ Legit(zone, Creation(s, want))
  <2>1. (CHOOSE i \in Ids : TRUE) \in Ids
    BY IdsOrdered
  <2> QED BY <1>3, <1>4, <2>1 DEF Creation, Call, Legit
<1>7. PICK c \in Call : /\ c.server = s /\ Legit(zone, c)
                        /\ Write(s, c, After(p), After(Note(p)))
  BY <1>5, <1>6 DEF UpdateOwned, ForceAdopt, Create, OwnedOnes, Change, Creation
<1>8. After(p) \in PassState /\ After(Note(p)) \in PassState
  BY <1>1, AfterCoherent, NoteCoherent DEF Coherent
<1> QED BY <1>1, <1>7, <1>8, AfterRightful, WriteKeepsRights

LEMMA StartPruneRights ==
  ASSUME OwnershipInv, NEW s \in Servers, StartPrune(s)
  PROVE  Rights' /\ Acted(s)
<1> DEFINE p == pass[s]
           q == [p EXCEPT !.pc = "prune", !.queue = Orphans(s, p)]
<1>1. p \in PassState /\ Rightful(zone, s, p) /\ Local(s, q)
  BY DEF OwnershipInv, Rights, TypeInv, Coherent, StartPrune
<1>2. q.listed = p.listed /\ q.queue = Orphans(s, p)
  BY <1>1 DEF PassState
<1>3. Rightful(zone, s, q)
  <2> HIDE DEF q
  <2> QED BY <1>1, <1>2 DEF Rightful, Listed, Orphans, Owned, Claim
<1> QED BY <1>1, <1>3, LocalKeepsRights DEF Local

LEMMA PruneDeleteRights ==
  ASSUME AdoptionDisjoint, OwnershipInv, NEW s \in Servers, PruneDelete(s)
  PROVE  Rights' /\ Acted(s)
<1> DEFINE p == pass[s]
           gone(i) == p.pruned \cup {<<p.listed[i].name, TunnelOf(p.listed[i])>>}
           good(i) == [p EXCEPT !.queue = @ \ {i}, !.pruned = gone(i)]
           bad == Return(p, "error", p.pruned \cup p.cleared)
<1>1. /\ p \in PassState /\ Coherent(s, p) /\ Rightful(zone, s, p)
      /\ p.queue \subseteq Listed(p)
  BY DEF OwnershipInv, Rights, TypeInv, Coherent
<1>2. PICK i \in p.queue : Write(s, Deletion(s, i, p.listed[i]), good(i), bad)
  BY DEF PruneDelete
<1>3. i \in Ids /\ p.listed[i] \in Record /\ Held(zone, s, i)
  BY <1>1, <1>2 DEF Rightful, Listed
<1>4. /\ Deletion(s, i, p.listed[i]) \in Call
      /\ Deletion(s, i, p.listed[i]).server = s
      /\ Legit(zone, Deletion(s, i, p.listed[i]))
  BY <1>3 DEF Deletion, Call, Legit
<1>5. good(i) \in PassState
  <2>1. gone(i) \in SUBSET (Names \X (Tunnels \cup {None}))
    <3>1. p.listed[i].name \in Names
      BY <1>3 DEF Record
    <3>2. p.pruned \in SUBSET (Names \X (Tunnels \cup {None}))
      BY <1>1 DEF PassState
    <3> QED BY <3>1, <3>2, TunnelOfTyped
  <2> HIDE DEF gone
  <2> QED BY <1>1, <2>1 DEF PassState
<1>6. good(i).listed = p.listed /\ good(i).queue = p.queue \ {i}
  BY <1>1 DEF PassState
<1>7. bad \in PassState
  <2>1. p.pruned \cup p.cleared \in SUBSET (Names \X (Tunnels \cup {None}))
    BY <1>1 DEF PassState
  <2> QED BY <1>1, <2>1, ReturnCoherent DEF Coherent
<1>8. Rightful(zone, s, good(i)) /\ Rightful(zone, s, bad)
  <2> HIDE DEF good
  <2> QED BY <1>1, <1>6, FewerQueued, ReturnRightful
<1> HIDE DEF good, bad
<1> QED BY <1>2, <1>4, <1>5, <1>7, <1>8, WriteKeepsRights

\* The steps that neither write nor list nor queue.
LEMMA OtherRights ==
  ASSUME OwnershipInv, NEW s \in Servers,
         \/ Start(s) \/ Lookup(s) \/ ClearBlocked(s) \/ ClearDone(s)
         \/ SkipUnavailable(s) \/ KeepInSync(s) \/ LeaveUntagged(s)
         \/ FinishWithoutPrune(s) \/ FinishPrune(s) \/ Crash(s)
  PROVE  Rights' /\ Acted(s)
<1> DEFINE p == pass[s]
<1>1. p \in PassState /\ Rightful(zone, s, p)
  BY DEF OwnershipInv, Rights, TypeInv, Coherent
<1>2. CASE Start(s)
  <2>1. PICK conf \in Configs[s], det \in Detections :
          Goto(s, [Fresh EXCEPT !.pc = "lookup", !.conf = conf, !.det = det])
    BY <1>2 DEF Start
  <2> DEFINE q == [Fresh EXCEPT !.pc = "lookup", !.conf = conf, !.det = det]
  <2>2. q.listed = [i \in Ids |-> Unborn] /\ q.queue = {}
    BY DEF Fresh
  <2> QED BY <1>2, <2>1, <2>2, NothingListed, LocalKeepsRights DEF Start
<1>3. CASE Lookup(s)
  <2> DEFINE q == [p EXCEPT !.pc = "list"]
  <2>1. q.listed = p.listed /\ q.queue = p.queue
    BY <1>1 DEF PassState
  <2>2. Rightful(zone, s, q)
    <3> HIDE DEF q
    <3> QED BY <1>1, <2>1, FewerQueued
  <2>3. PICK r : Rightful(zone, s, r) /\ Goto(s, r)
    BY <1>3, <2>2, ReturnRightful DEF Lookup
  <2> QED BY <1>3, <2>3, LocalKeepsRights DEF Lookup
<1>4. CASE ClearBlocked(s)
  <2> DEFINE q == [p EXCEPT !.pc = "hosts",
                   !.noted = @ \cup ({p.cur} \X ManagedTypes(Declared(p)))]
  <2>1. q.listed = p.listed /\ q.queue = p.queue
    BY <1>1 DEF PassState
  <2>2. Rightful(zone, s, q)
    <3> HIDE DEF q
    <3> QED BY <1>1, <2>1, FewerQueued
  <2>3. Local(s, q)
    BY <1>4 DEF ClearBlocked
  <2> QED BY <2>2, <2>3, LocalKeepsRights DEF Local
<1>5. CASE ClearDone(s)
  <2> DEFINE q1 == [p EXCEPT !.pc = "CNAME"]
             q2 == [p EXCEPT !.pc = "A", !.cleared = @ \cup ClearedCNAMEs(p),
                             !.managed = @ \cup {<<p.cur, "A">>}]
  <2>1. /\ q1.listed = p.listed /\ q1.queue = p.queue
        /\ q2.listed = p.listed /\ q2.queue = p.queue
    BY <1>1 DEF PassState
  <2>2. Rightful(zone, s, q1) /\ Rightful(zone, s, q2)
    <3> HIDE DEF q1, q2
    <3> QED BY <1>1, <2>1, FewerQueued
  <2>3. Local(s, q1) \/ Local(s, q2)
    BY <1>5 DEF ClearDone
  <2> QED BY <2>2, <2>3, LocalKeepsRights DEF Local
<1>6. CASE SkipUnavailable(s) \/ KeepInSync(s) \/ LeaveUntagged(s)
  <2>1. Local(s, After(p)) \/ Local(s, After(Note(p)))
    BY <1>6 DEF SkipUnavailable, KeepInSync, LeaveUntagged
  <2> QED BY <1>1, <2>1, AfterRightful, LocalKeepsRights DEF Local
<1>7. CASE FinishWithoutPrune(s) \/ FinishPrune(s)
  BY <1>7, ReturnRightful, LocalKeepsRights DEF FinishWithoutPrune, FinishPrune, Local
<1>8. CASE Crash(s)
  <2>1. Fresh.listed = [i \in Ids |-> Unborn] /\ Fresh.queue = {}
    BY DEF Fresh
  <2> QED BY <1>8, <2>1, NothingListed, LocalKeepsRights DEF Crash
<1> QED BY <1>2, <1>3, <1>4, <1>5, <1>6, <1>7, <1>8

LEMMA ServerKeepsRights ==
  ASSUME AdoptionDisjoint, OwnershipInv, NEW s \in Servers, ServerStep(s)
  PROVE  Rights' /\ Acted(s)
BY ListRights, NextHostRights, ClearDeleteRights, FamilyWriteRights, StartPruneRights,
   PruneDeleteRights, OtherRights
   DEF ServerStep, Advance

\* The zone changes under idle and running passes alike.
LEMMA OutsideKeepsRights ==
  ASSUME AdoptionDisjoint, OwnershipInv, UNCHANGED pass, late' \subseteq late,
         zone' \in Zone, (\E t \in Servers : Owns(t, zone, zone')) \/ Operated(zone, zone')
  PROVE  Rights'
<1>1. zone \in Zone /\ late \subseteq Call /\ \A s \in Servers : pass[s] \in PassState
  BY DEF OwnershipInv, TypeInv, TypeOK
<1>2. /\ InScope(zone')
      /\ \A c \in late' : Legit(zone', c)
      /\ \A s \in Servers : Rightful(zone', s, pass'[s])
  BY <1>1, RightsLast DEF OwnershipInv, Rights
<1> QED BY <1>2 DEF Rights, InScope, Legit, Rightful, Listed, Held, Same

LEMMA DeliverKeepsRights ==
  ASSUME AdoptionDisjoint, OwnershipInv, NEW c \in late, Deliver(c)
  PROVE  Rights' /\ Acted(c.server)
<1>1. c \in Call /\ Legit(zone, c) /\ zone \in Zone /\ c.server \in Servers
  BY DEF OwnershipInv, Rights, TypeInv, TypeOK, Call
<1>2. Acted(c.server) /\ Owns(c.server, zone, zone') /\ zone' \in Zone
  BY <1>1, AppliedWithinRights, AppliedTyped DEF Deliver, Acted
<1> QED BY <1>1, <1>2, OutsideKeepsRights DEF Deliver

LEMMA DashboardKeepsRights ==
  ASSUME AdoptionDisjoint, OwnershipInv, Dashboard
  PROVE  Rights'
<1>1. zone \in Zone /\ zone' \in Zone
  BY DashboardTyped DEF OwnershipInv, TypeInv, TypeOK
<1>2. Operated(zone, zone')
  <2>1. CASE \E i \in Ids : Live(i) /\ zone' = [zone EXCEPT ![i] = Deleted]
    BY <1>1, <2>1, SlotsDistinct DEF Operated, Live, Same, Zone
  <2>2. CASE \E i \in Ids, v \in V4 : Live(i) /\ zone' = [zone EXCEPT ![i].content = v]
    <3>1. PICK i \in Ids, v \in V4 : Live(i) /\ zone' = [zone EXCEPT ![i].content = v]
      BY <2>2
    <3> DEFINE r == [zone[i] EXCEPT !.content = v]
    <3>2. /\ r \in Record /\ r.name = zone[i].name /\ r.type = zone[i].type
          /\ r.comment = zone[i].comment
      BY <3>1 DEF Live, Record, Contents
    <3>3. zone' = [zone EXCEPT ![i] = r]
      BY <3>1
    <3> HIDE DEF r
    <3> QED BY <1>1, <3>1, <3>2, <3>3, SlotsDistinct DEF Operated, Live, Same, Zone
  <2>3. CASE \E n \in Names, v \in V4 :
               LET r == [name |-> n, type |-> "A", content |-> v,
                         proxied |-> FALSE, comment |-> NoTag]
               IN  Creatable(r) /\ zone' = [zone EXCEPT ![NewId] = r]
    <3>1. PICK n \in Names, v \in V4, r \in Record :
            /\ r.comment = NoTag
            /\ Creatable(r) /\ zone' = [zone EXCEPT ![NewId] = r]
      <4>1. \A n \in Names, v \in V4 :
              [name |-> n, type |-> "A", content |-> v,
               proxied |-> FALSE, comment |-> NoTag] \in Record
        BY DEF Record, Types, Contents
      <4> QED BY <2>3, <4>1
    <3>2. NewId \in Ids /\ zone[NewId] = Unborn
      BY <3>1, NewIdFree
    <3> QED BY <1>1, <3>1, <3>2, SlotsDistinct DEF Operated, Same, Zone
  <2> QED BY <2>1, <2>2, <2>3 DEF Dashboard
<1> QED BY <1>1, <1>2, OutsideKeepsRights DEF Dashboard

----------------------------------------------------------------------------

LEMMA InitRights ==
  ASSUME Init
  PROVE  OwnershipInv
<1>1. \A s \in Servers : Rightful(zone, s, pass[s])
  <2>1. Fresh.listed = [i \in Ids |-> Unborn] /\ Fresh.queue = {}
    BY DEF Fresh
  <2> QED BY <2>1, NothingListed DEF Init
<1>2. InScope(zone)
  <2>1. ASSUME NEW i \in Ids, NEW t \in Servers, zone[i] \in Record, zone[i].comment = Tag[t]
        PROVE  zone[i].name \in Scope(t)
    <3>1. zone[i].name \in Names
      BY <2>1 DEF Record
    <3> QED BY <2>1, <3>1 DEF Scope, Init
  <2> QED BY <2>1 DEF InScope
<1> QED BY <1>1, <1>2, InitTyped DEF OwnershipInv, Rights, Init

LEMMA NextRights ==
  ASSUME AdoptionDisjoint, OwnershipInv, [Next]_vars
  PROVE  OwnershipInv'
<1>1. TypeInv'
  BY NextTyped DEF OwnershipInv
<1>2. ASSUME UNCHANGED vars
      PROVE  Rights'
  <2>1. zone' \in Zone /\ Operated(zone, zone')
    BY <1>2 DEF vars, OwnershipInv, TypeInv, TypeOK, Operated
  <2> QED BY <1>2, <2>1, OutsideKeepsRights DEF vars
<1>3. ASSUME Next
      PROVE  Rights'
  BY <1>3, ServerKeepsRights, DeliverKeepsRights, DashboardKeepsRights DEF Next
<1> QED BY <1>1, <1>2, <1>3 DEF OwnershipInv

\* A step changes the zone only within the rights of the server that acts in
\* it, now or through a call of its that lands late.
LEMMA StepWithinRights ==
  ASSUME AdoptionDisjoint, OwnershipInv, [Next]_vars,
         NEW s \in Servers, ActsNow(s) \/ ActsLate(s)
  PROVE  Owns(s, zone, zone')
<1>1. ASSUME NEW t \in Servers, ServerStep(t)
      PROVE  Owns(s, zone, zone')
  <2>1. late \subseteq late' /\ \E q : Goto(t, q)
    BY <1>1 DEF ServerStep, Advance, Start, Lookup, List, NextHost, ClearDelete, ClearBlocked,
       ClearDone, SkipUnavailable, KeepInSync, UpdateOwned, LeaveUntagged, ForceAdopt, Create,
       FinishWithoutPrune, StartPrune, PruneDelete, FinishPrune, Crash, Local, Write
  <2>2. s = t
    BY <2>1 DEF ActsNow, ActsLate, Goto, OwnershipInv, TypeInv, TypeOK
  <2> QED BY <1>1, <2>2, ServerKeepsRights, ActedOwns DEF OwnershipInv, TypeInv, TypeOK
<1>2. ASSUME NEW c \in late, Deliver(c)
      PROVE  Owns(s, zone, zone')
  <2>1. s = c.server
    BY <1>2 DEF ActsNow, ActsLate, Deliver
  <2> QED BY <1>2, <2>1, DeliverKeepsRights, ActedOwns DEF OwnershipInv, TypeInv, TypeOK
<1>3. CASE Dashboard \/ UNCHANGED vars
  BY <1>3 DEF Dashboard, vars, ActsNow, ActsLate
<1> QED BY <1>1, <1>2, <1>3 DEF Next

\* Ownership: as long as no server is told to adopt a name another one looks
\* after, a server's calls, however stale the listing behind them and however
\* late they land, change only records that are its own or untagged ones it
\* adopts, and leave nothing but its own tag (reconcileZone, isOwnedByInstance).
THEOREM OwnershipTheorem ==
  ASSUME AdoptionDisjoint
  PROVE  Spec => OwnershipRespected
<1>1. Init => OwnershipInv
  BY InitRights
<1>2. OwnershipInv /\ [Next]_vars => OwnershipInv'
  BY NextRights
<1>3. OwnershipInv /\ [Next]_vars =>
        [\A s \in Servers : ActsNow(s) \/ ActsLate(s) =>
           \A i \in Ids : Changed(i) =>
             /\ Live(i) => Entitled(s, zone[i])
             /\ zone'[i] \in Record => zone'[i].comment = Tag[s]]_vars
  BY StepWithinRights DEF Owns, Changed, Live
<1> QED BY <1>1, <1>2, <1>3, PTL DEF Spec, OwnershipRespected

----------------------------------------------------------------------------
(* The passes implement OwnershipProtocol.                                 *)

\* A record that keeps its name and type differs only in what a Rewrite sets.
LEMMA RecordRewritten ==
  ASSUME NEW r \in Record, NEW q \in Record, q.name = r.name, q.type = r.type
  PROVE  q = [r EXCEPT !.content = q.content, !.proxied = q.proxied, !.comment = q.comment]
BY DEF Record

LEMMA ProtocolRecord == Protocol!Record = Record
BY DEF Protocol!Record, Record, Tags

\* A legitimate call that lands is a step of the protocol.
LEMMA LandingIsProtocolStep ==
  ASSUME zone \in Zone, NEW c \in Call, Legit(zone, c), zone' = Applied(c),
         used'.edit = used.edit
  PROVE  [Protocol!Next]_(Protocol!vars)
<1>1. /\ c.server \in Servers /\ c.id \in Ids /\ c.rec \in Record
      /\ c.op \in {"create", "update", "delete"}
  BY DEF Call
<1>2. CASE c.op = "create" /\ Creatable(c.rec)
  <2>1. NewId \in Ids /\ zone[NewId] = Unborn /\ zone' = [zone EXCEPT ![NewId] = c.rec]
    BY <1>2, NewIdFree DEF Applied
  <2>2. PICK n \in Names, ty \in Types, content \in Contents, proxied \in BOOLEAN :
          c.rec = [name |-> n, type |-> ty, content |-> content,
                   proxied |-> proxied, comment |-> Tag[c.server]]
    BY <1>1, <1>2 DEF Record, Legit
  <2>3. zone' = [zone EXCEPT ![NewId] = [name |-> n, type |-> ty, content |-> content,
                                        proxied |-> proxied, comment |-> Tag[c.server]]]
    BY <2>1, <2>2
  <2>4. Protocol!Create(c.server, NewId)
    <3>1. \E m \in Names, t \in Types, x \in Contents, b \in BOOLEAN :
            zone' = [zone EXCEPT ![NewId] = [name |-> m, type |-> t, content |-> x,
                                             proxied |-> b, comment |-> Tag[c.server]]]
      <4> WITNESS n \in Names, ty \in Types, content \in Contents, proxied \in BOOLEAN
      <4> QED BY <2>3
    <3>2. zone[NewId] = Unborn
      BY <2>1
    <3>3. used'.edit = used.edit
      OBVIOUS
    <3> HIDE DEF NewId, Types, Contents
    <3> QED BY <3>1, <3>2, <3>3, Zenon DEF Protocol!Create
  <2> QED BY <1>1, <2>1, <2>4 DEF Protocol!Next
<1>3. CASE c.op = "update" /\ Live(c.id)
  <2>1. zone' = [zone EXCEPT ![c.id] = c.rec]
    BY <1>3 DEF Applied
  <2>2. /\ zone[c.id] \in Record /\ Entitled(c.server, zone[c.id])
        /\ c.rec.name = zone[c.id].name /\ c.rec.type = zone[c.id].type
        /\ c.rec.comment = Tag[c.server]
    BY <1>3 DEF Legit, Held, Same, Live
  <2>3. PICK content \in Contents, proxied \in BOOLEAN :
          c.rec = [zone[c.id] EXCEPT !.content = content, !.proxied = proxied,
                                     !.comment = Tag[c.server]]
    <3>1. c.rec.content \in Contents /\ c.rec.proxied \in BOOLEAN
      BY <1>1 DEF Record
    <3>2. c.rec = [zone[c.id] EXCEPT !.content = c.rec.content, !.proxied = c.rec.proxied,
                                     !.comment = c.rec.comment]
      BY <1>1, <2>2, RecordRewritten
    <3> QED BY <2>2, <3>1, <3>2
  <2>4. Protocol!Entitled(c.server, zone[c.id])
    BY <1>1, <2>2 DEF Entitled, Protocol!Entitled
  <2>5. zone' = [zone EXCEPT ![c.id] = [zone[c.id] EXCEPT
                   !.content = content, !.proxied = proxied, !.comment = Tag[c.server]]]
    BY <2>1, <2>3
  <2>6. Protocol!Live(c.id)
    BY <2>2, ProtocolRecord DEF Protocol!Live
  <2>7. Protocol!Rewrite(c.server, c.id)
    BY <2>4, <2>5, <2>6 DEF Protocol!Rewrite
  <2> QED BY <1>1, <2>7 DEF Protocol!Next
<1>4. CASE c.op = "delete" /\ Live(c.id)
  <2>1. zone' = [zone EXCEPT ![c.id] = Deleted]
    BY <1>4 DEF Applied
  <2>2. zone[c.id] \in Record /\ Protocol!Entitled(c.server, zone[c.id])
    BY <1>1, <1>4 DEF Legit, Held, Live, Entitled, Protocol!Entitled
  <2>3. Protocol!Remove(c.server, c.id)
    BY <2>1, <2>2, ProtocolRecord DEF Protocol!Remove, Protocol!Live
  <2> QED BY <1>1, <2>3 DEF Protocol!Next
<1>5. CASE Applied(c) = zone
  BY <1>5 DEF Protocol!vars
<1> QED BY <1>1, <1>2, <1>3, <1>4, <1>5 DEF Applied

\* The count of the operator's edits is out of the servers' reach.
LEMMA ServersDoNotEdit ==
  ASSUME TypeInv, NEW s \in Servers, ServerStep(s)
  PROVE  used'.edit = used.edit
BY DEF TypeInv, TypeOK, ServerStep, Advance, Start, Lookup, List, NextHost, ClearDelete,
       ClearBlocked, ClearDone, SkipUnavailable, KeepInSync, UpdateOwned, LeaveUntagged,
       ForceAdopt, Create, FinishWithoutPrune, StartPrune, PruneDelete, FinishPrune, Crash,
       Local, Write, Fail

LEMMA DashboardIsProtocolStep ==
  ASSUME TypeInv, Dashboard
  PROVE  Protocol!Next
<1>0. used'.edit = used.edit + 1
  BY DEF Dashboard, TypeInv, TypeOK
<1>1. CASE \E i \in Ids : Live(i) /\ zone' = [zone EXCEPT ![i] = Deleted]
  BY <1>0, <1>1, ProtocolRecord DEF Protocol!Next, Protocol!OperatorRemoves, Protocol!Live, Live
<1>2. CASE \E i \in Ids, v \in V4 : Live(i) /\ zone' = [zone EXCEPT ![i].content = v]
  BY <1>0, <1>2, ProtocolRecord
     DEF Protocol!Next, Protocol!OperatorRepoints, Protocol!Live, Live, Contents
<1>3. CASE \E n \in Names, v \in V4 :
             LET r == [name |-> n, type |-> "A", content |-> v,
                       proxied |-> FALSE, comment |-> NoTag]
             IN  Creatable(r) /\ zone' = [zone EXCEPT ![NewId] = r]
  <2>1. PICK n \in Names, v \in V4 :
          LET r == [name |-> n, type |-> "A", content |-> v,
                    proxied |-> FALSE, comment |-> NoTag]
          IN  Creatable(r) /\ zone' = [zone EXCEPT ![NewId] = r]
    BY <1>3
  <2>2. NewId \in Ids /\ zone[NewId] = Unborn
    BY <2>1, NewIdFree
  <2>3. v \in Contents /\ "A" \in Types
    BY DEF Contents, Types
  <2>4. Protocol!OperatorAdds(NewId)
    BY <1>0, <2>1, <2>2, <2>3 DEF Protocol!OperatorAdds
  <2> QED BY <2>2, <2>4 DEF Protocol!Next
<1> QED BY <1>1, <1>2, <1>3 DEF Dashboard

LEMMA StepIsProtocolStep ==
  ASSUME AdoptionDisjoint, OwnershipInv, [Next]_vars
  PROVE  [Protocol!Next]_(Protocol!vars)
<1>1. ASSUME NEW s \in Servers, Acted(s), used'.edit = used.edit
      PROVE  [Protocol!Next]_(Protocol!vars)
  <2>1. CASE zone' = zone
    BY <1>1, <2>1 DEF Protocol!vars
  <2>2. CASE zone' # zone
    BY <1>1, <2>2, LandingIsProtocolStep DEF Acted, OwnershipInv, TypeInv, TypeOK
  <2> QED BY <2>1, <2>2
<1>2. ASSUME NEW c \in late, Deliver(c)
      PROVE  [Protocol!Next]_(Protocol!vars)
  BY <1>2, LandingIsProtocolStep DEF Deliver, OwnershipInv, Rights, TypeInv, TypeOK
<1>3. CASE UNCHANGED vars
  BY <1>3 DEF vars, Protocol!vars
<1>4. ASSUME NEW s \in Servers, ServerStep(s)
      PROVE  [Protocol!Next]_(Protocol!vars)
  BY <1>1, <1>4, ServerKeepsRights, ServersDoNotEdit DEF OwnershipInv
<1>5. Dashboard => Protocol!Next
  BY DashboardIsProtocolStep DEF OwnershipInv
<1> QED BY <1>2, <1>3, <1>4, <1>5 DEF Next

\* Refinement: everything the passes of all the servers, their late calls and
\* the operator do to the zone is a behaviour of OwnershipProtocol.
THEOREM RefinementTheorem ==
  ASSUME AdoptionDisjoint
  PROVE  Spec => ImplementsProtocol
<1>1. Init => OwnershipInv /\ Protocol!Init
  BY InitRights DEF Init, Protocol!Init
<1>2. OwnershipInv /\ [Next]_vars => OwnershipInv'
  BY NextRights
<1>3. OwnershipInv /\ [Next]_vars => [Protocol!Next]_(Protocol!vars)
  BY StepIsProtocolStep
<1> QED BY <1>1, <1>2, <1>3, PTL DEF Spec, ImplementsProtocol, Protocol!Spec

=============================================================================
