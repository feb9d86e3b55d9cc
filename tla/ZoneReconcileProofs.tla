------------------------ MODULE ZoneReconcileProofs ------------------------
(***************************************************************************)
(* Proofs about ZoneReconcile, for any servers, names, configurations and  *)
(* bounds: the types of its state, and ownership -- a server's calls, even *)
(* those that land late, only touch records it is entitled to, and the     *)
(* passes together implement OwnershipProtocol.                            *)
(***************************************************************************)
EXTENDS ZoneReconcile, WellFoundedInduction, TLAPS

\* If record i is still there it has the name and type of r.
Same(z, i, r) == z[i] \in Record => z[i].name = r.name /\ z[i].type = r.type

\* What a pass's locals have to do with each other: its configuration is one
\* the server loads, the host in hand is declared, and only listed records
\* are queued for deletion or dropped.
Coherent(s, p) ==
  /\ p \in PassState
  /\ p.pc # "idle" => p.conf \in Configs[s]
  /\ p.todo \subseteq DOMAIN p.conf.hosts
  /\ p.pc \in {"clear"} \cup Families => p.cur \in DOMAIN p.conf.hosts
  /\ p.queue \cup p.dropped \subseteq Listed(p)
  /\ p.pc \in {"idle", "lookup", "list"} => p.queue = {} /\ p.dropped = {}

\* The type invariant, strengthened to be inductive.
TypeInv == TypeOK /\ \A s \in Servers : Coherent(s, pass[s])

----------------------------------------------------------------------------
(* Helpers.                                                                *)

\* A configuration is a record of a partial function and a flag.
LEMMA ConfigShape ==
  ASSUME NEW conf \in Config
  PROVE  /\ DOMAIN conf.hosts \subseteq Names
         /\ \A n \in DOMAIN conf.hosts : conf.hosts[n] \in Decl
         /\ conf.prune \in BOOLEAN
BY DEF Config

LEMMA FreshTyped == Fresh \in PassState
<1>1. NoConfig \in Config
  <2>1. NoConfig.hosts \in [{} -> Decl]
    BY DEF NoConfig
  <2>2. {} \in SUBSET Names
    OBVIOUS
  <2> QED BY <2>1, <2>2 DEF NoConfig, Config
<1>2. [v4 |-> None, v6 |-> None] \in Detection
  BY DEF Detection
<1>3. [i \in Ids |-> Unborn] \in Zone
  BY DEF Zone
<1> QED BY <1>1, <1>2, <1>3 DEF Fresh, PassState, Families

LEMMA FreshCoherent ==
  ASSUME NEW s \in Servers
  PROVE  Coherent(s, Fresh)
BY FreshTyped DEF Coherent, Fresh, Families, Types, Listed

\* Returning keeps the types and leaves nothing queued.
LEMMA ReturnCoherent ==
  ASSUME NEW s \in Servers, NEW p, Coherent(s, p),
         NEW st \in {"none", "ok", "error"},
         NEW rep \in SUBSET (Names \X (Tunnels \cup {None}))
  PROVE  Coherent(s, Return(p, st, rep))
<1>1. Return(p, st, rep) \in PassState
  <2>1. p.conf \in Config /\ p.det \in Detection /\ p.noted \in SUBSET (Names \X Types)
    BY DEF Coherent, PassState
  <2>2. [Fresh EXCEPT !.conf = p.conf] \in PassState
    BY <2>1, FreshTyped DEF PassState
  <2> DEFINE q == [Fresh EXCEPT !.conf = p.conf, !.det = p.det, !.noted = p.noted]
  <2>3. q \in PassState
    BY <2>1, <2>2, FreshTyped DEF PassState
  <2>4. Return(p, st, rep) = [q EXCEPT !.report = rep, !.status = st]
    BY DEF Return, Fresh
  <2>5. [q EXCEPT !.report = rep, !.status = st] \in PassState
    <3> HIDE DEF q
    <3> QED BY <2>3 DEF PassState
  <2> QED BY <2>4, <2>5
<1>2. /\ Return(p, st, rep).pc = "idle"
      /\ Return(p, st, rep).todo = {}
      /\ Return(p, st, rep).queue = {}
      /\ Return(p, st, rep).dropped = {}
  BY DEF Return, Fresh
<1> QED BY <1>1, <1>2 DEF Coherent, Families, Types

\* A step that replaces one pass by a coherent one keeps all of them coherent.
LEMMA GotoCoherent ==
  ASSUME TypeInv, NEW s \in Servers, NEW p, Coherent(s, p), Goto(s, p)
  PROVE  /\ pass' \in [Servers -> PassState]
         /\ \A t \in Servers : Coherent(t, pass'[t])
BY DEF TypeInv, TypeOK, Goto, Coherent

\* There is a least one among numbers, which is all NewId needs.
LEMMA Least ==
  ASSUME NEW S \in SUBSET Nat, S # {}
  PROVE  \E n \in S : \A m \in S : n <= m
<1> DEFINE R == {ss \in Nat \X Nat : ss[1] < ss[2]}
<1>1. IsWellFoundedOn(R, Nat)
  BY NatLessThanWellFounded DEF OpToRel
<1>2. PICK n \in S : \A m \in S : ~ (<<m, n>> \in R)
  <2> HIDE DEF R
  <2> QED BY <1>1, WFMin
<1>3. ASSUME NEW m \in S
      PROVE  n <= m
  <2>1. n \in Nat /\ m \in Nat
    OBVIOUS
  <2>2. <<m, n>> \notin R
    BY <1>2
  <2>3. ~(m < n)
    BY <2>1, <2>2
  <2> QED BY <2>1, <2>3
<1> QED BY <1>3

\* A creation that is not refused finds an id nobody has had.
LEMMA NewIdFree ==
  ASSUME NEW r, Creatable(r)
  PROVE  NewId \in Ids /\ zone[NewId] = Unborn
<1> DEFINE S == {i \in Ids : zone[i] = Unborn}
<1>1. S # {} /\ S \in SUBSET Nat
  BY IdsOrdered DEF Creatable
<1>2. PICK n \in S : \A m \in S : n <= m
  <2> HIDE DEF S
  <2> QED BY <1>1, Least
<1>3. n \in Ids /\ zone[n] = Unborn /\ \A j \in Ids : zone[j] = Unborn => n <= j
  BY <1>2
<1> QED BY <1>3 DEF NewId

\* What a write does to the zone keeps it a zone.
LEMMA AppliedTyped ==
  ASSUME zone \in Zone, NEW c \in Call
  PROVE  Applied(c) \in Zone
<1>1. Creatable(c.rec) => NewId \in Ids
  BY NewIdFree
<1>2. c.id \in Ids /\ c.rec \in Record
  BY DEF Call
<1> QED BY <1>1, <1>2 DEF Applied, Zone

\* An API call keeps the invariant when both its continuations are coherent.
LEMMA WriteTyped ==
  ASSUME TypeInv, NEW s \in Servers, NEW c \in Call, NEW good, NEW bad,
         Coherent(s, good), Coherent(s, bad), Write(s, c, good, bad)
  PROVE  TypeInv'
<1>1. PICK p : Coherent(s, p) /\ Goto(s, p)
  BY DEF Write
<1>2. /\ pass' \in [Servers -> PassState]
      /\ \A t \in Servers : Coherent(t, pass'[t])
  BY <1>1, GotoCoherent
<1>3. zone' \in Zone
  BY AppliedTyped DEF Write, TypeInv, TypeOK
<1>4. late' \subseteq Call
  BY DEF Write, TypeInv, TypeOK
<1>5. intact' \subseteq Servers
  BY DEF Write, TypeInv, TypeOK
<1>6. used' \in [load : Nat, fault : Nat, edit : Nat]
  BY DEF Write, Fail, TypeInv, TypeOK
<1>7. \A t \in Servers : Coherent(t, pass[t])'
  BY <1>2 DEF Coherent, Listed
<1> QED BY <1>2, <1>3, <1>4, <1>5, <1>6, <1>7 DEF TypeInv, TypeOK

\* So does a step that calls nobody.
LEMMA LocalTyped ==
  ASSUME TypeInv, NEW s \in Servers, NEW p, Coherent(s, p), Local(s, p)
  PROVE  TypeInv'
<1>1. /\ pass' \in [Servers -> PassState]
      /\ \A t \in Servers : Coherent(t, pass'[t])
  BY GotoCoherent DEF Local
<1>2. \A t \in Servers : Coherent(t, pass[t])'
  BY <1>1 DEF Coherent, Listed
<1> QED BY <1>1, <1>2 DEF TypeInv, TypeOK, Local

\* The pass that reconciles a family moves on to AAAA or to the next host.
LEMMA AfterCoherent ==
  ASSUME NEW s \in Servers, NEW p, Coherent(s, p), p.pc \in Families
  PROVE  Coherent(s, After(p))
<1>1. p \in PassState /\ p.cur \in Names
  BY ConfigShape DEF Coherent, PassState
<1>2. CASE p.pc = "A" /\ Declared(p).ip6 # None
  <2> DEFINE q == [p EXCEPT !.pc = "AAAA", !.managed = @ \cup {<<p.cur, "AAAA">>}]
  <2>1. q \in PassState
    <3> DEFINE m == p.managed \cup {<<p.cur, "AAAA">>}
    <3>1. m \in SUBSET (Names \X Types)
      <4>1. p.managed \in SUBSET (Names \X Types)
        BY <1>1 DEF PassState
      <4> QED BY <1>1, <4>1 DEF Types
    <3> HIDE DEF m
    <3>2. [p EXCEPT !.pc = "AAAA", !.managed = m] \in PassState
      BY <1>1, <3>1 DEF PassState, Families, Types
    <3> QED BY <3>2 DEF m
  <2>2. After(p) = q
    BY <1>2 DEF After
  <2>3. /\ q.pc = "AAAA" /\ q.conf = p.conf /\ q.todo = p.todo /\ q.cur = p.cur
        /\ q.queue = p.queue /\ q.dropped = p.dropped /\ q.listed = p.listed
    BY <1>1 DEF PassState
  <2> HIDE DEF q
  <2> QED BY <2>1, <2>2, <2>3 DEF Coherent, Families, Types, Listed
<1>3. CASE ~(p.pc = "A" /\ Declared(p).ip6 # None)
  <2> DEFINE q == [p EXCEPT !.pc = "hosts"]
  <2>1. q \in PassState
    BY <1>1 DEF PassState
  <2>2. After(p) = q
    BY <1>3 DEF After
  <2>3. /\ q.pc = "hosts" /\ q.conf = p.conf /\ q.todo = p.todo
        /\ q.queue = p.queue /\ q.dropped = p.dropped /\ q.listed = p.listed
    BY <1>1 DEF PassState
  <2> HIDE DEF q
  <2> QED BY <2>1, <2>2, <2>3 DEF Coherent, Families, Types, Listed
<1> QED BY <1>2, <1>3

LEMMA NoteCoherent ==
  ASSUME NEW s \in Servers, NEW p, Coherent(s, p), p.pc \in Families
  PROVE  Coherent(s, Note(p)) /\ Note(p).pc \in Families
<1>1. p \in PassState /\ p.cur \in Names
  BY ConfigShape DEF Coherent, PassState
<1>2. Note(p) \in PassState
  BY <1>1 DEF Note, PassState, Families
<1>3. /\ Note(p).pc = p.pc /\ Note(p).conf = p.conf /\ Note(p).todo = p.todo
      /\ Note(p).cur = p.cur /\ Note(p).queue = p.queue
      /\ Note(p).dropped = p.dropped /\ Note(p).listed = p.listed
  BY <1>1 DEF Note, PassState
<1> QED BY <1>2, <1>3 DEF Coherent, Listed

\* The record a family wants is a record, once its content is known.
LEMMA DesiredTyped ==
  ASSUME NEW s \in Servers, NEW p, Coherent(s, p), p.pc \in Families, Available(p)
  PROVE  Desired(s, p, p.pc) \in Record
<1>1. /\ p.pc \in Types /\ p.conf \in Config /\ p.det \in Detection
      /\ p.cur \in DOMAIN p.conf.hosts
  BY DEF Coherent, PassState, Families
<1>2. Declared(p) \in Decl /\ p.cur \in Names
  BY <1>1, ConfigShape DEF Declared
<1>3. Effective(Declared(p), p.det, p.pc) \in Contents
  BY <1>1, <1>2 DEF Effective, Available, Decl, Detection, Contents, Types
<1>4. Proxied(Declared(p), p.pc, Effective(Declared(p), p.det, p.pc)) \in BOOLEAN
  BY <1>2 DEF Proxied, Decl
<1>5. Tag[s] \in Tags
  BY DEF Tags
<1> QED BY <1>1, <1>2, <1>3, <1>4, <1>5 DEF Desired, Record

\* Overwriting a listed record keeps its name and type and puts our tag on it.
LEMMA OverwrittenTyped ==
  ASSUME NEW r \in Record, NEW want \in Record
  PROVE  /\ Overwritten(r, want) \in Record
         /\ Overwritten(r, want).name = r.name
         /\ Overwritten(r, want).type = r.type
         /\ Overwritten(r, want).comment = want.comment
BY DEF Overwritten, Record

LEMMA KeptListed ==
  ASSUME NEW p, NEW i \in Kept(p)
  PROVE  i \in Ids /\ p.listed[i] \in Record
BY DEF Kept, Listed

\* What a family finds is a record that was listed, of its name and type.
LEMMA ExistingListed ==
  ASSUME NEW p, NEW i \in Existing(p)
  PROVE  /\ i \in Ids /\ i \in Listed(p) /\ p.listed[i] \in Record
         /\ p.listed[i].name = p.cur /\ p.listed[i].type = p.pc
         /\ p.pc = "CNAME" => i \notin p.dropped
BY DEF Existing, InByName, InKept, Kept, Listed

----------------------------------------------------------------------------
(* Type correctness, action by action.                                     *)

LEMMA StartTyped ==
  ASSUME TypeInv, NEW s \in Servers, Start(s)
  PROVE  TypeInv'
<1>1. PICK conf \in Configs[s], det \in Detections :
        Goto(s, [Fresh EXCEPT !.pc = "lookup", !.conf = conf, !.det = det])
  BY DEF Start
<1> DEFINE p == [Fresh EXCEPT !.pc = "lookup", !.conf = conf, !.det = det]
<1>2. p \in PassState
  BY FreshTyped, InputsTyped DEF PassState
<1>3. /\ p.pc = "lookup" /\ p.conf = conf /\ p.todo = {}
      /\ p.queue = {} /\ p.dropped = {}
  BY DEF Fresh
<1>4. Coherent(s, p)
  BY <1>2, <1>3 DEF Coherent, Families, Types
<1>5. /\ pass' \in [Servers -> PassState]
      /\ \A t \in Servers : Coherent(t, pass'[t])
  BY <1>1, <1>4, GotoCoherent
<1>6. \A t \in Servers : Coherent(t, pass[t])'
  BY <1>5 DEF Coherent, Listed
<1>7. used' \in [load : Nat, fault : Nat, edit : Nat]
  BY DEF Start, TypeInv, TypeOK
<1> QED BY <1>5, <1>6, <1>7 DEF TypeInv, TypeOK, Start

LEMMA LookupTyped ==
  ASSUME TypeInv, NEW s \in Servers, Lookup(s)
  PROVE  TypeInv'
<1> DEFINE p == pass[s]
           q == [p EXCEPT !.pc = "list"]
<1>1. Coherent(s, p) /\ p \in PassState /\ p.pc = "lookup"
  BY DEF TypeInv, Coherent, Lookup
<1>2. Coherent(s, q)
  <2>1. q \in PassState
    BY <1>1 DEF PassState
  <2>2. /\ q.pc = "list" /\ q.conf = p.conf /\ q.todo = p.todo
        /\ q.queue = p.queue /\ q.dropped = p.dropped /\ q.listed = p.listed
    BY <1>1 DEF PassState
  <2> HIDE DEF q
  <2> QED BY <1>1, <2>1, <2>2 DEF Coherent, Families, Types, Listed
<1>3. Coherent(s, Return(p, "error", {}))
  BY <1>1, ReturnCoherent
<1>4. PICK r : Coherent(s, r) /\ Goto(s, r)
  BY <1>2, <1>3 DEF Lookup
<1>5. /\ pass' \in [Servers -> PassState]
      /\ \A t \in Servers : Coherent(t, pass'[t])
  BY <1>4, GotoCoherent
<1>6. \A t \in Servers : Coherent(t, pass[t])'
  BY <1>5 DEF Coherent, Listed
<1>7. used' \in [load : Nat, fault : Nat, edit : Nat]
  BY DEF Lookup, Fail, TypeInv, TypeOK
<1> QED BY <1>5, <1>6, <1>7 DEF TypeInv, TypeOK, Lookup

\* What a page adds to a listing.
ReadPage(p) == [i \in Ids |-> IF i \in Page(p.page) THEN zone[i] ELSE p.listed[i]]

\* After a page that is not the last one, and after the last one.
NextPage(p) == [p EXCEPT !.listed = ReadPage(p), !.page = @ + 1]

LastPage(p) ==
  [p EXCEPT !.pc = "hosts", !.listed = ReadPage(p), !.page = 1, !.todo = DOMAIN p.conf.hosts]

\* What becomes of a pass that lists.
LEMMA ListShape ==
  ASSUME NEW s \in Servers, List(s), pass[s] \in PassState
  PROVE  \/ Goto(s, NextPage(pass[s]))
         \/ Goto(s, LastPage(pass[s]))
         \/ Goto(s, Return(pass[s], "error", {}))
<1> DEFINE p == pass[s]
           read == [p EXCEPT !.listed = [i \in Ids |-> IF i \in Page(p.page) THEN zone[i] ELSE @[i]]]
<1>1. \/ Goto(s, IF MorePages(p.page)
                 THEN [read EXCEPT !.page = @ + 1]
                 ELSE [read EXCEPT !.pc = "hosts", !.page = 1, !.todo = DOMAIN p.conf.hosts])
      \/ Goto(s, Return(p, "error", {}))
  BY DEF List
<1>2. read = [p EXCEPT !.listed = ReadPage(p)]
  BY DEF ReadPage, PassState
<1>3. /\ [read EXCEPT !.page = @ + 1] = NextPage(p)
      /\ [read EXCEPT !.pc = "hosts", !.page = 1, !.todo = DOMAIN p.conf.hosts] = LastPage(p)
  BY <1>2 DEF NextPage, LastPage, PassState
<1> QED BY <1>1, <1>3

LEMMA ListTyped ==
  ASSUME TypeInv, NEW s \in Servers, List(s)
  PROVE  TypeInv'
<1> DEFINE p == pass[s]
           q == LastPage(p)
           m == NextPage(p)
<1>1. Coherent(s, p) /\ p \in PassState /\ p.pc = "list"
  BY DEF TypeInv, Coherent, List
<1>2. ReadPage(p) \in Zone /\ DOMAIN p.conf.hosts \subseteq Names
  BY <1>1, ConfigShape DEF ReadPage, Zone, TypeInv, TypeOK, PassState
<1>last. Coherent(s, q)
  <2>2. q \in PassState
    BY <1>1, <1>2 DEF PassState, LastPage
  <2>3. /\ q.pc = "hosts" /\ q.conf = p.conf /\ q.todo = DOMAIN p.conf.hosts
        /\ q.queue = {} /\ q.dropped = {}
    BY <1>1 DEF PassState, Coherent, LastPage
  <2> HIDE DEF q
  <2> QED BY <1>1, <2>2, <2>3 DEF Coherent, Families, Types, Listed
<1>next. Coherent(s, m)
  <2>1. m \in PassState
    <3>1. p.page \in Nat
      BY <1>1 DEF PassState
    <3>2. p.page + 1 \in Nat
      BY <3>1
    <3> DEFINE n == p.page + 1
    <3>3. m = [p EXCEPT !.listed = ReadPage(p), !.page = n]
      BY DEF NextPage
    <3> HIDE DEF n, m
    <3>4. n \in Nat
      BY <3>2 DEF n
    <3> QED BY <1>1, <1>2, <3>3, <3>4 DEF PassState
  <2>2. /\ m.pc = "list" /\ m.conf = p.conf /\ m.todo = p.todo
        /\ m.queue = {} /\ m.dropped = {}
    BY <1>1 DEF PassState, Coherent, NextPage
  <2> HIDE DEF m
  <2> QED BY <1>1, <2>1, <2>2 DEF Coherent, Families, Types, Listed
<1>3. Coherent(s, Return(p, "error", {}))
  BY <1>1, ReturnCoherent
<1>4. PICK r : Coherent(s, r) /\ Goto(s, r)
  BY <1>1, <1>3, <1>last, <1>next, ListShape
<1>5. /\ pass' \in [Servers -> PassState]
      /\ \A t \in Servers : Coherent(t, pass'[t])
  BY <1>4, GotoCoherent
<1>6. \A t \in Servers : Coherent(t, pass[t])'
  BY <1>5 DEF Coherent, Listed
<1>7. used' \in [load : Nat, fault : Nat, edit : Nat]
  BY DEF List, Fail, TypeInv, TypeOK
<1>8. intact' \subseteq Servers
  BY DEF List, TypeInv, TypeOK
<1> QED BY <1>5, <1>6, <1>7, <1>8 DEF TypeInv, TypeOK, List

LEMMA NextHostTyped ==
  ASSUME TypeInv, NEW s \in Servers, NextHost(s)
  PROVE  TypeInv'
<1> DEFINE p == pass[s]
<1>1. Coherent(s, p) /\ p \in PassState /\ p.pc = "hosts"
  BY DEF TypeInv, Coherent, NextHost
<1>2. PICK n \in p.todo, mine \in SUBSET Kept(p), b \in BOOLEAN,
           marks \in SUBSET (Names \X Types) :
        Local(s, [p EXCEPT !.pc = "clear", !.todo = @ \ {n}, !.cur = n, !.queue = mine,
                           !.blocked = b, !.managed = @ \cup marks])
  <2>1. PICK n \in p.todo :
          LET d == p.conf.hosts[n]
              blockers == {i \in Kept(p) : /\ p.listed[i].name = n
                                           /\ p.listed[i].type \in Blocking(d)}
              mine == {i \in blockers : Owned(s, p.listed[i]) \/ d.force}
          IN  Local(s, [p EXCEPT
                !.pc = "clear", !.todo = @ \ {n}, !.cur = n, !.queue = mine,
                !.blocked = (mine # blockers),
                !.managed = @ \cup (IF d.tunnel # None THEN {<<n, "CNAME">>} ELSE {})])
    BY DEF NextHost
  <2> DEFINE d == p.conf.hosts[n]
             blockers == {i \in Kept(p) : /\ p.listed[i].name = n
                                          /\ p.listed[i].type \in Blocking(d)}
             mine == {i \in blockers : Owned(s, p.listed[i]) \/ d.force}
             marks == IF d.tunnel # None THEN {<<n, "CNAME">>} ELSE {}
  <2>2. mine \in SUBSET Kept(p) /\ (mine # blockers) \in BOOLEAN
    OBVIOUS
  <2>3. marks \in SUBSET (Names \X Types)
    BY <1>1 DEF Types, PassState
  <2> QED BY <2>1, <2>2, <2>3
<1>3. /\ n \in DOMAIN p.conf.hosts /\ n \in Names
      /\ p.todo \ {n} \subseteq DOMAIN p.conf.hosts
      /\ p.todo \ {n} \subseteq Names
  BY <1>1, <1>2, ConfigShape DEF Coherent, PassState
<1>4. mine \subseteq Listed(p) /\ mine \subseteq Ids
  BY <1>2, KeptListed DEF Listed
<1> DEFINE m == p.managed \cup marks
           left == p.todo \ {n}
           q == [p EXCEPT !.pc = "clear", !.todo = left, !.cur = n, !.queue = mine,
                          !.blocked = b, !.managed = m]
<1>5. m \in SUBSET (Names \X Types)
  <2>1. p.managed \in SUBSET (Names \X Types)
    BY <1>1 DEF PassState
  <2>2. marks \in SUBSET (Names \X Types)
    BY <1>2
  <2> QED BY <2>1, <2>2
<1>6. Coherent(s, q)
  <2> HIDE DEF m, left
  <2> DEFINE q1 == [p EXCEPT !.pc = "clear", !.todo = left, !.cur = n]
  <2>1. left \in SUBSET Names /\ left \subseteq DOMAIN p.conf.hosts
    BY <1>3 DEF left
  <2>2. q1 \in PassState
    BY <1>1, <1>3, <2>1 DEF PassState
  <2>3. q = [q1 EXCEPT !.queue = mine, !.blocked = b, !.managed = m]
    BY <1>1 DEF PassState
  <2>4. q \in PassState
    <3> HIDE DEF q1
    <3>1. [q1 EXCEPT !.queue = mine, !.blocked = b, !.managed = m] \in PassState
      BY <1>2, <1>4, <1>5, <2>2 DEF PassState
    <3> QED BY <2>3, <3>1
  <2>5. /\ q.pc = "clear" /\ q.conf = p.conf /\ q.todo = left /\ q.cur = n
        /\ q.queue = mine /\ q.dropped = p.dropped /\ q.listed = p.listed
    BY <1>1 DEF PassState
  <2> HIDE DEF q
  <2> QED BY <1>1, <1>3, <1>4, <2>1, <2>4, <2>5 DEF Coherent, Families, Types, Listed
<1> QED BY <1>2, <1>6, LocalTyped

LEMMA ClearDeleteTyped ==
  ASSUME TypeInv, NEW s \in Servers, ClearDelete(s)
  PROVE  TypeInv'
<1> DEFINE p == pass[s]
<1>1. Coherent(s, p) /\ p \in PassState /\ p.pc = "clear"
  BY DEF TypeInv, Coherent, ClearDelete
<1>2. PICK i \in p.queue :
        Write(s, Deletion(s, i, p.listed[i]),
              [[p EXCEPT !.queue = @ \ {i}] EXCEPT !.dropped = @ \cup {i}],
              [[p EXCEPT !.queue = @ \ {i}] EXCEPT !.blocked = TRUE])
  BY DEF ClearDelete
<1>3. i \in Ids /\ p.listed[i] \in Record /\ i \in Listed(p)
  BY <1>1, <1>2 DEF Coherent, Listed
<1>4. Deletion(s, i, p.listed[i]) \in Call
  BY <1>3 DEF Deletion, Call
<1> DEFINE rest == [p EXCEPT !.queue = @ \ {i}]
           good == [rest EXCEPT !.dropped = @ \cup {i}]
           bad == [rest EXCEPT !.blocked = TRUE]
<1>5. rest \in PassState
  BY <1>1 DEF PassState
<1>6. good \in PassState /\ bad \in PassState
  <2>1. rest.dropped \cup {i} \in SUBSET Ids
    BY <1>3, <1>5 DEF PassState
  <2> HIDE DEF rest
  <2> QED BY <1>5, <2>1 DEF PassState
<1>7. /\ good.pc = "clear" /\ good.conf = p.conf /\ good.todo = p.todo /\ good.cur = p.cur
      /\ good.queue = p.queue \ {i} /\ good.dropped = p.dropped \cup {i}
      /\ good.listed = p.listed
  BY <1>1 DEF PassState
<1>8. /\ bad.pc = "clear" /\ bad.conf = p.conf /\ bad.todo = p.todo /\ bad.cur = p.cur
      /\ bad.queue = p.queue \ {i} /\ bad.dropped = p.dropped
      /\ bad.listed = p.listed
  BY <1>1 DEF PassState
<1>9. Coherent(s, good) /\ Coherent(s, bad)
  <2> HIDE DEF good, bad
  <2> QED BY <1>1, <1>3, <1>6, <1>7, <1>8 DEF Coherent, Families, Types, Listed
<1> QED BY <1>2, <1>4, <1>9, WriteTyped

LEMMA ClearBlockedTyped ==
  ASSUME TypeInv, NEW s \in Servers, ClearBlocked(s)
  PROVE  TypeInv'
<1> DEFINE p == pass[s]
           told == p.noted \cup ({p.cur} \X ManagedTypes(Declared(p)))
           q == [p EXCEPT !.pc = "hosts", !.noted = told]
<1>1. /\ Coherent(s, p) /\ p \in PassState /\ p.pc = "clear"
      /\ Local(s, q)
  BY DEF TypeInv, Coherent, ClearBlocked
<1>2. told \in SUBSET (Names \X Types)
  <2>1. p.noted \in SUBSET (Names \X Types) /\ p.cur \in Names
    BY <1>1, ConfigShape DEF PassState, Coherent
  <2>2. ManagedTypes(Declared(p)) \subseteq Types
    BY DEF ManagedTypes, Types
  <2> QED BY <2>1, <2>2
<1>3. Coherent(s, q)
  <2> HIDE DEF told
  <2>1. q \in PassState
    BY <1>1, <1>2 DEF PassState
  <2>2. /\ q.pc = "hosts" /\ q.conf = p.conf /\ q.todo = p.todo
        /\ q.queue = p.queue /\ q.dropped = p.dropped /\ q.listed = p.listed
    BY <1>1 DEF PassState
  <2> HIDE DEF q
  <2> QED BY <1>1, <2>1, <2>2 DEF Coherent, Families, Types, Listed
<1> QED BY <1>1, <1>3, LocalTyped

\* The names cleared of a CNAME, with tunnels that are tunnels.
LEMMA TunnelOfTyped == \A r : TunnelOf(r) \in Tunnels \cup {None}
BY DEF TunnelOf

LEMMA ClearDoneTyped ==
  ASSUME TypeInv, NEW s \in Servers, ClearDone(s)
  PROVE  TypeInv'
<1> DEFINE p == pass[s]
<1>1. Coherent(s, p) /\ p \in PassState /\ p.pc = "clear" /\ p.cur \in Names
  BY ConfigShape DEF TypeInv, Coherent, ClearDone, PassState
<1>2. CASE Declared(p).tunnel # None
  <2> DEFINE q == [p EXCEPT !.pc = "CNAME"]
  <2>1. Local(s, q)
    BY <1>2 DEF ClearDone
  <2>2. q \in PassState
    BY <1>1 DEF PassState, Families, Types
  <2>3. /\ q.pc = "CNAME" /\ q.conf = p.conf /\ q.todo = p.todo /\ q.cur = p.cur
        /\ q.queue = p.queue /\ q.dropped = p.dropped /\ q.listed = p.listed
    BY <1>1 DEF PassState
  <2>4. Coherent(s, q)
    <3> HIDE DEF q
    <3> QED BY <1>1, <2>2, <2>3 DEF Coherent, Families, Types, Listed
  <2> QED BY <2>1, <2>4, LocalTyped
<1>3. CASE Declared(p).tunnel = None
  <2> DEFINE names == p.cleared \cup ClearedCNAMEs(p)
             m == p.managed \cup {<<p.cur, "A">>}
             q == [p EXCEPT !.pc = "A", !.cleared = names, !.managed = m]
  <2>1. Local(s, q)
    BY <1>3 DEF ClearDone
  <2>2. names \in SUBSET (Names \X (Tunnels \cup {None}))
    <3>1. p.cleared \in SUBSET (Names \X (Tunnels \cup {None}))
      BY <1>1 DEF PassState
    <3>2. ClearedCNAMEs(p) \in SUBSET (Names \X (Tunnels \cup {None}))
      BY <1>1, TunnelOfTyped DEF ClearedCNAMEs
    <3> QED BY <3>1, <3>2
  <2>3. m \in SUBSET (Names \X Types)
    <3>1. p.managed \in SUBSET (Names \X Types)
      BY <1>1 DEF PassState
    <3> QED BY <1>1, <3>1 DEF Types
  <2> HIDE DEF names, m
  <2>4. q \in PassState
    BY <1>1, <2>2, <2>3 DEF PassState, Families, Types
  <2>5. /\ q.pc = "A" /\ q.conf = p.conf /\ q.todo = p.todo /\ q.cur = p.cur
        /\ q.queue = p.queue /\ q.dropped = p.dropped /\ q.listed = p.listed
    BY <1>1 DEF PassState
  <2>6. Coherent(s, q)
    <3> HIDE DEF q
    <3> QED BY <1>1, <2>4, <2>5 DEF Coherent, Families, Types, Listed
  <2> QED BY <2>1, <2>6, LocalTyped
<1> QED BY <1>2, <1>3

\* The ways a family is left alone.
LEMMA FamilyLocalTyped ==
  ASSUME TypeInv, NEW s \in Servers, SkipUnavailable(s) \/ KeepInSync(s) \/ LeaveUntagged(s)
  PROVE  TypeInv'
<1> DEFINE p == pass[s]
<1>1. Coherent(s, p) /\ p.pc \in Families
  BY DEF TypeInv, SkipUnavailable, KeepInSync, LeaveUntagged, InFamily
<1>2. Coherent(s, After(p)) /\ Coherent(s, After(Note(p)))
  BY <1>1, AfterCoherent, NoteCoherent
<1>3. Local(s, After(p)) \/ Local(s, After(Note(p)))
  BY DEF SkipUnavailable, KeepInSync, LeaveUntagged
<1> QED BY <1>2, <1>3, LocalTyped

\* The ways a family is written.
LEMMA FamilyWriteTyped ==
  ASSUME TypeInv, NEW s \in Servers, UpdateOwned(s) \/ ForceAdopt(s) \/ Create(s)
  PROVE  TypeInv'
<1> DEFINE p == pass[s]
           want == Desired(s, p, p.pc)
<1>1. Coherent(s, p) /\ p.pc \in Families /\ Available(p)
  BY DEF TypeInv, UpdateOwned, ForceAdopt, Create, InFamily
<1>2. Coherent(s, After(p)) /\ Coherent(s, After(Note(p)))
  BY <1>1, AfterCoherent, NoteCoherent
<1>3. want \in Record
  BY <1>1, DesiredTyped
<1>4. \A i \in Existing(p) : Change(s, i, Overwritten(p.listed[i], want)) \in Call
  <2> TAKE i \in Existing(p)
  <2>1. i \in Ids /\ p.listed[i] \in Record
    BY ExistingListed
  <2>2. Overwritten(p.listed[i], want) \in Record
    BY <1>3, <2>1, OverwrittenTyped
  <2> QED BY <2>1, <2>2 DEF Change, Call
<1>5. Creation(s, want) \in Call
  <2>1. (CHOOSE i \in Ids : TRUE) \in Ids
    BY IdsOrdered
  <2> QED BY <1>3, <2>1 DEF Creation, Call
<1>6. PICK c \in Call : Write(s, c, After(p), After(Note(p)))
  BY <1>4, <1>5 DEF UpdateOwned, ForceAdopt, Create, OwnedOnes
<1> QED BY <1>2, <1>6, WriteTyped

LEMMA FinishTyped ==
  ASSUME TypeInv, NEW s \in Servers, FinishWithoutPrune(s) \/ FinishPrune(s)
  PROVE  TypeInv'
<1> DEFINE p == pass[s]
<1>1. Coherent(s, p) /\ p \in PassState
  BY DEF TypeInv, Coherent
<1>2. p.pruned \cup p.cleared \in SUBSET (Names \X (Tunnels \cup {None}))
  BY <1>1 DEF PassState
<1>3. Coherent(s, Return(p, "ok", {})) /\ Coherent(s, Return(p, "ok", p.pruned \cup p.cleared))
  BY <1>1, <1>2, ReturnCoherent
<1> QED BY <1>3, LocalTyped DEF FinishWithoutPrune, FinishPrune

LEMMA StartPruneTyped ==
  ASSUME TypeInv, NEW s \in Servers, StartPrune(s)
  PROVE  TypeInv'
<1> DEFINE p == pass[s]
           orphans == Orphans(s, p)
           q == [p EXCEPT !.pc = "prune", !.queue = orphans]
<1>1. /\ Coherent(s, p) /\ p \in PassState /\ p.pc = "hosts"
      /\ Local(s, q)
  BY DEF TypeInv, Coherent, StartPrune
<1>2. orphans \subseteq Listed(p) /\ orphans \subseteq Ids
  BY KeptListed DEF Orphans, Listed
<1>3. Coherent(s, q)
  <2> HIDE DEF orphans
  <2>1. q \in PassState
    BY <1>1, <1>2 DEF PassState
  <2>2. /\ q.pc = "prune" /\ q.conf = p.conf /\ q.todo = p.todo
        /\ q.queue = orphans /\ q.dropped = p.dropped /\ q.listed = p.listed
    BY <1>1 DEF PassState
  <2> HIDE DEF q
  <2> QED BY <1>1, <1>2, <2>1, <2>2 DEF Coherent, Families, Types, Listed
<1> QED BY <1>1, <1>3, LocalTyped

LEMMA PruneDeleteTyped ==
  ASSUME TypeInv, NEW s \in Servers, PruneDelete(s)
  PROVE  TypeInv'
<1> DEFINE p == pass[s]
<1>1. Coherent(s, p) /\ p \in PassState /\ p.pc = "prune"
  BY DEF TypeInv, Coherent, PruneDelete
<1>2. PICK i \in p.queue :
        Write(s, Deletion(s, i, p.listed[i]),
              [p EXCEPT !.queue = @ \ {i},
                        !.pruned = @ \cup {<<p.listed[i].name, TunnelOf(p.listed[i])>>}],
              Return(p, "error", p.pruned \cup p.cleared))
  BY DEF PruneDelete
<1>3. i \in Ids /\ p.listed[i] \in Record
  BY <1>1, <1>2 DEF Coherent, Listed
<1>4. Deletion(s, i, p.listed[i]) \in Call
  BY <1>3 DEF Deletion, Call
<1> DEFINE left == p.queue \ {i}
           gone == p.pruned \cup {<<p.listed[i].name, TunnelOf(p.listed[i])>>}
           q == [p EXCEPT !.queue = left, !.pruned = gone]
<1>5. gone \in SUBSET (Names \X (Tunnels \cup {None}))
  <2>1. p.listed[i].name \in Names
    BY <1>3 DEF Record
  <2>2. p.pruned \in SUBSET (Names \X (Tunnels \cup {None}))
    BY <1>1 DEF PassState
  <2> QED BY <2>1, <2>2, TunnelOfTyped
<1>6. left \subseteq Listed(p) /\ left \subseteq Ids
  BY <1>1 DEF Coherent, Listed
<1>7. Coherent(s, q)
  <2> HIDE DEF left, gone
  <2>1. q \in PassState
    BY <1>1, <1>5, <1>6 DEF PassState
  <2>2. /\ q.pc = "prune" /\ q.conf = p.conf /\ q.todo = p.todo
        /\ q.queue = left /\ q.dropped = p.dropped /\ q.listed = p.listed
    BY <1>1 DEF PassState
  <2> HIDE DEF q
  <2> QED BY <1>1, <1>6, <2>1, <2>2 DEF Coherent, Families, Types, Listed
<1>8. Coherent(s, Return(p, "error", p.pruned \cup p.cleared))
  <2>1. p.pruned \cup p.cleared \in SUBSET (Names \X (Tunnels \cup {None}))
    BY <1>1 DEF PassState
  <2> QED BY <1>1, <2>1, ReturnCoherent
<1> QED BY <1>2, <1>4, <1>7, <1>8, WriteTyped

LEMMA CrashTyped ==
  ASSUME TypeInv, NEW s \in Servers, Crash(s)
  PROVE  TypeInv'
<1>1. /\ pass' \in [Servers -> PassState]
      /\ \A t \in Servers : Coherent(t, pass'[t])
  BY FreshCoherent, GotoCoherent DEF Crash
<1>2. \A t \in Servers : Coherent(t, pass[t])'
  BY <1>1 DEF Coherent, Listed
<1>3. used' \in [load : Nat, fault : Nat, edit : Nat]
  BY DEF Crash, Fail, TypeInv, TypeOK
<1> QED BY <1>1, <1>2, <1>3 DEF TypeInv, TypeOK, Crash

\* Steps that leave every pass where it is keep the passes coherent.
LEMMA SamePassesCoherent ==
  ASSUME TypeInv, UNCHANGED pass
  PROVE  \A t \in Servers : Coherent(t, pass[t])'
BY DEF TypeInv, Coherent, Listed

LEMMA DeliverTyped ==
  ASSUME TypeInv, NEW c \in late, Deliver(c)
  PROVE  TypeInv'
<1>1. zone' \in Zone
  BY AppliedTyped DEF Deliver, TypeInv, TypeOK
<1>2. intact' \subseteq Servers /\ late' \subseteq Call
  BY DEF Deliver, TypeInv, TypeOK
<1> QED BY <1>1, <1>2, SamePassesCoherent DEF TypeInv, TypeOK, Deliver

LEMMA DashboardTyped ==
  ASSUME TypeInv, Dashboard
  PROVE  TypeInv'
<1>1. zone' \in Zone
  <2>1. CASE \E i \in Ids : Live(i) /\ zone' = [zone EXCEPT ![i] = Deleted]
    BY <2>1 DEF TypeInv, TypeOK, Zone
  <2>2. CASE \E i \in Ids, v \in V4 : Live(i) /\ zone' = [zone EXCEPT ![i].content = v]
    <3>1. PICK i \in Ids, v \in V4 : Live(i) /\ zone' = [zone EXCEPT ![i].content = v]
      BY <2>2
    <3>2. [zone[i] EXCEPT !.content = v] \in Record
      BY <3>1 DEF Live, Record, Contents
    <3> QED BY <3>1, <3>2 DEF TypeInv, TypeOK, Zone
  <2>3. CASE \E n \in Names, v \in V4 :
               LET r == [name |-> n, type |-> "A", content |-> v,
                         proxied |-> FALSE, comment |-> NoTag]
               IN  Creatable(r) /\ zone' = [zone EXCEPT ![NewId] = r]
    <3>1. \A n \in Names, v \in V4 :
            [name |-> n, type |-> "A", content |-> v,
             proxied |-> FALSE, comment |-> NoTag] \in Record
      BY DEF Record, Types, Contents
    <3> QED BY <2>3, <3>1 DEF TypeInv, TypeOK, Zone
  <2> QED BY <2>1, <2>2, <2>3 DEF Dashboard
<1>2. used' \in [load : Nat, fault : Nat, edit : Nat]
  BY DEF Dashboard, TypeInv, TypeOK
<1> QED BY <1>1, <1>2, SamePassesCoherent DEF TypeInv, TypeOK, Dashboard

----------------------------------------------------------------------------

LEMMA InitTyped ==
  ASSUME Init
  PROVE  TypeInv
<1>1. \A s \in Servers : pass[s] = Fresh
  BY DEF Init
<1>2. \A s \in Servers : Coherent(s, pass[s])
  BY <1>1, FreshCoherent
<1>3. pass \in [Servers -> PassState]
  BY <1>1, FreshTyped DEF Init
<1> QED BY <1>2, <1>3, InputsTyped DEF Init, TypeInv, TypeOK

LEMMA NextTyped ==
  ASSUME TypeInv, [Next]_vars
  PROVE  TypeInv'
<1>1. ASSUME NEW s \in Servers, ServerStep(s)
      PROVE  TypeInv'
  BY <1>1, StartTyped, LookupTyped, ListTyped, NextHostTyped, ClearDeleteTyped,
     ClearBlockedTyped, ClearDoneTyped, FamilyLocalTyped, FamilyWriteTyped,
     FinishTyped, StartPruneTyped, PruneDeleteTyped, CrashTyped
     DEF ServerStep, Advance
<1>2. CASE UNCHANGED vars
  BY <1>2, SamePassesCoherent DEF vars, TypeInv, TypeOK
<1> QED BY <1>1, <1>2, DeliverTyped, DashboardTyped DEF Next

\* The state of every pass and of the zone keeps its type, whatever the servers
\* load and however their calls fail (reconcileZone's locals, cfDNSRecord).
THEOREM TypeCorrect == Spec => []TypeOK
<1>1. Init => TypeInv
  BY InitTyped
<1>2. TypeInv /\ [Next]_vars => TypeInv'
  BY NextTyped
<1>3. TypeInv => TypeOK
  BY DEF TypeInv
<1> QED BY <1>1, <1>2, <1>3, PTL DEF Spec

=============================================================================
