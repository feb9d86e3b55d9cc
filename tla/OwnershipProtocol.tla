------------------------- MODULE OwnershipProtocol -------------------------
(***************************************************************************)
(* What record ownership promises (docs/multiple-servers.md, rule 1), with *)
(* no passes, listings or calls: servers that share a zone create records  *)
(* under their own tag, change and remove only what is theirs, and turn an *)
(* untagged record into theirs only at the names they are told to adopt.   *)
(* The operator's steps are counted, so that no server's step passes for   *)
(* one of them.  ZoneReconcile implements this.                            *)
(***************************************************************************)
EXTENDS Naturals

CONSTANTS Servers, Tag, NoTag, Names, Types, Contents, Ids, Unborn, Deleted,
          MayAdopt,   \* MayAdopt[s]: the names server s is told to adopt
          InitZones

Record == [name : Names, type : Types, content : Contents, proxied : BOOLEAN,
           comment : {Tag[s] : s \in Servers} \cup {NoTag}]

VARIABLES
  zone,
  edits   \* how many steps the operator has taken

vars == <<zone, edits>>

Live(i) == zone[i] \in Record

Entitled(s, r) == r.comment = Tag[s] \/ (r.comment = NoTag /\ r.name \in MayAdopt[s])

\* A record is born under the tag of the server that creates it.
Create(s, i) ==
  /\ zone[i] = Unborn
  /\ \E n \in Names, ty \in Types, content \in Contents, proxied \in BOOLEAN :
       zone' = [zone EXCEPT ![i] = [name |-> n, type |-> ty, content |-> content,
                                    proxied |-> proxied, comment |-> Tag[s]]]
  /\ UNCHANGED edits

\* Content and proxy mode change; name and type never do.
Rewrite(s, i) ==
  /\ Live(i)
  /\ Entitled(s, zone[i])
  /\ \E content \in Contents, proxied \in BOOLEAN :
       zone' = [zone EXCEPT ![i] = [zone[i] EXCEPT !.content = content,
                                    !.proxied = proxied, !.comment = Tag[s]]]
  /\ UNCHANGED edits

Remove(s, i) ==
  /\ Live(i)
  /\ Entitled(s, zone[i])
  /\ zone' = [zone EXCEPT ![i] = Deleted]
  /\ UNCHANGED edits

\* The operator may do anything to records except edit their comments.
OperatorRemoves(i) ==
  /\ Live(i)
  /\ zone' = [zone EXCEPT ![i] = Deleted]
  /\ edits' = edits + 1

OperatorRepoints(i) ==
  /\ Live(i)
  /\ \E content \in Contents : zone' = [zone EXCEPT ![i].content = content]
  /\ edits' = edits + 1

OperatorAdds(i) ==
  /\ zone[i] = Unborn
  /\ \E n \in Names, ty \in Types, content \in Contents, proxied \in BOOLEAN :
       zone' = [zone EXCEPT ![i] = [name |-> n, type |-> ty, content |-> content,
                                    proxied |-> proxied, comment |-> NoTag]]
  /\ edits' = edits + 1

Init == zone \in InitZones /\ edits = 0

Next ==
  \E i \in Ids :
    \/ \E s \in Servers : Create(s, i) \/ Rewrite(s, i) \/ Remove(s, i)
    \/ OperatorRemoves(i) \/ OperatorRepoints(i) \/ OperatorAdds(i)

Spec == Init /\ [][Next]_vars

=============================================================================
