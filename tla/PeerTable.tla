----------------------------- MODULE PeerTable -----------------------------
(***************************************************************************)
(* The rules by which a vault's table of sync peers is changed              *)
(* (sync/peers.ts).  A table has an entry, or NoPeer, for every identity    *)
(* id.  Addresses, dates and the spelling of names are left out.            *)
(***************************************************************************)
EXTENDS Naturals

CONSTANTS
  Id, NoId,     \* identity ids; NoId: the vault has no identity
  PubKey,       \* public keys
  PeerName,     \* names a peer can be given
  NoPeer

ASSUME PeerTableAssumption == NoId \notin Id

Role   == {"source", "receiver"}
Entry  == [name : PeerName, ed : PubKey, x : PubKey, role : Role]
Tables == [Id -> Entry \cup {NoPeer}]

\* A candidate, what a peer presents with the name and role it is to have here, has
\* an id, too; an identity of one's own is [id, ed, x].

oppositeRole(r) == IF r = "source" THEN "receiver" ELSE "source"

\* resolveRoles(): the connector has the opposite role of the listener, and may
\* only have asked ("any": it has not) for that one.
RolesAgree(listener, asked) == asked \in {"any", oppositeRole(listener)}

Paired(peers) == {i \in Id : peers[i] # NoPeer}

ShowsOwn(own, cand) == own.id # NoId /\ (cand.id = own.id \/ cand.ed = own.ed \/ cand.x = own.x)

OtherKeys(peers, cand) ==
  /\ peers[cand.id] # NoPeer
  /\ peers[cand.id].ed # cand.ed \/ peers[cand.id].x # cand.x

\* A slip: a role that has changed is not looked at.
AnyRole(peers, cand) == FALSE
OtherRole(peers, cand) == peers[cand.id] # NoPeer /\ peers[cand.id].role # cand.role

OtherId(peers, cand) == \E i \in Paired(peers) \ {cand.id} : peers[i].ed = cand.ed

\* A known peer keeps its name unless a name is asked for.
NameFor(peers, cand, explicit) ==
  IF peers[cand.id] # NoPeer /\ ~explicit THEN peers[cand.id].name ELSE cand.name

Clash(peers, cand, explicit) ==
  {i \in Paired(peers) \ {cand.id} : peers[i].name = NameFor(peers, cand, explicit)}

\* planPeerUpsert(): whether the candidate is let in, and the table with it.
Accepts(own, peers, cand, replace, explicit) ==
  /\ ~ShowsOwn(own, cand)
  /\ ~OtherKeys(peers, cand) /\ ~OtherRole(peers, cand) /\ ~OtherId(peers, cand)
  /\ replace \/ Clash(peers, cand, explicit) = {}

\* A slip: the entry that is replaced stays.
UpsertBeside(peers, cand, explicit) ==
  [peers EXCEPT ![cand.id] =
     [name |-> NameFor(peers, cand, explicit), ed |-> cand.ed, x |-> cand.x, role |-> cand.role]]

\* (find() names one entry of a clash; names being unique there is no other.)
Upsert(peers, cand, explicit) ==
  [i \in Id |->
    IF i = cand.id
      THEN IF peers[i] # NoPeer THEN [peers[i] EXCEPT !.name = NameFor(peers, cand, explicit)]
           ELSE [name |-> NameFor(peers, cand, explicit), ed |-> cand.ed, x |-> cand.x, role |-> cand.role]
    ELSE IF i \in Clash(peers, cand, explicit) THEN NoPeer
    ELSE peers[i]]

removePeer(peers, id) == [peers EXCEPT ![id] = NoPeer]

\* A name finds one peer, a key belongs to one peer, and none of them is the vault
\* itself.
TableOK(own, peers) ==
  /\ \A i, j \in Paired(peers) :
       i # j => peers[i].name # peers[j].name /\ peers[i].ed # peers[j].ed
  /\ own.id # NoId => \A i \in Paired(peers) :
       i # own.id /\ peers[i].ed # own.ed /\ peers[i].x # own.x
=============================================================================
