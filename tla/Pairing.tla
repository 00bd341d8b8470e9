------------------------------ MODULE Pairing ------------------------------
(***************************************************************************)
(* `abra sync pair` between machines (sync/pair.ts), beside the other       *)
(* commands that change a vault's identity and peers (commands/sync.ts).    *)
(*                                                                         *)
(* A machine runs one pairing at a time, as listener or as connector, and   *)
(* one other command.  A session is one connection: frames to a side are    *)
(* kept for it, stay readable after the sender has closed, and are lost     *)
(* when the connection breaks.  Keys are named by the identity's id;        *)
(* transcripts, signatures and the safety code are taken to do their work.  *)
(***************************************************************************)
EXTENDS PeerTable, Sequences, FiniteSets

CONSTANTS
  Machine,
  Listener,    \* the machines where a listener is started
  HostName,    \* what each machine's hostname becomes as a peer's name
  NoName,      \* no --name
  Vaults0,     \* what a listener's vault may have from earlier pairings
  Stranger,    \* the identities of the machines it has as peers then
  Listens,     \* [role, name, replace] as a listener is started
  Connects,    \* and a connector, whose role may be "any"
  MaxSession, MaxIdentity, MaxOwned, MaxEvent,   \* bounds of the model
  PIN_MAX_FAILURES,
  Alone        \* does nobody save a vault between another's last look and its save

ASSUME PairingAssumption ==
  /\ Machine # {} /\ Listener \subseteq Machine
  /\ HostName \in [Machine -> PeerName] /\ NoName \notin PeerName
  /\ Listens  \subseteq [role : Role, name : PeerName \cup {NoName}, replace : BOOLEAN]
  /\ Connects \subseteq [role : Role \cup {"any"}, name : PeerName \cup {NoName}, replace : BOOLEAN]
  /\ MaxSession \in Nat /\ MaxIdentity \in Nat /\ MaxOwned \in 0..MaxIdentity /\ MaxEvent \in Nat
  /\ PIN_MAX_FAILURES \in Nat \ {0}
  /\ Id = 1..MaxIdentity /\ NoId = 0 /\ PubKey = Id
  /\ Stranger \subseteq (MaxOwned + 1)..MaxIdentity
  /\ Vaults0 \subseteq [own : 0..MaxOwned, peers : Tables]
  /\ \A v \in Vaults0 : \A i \in Paired(v.peers) :
       /\ i \in Stranger /\ v.peers[i].ed = i /\ v.peers[i].x = i
       /\ \A j \in Paired(v.peers) \ {i} : v.peers[j].name # v.peers[i].name
  /\ Alone \in BOOLEAN

Connection == 1..MaxSession
Side    == {"listener", "connector"}
Other(d) == IF d = "listener" THEN "connector" ELSE "listener"

VARIABLES
  vaults,    \* each machine's saved identity and peers
  cmd,       \* its pairing command
  edit,      \* its whoami or unpair
  link,      \* the connections made so far
  minted,    \* the identity generated last
  events     \* and how many edits and broken connections the model has had
pairVars == <<vaults, cmd, edit, link, minted, events>>

NewVault == [own |-> NoId, peers |-> [i \in Id |-> NoPeer]]

NoCmd  == [at |-> "idle", side |-> "listener", opts |-> [role |-> "any", name |-> NoName, replace |-> FALSE],
           id |-> NoId, created |-> FALSE, seen |-> NewVault.peers, fails |-> 0,
           s |-> 0, peer |-> NoPeer, base |-> NewVault]
NoEdit == [at |-> "idle", kind |-> "whoami", id |-> NoId, base |-> NewVault]

(***************************************************************************)
(* A connection.  h: what the listener's handler does with it; to: the      *)
(* frames on their way to each side; shut: the sides that have closed it;   *)
(* yes, wrote, told: which people confirmed, which sides saved, and which   *)
(* were told that the other has; broken: has any side given up.             *)
(***************************************************************************)
NoLink == [l |-> CHOOSE m \in Machine : TRUE, c |-> CHOOSE m \in Machine : TRUE, h |-> "none",
           to |-> [d \in Side |-> <<>>], shut |-> {}, yes |-> {}, wrote |-> {}, told |-> {},
           broken |-> FALSE]

\* No two machines have the same identity.
PairInit ==
  /\ vaults \in {v \in [Machine -> Vaults0 \cup {NewVault}] :
       /\ \A m \in Machine \ Listener : v[m] = NewVault
       /\ \A m, n \in Machine : m # n /\ v[m].own # NoId => v[m].own # v[n].own}
  /\ cmd = [m \in Machine |-> NoCmd] /\ edit = [m \in Machine |-> NoEdit]
  /\ link = [s \in Connection |-> NoLink]
  /\ minted = MaxOwned /\ events = 0

Ident(i) == [id |-> i, ed |-> i, x |-> i]

(***************************************************************************)
(* Connections.                                                             *)
(***************************************************************************)
\* send() to the other side, close() and both; nothing is sent once this side is closed.
\* (What is sent to a closed side is not read.)
Send(k, d, f) == IF k.shut # {} THEN k ELSE [k EXCEPT !.to[Other(d)] = Append(@, f)]
Shut(k, d)    == [k EXCEPT !.shut = @ \cup {d}, !.to[d] = <<>>,
                           !.h = IF d = "listener" THEN "over" ELSE @]
Refuse(k, d)  == Shut([Send(k, d, [t |-> "error"]) EXCEPT !.broken = TRUE], d)

\* The side the machine's command has, its link, and what it reads next.
Mine(m)     == link[cmd[m].s]
HasFrame(m) == cmd[m].s # 0 /\ Mine(m).to[cmd[m].side] # <<>>
Next_(m)    == Head(Mine(m).to[cmd[m].side])
Took(m)     == [Mine(m) EXCEPT !.to[cmd[m].side] = Tail(@)]

Stands(m, at) == cmd[m].at = at
Goto(m, at) == cmd' = [cmd EXCEPT ![m].at = at]

\* The command's link becomes k, and the command goes on.
Step(m, at, k) == Goto(m, at) /\ link' = [link EXCEPT ![cmd[m].s] = k]

\* The process is over: every connection of it is closed, session s as k.  A
\* listener's other connections are those whose handlers still wait.
OverIn(m, s, k) ==
  /\ cmd' = [cmd EXCEPT ![m] = NoCmd]
  /\ link' = [r \in Connection |->
       IF r = s THEN Shut(k, cmd[m].side)
       ELSE IF cmd[m].side = "listener" /\ link[r].l = m /\ link[r].h = "hello"
         THEN Shut(link[r], "listener")
       ELSE link[r]]
Over(m, k) == OverIn(m, cmd[m].s, k)

Broke(k) == [k EXCEPT !.broken = TRUE]

(***************************************************************************)
(* Starting: approval, then the vault is loaded, then an identity made for  *)
(* the session where the vault has none; it is not saved yet.               *)
(***************************************************************************)
Enter(m, side, at, o) ==
  /\ Stands(m, "idle")
  /\ LET new == vaults[m].own = NoId IN
       /\ new => minted + 1 \in Id \ Stranger
       /\ minted' = IF new THEN minted + 1 ELSE minted
       /\ cmd' = [cmd EXCEPT ![m] = [NoCmd EXCEPT !.at = at, !.side = side, !.opts = o, !.created = new,
                    !.id = IF new THEN minted + 1 ELSE vaults[m].own, !.seen = vaults[m].peers]]
  /\ UNCHANGED <<vaults, edit, link, events>>

Listen(m, o) == o \in Listens  /\ Enter(m, "listener", "listening", o)
Ready(m, o)  == o \in Connects /\ Enter(m, "connector", "ready", o)

Unused == {s \in Connection : link[s].h = "none"}

ownHello(m, pin) ==
  [t |-> "hello", pin |-> pin, id |-> cmd[m].id, name |-> HostName[m], role |-> cmd[m].opts.role]
parseHello(f) == f.t = "hello"

\* pairConnect(): a connection to a listener that still listens, and the hello on it.
Dial(m, l, pin) ==
  /\ Stands(m, "ready") /\ Stands(l, "listening")
  /\ \E s \in Unused :
       /\ \A r \in Unused : s <= r
       /\ link' = [link EXCEPT ![s] = [NoLink EXCEPT !.l = l, !.c = m, !.h = "hello",
                                         !.to["listener"] = <<ownHello(m, pin)>>]]
       /\ cmd' = [cmd EXCEPT ![m].at = "hello", ![m].s = s]
  /\ UNCHANGED <<vaults, edit, minted, events>>

\* The peer as this vault is to have it, and whether precheckPlan lets it in.
PeerFrom(m, f, role) ==
  [id |-> f.id, ed |-> f.id, x |-> f.id, role |-> role,
   name |-> IF cmd[m].opts.name = NoName THEN f.name ELSE cmd[m].opts.name]
Explicit(m) == cmd[m].opts.name # NoName

Prechecked(m, cand) == Accepts(Ident(cmd[m].id), cmd[m].seen, cand, cmd[m].opts.replace, Explicit(m))

\* The listener's handler has the first frame of connection s.  A listener that is
\* busy by then turns it away.
\* (A slip: not looked at again after the wait.)
StillBusy(l) == Stands(l, "idle")
Busy(l) == ~Stands(l, "listening")

RightPin(f) == parseHello(f) /\ f.pin

TakeHello(l, s) ==
  LET k == [link[s] EXCEPT !.to["listener"] = <<>>]
      f == Head(link[s].to["listener"])
      role == cmd[l].opts.role
      cand == PeerFrom(l, f, oppositeRole(role))
  IN
  /\ link[s].l = l /\ link[s].h = "hello" /\ link[s].to["listener"] # <<>>
  /\ \/ /\ Busy(l)
        /\ link' = [link EXCEPT ![s] = Refuse(k, "listener")]
        /\ UNCHANGED cmd
     \/ /\ ~Busy(l) /\ ~RightPin(f)
        /\ IF cmd[l].fails + 1 < PIN_MAX_FAILURES
             THEN /\ cmd' = [cmd EXCEPT ![l].fails = @ + 1]
                  /\ link' = [link EXCEPT ![s] = Refuse(k, "listener")]
             ELSE OverIn(l, s, Refuse(k, "listener"))
     \/ /\ ~Busy(l) /\ RightPin(f)
        /\ IF RolesAgree(role, f.role) /\ Prechecked(l, cand)
             THEN /\ cmd' = [cmd EXCEPT ![l].at = "sig", ![l].s = s, ![l].peer = cand]
                  /\ link' = [link EXCEPT ![s] = [Send(k, "listener", ownHello(l, TRUE)) EXCEPT !.h = "in"]]
             ELSE OverIn(l, s, Refuse(k, "listener"))
  /\ UNCHANGED <<vaults, edit, minted, events>>

\* connectorSession(): the listener's hello, checked like the connector's was.
TakeReply(m) ==
  LET f == Next_(m)
      cand == PeerFrom(m, f, f.role) IN
  /\ Stands(m, "hello") /\ HasFrame(m)
  /\ IF ~parseHello(f) THEN Over(m, Broke(Took(m)))
     ELSE IF RolesAgree(f.role, cmd[m].opts.role) /\ Prechecked(m, cand)
       THEN /\ cmd' = [cmd EXCEPT ![m].at = "code", ![m].peer = cand]
            /\ link' = [link EXCEPT ![cmd[m].s] = Send(Took(m), "connector", [t |-> "sig"])]
     ELSE Over(m, Refuse(Took(m), "connector"))
  /\ UNCHANGED <<vaults, edit, minted, events>>

TakeSig(m) ==
  /\ Stands(m, "sig") /\ HasFrame(m)
  /\ IF Next_(m).t = "sig" THEN Step(m, "code", Took(m)) ELSE Over(m, Broke(Took(m)))
  /\ UNCHANGED <<vaults, edit, minted, events>>

(***************************************************************************)
(* confirmAndSave(): both sides run it.                                     *)
(***************************************************************************)
\* A slip: the answer is only sent when it is no.
CompareQuietly(m, ok) ==
  /\ Stands(m, "code")
  /\ IF ok THEN Step(m, "confirm", [Mine(m) EXCEPT !.yes = @ \cup {cmd[m].side}])
     ELSE Over(m, Broke(Send(Mine(m), cmd[m].side, [t |-> "confirm", ok |-> FALSE])))
  /\ UNCHANGED <<vaults, edit, minted, events>>

\* The person compares the code and answers; no terminal counts as no.
Compare(m, ok) ==
  LET k == Send(Mine(m), cmd[m].side, [t |-> "confirm", ok |-> ok]) IN
  /\ Stands(m, "code")
  /\ IF ok THEN Step(m, "confirm", [k EXCEPT !.yes = @ \cup {cmd[m].side}]) ELSE Over(m, Broke(k))
  /\ UNCHANGED <<vaults, edit, minted, events>>

\* A slip: any answer will do.
Answers(f)  == f.t = "confirm"
Confirms(f) == f.t = "confirm" /\ f.ok

TakeConfirm(m) ==
  /\ Stands(m, "confirm") /\ HasFrame(m)
  /\ IF Confirms(Next_(m)) THEN Step(m, "reread", Took(m)) ELSE Over(m, Broke(Took(m)))
  /\ UNCHANGED <<vaults, edit, minted, events>>

Writing(m)  == cmd[m].at = "save" \/ edit[m].at = "save"
MayWrite(m) == Alone => ~Writing(m)

\* A slip: only an identity that was there is compared.
SameIfLoaded(m) == cmd[m].created \/ vaults[m].own = cmd[m].id
\* An identity made for this session is saved only where there still is none.
SameIdentity(m) == IF cmd[m].created THEN vaults[m].own = NoId ELSE vaults[m].own = cmd[m].id

Reread(m) ==
  LET cand == cmd[m].peer
      ok == SameIdentity(m)
            /\ Accepts(Ident(cmd[m].id), vaults[m].peers, cand, cmd[m].opts.replace, Explicit(m))
  IN
  /\ Stands(m, "reread") /\ MayWrite(m)
  /\ IF ok
       THEN /\ cmd' = [cmd EXCEPT ![m].at = "save",
                 ![m].base = [own |-> cmd[m].id, peers |-> Upsert(vaults[m].peers, cand, Explicit(m))]]
            /\ UNCHANGED link
       ELSE Over(m, Broke(Send(Mine(m), cmd[m].side, [t |-> "saved", ok |-> FALSE])))
  /\ UNCHANGED <<vaults, edit, minted, events>>

SavePeer(m) ==
  LET k == Send(Mine(m), cmd[m].side, [t |-> "saved", ok |-> TRUE]) IN
  /\ Stands(m, "save")
  /\ vaults' = [vaults EXCEPT ![m] = cmd[m].base]
  /\ cmd' = [cmd EXCEPT ![m].at = "ack", ![m].base = NewVault]
  /\ link' = [link EXCEPT ![cmd[m].s] = [k EXCEPT !.wrote = @ \cup {cmd[m].side}]]
  /\ UNCHANGED <<edit, minted, events>>

SaveFails(m) ==
  /\ Stands(m, "save")
  /\ Over(m, Broke(Send(Mine(m), cmd[m].side, [t |-> "saved", ok |-> FALSE])))
  /\ UNCHANGED <<vaults, edit, minted, events>>

\* The result says peerSaved only for this frame.
PeerSaved(f) == f.t = "saved" /\ f.ok

TakeAck(m) ==
  /\ Stands(m, "ack") /\ HasFrame(m)
  /\ Over(m, [Took(m) EXCEPT !.told = IF PeerSaved(Next_(m)) THEN @ \cup {cmd[m].side} ELSE @])
  /\ UNCHANGED <<vaults, edit, minted, events>>

\* A wait times out or finds the connection closed, the listener's time is up, a
\* person or the process gives up.
GiveUp(m) ==
  /\ ~Stands(m, "idle")
  /\ Over(m, IF cmd[m].s = 0 THEN NoLink ELSE Broke(Mine(m)))
  /\ UNCHANGED <<vaults, edit, minted, events>>

\* A handler that waits for a hello times out.
HelloTimeout(s) ==
  /\ link[s].h = "hello"
  /\ link' = [link EXCEPT ![s] = Shut(Broke(@), "listener")]
  /\ UNCHANGED <<vaults, cmd, edit, minted, events>>

\* The connection breaks, with some of the frames still on their way.
Lose(s) ==
  LET k == Broke(link[s]) IN
  /\ events < MaxEvent /\ link[s].h # "none" /\ link[s].shut # Side
  /\ events' = events + 1
  /\ \E n \in [Side -> 0..1] :
       link' = [link EXCEPT ![s] = [k EXCEPT !.shut = Side,
                  !.h = IF @ = "hello" THEN "over" ELSE @,
                  !.to = [d \in Side |-> IF n[d] < Len(k.to[d]) THEN SubSeq(k.to[d], 1, n[d]) ELSE k.to[d]]]]
  /\ UNCHANGED <<vaults, cmd, edit, minted>>

(***************************************************************************)
(* Beside the pairing: `abra sync whoami` and `abra sync unpair`.           *)
(***************************************************************************)
WhoAmI(m) ==
  /\ edit[m].at = "idle" /\ vaults[m].own = NoId /\ events < MaxEvent
  /\ events' = events + 1
  /\ edit' = [edit EXCEPT ![m].at = "ask", ![m].kind = "whoami"]
  /\ UNCHANGED <<vaults, cmd, link, minted>>

Unpair(m, i) ==
  /\ edit[m].at = "idle" /\ i \in Paired(vaults[m].peers) /\ events < MaxEvent
  /\ events' = events + 1
  /\ edit' = [edit EXCEPT ![m].at = "ask", ![m].kind = "unpair", ![m].id = i]
  /\ UNCHANGED <<vaults, cmd, link, minted>>

\* Approved: the vault is read again.
WhoAmIApproved(m) ==
  /\ edit[m].at = "ask" /\ edit[m].kind = "whoami" /\ MayWrite(m)
  /\ IF vaults[m].own # NoId
       THEN edit' = [edit EXCEPT ![m] = NoEdit] /\ UNCHANGED minted
       ELSE /\ minted + 1 \in Id \ Stranger
            /\ minted' = minted + 1
            /\ edit' = [edit EXCEPT ![m].at = "save",
                          ![m].base = [own |-> minted + 1, peers |-> vaults[m].peers]]
  /\ UNCHANGED <<vaults, cmd, link, events>>

UnpairApproved(m) ==
  /\ edit[m].at = "ask" /\ edit[m].kind = "unpair" /\ MayWrite(m)
  /\ edit' = IF edit[m].id \in Paired(vaults[m].peers)
       THEN [edit EXCEPT ![m].at = "save",
               ![m].base = [vaults[m] EXCEPT !.peers = removePeer(@, edit[m].id)]]
       ELSE [edit EXCEPT ![m] = NoEdit]
  /\ UNCHANGED <<vaults, cmd, link, minted, events>>

SaveEdit(m) ==
  /\ edit[m].at = "save"
  /\ vaults' = [vaults EXCEPT ![m] = edit[m].base]
  /\ edit' = [edit EXCEPT ![m] = NoEdit]
  /\ UNCHANGED <<cmd, link, minted, events>>

DropEdit(m) ==
  /\ edit[m].at # "idle"
  /\ edit' = [edit EXCEPT ![m] = NoEdit]
  /\ UNCHANGED <<vaults, cmd, link, minted, events>>

(***************************************************************************)
PairNext ==
  \/ \E m \in Listener, o \in Listens : Listen(m, o)
  \/ \E m \in Machine, o \in Connects : Ready(m, o)
  \/ \E m, l \in Machine, pin \in BOOLEAN : Dial(m, l, pin)
  \/ \E l \in Machine, s \in Connection : TakeHello(l, s)
  \/ \E m \in Machine : TakeReply(m)
  \/ \E m \in Machine : TakeSig(m)
  \/ \E m \in Machine, ok \in BOOLEAN : Compare(m, ok)
  \/ \E m \in Machine : TakeConfirm(m)
  \/ \E m \in Machine : Reread(m)
  \/ \E m \in Machine : SavePeer(m)
  \/ \E m \in Machine : SaveFails(m)
  \/ \E m \in Machine : TakeAck(m)
  \/ \E m \in Machine : GiveUp(m)
  \/ \E s \in Connection : HelloTimeout(s)
  \/ \E s \in Connection : Lose(s)
  \/ \E m \in Machine : WhoAmI(m)
  \/ \E m \in Machine, i \in Id : Unpair(m, i)
  \/ \E m \in Machine : WhoAmIApproved(m)
  \/ \E m \in Machine : UnpairApproved(m)
  \/ \E m \in Machine : SaveEdit(m)
  \/ \E m \in Machine : DropEdit(m)

\* Frames that have come are read, and people who compare the code answer.
Fairness == \A m \in Machine :
  /\ WF_pairVars(TakeSig(m)) /\ WF_pairVars(TakeReply(m)) /\ WF_pairVars(TakeConfirm(m))
  /\ WF_pairVars(\E ok \in BOOLEAN : Compare(m, ok))
  /\ WF_pairVars(Reread(m)) /\ WF_pairVars(SavePeer(m)) /\ WF_pairVars(SaveEdit(m)) /\ WF_pairVars(TakeAck(m))

PairSpec == PairInit /\ [][PairNext]_pairVars /\ Fairness

(***************************************************************************)
(* Properties.                                                              *)
(***************************************************************************)
\* What each session promises, whatever is lost and whoever gives up: nobody saves
\* before both people have confirmed, and peerSaved is never a mistake.
Promise == INSTANCE PairPromise WITH
  Session <- Connection,
  yes   <- [s \in Connection |-> link[s].yes],
  wrote <- [s \in Connection |-> link[s].wrote],
  told  <- [s \in Connection |-> link[s].told]
KeepsPromise == Promise!Spec

\* In every vault at any time, with pairings, whoami and unpair in any order: a name
\* and a key belong to one peer, and no peer is the vault itself.
TablesOK == \A m \in Machine : TableOK(Ident(vaults[m].own), vaults[m].peers)

\* Two machines that have each other as peers agree on which of them is the source,
\* also when they got there in different sessions, one of which ended on one side only.
RolesMatch == \A m, n \in Machine :
  LET i == vaults[m].own
      j == vaults[n].own
  IN m # n /\ i # NoId /\ j # NoId /\ vaults[m].peers[j] # NoPeer /\ vaults[n].peers[i] # NoPeer
       => vaults[m].peers[j].role # vaults[n].peers[i].role

\* A saved identity is never replaced: not by the one a pairing made for a vault that
\* had none when it started.  Peers know the machine by it.
IdentityKept == [][\A m \in Machine : vaults[m].own # NoId => vaults'[m].own = vaults[m].own]_pairVars

\* However many connect at the same time, a listener is in one session at most.
OnePartner == \A l \in Machine : Cardinality({s \in Connection : link[s].l = l /\ link[s].h = "in"}) <= 1

\* When both people have confirmed, both machines save, unless the connection breaks,
\* a save is refused or somebody gives up: the two sides never wait for each other.
BothSave == \A s \in Connection : link[s].yes = Side ~> link[s].wrote = Side \/ link[s].broken
=============================================================================
