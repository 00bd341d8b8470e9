-------------------------- MODULE ServePairingProofs --------------------------
(***************************************************************************)
(* Proofs about the two components that answer others over the network:     *)
(* Serve first, then Pairing, which share no variable and no definition.    *)
(*                                                                         *)
(* About Serve, for any callers, projects, keys and numbers of requests     *)
(* handled at a time, three things are kept.  A grant has an approval       *)
(* behind it (Backed); a challenge is in one place at most: kept by the     *)
(* server, in the hands of one request, or spent on a session (Once); and   *)
(* what an adding request read last is the vault still, or the request is   *)
(* stale (Latest).                                                          *)
(*                                                                         *)
(* About Pairing, for any machines, names, identities and numbers of        *)
(* sessions: every step is one of a few effects (Effect) on one machine's   *)
(* command, its vault and its connection, and each invariant is shown to    *)
(* survive each effect.  Commands are where their connections say they are  *)
(* (Structure); an identity is one machine's own, and nobody takes its own  *)
(* for another's (Identities); the two sides of a session have the same of  *)
(* each other (Talks), and what they have is at odds with no earlier        *)
(* session (Ordered, Remembers, Steady, Match, Fresh).                      *)
(***************************************************************************)
EXTENDS Serve, Pairing, SequenceTheorems, FiniteSetTheorems, TLAPS

Places == {"idle", "key", "identify", "queued", "dialog", "load", "save", "answered"}
Kinds  == {"secret", "edit", "reveal", "issue", "register", "login"}
Hows   == {"none", "key", "grant", "dialog", "agent"}
Who    == App \cup {Nobody}
What   == Project \cup {All, Nobody}

Request  == [at : Places, kind : Kinds, server : Server, app : Who, project : What,
             ttl : Nat, base : Vault, new : Vault, key : Nat, how : Hows, stale : BOOLEAN]
Grant    == [server : Server, app : App, project : Project, until : Nat]
Approval == [server : Server, app : App, project : Project, at : Nat]
Session  == [challenge : 0..MaxChallenge, until : Nat]
Kept     == [value : 0..MaxChallenge, until : Nat]

TypeOK ==
  /\ backend \in Backend /\ tty \in BOOLEAN
  /\ vault \in Vault /\ now \in Nat /\ begun \in Nat
  /\ grants \subseteq Grant /\ approved \subseteq Approval
  /\ queue \in Seq(Slot) /\ asking \in 0..MaxSlot
  /\ sessions \subseteq Session /\ challenge \in Kept
  /\ made \in 0..MaxChallenge /\ enrolling \subseteq 0..MaxChallenge
  /\ opened \in [0..MaxChallenge -> Nat]
  /\ req \in [Slot -> Request]

\* What the place and the kind of a request say of the rest of it.
Shape(c) ==
  /\ c.at \in {"identify", "queued"} => c.kind = "secret" /\ c.server = "serve"
  /\ c.at \in {"identify", "queued", "dialog"} /\ c.kind = "secret" =>
       c.app \in App /\ c.project \in Project
  /\ c.at = "load" => c.kind \in {"issue", "edit", "register"}
  /\ c.at = "dialog" => c.kind # "login"
  /\ c.at = "dialog" /\ c.kind \in Adding => c.new = Empty
  /\ c.kind \in {"issue", "edit"} => c.key = 0 /\ (c.project \in Project \cup {All} \/ c.kind = "edit")

\* The dialog of POST /secret is the one that has the turn.
Turns == \A r \in Slot :
  At(r, "dialog") /\ req[r].kind = "secret" /\ req[r].server = "serve" => asking = r

\* Who queues waits, and once.
Queued ==
  /\ \A i \in 1..Len(queue) : At(queue[i], "queued")
  /\ \A i, j \in 1..Len(queue) : queue[i] = queue[j] => i = j

\* Every grant has its approval, which it does not outlive by more than a day.
Backed ==
  \A g \in grants : \E a \in approved :
    a.server = g.server /\ a.app = g.app /\ a.project = g.project /\ g.until <= a.at + MAX_TTL

\* A challenge is kept, held by one request, or spent.
Holds(c) == c.at \in {"load", "save"} /\ c.kind \in {"register", "login"}
Once ==
  /\ \A c \in 0..MaxChallenge : opened[c] \in {0, 1} /\ (opened[c] = 1 => c <= made)
  /\ challenge.value <= made /\ (challenge.value # 0 => opened[challenge.value] = 0)
  /\ challenge.value = 0 => challenge.until = 0
  /\ \A r \in Slot : Holds(req[r]) =>
       req[r].key \in 1..made /\ req[r].key # challenge.value /\ opened[req[r].key] = 0
  /\ \A q, r \in Slot : Holds(req[q]) /\ Holds(req[r]) /\ q # r => req[q].key # req[r].key
  /\ \A s \in sessions : opened[s.challenge] = 1

\* What an adding request is to save is the vault and more, unless it is stale.
Adds(v, n) ==
  /\ n.proj = v.proj /\ n.connected = v.connected
  /\ v.keys \subseteq n.keys /\ v.passkeys \subseteq n.passkeys
Latest(c, v) == c.at = "save" /\ c.kind \in Adding /\ ~c.stale => Adds(v, c.new)

IInv ==
  /\ TypeOK /\ Turns /\ Queued /\ Backed /\ Once
  /\ \A r \in Slot : Shape(req[r]) /\ Latest(req[r], vault)

(***************************************************************************)
(* The values requests are made of.                                         *)
(***************************************************************************)
LEMMA EmptyType == Empty \in Vault /\ Empty.passkeys = {}
BY DEF Empty, Vault, Content

LEMMA IdleType == Idle \in Request
<1>1. 0 \in Nat
  OBVIOUS
<1> QED
  BY <1>1, EmptyType DEF Idle, Request, Places, Kinds, Server, Who, What, Hows

\* A vault whose one field differs is a vault.
LEMMA VaultParts ==
  ASSUME NEW v \in Vault
  PROVE  /\ v.proj \in [Project -> Content] /\ v.keys \subseteq Key
         /\ v.connected \in BOOLEAN /\ v.passkeys \subseteq 0..MaxChallenge
         /\ \A f \in [Project -> Content] :
              [v EXCEPT !.proj = f] \in Vault /\ [v EXCEPT !.proj = f].passkeys = v.passkeys
         /\ \A K \in SUBSET Key :
              LET n == [v EXCEPT !.keys = K]
              IN  /\ n \in Vault /\ n.passkeys = v.passkeys /\ n.keys = K
                  /\ n.proj = v.proj /\ n.connected = v.connected
         /\ \A c \in SUBSET (0..MaxChallenge) :
              LET n == [v EXCEPT !.passkeys = c]
              IN  /\ n \in Vault /\ n.passkeys = c /\ n.keys = v.keys
                  /\ n.proj = v.proj /\ n.connected = v.connected
         /\ LET n == [v EXCEPT !.connected = FALSE] IN n \in Vault /\ n.passkeys = v.passkeys
<1>1. /\ v.proj \in [Project -> Content] /\ v.keys \subseteq Key
      /\ v.connected \in BOOLEAN /\ v.passkeys \subseteq 0..MaxChallenge
  BY DEF Vault
<1>2. ASSUME NEW f \in [Project -> Content]
      PROVE  [v EXCEPT !.proj = f] \in Vault /\ [v EXCEPT !.proj = f].passkeys = v.passkeys
  BY DEF Vault
<1>3. ASSUME NEW K \in SUBSET Key
      PROVE  LET n == [v EXCEPT !.keys = K]
             IN  /\ n \in Vault /\ n.passkeys = v.passkeys /\ n.keys = K
                 /\ n.proj = v.proj /\ n.connected = v.connected
  BY DEF Vault
<1>4. ASSUME NEW c \in SUBSET (0..MaxChallenge)
      PROVE  LET n == [v EXCEPT !.passkeys = c]
             IN  /\ n \in Vault /\ n.passkeys = c /\ n.keys = v.keys
                 /\ n.proj = v.proj /\ n.connected = v.connected
  BY DEF Vault
<1>5. LET n == [v EXCEPT !.connected = FALSE] IN n \in Vault /\ n.passkeys = v.passkeys
  BY DEF Vault
<1> QED
  BY <1>1, <1>2, <1>3, <1>4, <1>5

\* What the dash saves is a vault, with the passkeys it has read.
LEMMA DashEditsType ==
  ASSUME NEW v \in Vault, NEW n \in DashEdits(v)
  PROVE  n \in Vault /\ n.passkeys = v.passkeys
<1>1. ASSUME NEW ps \in SUBSET Project, NEW c \in Content, n \in Sets(v, ps, c)
      PROVE  n \in Vault /\ n.passkeys = v.passkeys
  <2>1. PICK p \in ps : n = [v EXCEPT !.proj[p] = c]
    BY <1>1 DEF Sets
  <2> DEFINE f == [v.proj EXCEPT ![p] = c]
  <2>2. n = [v EXCEPT !.proj = f]
    BY <2>1 DEF Vault
  <2>3. f \in [Project -> Content]
    BY VaultParts
  <2> HIDE DEF f
  <2> QED
    BY <2>2, <2>3, VaultParts
<1>2. \A cs : Holding(v, cs) \subseteq Project
  BY DEF Holding
<1>3. {0, 1, 2} \subseteq Content
  BY DEF Content
<1>4. CASE n \in deleteConnection(v)
  <2>1. n = [v EXCEPT !.connected = FALSE]
    BY <1>4 DEF deleteConnection
  <2> QED
    BY <2>1, VaultParts
<1>5. CASE n \in revokeApiKey(v)
  <2>1. PICK k \in v.keys : n = [v EXCEPT !.keys = @ \ {k}]
    BY <1>5 DEF revokeApiKey
  <2>2. n = [v EXCEPT !.keys = v.keys \ {k}] /\ v.keys \ {k} \in SUBSET Key
    BY <2>1, VaultParts
  <2> QED
    BY <2>2, VaultParts
<1> QED
  BY <1>1, <1>2, <1>3, <1>4, <1>5
     DEF DashEdits, createProject, deleteProject, createVar, updateVar, deleteVar

\* A new key is added, under an id that was free.
LEMMA NewKeyType ==
  ASSUME NEW v \in Vault, NEW p \in Project \cup {All}, NEW until \in Nat
  PROVE  NewKey(v, p, until) \in Vault /\ Adds(v, NewKey(v, p, until))
         /\ NewKey(v, p, until).passkeys = v.passkeys
<1> DEFINE fresh == {k \in 1..MaxKey : \A x \in v.keys : x.id # k}
           first == {k \in fresh : \A j \in fresh : k <= j}
           more  == {[id |-> k, project |-> p, until |-> until] : k \in first}
<1>1. NewKey(v, p, until) = [v EXCEPT !.keys = v.keys \cup more]
  BY DEF NewKey
<1>2. more \subseteq Key
  BY DEF Key
<1> HIDE DEF more
<1> DEFINE K == v.keys \cup more
           n == NewKey(v, p, until)
<1>3. K \in SUBSET Key /\ v.keys \subseteq K
  BY <1>2, VaultParts
<1> HIDE DEF K, n
<1>6. n = [v EXCEPT !.keys = K]
  BY <1>1 DEF K, n
<1>4. /\ n \in Vault /\ n.passkeys = v.passkeys /\ n.keys = K
      /\ n.proj = v.proj /\ n.connected = v.connected
  BY <1>3, <1>6, VaultParts
<1>5. Adds(v, n)
  BY <1>3, <1>4 DEF Adds
<1> QED
  BY <1>4, <1>5 DEF n

LEMMA NewPasskeyType ==
  ASSUME NEW v \in Vault, NEW c \in 0..MaxChallenge
  PROVE  LET n == [v EXCEPT !.passkeys = @ \cup {c}]
         IN  n \in Vault /\ Adds(v, n) /\ n.passkeys = v.passkeys \cup {c}
<1> DEFINE C == v.passkeys \cup {c}
           n == [v EXCEPT !.passkeys = C]
<1>1. C \in SUBSET (0..MaxChallenge)
  BY VaultParts
<1> HIDE DEF C
<1>2. /\ n \in Vault /\ n.passkeys = C /\ n.keys = v.keys
      /\ n.proj = v.proj /\ n.connected = v.connected
  BY <1>1, VaultParts
<1> HIDE DEF n
<1>3. Adds(v, n)
  BY <1>2 DEF Adds, C
<1> QED
  BY <1>2, <1>3 DEF n, C

LEMMA AddsSelf == ASSUME NEW v PROVE Adds(v, v)
BY DEF Adds

(***************************************************************************)
(* One request goes on, or comes, and the others stay where they are.       *)
(***************************************************************************)
Becomes(r, c) ==
  /\ req' \in [Slot -> Request]
  /\ req'[r] = c /\ \A q \in Slot : q # r => req'[q] = req[q]

LEMMA GoesBecomes ==
  ASSUME TypeOK, NEW r \in Slot, NEW c \in Request, Goes(r, c) PROVE Becomes(r, c)
BY DEF TypeOK, Goes, Becomes

\* It does not come by a challenge that it has not had.
KeepsHold(r, c) == Holds(c) => Holds(req[r]) /\ c.key = req[r].key

LEMMA Proceeds ==
  ASSUME IInv, NEW r \in Slot, NEW c \in Request, Becomes(r, c), UNCHANGED <<vault, browser>>,
         Shape(c), Latest(c, vault), KeepsHold(r, c)
  PROVE  Once' /\ \A q \in Slot : (Shape(req[q]) /\ Latest(req[q], vault))'
<1>1. Once'
  BY DEF IInv, Once, Becomes, KeepsHold, browser
<1>2. \A q \in Slot : (Shape(req[q]) /\ Latest(req[q], vault))'
  BY DEF IInv, Becomes
<1> QED
  BY <1>1, <1>2

\* The turn is where it was, or given up by r.
LEMMA TurnKept ==
  ASSUME IInv, NEW r \in Slot, NEW c, Becomes(r, c),
         asking' = asking \/ (asking = r /\ asking' = 0) \/ (asking = 0 /\ asking' = r),
         c.at = "dialog" /\ c.kind = "secret" /\ c.server = "serve" => asking' = r
  PROVE  Turns'
<1>1. r # 0 /\ 0 \notin Slot
  BY DEF Slot
<1> QED
  BY <1>1 DEF IInv, Turns, Becomes, At

LEMMA QueueKept ==
  ASSUME IInv, NEW r \in Slot, NEW c, Becomes(r, c), queue' = queue, ~At(r, "queued")
  PROVE  Queued'
<1>1. \A i \in 1..Len(queue) : queue[i] \in Slot
  BY DEF IInv, TypeOK
<1> QED
  BY <1>1 DEF IInv, Queued, Becomes, At

LEMMA MoreBacked ==
  ASSUME Backed, grants' \subseteq grants, approved \subseteq approved'
  PROVE  Backed'
BY DEF Backed

\* Most steps of a request are like this.
LEMMA OneGoesOn ==
  ASSUME IInv, NEW r \in Slot, NEW c \in Request, Becomes(r, c),
         UNCHANGED <<machine, vault, now, grants, approved, queue, browser>>, begun' \in Nat,
         asking' = asking \/ (asking = r /\ asking' = 0), ~At(r, "queued"),
         ~(c.at = "dialog" /\ c.kind = "secret" /\ c.server = "serve"),
         Shape(c), Latest(c, vault), KeepsHold(r, c)
  PROVE  IInv'
<1>1. TypeOK'
  BY ServeAssumption DEF ServeAssumption, IInv, TypeOK, Becomes, machine, browser
<1> QED
  BY <1>1, Proceeds, TurnKept, QueueKept, MoreBacked DEF IInv

\* A request that is over has nothing to be said of it.
LEMMA IdleIsFine ==
  /\ Shape(Idle) /\ ~Holds(Idle) /\ Idle.at = "idle"
  /\ \A v : Latest(Idle, v)
BY EmptyType DEF Shape, Holds, Latest, Idle, Adding

LEMMA OneEnds ==
  ASSUME IInv, NEW r \in Slot, Goes(r, Idle), ~At(r, "queued"),
         UNCHANGED <<machine, vault, now, grants, approved, queue, browser>>, begun' \in Nat,
         asking' = asking \/ (asking = r /\ asking' = 0)
  PROVE  IInv'
BY IdleType, IdleIsFine, GoesBecomes, OneGoesOn DEF IInv, KeepsHold

\* A new request comes into a slot that is idle.
LEMMA OneComes ==
  ASSUME IInv, NEW r \in Slot, NEW c \in Request, Begin(r, c),
         UNCHANGED <<machine, vault, now, grants, approved, queue, asking, browser>>,
         ~(c.at = "dialog" /\ c.kind = "secret" /\ c.server = "serve"),
         Shape(c), c.at \notin {"load", "save"}
  PROVE  IInv'
<1>1. Becomes(r, c) /\ ~At(r, "queued") /\ begun' \in Nat
  BY GoesBecomes DEF Begin, At, IInv, TypeOK
<1>2. Latest(c, vault) /\ KeepsHold(r, c)
  BY DEF Latest, KeepsHold, Holds
<1> QED
  BY <1>1, <1>2, OneGoesOn

(***************************************************************************)
(* The requests that come.                                                  *)
(***************************************************************************)
LEMMA SecretComes ==
  ASSUME IInv, NEW r \in Slot, NEW app \in App, NEW p \in Project, NEW ttl \in Ttl, Secret(r, app, p, ttl)
  PROVE  IInv'
<1> DEFINE c == [Idle EXCEPT !.at = "identify", !.app = app, !.project = p, !.ttl = ttl]
<1>1. c \in Request
  BY IdleType, ServeAssumption DEF ServeAssumption, Request, Places, Who, What
<1>2. /\ c.at = "identify" /\ c.app = app /\ c.project = p /\ c.new = Empty /\ c.kind = "secret"
      /\ c.server = "serve" /\ c.key = 0
  BY DEF Idle
<1>3. Begin(r, c) /\ UNCHANGED <<machine, vault, now, grants, queue, asking, browser, approved>>
  BY DEF Secret
<1> HIDE DEF c
<1>4. Shape(c)
  BY <1>2 DEF Shape, Adding
<1> QED
  BY <1>1, <1>2, <1>3, <1>4, OneComes

LEMMA KeyComes ==
  ASSUME IInv, NEW r \in Slot, NEW p \in Project, NEW id \in 1..MaxKey,
         SecretWithKey(r, p, id)
  PROVE  IInv'
<1> DEFINE c == [Idle EXCEPT !.at = "key", !.project = p, !.key = id, !.base = vault]
<1>1. c \in Request
  <2>1. id \in Nat /\ vault \in Vault
    BY ServeAssumption DEF ServeAssumption, IInv, TypeOK
  <2> QED
    BY <2>1, IdleType DEF Request, Places, What
<1>2. c.at = "key" /\ c.kind = "secret" /\ c.new = Empty /\ c.server = "serve"
  BY DEF Idle
<1>3. Begin(r, c) /\ UNCHANGED <<machine, vault, now, grants, queue, asking, browser, approved>>
  BY DEF SecretWithKey
<1> HIDE DEF c
<1>4. Shape(c)
  BY <1>2 DEF Shape, Adding
<1> QED
  BY <1>1, <1>2, <1>3, <1>4, OneComes

LEMMA AgentComes ==
  ASSUME IInv, NEW r \in Slot, NEW app \in App, NEW p \in Project, NEW ttl \in Ttl,
         getSecrets(r, app, p, ttl)
  PROVE  IInv'
<1> DEFINE b == [Idle EXCEPT !.server = "mcp", !.app = app, !.project = p, !.ttl = ttl]
           c == IF GrantTime(ttl) > 0 /\ findGrant("mcp", app, p)
                THEN [b EXCEPT !.at = "answered", !.how = "grant"] ELSE [b EXCEPT !.at = "dialog"]
<1>1. b \in Request
  BY IdleType, ServeAssumption DEF ServeAssumption, Request, Who, What, Server
<1>2. /\ b.at = "idle" /\ b.app = app /\ b.project = p /\ b.new = Empty /\ b.kind = "secret"
      /\ b.server = "mcp" /\ b.key = 0
  BY DEF Idle
<1>3. Begin(r, c) /\ UNCHANGED <<machine, vault, now, grants, queue, asking, browser, approved>>
  BY DEF getSecrets
<1> HIDE DEF b
<1>4. c \in Request
  BY <1>1 DEF Request, Places, Hows
<1>5. /\ c.at \in {"answered", "dialog"} /\ c.app = app /\ c.project = p /\ c.new = Empty
      /\ c.kind = "secret" /\ c.server = "mcp" /\ c.key = 0
  BY <1>1, <1>2 DEF Request
<1> HIDE DEF c
<1>6. Shape(c)
  BY <1>5 DEF Shape, Adding
<1> QED
  BY <1>3, <1>4, <1>5, <1>6, OneComes

LEMMA EditComes == ASSUME IInv, NEW r \in Slot, DashEdit(r) PROVE IInv'
<1>1. PICK v \in DashEdits(vault) : Begin(r, [Idle EXCEPT !.at = "dialog", !.kind = "edit", !.new = v])
  BY DEF DashEdit
<1> DEFINE c == [Idle EXCEPT !.at = "dialog", !.kind = "edit", !.new = v]
<1>2. v \in Vault
  BY DashEditsType DEF IInv, TypeOK
<1>3. c \in Request
  BY <1>2, IdleType DEF Request, Places, Kinds
<1>4. c.at = "dialog" /\ c.kind = "edit" /\ c.new = v /\ c.key = 0
  BY DEF Idle
<1>5. Begin(r, c) /\ UNCHANGED <<machine, vault, now, grants, queue, asking, browser, approved>>
  BY <1>1 DEF DashEdit
<1> HIDE DEF c
<1>6. Shape(c)
  BY <1>4 DEF Shape, Adding
<1> QED
  BY <1>2, <1>3, <1>4, <1>5, <1>6, OneComes

LEMMA RevealComes ==
  ASSUME IInv, NEW r \in Slot, NEW p \in Project, revealVar(r, p) PROVE IInv'
<1> DEFINE c == [Idle EXCEPT !.at = "dialog", !.kind = "reveal", !.project = p]
<1>1. c \in Request
  BY IdleType DEF Request, Places, Kinds, What
<1>2. c.at = "dialog" /\ c.kind = "reveal" /\ c.new = Empty
  BY DEF Idle
<1>3. Begin(r, c) /\ UNCHANGED <<machine, vault, now, grants, queue, asking, browser, approved>>
  BY DEF revealVar
<1> HIDE DEF c
<1>4. Shape(c)
  BY <1>2 DEF Shape, Adding
<1> QED
  BY <1>1, <1>2, <1>3, <1>4, OneComes

LEMMA IssueComes ==
  ASSUME IInv, NEW r \in Slot, NEW p \in Project \cup {All}, NEW until \in Nat, createApiKey(r, p, until)
  PROVE  IInv'
<1> DEFINE c == [Idle EXCEPT !.at = "dialog", !.kind = "issue", !.project = p, !.ttl = until]
<1>1. c \in Request
  BY IdleType DEF Request, Places, Kinds, What
<1>2. c.at = "dialog" /\ c.kind = "issue" /\ c.new = Empty /\ c.key = 0 /\ c.project = p
  BY DEF Idle
<1>3. Begin(r, c) /\ UNCHANGED <<machine, vault, now, grants, queue, asking, browser, approved>>
  BY DEF createApiKey
<1> HIDE DEF c
<1>4. Shape(c)
  BY <1>2 DEF Shape, Adding
<1> QED
  BY <1>1, <1>2, <1>3, <1>4, OneComes

LEMMA RegistrationComes == ASSUME IInv, NEW r \in Slot, registerOptions(r) PROVE IInv'
<1> DEFINE c == [Idle EXCEPT !.at = "dialog", !.kind = "register"]
<1>1. c \in Request
  BY IdleType DEF Request, Places, Kinds
<1>2. c.at = "dialog" /\ c.kind = "register" /\ c.new = Empty
  BY DEF Idle
<1>3. Begin(r, c) /\ UNCHANGED <<machine, vault, now, grants, queue, asking, browser, approved>>
  BY DEF registerOptions
<1> HIDE DEF c
<1>4. Shape(c)
  BY <1>2 DEF Shape, Adding
<1> QED
  BY <1>1, <1>2, <1>3, <1>4, OneComes

(***************************************************************************)
(* POST /secret: the queue, the turns, and the answers.                     *)
(***************************************************************************)
LEMMA Identifies == ASSUME IInv, NEW r \in Slot, Identified(r) PROVE IInv'
<1>1. req[r] \in Request /\ At(r, "identify") /\ Shape(req[r])
  BY DEF IInv, TypeOK, Identified
<1>2. CASE GrantTime(req[r].ttl) > 0 /\ findGrant("serve", req[r].app, req[r].project)
  <2> DEFINE c == [req[r] EXCEPT !.at = "answered", !.how = "grant"]
  <2>1. c \in Request
    BY <1>1 DEF Request, Places, Hows
  <2>2. c.at = "answered" /\ c.kind = req[r].kind /\ c.key = req[r].key /\ c.new = req[r].new
        /\ c.project = req[r].project
    BY <1>1 DEF Request
  <2>3. Goes(r, c) /\ UNCHANGED <<machine, vault, now, grants, asking, browser, begun, approved, queue>>
    BY <1>2 DEF Identified
  <2> HIDE DEF c
  <2>4. Shape(c) /\ Latest(c, vault) /\ KeepsHold(r, c)
    BY <1>1, <2>2 DEF Shape, Latest, KeepsHold, Holds, IInv, At
  <2>5. Becomes(r, c) /\ ~At(r, "queued") /\ begun' \in Nat
    BY <1>1, <2>1, <2>3, GoesBecomes DEF IInv, TypeOK, At
  <2> QED
    BY <2>1, <2>2, <2>3, <2>4, <2>5, OneGoesOn
<1>3. CASE ~(GrantTime(req[r].ttl) > 0 /\ findGrant("serve", req[r].app, req[r].project))
  <2> DEFINE c == [req[r] EXCEPT !.at = "queued"]
  <2>1. c \in Request
    BY <1>1 DEF Request, Places
  <2>2. c.at = "queued" /\ c.kind = req[r].kind /\ c.key = req[r].key /\ c.new = req[r].new
        /\ c.project = req[r].project /\ c.app = req[r].app /\ c.server = req[r].server
    BY <1>1 DEF Request
  <2>3. /\ Goes(r, c) /\ queue' = Append(queue, r)
        /\ UNCHANGED <<machine, vault, now, grants, asking, browser, begun, approved>>
    BY <1>3 DEF Identified
  <2> HIDE DEF c
  <2>4. Shape(c) /\ Latest(c, vault) /\ KeepsHold(r, c)
    BY <1>1, <2>2 DEF Shape, Latest, KeepsHold, Holds, IInv, At
  <2>5. Becomes(r, c)
    BY <1>1, <2>1, <2>3, GoesBecomes DEF IInv
  <2>6. TypeOK'
    <3>1. queue' \in Seq(Slot)
      BY <2>3, AppendProperties DEF IInv, TypeOK
    <3> QED
      BY <2>3, <2>5, <3>1 DEF IInv, TypeOK, Becomes, machine, browser
  <2>7. Queued'
    <3>1. /\ Len(queue') = Len(queue) + 1 /\ Len(queue) \in Nat /\ queue'[Len(queue) + 1] = r
          /\ \A i \in 1..Len(queue) : queue'[i] = queue[i] /\ queue[i] \in Slot
      BY <2>3, AppendProperties DEF IInv, TypeOK
    <3>2. \A i \in 1..Len(queue) : queue[i] # r
      BY <1>1 DEF IInv, Queued, At
    <3> QED
      BY <2>2, <2>5, <3>1, <3>2 DEF IInv, Queued, Becomes, At
  <2> QED
    BY <2>1, <2>2, <2>3, <2>4, <2>5, <2>6, <2>7, Proceeds, TurnKept, MoreBacked DEF IInv
<1> QED
  BY <1>2, <1>3

LEMMA AskGoesOn == ASSUME IInv, NEW r \in Slot, Ask(r) PROVE IInv'
<1> DEFINE c == [req[r] EXCEPT !.at = "dialog"]
<1>1. /\ queue \in Seq(Slot) /\ queue # <<>> /\ Head(queue) = r /\ asking = 0
      /\ queue' = Tail(queue) /\ asking' = r /\ Goes(r, c)
      /\ UNCHANGED <<machine, vault, now, grants, browser, begun, approved>>
  BY DEF Ask, IInv, TypeOK
<1>2. /\ Len(queue) \in Nat /\ Len(queue) > 0 /\ queue[1] = r
      /\ Len(queue') = Len(queue) - 1 /\ queue' \in Seq(Slot)
      /\ \A i \in 1..Len(queue') : queue'[i] = queue[i + 1]
  BY <1>1, HeadTailProperties DEF IInv, TypeOK
<1>3. req[r] \in Request /\ At(r, "queued") /\ Shape(req[r])
  BY <1>2 DEF IInv, TypeOK, Queued
<1>4. c \in Request
  BY <1>3 DEF Request, Places
<1>5. c.at = "dialog" /\ c.kind = "secret" /\ c.key = req[r].key /\ c.new = req[r].new
      /\ c.project = req[r].project /\ c.app = req[r].app
  BY <1>3 DEF Request, Shape, At
<1> HIDE DEF c
<1>6. Shape(c) /\ Latest(c, vault) /\ KeepsHold(r, c)
  BY <1>3, <1>5 DEF Shape, Latest, KeepsHold, Holds, IInv, At, Adding
<1>7. Becomes(r, c)
  BY <1>1, <1>4, GoesBecomes DEF IInv
<1>8. TypeOK'
  BY <1>1, <1>2, <1>7, ServeAssumption DEF ServeAssumption, Slot, IInv, TypeOK, Becomes, machine, browser
<1>9. Queued'
  <2>1. \A i \in 1..Len(queue') : i + 1 \in 1..Len(queue) /\ queue[i + 1] \in Slot
    BY <1>2 DEF IInv, TypeOK
  <2>2. \A i \in 1..Len(queue') : queue'[i] # r
    BY <1>2, <2>1 DEF IInv, Queued
  <2>3. \A i \in 1..Len(queue') : req'[queue'[i]] = req[queue'[i]]
    BY <1>2, <1>7, <2>1, <2>2 DEF Becomes
  <2>4. \A i \in 1..Len(queue') : req[queue'[i]].at = "queued"
    BY <1>2, <2>1 DEF IInv, Queued, At
  <2>5. ASSUME NEW i \in 1..Len(queue'), NEW j \in 1..Len(queue'), queue'[i] = queue'[j]
        PROVE  i = j
    <3>1. i + 1 = j + 1
      BY <1>2, <2>1, <2>5 DEF IInv, Queued
    <3> QED
      BY <1>2, <3>1
  <2> QED
    BY <2>3, <2>4, <2>5 DEF Queued, At
<1> QED
  BY <1>1, <1>4, <1>6, <1>7, <1>8, <1>9, Proceeds, TurnKept, MoreBacked DEF IInv

LEMMA KeyAnswers == ASSUME IInv, NEW r \in Slot, AnswerKey(r) PROVE IInv'
<1> DEFINE c == [req[r] EXCEPT !.at = "answered", !.how = "key"]
<1>1. req[r] \in Request /\ At(r, "key") /\ Shape(req[r])
  BY DEF IInv, TypeOK, AnswerKey
<1>2. c \in Request
  BY <1>1 DEF Request, Places, Hows
<1>3. c.at = "answered" /\ c.kind = req[r].kind /\ c.key = req[r].key /\ c.new = req[r].new
      /\ c.project = req[r].project
  BY <1>1 DEF Request
<1>4. /\ Goes(r, c) \/ Goes(r, Idle)
      /\ UNCHANGED <<machine, vault, now, grants, queue, asking, browser, begun, approved>>
  BY DEF AnswerKey
<1> HIDE DEF c
<1>5. Shape(c) /\ Latest(c, vault) /\ KeepsHold(r, c)
  BY <1>1, <1>3 DEF Shape, Latest, KeepsHold, Holds, IInv, At
<1>6. ~At(r, "queued") /\ begun' \in Nat
  BY <1>1, <1>4 DEF IInv, TypeOK, At
<1>7. CASE Goes(r, c)
  <2>1. Becomes(r, c)
    BY <1>2, <1>7, GoesBecomes DEF IInv
  <2> QED
    BY <1>2, <1>3, <1>4, <1>5, <1>6, <2>1, OneGoesOn
<1>8. CASE Goes(r, Idle)
  BY <1>4, <1>6, <1>8, OneEnds
<1> QED
  BY <1>4, <1>7, <1>8

LEMMA DoneEnds == ASSUME IInv, NEW r \in Slot, Done(r) PROVE IInv'
<1>1. ~At(r, "queued") /\ begun' \in Nat
  BY DEF Done, At, IInv, TypeOK
<1> QED
  BY <1>1, OneEnds DEF Done

LEMMA DenyEnds == ASSUME IInv, NEW r \in Slot, Deny(r) PROVE IInv'
<1>1. ~At(r, "queued") /\ begun' \in Nat /\ (asking' = asking \/ (asking = r /\ asking' = 0))
  BY DEF Deny, Settled, At, IInv, TypeOK
<1> QED
  BY <1>1, OneEnds DEF Deny

LEMMA AgentAnswers == ASSUME IInv, NEW r \in Slot, ViaAgent(r) PROVE IInv'
<1> DEFINE c == [req[r] EXCEPT !.at = "answered", !.how = "agent"]
<1>1. req[r] \in Request /\ At(r, "dialog") /\ Shape(req[r])
  BY DEF IInv, TypeOK, ViaAgent
<1>2. c \in Request
  BY <1>1 DEF Request, Places, Hows
<1>3. c.at = "answered" /\ c.kind = req[r].kind /\ c.key = req[r].key /\ c.new = req[r].new
      /\ c.project = req[r].project
  BY <1>1 DEF Request
<1>4. /\ Goes(r, c) /\ Settled(r)
      /\ UNCHANGED <<machine, vault, now, grants, queue, browser, begun, approved>>
  BY DEF ViaAgent
<1> HIDE DEF c
<1>5. Shape(c) /\ Latest(c, vault) /\ KeepsHold(r, c)
  BY <1>1, <1>3 DEF Shape, Latest, KeepsHold, Holds, IInv, At
<1>6. ~At(r, "queued") /\ begun' \in Nat /\ (asking' = asking \/ (asking = r /\ asking' = 0))
  BY <1>1, <1>4 DEF IInv, TypeOK, At, Settled
<1>7. Becomes(r, c)
  BY <1>2, <1>4, GoesBecomes DEF IInv
<1> QED
  BY <1>2, <1>3, <1>4, <1>5, <1>6, <1>7, OneGoesOn

(***************************************************************************)
(* The user approves.                                                       *)
(***************************************************************************)
LEMMA GrantTimeType == ASSUME IInv, NEW t \in Nat PROVE GrantTime(t) \in Nat /\ GrantTime(t) <= MAX_TTL
BY ServeAssumption DEF ServeAssumption, GrantTime

\* A request that is approved is answered, or goes on to the vault.
LEMMA AgreedType ==
  ASSUME IInv, NEW r \in Slot, At(r, "dialog"), req[r].kind # "register"
  PROVE  LET c == Agreed(req[r])
         IN  /\ c \in Request /\ Shape(c) /\ Latest(c, vault) /\ ~Holds(c)
             /\ c.at \in {"answered", "save", "load"}
<1> DEFINE b  == req[r]
           at == IF b.kind \in {"secret", "reveal"} THEN "answered"
                 ELSE IF b.new # Empty THEN "save" ELSE "load"
           how == IF b.kind \in {"secret", "reveal"} THEN "dialog" ELSE b.how
           c  == [b EXCEPT !.stale = FALSE, !.at = at, !.how = how]
<1>1. b \in Request /\ b.at = "dialog" /\ Shape(b)
      /\ b.kind \in {"secret", "edit", "reveal", "issue"}
  BY DEF IInv, TypeOK, At, Shape, Request, Kinds
<1>2. c = Agreed(req[r])
  BY <1>1 DEF Agreed, Request
<1>3. at \in {"answered", "save", "load"} /\ how \in Hows
      /\ (at = "answered" <=> b.kind \in {"secret", "reveal"})
      /\ (at = "save" => b.new # Empty)
  BY <1>1 DEF Request, Hows
<1> HIDE DEF at, how
<1>4. c \in Request
  BY <1>1, <1>3 DEF Request, Places
<1>5. c.at = at /\ c.kind = b.kind /\ c.key = b.key /\ c.new = b.new /\ c.project = b.project
      /\ c.app = b.app /\ c.server = b.server
  BY <1>1 DEF Request
<1> HIDE DEF c
<1> HIDE DEF b
<1>6. Shape(c) /\ Latest(c, vault) /\ ~Holds(c)
  BY <1>1, <1>3, <1>5 DEF Shape, Latest, Holds, Adding
<1> QED
  BY <1>2, <1>3, <1>4, <1>5, <1>6

\* A secret's approval is remembered, and may give a grant.
LEMMA SecretBacked ==
  ASSUME IInv, NEW r \in Slot, Approve(r)
  PROVE  Backed' /\ grants' \subseteq Grant /\ approved' \subseteq Approval
<1> DEFINE c == req[r]
           a == [server |-> c.server, app |-> c.app, project |-> c.project, at |-> now]
           t == GrantTime(c.ttl)
           g == [server |-> c.server, app |-> c.app, project |-> c.project, until |-> now + t]
<1>1. c \in Request /\ At(r, "dialog") /\ Shape(c) /\ now \in Nat
  BY DEF IInv, TypeOK, Approve
<1>2. CASE c.kind = "secret"
  <2>1. c.app \in App /\ c.project \in Project /\ c.server \in Server /\ c.ttl \in Nat
    BY <1>1, <1>2 DEF Shape, At, Request
  <2>2. t \in Nat /\ t <= MAX_TTL /\ MAX_TTL \in Nat
    BY <2>1, GrantTimeType, ServeAssumption DEF ServeAssumption
  <2>3. approved' = approved \cup {a} /\ grants' \subseteq grants \cup {g}
    BY <1>2 DEF Approve, issueGrant
  <2> HIDE DEF t
  <2>4. a \in Approval /\ g \in Grant
    BY <1>1, <2>1, <2>2 DEF Approval, Grant
  <2>5. a.server = g.server /\ a.app = g.app /\ a.project = g.project /\ g.until <= a.at + MAX_TTL
    BY <1>1, <2>2
  <2> HIDE DEF a, g
  <2> QED
    BY <2>3, <2>4, <2>5 DEF IInv, TypeOK, Backed
<1>3. CASE c.kind # "secret"
  BY <1>3 DEF Approve, IInv, TypeOK, Backed
<1> QED
  BY <1>2, <1>3

\* A challenge that is made takes the place of the one that was kept.
LEMMA ChallengeSet ==
  ASSUME IInv, setChallenge, UNCHANGED <<vault, sessions, opened>>,
         \/ req' = req
         \/ \E r \in Slot : Becomes(r, Idle)
  PROVE  /\ made' \in 0..MaxChallenge /\ made + 1 \in 0..MaxChallenge /\ challenge' \in Kept
         /\ Once' /\ \A q \in Slot : (Shape(req[q]) /\ Latest(req[q], vault))'
<1>1. /\ made \in Nat /\ made + 1 \in 1..MaxChallenge /\ made' = made + 1 /\ MaxChallenge \in Nat
      /\ now + CHALLENGE_TTL \in Nat
      /\ challenge' = [value |-> made + 1, until |-> now + CHALLENGE_TTL]
  BY ServeAssumption DEF ServeAssumption, setChallenge, IInv, TypeOK
<1>2. challenge' \in Kept /\ challenge'.value = made + 1
  BY <1>1 DEF Kept
<1>3. made' \in 0..MaxChallenge /\ made + 1 \in 0..MaxChallenge
  BY <1>1
<1>4. \A q \in Slot : req'[q] = req[q] \/ req'[q] = Idle
  BY DEF Becomes
<1>5. Once'
  <2>1. \A q \in Slot : Holds(req[q])' => Holds(req[q]) /\ req'[q] = req[q]
    BY <1>4, IdleIsFine
  <2>2. \A c \in 0..MaxChallenge : opened[c] \in {0, 1} /\ (opened[c] = 1 => c <= made)
    BY DEF IInv, Once
  <2>3. opened[made + 1] = 0
    BY <1>1, <2>2
  <2>4. \A q \in Slot : Holds(req[q])' =>
          req'[q].key \in 1..made' /\ req'[q].key # challenge'.value /\ opened[req'[q].key] = 0
    BY <1>1, <1>2, <2>1 DEF IInv, Once
  <2>5. \A c \in 0..MaxChallenge : opened[c] \in {0, 1} /\ (opened[c] = 1 => c <= made')
    BY <1>1, <2>2
  <2> QED
    BY <1>1, <1>2, <2>1, <2>3, <2>4, <2>5 DEF IInv, Once
<1>6. \A q \in Slot : (Shape(req[q]) /\ Latest(req[q], vault))'
  BY <1>4, IdleIsFine DEF IInv
<1> QED
  BY <1>2, <1>3, <1>5, <1>6

LEMMA ApproveGoesOn == ASSUME IInv, NEW r \in Slot, Approve(r) PROVE IInv'
<1>1. req[r] \in Request /\ At(r, "dialog")
  BY DEF IInv, TypeOK, Approve
<1>2. Backed' /\ grants' \subseteq Grant /\ approved' \subseteq Approval
  BY SecretBacked
<1>3. asking' = asking \/ (asking = r /\ asking' = 0)
  BY DEF Approve, Settled
<1>4. asking' \in 0..MaxSlot
  BY <1>3, ServeAssumption DEF ServeAssumption, IInv, TypeOK
<1>5. UNCHANGED <<machine, vault, now, queue, sessions, opened, begun>> /\ ~At(r, "queued")
  BY <1>1 DEF Approve, At
<1>6. CASE req[r].kind = "register"
  <2>1. setChallenge /\ enrolling' = enrolling \cup {made + 1} /\ Goes(r, Idle)
    BY <1>6 DEF Approve
  <2>2. Becomes(r, Idle)
    BY <2>1, IdleType, GoesBecomes DEF IInv
  <2>3. /\ made' \in 0..MaxChallenge /\ made + 1 \in 0..MaxChallenge /\ challenge' \in Kept
        /\ Once' /\ \A q \in Slot : (Shape(req[q]) /\ Latest(req[q], vault))'
    BY <1>5, <2>1, <2>2, ChallengeSet
  <2>4. TypeOK'
    BY <1>2, <1>4, <1>5, <2>1, <2>2, <2>3 DEF IInv, TypeOK, machine, Becomes
  <2>5. Turns' /\ Queued'
    BY <1>3, <1>5, <2>2, TurnKept, QueueKept, IdleIsFine
  <2> QED
    BY <1>2, <2>3, <2>4, <2>5 DEF IInv
<1>7. CASE req[r].kind # "register"
  <2> DEFINE c == Agreed(req[r])
  <2>1. Goes(r, c) /\ UNCHANGED <<made, challenge, enrolling>>
    BY <1>7 DEF Approve
  <2>2. /\ c \in Request /\ Shape(c) /\ Latest(c, vault) /\ ~Holds(c)
        /\ c.at \in {"answered", "save", "load"}
    BY <1>1, <1>7, AgreedType
  <2> HIDE DEF c
  <2>3. Becomes(r, c) /\ KeepsHold(r, c)
    BY <2>1, <2>2, GoesBecomes DEF IInv, KeepsHold
  <2>4. Once' /\ \A q \in Slot : (Shape(req[q]) /\ Latest(req[q], vault))'
    BY <1>5, <2>1, <2>2, <2>3, Proceeds DEF browser
  <2>5. TypeOK'
    BY <1>2, <1>4, <1>5, <2>1, <2>3 DEF IInv, TypeOK, machine, Becomes
  <2>6. Turns' /\ Queued'
    BY <1>3, <1>5, <2>2, <2>3, TurnKept, QueueKept
  <2> QED
    BY <1>2, <2>4, <2>5, <2>6 DEF IInv
<1> QED
  BY <1>6, <1>7

(***************************************************************************)
(* The vault, the ceremonies and the server.                                *)
(***************************************************************************)
LEMMA LoadGoesOn == ASSUME IInv, NEW r \in Slot, Load(r) PROVE IInv'
<1> DEFINE b == req[r]
           n == IF b.kind = "issue" THEN NewKey(vault, b.project, b.ttl)
                ELSE [vault EXCEPT !.passkeys = @ \cup {b.key}]
           c == [b EXCEPT !.at = "save", !.stale = FALSE, !.new = n]
<1>1. /\ b \in Request /\ b.at = "load" /\ Shape(b) /\ vault \in Vault
      /\ b.kind \in {"issue", "edit", "register"}
  BY DEF IInv, TypeOK, Load, At, Shape
<1>2. n \in Vault /\ Adds(vault, n)
  <2>1. CASE b.kind = "issue"
    <3>1. b.project \in Project \cup {All} /\ b.ttl \in Nat
      BY <1>1, <2>1 DEF Shape, Request
    <3> QED
      BY <1>1, <2>1, <3>1, NewKeyType
  <2>2. CASE b.kind # "issue"
    <3>1. b.key \in 0..MaxChallenge
      <4>1. made \in 0..MaxChallenge /\ MaxChallenge \in Nat
        BY ServeAssumption DEF ServeAssumption, IInv, TypeOK
      <4>2. CASE b.kind = "edit"
        BY <1>1, <4>1, <4>2 DEF Shape
      <4>3. CASE b.kind = "register"
        BY <1>1, <4>1, <4>3 DEF IInv, Once, Holds
      <4> QED
        BY <1>1, <2>2, <4>2, <4>3
    <3> QED
      BY <1>1, <2>2, <3>1, NewPasskeyType
  <2> QED
    BY <2>1, <2>2
<1>3. \/ Goes(r, Idle)
      \/ Goes(r, c)
  BY DEF Load
<1>4. UNCHANGED <<machine, vault, now, grants, queue, asking, browser, begun, approved>>
  BY DEF Load
<1> HIDE DEF n
<1>5. c \in Request
  BY <1>1, <1>2 DEF Request, Places
<1>6. c.at = "save" /\ c.kind = b.kind /\ c.key = b.key /\ c.new = n /\ c.project = b.project
  BY <1>1 DEF Request
<1> HIDE DEF c
<1>7. Shape(c) /\ Latest(c, vault) /\ KeepsHold(r, c)
  BY <1>1, <1>2, <1>6 DEF Shape, Latest, KeepsHold, Holds
<1>8. ~At(r, "queued") /\ begun' \in Nat
  BY <1>1, <1>4 DEF IInv, TypeOK, At
<1>9. CASE Goes(r, c)
  <2>1. Becomes(r, c)
    BY <1>5, <1>9, GoesBecomes DEF IInv
  <2> QED
    BY <1>4, <1>5, <1>6, <1>7, <1>8, <2>1, OneGoesOn
<1>10. CASE Goes(r, Idle)
  BY <1>4, <1>8, <1>10, OneEnds
<1> QED
  BY <1>3, <1>9, <1>10

LEMMA VerifyGoesOn ==
  ASSUME IInv, NEW r \in Slot, NEW kind \in {"register", "login"}, NEW x \in 1..made, Verify(r, kind, x)
  PROVE  IInv'
<1> DEFINE reg == [Idle EXCEPT !.at = "load", !.kind = "register", !.key = x]
           log == [Idle EXCEPT !.at = "save", !.kind = "login", !.key = x, !.new = vault]
           c == CASE x # challenge.value -> Idle
                  [] x = challenge.value /\ kind = "register" -> reg
                  [] x = challenge.value /\ kind = "login" -> log
<1>1. x \in Nat /\ x \in 1..MaxChallenge /\ vault \in Vault /\ x <= made
  BY ServeAssumption DEF ServeAssumption, IInv, TypeOK
<1>2. /\ challenge' = [value |-> 0, until |-> 0] /\ Begin(r, c)
      /\ UNCHANGED <<machine, vault, now, grants, queue, asking, sessions, made, enrolling, opened, approved>>
  BY DEF Verify, takeChallenge
<1>3. reg \in Request /\ log \in Request
  BY <1>1, IdleType DEF Request, Places, Kinds
<1>4. /\ reg.at = "load" /\ reg.kind = "register" /\ reg.key = x /\ reg.new = Empty
      /\ log.at = "save" /\ log.kind = "login" /\ log.key = x /\ log.new = vault
  BY DEF Idle
<1> HIDE DEF reg, log
<1>5. \/ c = Idle
      \/ c = reg /\ x = challenge.value
      \/ c = log /\ x = challenge.value
  BY <1>1
<1> HIDE DEF c
<1>6. c \in Request
  BY <1>3, <1>5, IdleType
<1>7. Shape(c) /\ Latest(c, vault)
  BY <1>4, <1>5, IdleIsFine, AddsSelf DEF Shape, Latest, Adding
<1>9. Holds(c) => c.key = x /\ x = challenge.value
  BY <1>4, <1>5, IdleIsFine
<1>10. Becomes(r, c) /\ ~At(r, "queued") /\ begun' \in Nat
  BY <1>2, <1>6, GoesBecomes DEF Begin, At, IInv, TypeOK
<1>11. c.at # "dialog"
  BY <1>4, <1>5, IdleIsFine
<1>12. TypeOK'
  <2>1. challenge' \in Kept
    BY <1>2, ServeAssumption DEF ServeAssumption, Kept
  <2> QED
    BY <1>2, <1>10, <2>1 DEF IInv, TypeOK, machine, Becomes
<1>14. Once'
  <2>1. challenge'.value = 0 /\ challenge'.until = 0
    BY <1>2
  <2>2. \A q \in Slot : Holds(req[q])' =>
          \/ q = r /\ req'[q].key = challenge.value /\ challenge.value \in 1..made
          \/ q # r /\ Holds(req[q]) /\ req'[q].key = req[q].key
    <3>1. x = challenge.value => challenge.value \in 1..made
      BY <1>1 DEF IInv, TypeOK
    <3> QED
      BY <1>9, <1>10, <3>1 DEF Becomes
  <2>3. \A q \in Slot : Holds(req[q])' =>
          req'[q].key \in 1..made /\ req'[q].key # 0 /\ opened[req'[q].key] = 0
    BY <2>2 DEF IInv, Once, TypeOK
  <2>4. \A p, q \in Slot : Holds(req[p])' /\ Holds(req[q])' /\ p # q => req'[p].key # req'[q].key
    BY <2>2 DEF IInv, Once
  <2>5. 0 <= made
    BY DEF IInv, TypeOK
  <2> QED
    BY <1>2, <2>1, <2>3, <2>4, <2>5 DEF IInv, Once
<1>15. \A q \in Slot : (Shape(req[q]) /\ Latest(req[q], vault))'
  BY <1>2, <1>7, <1>10 DEF IInv, Becomes
<1>16. Turns' /\ Queued' /\ Backed'
  BY <1>2, <1>10, <1>11, TurnKept, QueueKept, MoreBacked DEF IInv
<1> QED
  BY <1>12, <1>14, <1>15, <1>16 DEF IInv

LEMMA OptionsGiven == ASSUME IInv, authOptions PROVE IInv'
<1>1. /\ setChallenge
      /\ UNCHANGED <<machine, vault, now, grants, queue, asking, sessions, enrolling, opened, req, begun, approved>>
  BY DEF authOptions
<1>2. /\ made' \in 0..MaxChallenge /\ challenge' \in Kept
      /\ Once' /\ \A q \in Slot : (Shape(req[q]) /\ Latest(req[q], vault))'
  BY <1>1, ChallengeSet
<1>3. TypeOK'
  BY <1>1, <1>2 DEF IInv, TypeOK, machine
<1>4. Turns' /\ Queued' /\ Backed'
  BY <1>1 DEF IInv, Turns, Queued, Backed, At
<1> QED
  BY <1>2, <1>3, <1>4 DEF IInv

\* Saving one makes the others that add to the vault stale.
LEMMA SaveGoesOn == ASSUME IInv, NEW r \in Slot, Save(r) PROVE IInv'
<1> DEFINE b == req[r]
           other(q) == [req[q] EXCEPT !.stale = req[q].kind \in Adding]
<1>1. /\ b \in Request /\ b.at = "save" /\ vault' = b.new
      /\ UNCHANGED <<machine, now, grants, queue, asking, challenge, made, enrolling, begun, approved>>
  BY DEF IInv, TypeOK, Save, At
<1>2. req'[r] = Idle /\ req' = [q \in Slot |-> IF q = r THEN Idle ELSE other(q)]
  BY DEF Save
<1> HIDE DEF other
<1>0. \A q \in Slot : q # r => req'[q] = other(q)
  BY <1>2
<1>3. \A q \in Slot : q # r =>
        /\ req'[q] \in Request /\ req'[q].at = req[q].at /\ req'[q].kind = req[q].kind
        /\ req'[q].key = req[q].key /\ req'[q].new = req[q].new
        /\ req'[q].app = req[q].app /\ req'[q].project = req[q].project /\ req'[q].server = req[q].server
        /\ (req[q].kind \in Adding => req'[q].stale)
  <2> SUFFICES ASSUME NEW q \in Slot, q # r
               PROVE  /\ other(q) \in Request /\ other(q).at = req[q].at /\ other(q).kind = req[q].kind
                      /\ other(q).key = req[q].key /\ other(q).new = req[q].new
                      /\ other(q).app = req[q].app /\ other(q).project = req[q].project
                      /\ other(q).server = req[q].server
                      /\ (req[q].kind \in Adding => other(q).stale)
    BY <1>0
  <2>1. req[q] \in Request /\ (req[q].kind \in Adding) \in BOOLEAN
    BY DEF IInv, TypeOK
  <2> QED
    BY <2>1 DEF Request, other
<1>11. b.kind \in {"register", "login"} =>
         /\ Holds(b) /\ b.key \in 1..made /\ b.key # challenge.value /\ opened[b.key] = 0
         /\ b.key \in 0..MaxChallenge /\ made \in Nat
  <2> SUFFICES ASSUME b.kind \in {"register", "login"}
               PROVE  /\ Holds(b) /\ b.key \in 1..made /\ b.key # challenge.value /\ opened[b.key] = 0
                      /\ b.key \in 0..MaxChallenge /\ made \in Nat
    OBVIOUS
  <2>1. Holds(b)
    BY <1>1 DEF Holds
  <2>2. b.key \in 1..made /\ b.key # challenge.value /\ opened[b.key] = 0
    BY <2>1 DEF IInv, Once
  <2>3. made \in 0..MaxChallenge /\ MaxChallenge \in Nat
    BY ServeAssumption DEF ServeAssumption, IInv, TypeOK
  <2> QED
    BY <2>1, <2>2, <2>3
<1>4. TypeOK'
  <2>1. req' \in [Slot -> Request]
    BY <1>2, <1>3, IdleType
  <2>2. vault' \in Vault
    BY <1>1 DEF Request
  <2>3. opened' \in [0..MaxChallenge -> Nat] /\ sessions' \subseteq Session
    <3>1. CASE b.kind \in {"register", "login"}
      <4>1. b.key \in 0..MaxChallenge
        BY <1>11, <3>1
      <4>2. [challenge |-> b.key, until |-> now + SESSION_TTL] \in Session
        BY <4>1, ServeAssumption DEF ServeAssumption, Session, IInv, TypeOK
      <4> QED
        BY <3>1, <4>1, <4>2 DEF Save, IInv, TypeOK
    <3>2. CASE b.kind \notin {"register", "login"}
      BY <3>2 DEF Save, IInv, TypeOK
    <3> QED
      BY <3>1, <3>2
  <2> QED
    BY <1>1, <2>1, <2>2, <2>3 DEF IInv, TypeOK, machine
<1>5. Turns' /\ Queued' /\ Backed'
  <2>1. Turns'
    BY <1>1, <1>2, <1>3, IdleIsFine DEF IInv, Turns, At
  <2>2. \A i \in 1..Len(queue) : queue[i] \in Slot /\ queue[i] # r
    BY <1>1 DEF IInv, TypeOK, Queued, At
  <2>3. Queued'
    BY <1>1, <1>3, <2>2 DEF IInv, Queued, At
  <2> QED
    BY <1>1, <2>1, <2>3 DEF IInv, Backed
<1>7. \A q \in Slot : (Shape(req[q]) /\ Latest(req[q], vault))'
  BY <1>2, <1>3, IdleIsFine DEF IInv, Shape, Latest
<1>8. \A q \in Slot : Holds(req[q])' => q # r /\ Holds(req[q]) /\ req'[q].key = req[q].key
  BY <1>2, <1>3, IdleIsFine DEF Holds
<1>9. Once'
  <2>1. CASE b.kind \in {"register", "login"}
    <3>1. /\ Holds(b) /\ b.key \in 1..made /\ b.key # challenge.value /\ opened[b.key] = 0
          /\ b.key \in 0..MaxChallenge /\ made \in Nat
      BY <1>11, <2>1
    <3>2. opened' = [opened EXCEPT ![b.key] = opened[b.key] + 1] /\ DOMAIN opened = 0..MaxChallenge
      BY <2>1 DEF Save, IInv, TypeOK
    <3>3. opened'[b.key] = 1 /\ \A c \in 0..MaxChallenge : c # b.key => opened'[c] = opened[c]
      BY <3>1, <3>2
    <3>4. \A c \in 0..MaxChallenge : opened'[c] \in {0, 1} /\ (opened'[c] = 1 => c <= made)
      BY <3>1, <3>3 DEF IInv, Once
    <3>5. challenge.value # 0 => opened'[challenge.value] = 0
      BY <3>1, <3>3 DEF IInv, Once, TypeOK, Kept
    <3>6. \A q \in Slot : Holds(req[q])' =>
            req'[q].key \in 1..made /\ req'[q].key # challenge.value /\ opened'[req'[q].key] = 0
      <4>1. \A q \in Slot : Holds(req[q]) /\ q # r =>
              /\ req[q].key \in 1..made /\ req[q].key # challenge.value /\ opened[req[q].key] = 0
              /\ req[q].key # b.key
        BY <3>1 DEF IInv, Once
      <4>2. \A k \in 1..made : k \in 0..MaxChallenge
        BY <3>1, ServeAssumption DEF ServeAssumption, IInv, TypeOK
      <4> QED
        BY <1>8, <3>3, <4>1, <4>2
    <3>7. \A s \in sessions' : opened'[s.challenge] = 1
      <4>1. \A s \in sessions : s.challenge \in 0..MaxChallenge /\ opened[s.challenge] = 1
        BY DEF IInv, TypeOK, Session, Once
      <4>2. \A s \in sessions' : s \in sessions \/ s.challenge = b.key
        BY <2>1 DEF Save
      <4> QED
        BY <3>1, <3>3, <4>1, <4>2
    <3> QED
      BY <1>1, <1>8, <3>4, <3>5, <3>6, <3>7 DEF IInv, Once
  <2>2. CASE b.kind \notin {"register", "login"}
    <3>1. UNCHANGED <<sessions, opened>>
      BY <2>2 DEF Save
    <3> QED
      BY <1>1, <1>8, <3>1 DEF IInv, Once
  <2> QED
    BY <2>1, <2>2
<1> QED
  BY <1>4, <1>5, <1>7, <1>9 DEF IInv

(***************************************************************************)
(* A server starts anew, grants are revoked, time passes.                   *)
(***************************************************************************)
LEMMA FewerBacked ==
  ASSUME Backed, NEW s,
         grants' = {g \in grants : g.server # s}, approved' = {a \in approved : a.server # s}
  PROVE  Backed'
BY DEF Backed

LEMMA RestartGoesOn == ASSUME IInv, NEW s \in Server, Restart(s) PROVE IInv'
<1>1. /\ grants' = {g \in grants : g.server # s} /\ approved' = {a \in approved : a.server # s}
      /\ UNCHANGED <<backend, tty, vault, now, made, enrolling, opened, begun>>
      /\ \A r \in Slot : req'[r] = IF req[r].server = s THEN Idle ELSE req[r]
      /\ IF s = "serve"
         THEN queue' = <<>> /\ asking' = 0 /\ sessions' = {} /\ challenge' = [value |-> 0, until |-> 0]
         ELSE UNCHANGED <<queue, asking, sessions, challenge>>
  BY DEF Restart, machine
<1>2. \A r \in Slot : req'[r] = Idle \/ (req'[r] = req[r] /\ req[r].server # s)
  BY <1>1
<1>3. TypeOK'
  <2>1. req' \in [Slot -> Request]
    BY IdleType DEF Restart, IInv, TypeOK
  <2>2. <<>> \in Seq(Slot) /\ 0 \in 0..MaxSlot /\ [value |-> 0, until |-> 0] \in Kept
    BY ServeAssumption DEF ServeAssumption, Kept
  <2> QED
    BY <1>1, <2>1, <2>2 DEF IInv, TypeOK, machine
<1>4. Backed'
  BY <1>1, FewerBacked DEF IInv
<1>5. Turns'
  BY <1>1, <1>2, IdleIsFine DEF IInv, Turns, At
<1>6. Queued'
  <2>1. CASE s = "serve"
    <3>1. Len(queue') = 0
      BY <1>1, <2>1
    <3> QED
      BY <3>1 DEF Queued
  <2>2. CASE s # "serve"
    <3>1. \A i \in 1..Len(queue) : /\ queue[i] \in Slot /\ At(queue[i], "queued")
                                   /\ req[queue[i]].server = "serve"
      BY DEF IInv, TypeOK, Queued, Shape, At
    <3>2. \A i \in 1..Len(queue) : req'[queue[i]] = req[queue[i]]
      BY <1>1, <2>2, <3>1
    <3> QED
      BY <1>1, <2>2, <3>1, <3>2 DEF IInv, Queued, At
  <2> QED
    BY <2>1, <2>2
<1>8. Once'
  <2>1. \A q \in Slot : Holds(req[q])' => Holds(req[q]) /\ req'[q] = req[q]
    BY <1>2, IdleIsFine
  <2>2. CASE s = "serve"
    <3>1. challenge'.value = 0 /\ challenge'.until = 0 /\ sessions' = {} /\ 0 <= made
      BY <1>1, <2>2 DEF IInv, TypeOK
    <3>2. \A q \in Slot : Holds(req[q])' => req'[q].key # 0
      BY <2>1 DEF IInv, Once, TypeOK
    <3> QED
      BY <1>1, <2>1, <3>1, <3>2 DEF IInv, Once
  <2>3. CASE s # "serve"
    BY <1>1, <2>1, <2>3 DEF IInv, Once
  <2> QED
    BY <2>2, <2>3
<1>9. \A q \in Slot : (Shape(req[q]) /\ Latest(req[q], vault))'
  BY <1>1, <1>2, IdleIsFine DEF IInv
<1> QED
  BY <1>3, <1>4, <1>5, <1>6, <1>8, <1>9 DEF IInv

LEMMA RevokeGoesOn == ASSUME IInv, revokeAll PROVE IInv'
<1>1. Backed'
  BY FewerBacked DEF IInv, revokeAll
<1>2. TypeOK'
  BY DEF revokeAll, IInv, TypeOK, machine, browser
<1> QED
  BY <1>1, <1>2 DEF revokeAll, IInv, Turns, Queued, Once, At, browser

LEMMA TickGoesOn == ASSUME IInv, Tick PROVE IInv'
<1>1. TypeOK'
  BY DEF Tick, IInv, TypeOK, machine, browser
<1> QED
  BY <1>1 DEF Tick, IInv, Turns, Queued, Backed, Once, At, browser

LEMMA StutterGoesOn == ASSUME IInv, UNCHANGED vars PROVE IInv'
<1>1. TypeOK'
  BY DEF vars, IInv, TypeOK, machine, browser
<1> QED
  BY <1>1 DEF vars, IInv, Turns, Queued, Backed, Once, At, browser

LEMMA InitIInv == Init => IInv
<1> SUFFICES ASSUME Init PROVE IInv
  OBVIOUS
<1> DEFINE first == CHOOSE p \in Project : TRUE
           k == [id |-> 1, project |-> first, until |-> 1]
           full == [p \in Project |-> 2]
<1>1. first \in Project
  BY ServeAssumption DEF ServeAssumption
<1> HIDE DEF first
<1>2. k \in Key
  BY <1>1, ServeAssumption DEF ServeAssumption, Key
<1>3. vault = [proj |-> full, keys |-> {k}, connected |-> TRUE, passkeys |-> {0}]
  BY DEF Init, Empty, first
<1>4. full \in [Project -> Content]
  BY DEF Content
<1> HIDE DEF k, full
<1>5. vault \in Vault /\ vault.passkeys = {0}
  BY <1>2, <1>3, <1>4, ServeAssumption DEF ServeAssumption, Vault
<1>6. sessions \subseteq Session /\ challenge \in Kept /\ challenge.value = 0
      /\ \A s \in sessions : s.challenge = 0
  <2>1. 1 + SESSION_TTL \in Nat /\ 0 \in 0..MaxChallenge
    BY ServeAssumption DEF ServeAssumption
  <2> QED
    BY <2>1 DEF Init, Session, Kept
<1>7. TypeOK
  <2>1. 0 \in 0..MaxChallenge /\ 0 \in 0..MaxSlot
    BY ServeAssumption DEF ServeAssumption
  <2>2. req \in [Slot -> Request]
    BY IdleType DEF Init
  <2>3. /\ backend \in Backend /\ tty \in BOOLEAN /\ now \in Nat /\ begun \in Nat
        /\ grants \subseteq Grant /\ approved \subseteq Approval
        /\ queue \in Seq(Slot) /\ asking \in 0..MaxSlot
        /\ made \in 0..MaxChallenge /\ enrolling \subseteq 0..MaxChallenge
    BY <2>1 DEF Init
  <2>4. opened \in [0..MaxChallenge -> Nat]
    BY DEF Init
  <2> QED
    BY <1>5, <1>6, <2>2, <2>3, <2>4 DEF TypeOK
<1>8. \A r \in Slot : req[r] = Idle
  BY DEF Init
<1>9. Turns /\ Queued /\ Backed
  <2>1. queue = <<>> /\ Len(queue) = 0 /\ grants = {}
    BY DEF Init
  <2> QED
    BY <1>8, <2>1, IdleIsFine DEF Turns, Queued, Backed, At
<1>11. Once
  <2>1. \A c \in 0..MaxChallenge : opened[c] \in {0, 1} /\ (opened[c] = 1 => c <= 0)
    BY DEF Init
  <2>2. opened[0] = 1
    BY ServeAssumption DEF ServeAssumption, Init
  <2>3. made = 0 /\ challenge.until = 0
    BY DEF Init
  <2> QED
    BY <1>6, <1>8, <2>1, <2>2, <2>3, IdleIsFine DEF Once
<1> QED
  BY <1>7, <1>8, <1>9, <1>11, IdleIsFine DEF IInv

LEMMA NextIInv == IInv /\ [Next]_vars => IInv'
<1> SUFFICES ASSUME IInv, [Next]_vars PROVE IInv'
  OBVIOUS
<1>1. ASSUME NEW r \in Slot, Handled(r) \/ Closed(r) \/ DashEdit(r) \/ registerOptions(r) PROVE IInv'
  BY <1>1, Identifies, AskGoesOn, KeyAnswers, LoadGoesOn, SaveGoesOn, DoneEnds, ApproveGoesOn,
     DenyEnds, AgentAnswers, EditComes, RegistrationComes DEF Handled, Closed
<1>2. ASSUME NEW r \in Slot, NEW p \in Project \cup {All}, NEW t \in KeyTime,
             createApiKey(r, p, IF t = 0 THEN 0 ELSE now + t)
      PROVE  IInv'
  <2>1. (IF t = 0 THEN 0 ELSE now + t) \in Nat
    BY ServeAssumption DEF ServeAssumption, IInv, TypeOK
  <2> QED
    BY <1>2, <2>1, IssueComes
<1> QED
  BY <1>1, <1>2, RevealComes, SecretComes, AgentComes, KeyComes, VerifyGoesOn, OptionsGiven,
     RevokeGoesOn, TickGoesOn, RestartGoesOn, StutterGoesOn DEF Next

(***************************************************************************)
(* Every reachable state of the servers is well formed.                     *)
(***************************************************************************)
THEOREM ServeTypes == Spec => []TypeOK
<1>1. IInv => TypeOK
  BY DEF IInv
<1> QED
  BY <1>1, InitIInv, NextIInv, PTL DEF Spec

(***************************************************************************)
(* POST /secret asks about one request at a time (server.ts: enqueueAuth),  *)
(* however many are handled: the dialog belongs to whose turn it is.        *)
(***************************************************************************)
THEOREM DialogsTakeTurns == Spec => []OneDialog
<1>1. IInv => OneDialog
  BY DEF IInv, Turns, OneDialog
<1> QED
  BY <1>1, InitIInv, NextIInv, PTL DEF Spec

(***************************************************************************)
(* A challenge opens one session at most, however ceremonies overlap,       *)
(* repeat or come late (passkeys.ts).                                       *)
(***************************************************************************)
THEOREM ChallengesSpentOnce == Spec => []CeremoniesOnce
<1>1. IInv => CeremoniesOnce
  <2> SUFFICES ASSUME IInv PROVE CeremoniesOnce
    OBVIOUS
  <2>1. \A c \in 0..MaxChallenge : opened[c] <= 1
    BY DEF IInv, Once
  <2> QED
    BY <2>1 DEF IInv, Once, CeremoniesOnce
<1> QED
  BY <1>1, InitIInv, NextIInv, PTL DEF Spec

(***************************************************************************)
(* An adding request undoes nothing that was saved since its user approved  *)
(* it or it came (dash.ts: createApiKey; passkeys.ts).                      *)
(***************************************************************************)
LEMMA SaveAdds ==
  ASSUME IInv, [Next]_vars, NEW r \in Slot, At(r, "save"), req'[r].at = "idle",
         req[r].kind \in Adding, ~req[r].stale
  PROVE  Adds(vault, vault')
<1>1. ASSUME NEW q \in Slot, Save(q) PROVE Adds(vault, vault')
  <2>1. CASE q = r
    BY <1>1, <2>1 DEF Save, IInv, Latest, At
  <2>2. CASE q # r
    <3>1. req'[r] = [req[r] EXCEPT !.stale = req[r].kind \in Adding]
      BY <1>1, <2>2 DEF Save
    <3>2. req'[r].at = req[r].at
      BY <3>1 DEF IInv, TypeOK, Request
    <3> QED
      BY <3>2 DEF At
  <2> QED
    BY <2>1, <2>2
<1>2. (\E q \in Slot : Save(q)) \/ vault' = vault
  BY Zenon DEF Next, Handled, Closed, Identified, Ask, AnswerKey, Load, Done, Approve, Deny, ViaAgent,
         DashEdit, registerOptions, revealVar, Secret, getSecrets, SecretWithKey, createApiKey,
         Verify, authOptions, revokeAll, Tick, Restart, vars
<1> QED
  BY <1>1, <1>2, AddsSelf

THEOREM AddingKeepsTheRest == Spec => AddedToLatest
<1>1. IInv /\ [Next]_vars =>
        [\A r \in Slot :
           At(r, "save") /\ req'[r].at = "idle" /\ req[r].kind \in Adding /\ ~req[r].stale
             => /\ vault'.proj = vault.proj /\ vault'.connected = vault.connected
                /\ vault.keys \subseteq vault'.keys /\ vault.passkeys \subseteq vault'.passkeys]_vars
  BY SaveAdds DEF Adds
<1> QED
  BY <1>1, InitIInv, NextIInv, PTL DEF Spec, AddedToLatest

(***************************************************************************)
(* A grant answers for an approval, and nothing else says it does.          *)
(***************************************************************************)
LEMMA GrantApproved ==
  ASSUME IInv, NEW c, findGrant(c.server, c.app, c.project)
  PROVE  ApprovedBefore(c)
<1>1. PICK g \in grants : g.server = c.server /\ g.app = c.app /\ g.project = c.project /\ g.until > now
  BY DEF findGrant
<1>2. PICK a \in approved :
        a.server = g.server /\ a.app = g.app /\ a.project = g.project /\ g.until <= a.at + MAX_TTL
  BY DEF IInv, Backed
<1>3. now \in Nat /\ g.until \in Nat /\ a.at \in Nat /\ MAX_TTL \in Nat
  BY ServeAssumption DEF ServeAssumption, IInv, TypeOK, Grant, Approval
<1>4. now < a.at + MAX_TTL
  BY <1>1, <1>2, <1>3
<1> QED
  BY <1>1, <1>2, <1>4 DEF ApprovedBefore

\* The steps of a request that do not answer it.
LEMMA Unanswered ==
  ASSUME IInv, NEW q \in Slot, NEW c, Goes(q, c), c.at # "answered", NEW r \in Slot, ~At(r, "answered")
  PROVE  req'[r].at # "answered"
BY DEF IInv, TypeOK, Goes, At

LEMMA OthersUnanswered ==
  ASSUME IInv, NEW q \in Slot, NEW c, Goes(q, c), NEW r \in Slot, r # q, ~At(r, "answered")
  PROVE  req'[r].at # "answered"
BY DEF IInv, TypeOK, Goes, At

\* Who is answered has been asked for by one of these.
Answering(r) ==
  \/ AnswerKey(r) \/ Identified(r) \/ Approve(r) \/ ViaAgent(r)
  \/ \E app \in App, p \in Project, ttl \in Ttl : getSecrets(r, app, p, ttl)

LEMMA OnlyAnswering ==
  ASSUME IInv, [Next]_vars, NEW r \in Slot, ~At(r, "answered"), req'[r].at = "answered"
  PROVE  Answering(r)
<1>1. ASSUME NEW q \in Slot, q # r, Answering(q) PROVE FALSE
  <2>1. \E c : Goes(q, c)
    BY Zenon, <1>1 DEF Answering, AnswerKey, Identified, Approve, ViaAgent, getSecrets, Begin
  <2> QED
    BY <1>1, <2>1, OthersUnanswered
<1>2. ASSUME NEW q \in Slot, Ask(q) \/ Load(q) PROVE FALSE
  <2>1. req[q] \in Request
    BY DEF IInv, TypeOK
  <2>2. \A n : /\ [req[q] EXCEPT !.at = "dialog"].at # "answered"
               /\ [req[q] EXCEPT !.at = "save", !.stale = FALSE, !.new = n].at # "answered"
    BY <2>1 DEF Request
  <2>3. \E c : Goes(q, c) /\ c.at # "answered"
    BY <1>2, <2>2, IdleIsFine DEF Ask, Load
  <2> QED
    BY <2>3, Unanswered
<1>3. ASSUME NEW q \in Slot, Done(q) \/ Deny(q) PROVE FALSE
  BY <1>3, IdleIsFine, Unanswered DEF Done, Deny
<1>4. ASSUME NEW q \in Slot, NEW c, Begin(q, c), c.at # "answered" PROVE FALSE
  BY <1>4, Unanswered DEF Begin
<1>5. ASSUME NEW q \in Slot, Save(q) PROVE FALSE
  <2>1. req'[r] = IF r = q THEN Idle ELSE [req[r] EXCEPT !.stale = req[r].kind \in Adding]
    BY <1>5 DEF Save
  <2>2. [req[r] EXCEPT !.stale = req[r].kind \in Adding].at = req[r].at
    BY DEF IInv, TypeOK, Request
  <2> QED
    BY <2>1, <2>2, IdleIsFine DEF At
<1>6. ASSUME NEW q \in Slot, DashEdit(q) \/ registerOptions(q) PROVE FALSE
  <2>1. \A n : /\ [Idle EXCEPT !.at = "dialog", !.kind = "edit", !.new = n].at # "answered"
               /\ [Idle EXCEPT !.at = "dialog", !.kind = "register"].at # "answered"
    BY DEF Idle
  <2> QED
    BY <1>4, <1>6, <2>1 DEF DashEdit, registerOptions
<1>7. ASSUME NEW q \in Slot, NEW p, NEW t,
             revealVar(q, p) \/ createApiKey(q, p, t)
      PROVE  FALSE
  <2>1. /\ [Idle EXCEPT !.at = "dialog", !.kind = "reveal", !.project = p].at # "answered"
        /\ [Idle EXCEPT !.at = "dialog", !.kind = "issue", !.project = p, !.ttl = t].at # "answered"
    BY DEF Idle
  <2> QED
    BY <1>4, <1>7, <2>1 DEF revealVar, createApiKey
<1>8. ASSUME NEW q \in Slot, NEW app, NEW p, NEW t, Secret(q, app, p, t) PROVE FALSE
  <2>1. [Idle EXCEPT !.at = "identify", !.app = app, !.project = p, !.ttl = t].at # "answered"
    BY DEF Idle
  <2> QED
    BY <1>4, <1>8, <2>1 DEF Secret
<1>9. ASSUME NEW q \in Slot, NEW p, NEW id, SecretWithKey(q, p, id) PROVE FALSE
  <2>1. [Idle EXCEPT !.at = "key", !.project = p, !.key = id, !.base = vault].at # "answered"
    BY DEF Idle
  <2> QED
    BY <1>4, <1>9, <2>1 DEF SecretWithKey
<1>10. ASSUME NEW q \in Slot, NEW kind \in {"register", "login"}, NEW x, Verify(q, kind, x) PROVE FALSE
  <2>1. /\ [Idle EXCEPT !.at = "load", !.kind = "register", !.key = x].at # "answered"
        /\ [Idle EXCEPT !.at = "save", !.kind = "login", !.key = x, !.new = vault].at # "answered"
    BY DEF Idle
  <2>2. \E c : Begin(q, c) /\ c.at # "answered"
    BY <1>10, <2>1, IdleIsFine DEF Verify
  <2> QED
    BY <1>4, <2>2
<1>11. ASSUME authOptions \/ revokeAll \/ Tick \/ UNCHANGED vars PROVE FALSE
  BY <1>11 DEF authOptions, revokeAll, Tick, vars, At
<1>12. ASSUME NEW s \in Server, Restart(s) PROVE FALSE
  BY <1>12, IdleIsFine DEF Restart, At
<1>13. ASSUME NEW q \in Slot, Handled(q) \/ Closed(q) PROVE Answering(r)
  BY <1>1, <1>2, <1>3, <1>5, <1>13 DEF Handled, Closed, Answering
<1>14. ASSUME NEW q \in Slot, NEW p \in Project, NEW app \in App, NEW ttl \in Ttl,
              getSecrets(q, app, p, ttl)
       PROVE  Answering(r)
  BY <1>1, <1>14 DEF Answering
<1> QED
  BY <1>6, <1>7, <1>8, <1>9, <1>10, <1>11, <1>12, <1>13, <1>14 DEF Next

\* What is answered otherwise says so.
LEMMA OtherwiseSaid ==
  ASSUME IInv, NEW r \in Slot, req'[r].at = "answered", AnswerKey(r) \/ Approve(r) \/ ViaAgent(r)
  PROVE  req'[r].how # "grant"
<1> DEFINE b == req[r]
<1>1. b \in Request
  BY DEF IInv, TypeOK
<1>2. ASSUME NEW how \in {"key", "agent"}, req'[r] = [b EXCEPT !.at = "answered", !.how = how]
      PROVE  req'[r].how # "grant"
  BY <1>1, <1>2 DEF Request
<1>3. CASE AnswerKey(r)
  <2>1. req'[r] = [b EXCEPT !.at = "answered", !.how = "key"]
    BY <1>3, IdleIsFine DEF AnswerKey, Goes, IInv, TypeOK
  <2> QED
    BY <1>2, <2>1
<1>4. CASE ViaAgent(r)
  <2>1. req'[r] = [b EXCEPT !.at = "answered", !.how = "agent"]
    BY <1>4 DEF ViaAgent, Goes, IInv, TypeOK
  <2> QED
    BY <1>2, <2>1
<1>5. CASE Approve(r)
  <2>1. b.kind # "register" /\ req'[r] = Agreed(b)
    BY <1>5, IdleIsFine DEF Approve, Goes, IInv, TypeOK
  <2>2. b.kind \in {"secret", "reveal"}
    BY <1>1, <2>1 DEF Agreed, Request
  <2> QED
    BY <1>1, <2>1, <2>2 DEF Agreed, Request
<1> QED
  BY <1>3, <1>4, <1>5

LEMMA AnswerBacked ==
  ASSUME IInv, [Next]_vars, NEW r \in Slot,
         ~At(r, "answered"), req'[r].at = "answered", req'[r].how = "grant"
  PROVE  ApprovedBefore(req'[r])
<1> DEFINE b == req[r]
<1>1. b \in Request /\ Shape(b)
  BY DEF IInv, TypeOK
<1>2. ASSUME NEW c, findGrant(c.server, c.app, c.project),
             req'[r].server = c.server, req'[r].app = c.app, req'[r].project = c.project
      PROVE  ApprovedBefore(req'[r])
  BY <1>2, GrantApproved DEF ApprovedBefore
<1>3. CASE Identified(r)
  <2>1. CASE GrantTime(b.ttl) > 0 /\ findGrant("serve", b.app, b.project)
    <3>1. req'[r] = [b EXCEPT !.at = "answered", !.how = "grant"] /\ At(r, "identify")
      BY <1>3, <2>1 DEF Identified, Goes, IInv, TypeOK
    <3>2. /\ b.server = "serve" /\ req'[r].app = b.app /\ req'[r].project = b.project
          /\ req'[r].server = b.server
      BY <1>1, <3>1 DEF Request, Shape, At
    <3> QED
      BY <1>2, <2>1, <3>2
  <2>2. CASE ~(GrantTime(b.ttl) > 0 /\ findGrant("serve", b.app, b.project))
    <3>1. req'[r] = [b EXCEPT !.at = "queued"]
      BY <1>3, <2>2 DEF Identified, Goes, IInv, TypeOK
    <3> QED
      BY <1>1, <3>1 DEF Request
  <2> QED
    BY <2>1, <2>2
<1>4. ASSUME NEW app \in App, NEW p \in Project, NEW ttl \in Ttl, getSecrets(r, app, p, ttl)
      PROVE  ApprovedBefore(req'[r])
  <2> DEFINE i == [Idle EXCEPT !.server = "mcp", !.app = app, !.project = p, !.ttl = ttl]
  <2>1. i.at = "idle" /\ i.app = app /\ i.project = p /\ i.server = "mcp" /\ i \in Request
    <3>1. ttl \in Nat
      BY ServeAssumption DEF ServeAssumption
    <3> QED
      BY <3>1, IdleType DEF Idle, Request, Who, What, Server
  <2>2. req'[r] = IF GrantTime(ttl) > 0 /\ findGrant("mcp", app, p)
                  THEN [i EXCEPT !.at = "answered", !.how = "grant"] ELSE [i EXCEPT !.at = "dialog"]
    BY <1>4 DEF getSecrets, Begin, Goes, IInv, TypeOK
  <2> HIDE DEF i
  <2>3. GrantTime(ttl) > 0 /\ findGrant("mcp", app, p)
    BY <2>1, <2>2 DEF Request
  <2>4. req'[r].app = app /\ req'[r].project = p /\ req'[r].server = "mcp"
    BY <2>1, <2>2, <2>3 DEF Request
  <2> QED
    BY <1>2, <2>1, <2>3, <2>4
<1> QED
  BY <1>3, <1>4, OnlyAnswering, OtherwiseSaid DEF Answering

(***************************************************************************)
(* Values go out for a session grant only within a day of the user's        *)
(* approval of a request of the same caller for the same project, at the    *)
(* same server, that no revocation and no restart has taken back            *)
(* (api/grants.ts, mcp/grants.ts), however long requests wait in between.   *)
(***************************************************************************)
THEOREM GrantsAreBacked == Spec => GrantsBacked
<1>1. IInv /\ [Next]_vars =>
        [\A r \in Slot :
           ~At(r, "answered") /\ req'[r].at = "answered" /\ req'[r].how = "grant"
             => ApprovedBefore(req'[r])]_vars
  BY AnswerBacked
<1> QED
  BY <1>1, InitIInv, NextIInv, PTL DEF Spec, GrantsBacked

(***************************************************************************)
(* Pairing.                                                                 *)
(***************************************************************************)
Ats       == {"idle", "listening", "ready", "hello", "sig", "code", "confirm", "reread", "save", "ack"}
Partnered == {"sig", "code", "confirm", "reread", "save", "ack"}
Connected == Partnered \cup {"hello"}

Frame == [t : {"hello"}, pin : BOOLEAN, id : Id, name : PeerName, role : Role \cup {"any"}]
         \cup [t : {"sig", "error"}] \cup [t : {"confirm", "saved"}, ok : BOOLEAN]
Peers == [id : Id, ed : PubKey, x : PubKey, role : Role, name : PeerName]
Saved == [own : Id \cup {NoId}, peers : Tables]
Opts  == [role : Role \cup {"any"}, name : PeerName \cup {NoName}, replace : BOOLEAN]
Commands == [at : Ats, side : Side, opts : Opts, id : Id \cup {NoId}, created : BOOLEAN,
             seen : Tables, fails : Nat, s : {0} \cup Connection, peer : Peers \cup {NoPeer}, base : Saved]
Edits == [at : {"idle", "ask", "save"}, kind : {"whoami", "unpair"}, id : Id \cup {NoId}, base : Saved]
Links == [l : Machine, c : Machine, h : {"none", "hello", "in", "over"}, to : [Side -> Seq(Frame)],
          shut : SUBSET Side, yes : SUBSET Side, wrote : SUBSET Side, told : SUBSET Side,
          broken : BOOLEAN]

PairTypeOK ==
  /\ vaults \in [Machine -> Saved]
  /\ cmd \in [Machine -> Commands]
  /\ edit \in [Machine -> Edits]
  /\ link \in [Connection -> Links]
  /\ minted \in MaxOwned..MaxIdentity /\ events \in Nat

(***************************************************************************)
(* Commands and their connections.                                          *)
(***************************************************************************)
End(k, d) == IF d = "listener" THEN k.l ELSE k.c
Elements(fs) == {fs[i] : i \in 1..Len(fs)}
Frames(k, d) == Elements(k.to[d])

\* What a command's place says of it, and of the connection k it has.
PlaceOK(c) ==
  /\ IF c.at \in Connected THEN c.s # 0 ELSE c.s = 0
  /\ c.at \in {"listening", "sig"} => c.side = "listener"
  /\ c.at \in {"ready", "hello"} => c.side = "connector"
  /\ c.at # "idle" => c.id \in Id /\ (c.side = "listener" => c.opts.role \in Role)
  /\ c.at \in Partnered => c.peer \in Peers

Attached(m, c, k) ==
  /\ End(k, c.side) = m /\ k.h # "none"
  /\ c.side = "listener" => k.h = "in"
  /\ c.at \in {"confirm", "reread", "save", "ack"} <=> c.side \in k.yes
  /\ c.at \in {"reread", "save", "ack"} => Other(c.side) \in k.yes
  /\ c.at = "ack" => c.side \in k.wrote

\* A frame that says yes is from a side that has said so, one that says saved from
\* one that has saved; and a listener's hello has a role.
Truthful(k) == \A d \in Side : \A f \in Frames(k, d) :
  /\ Confirms(f) => Other(d) \in k.yes
  /\ PeerSaved(f) => Other(d) \in k.wrote
  /\ d = "connector" /\ f.t = "hello" => f.role \in Role

LinkOK(s, k) ==
  /\ k.h = "none" => k = NoLink
  /\ k.h # "none" => k.l # k.c
  /\ k.h = "in" => cmd[k.l].s = s /\ cmd[k.l].side = "listener"
  /\ k.h = "hello" =>
       /\ cmd[k.l].at # "idle" /\ cmd[k.l].side = "listener"
       /\ cmd[k.c].s = s => cmd[k.c].at = "hello"
       /\ k.yes = {} /\ \A f \in Frames(k, "connector") : f.t # "hello"
  /\ Truthful(k)

Structure ==
  /\ \A m \in Machine : PlaceOK(cmd[m]) /\ (cmd[m].s # 0 => Attached(m, cmd[m], link[cmd[m].s]))
  /\ \A s \in Connection : LinkOK(s, link[s])

(***************************************************************************)
(* Identities.                                                              *)
(***************************************************************************)
Keyed(peers) == \A i \in Paired(peers) : peers[i].ed = i /\ peers[i].x = i
Owns(m) == {vaults[m].own, cmd[m].id, cmd[m].base.own, edit[m].base.own} \ {NoId}
Knows(m) == Paired(vaults[m].peers) \cup Paired(cmd[m].seen) \cup Paired(cmd[m].base.peers)
            \cup Paired(edit[m].base.peers)
Partner(m) == End(link[cmd[m].s], Other(cmd[m].side))
Hellos(k, d) == {f.id : f \in {g \in Frames(k, d) : g.t = "hello"}}

OwnsOK ==
  /\ \A m \in Machine : Owns(m) \subseteq (1..minted) \ Stranger
  /\ \A m, n \in Machine : m # n => Owns(m) \cap Owns(n) = {}
KnowsOK == \A m \in Machine : Knows(m) \subseteq (1..minted) \cup Stranger /\ Knows(m) \cap Owns(m) = {}
HellosOK == \A s \in Connection, d \in Side : Hellos(link[s], d) \subseteq 1..minted /\
  \A n \in Machine : n # End(link[s], Other(d)) => Hellos(link[s], d) \cap Owns(n) = {}
PeersOK == \A m \in Machine : cmd[m].at \in Partnered =>
  /\ cmd[m].peer.id \in 1..minted /\ cmd[m].peer.ed = cmd[m].peer.id /\ cmd[m].peer.x = cmd[m].peer.id
  /\ \A n \in Machine : n # Partner(m) => cmd[m].peer.id \notin Owns(n)

Proper(own, peers) == Keyed(peers) /\ TableOK(Ident(own), peers)
ProperOK == \A m \in Machine :
  /\ Proper(vaults[m].own, vaults[m].peers) /\ Keyed(cmd[m].seen)
  /\ Proper(cmd[m].base.own, cmd[m].base.peers) /\ Proper(edit[m].base.own, edit[m].base.peers)

Identities == OwnsOK /\ KnowsOK /\ HellosOK /\ PeersOK /\ ProperOK

(***************************************************************************)
(* Roles.  Said(m, t): the person at m has confirmed in session t.          *)
(***************************************************************************)
Said(m, t) == \E d \in link[t].yes : End(link[t], d) = m
Before == \A s, t \in Connection : s < t /\ link[t].h # "none" => link[s].h # "none"
Newest == \A m \in Machine, t \in Connection : Said(m, t) /\ cmd[m].s # 0 => t <= cmd[m].s
Waits  == \A s, t \in Connection :
  link[s].h = "hello" /\ Said(link[s].l, t) => t <= s \/ cmd[link[s].l].s = t
Ordered == Before /\ Newest /\ Waits

LIn(s) == link[s].h = "in"
CIn(s) == link[s].h # "none" /\ cmd[link[s].c].s = s /\ cmd[link[s].c].side = "connector"

\* What the two sides of a session have of each other.
Talk(s) == LET l == cmd[link[s].l]  c == cmd[link[s].c] IN
  /\ CIn(s) => \A f \in Frames(link[s], "listener") : f.t = "hello" => f.id = c.id
  /\ LIn(s) => \A f \in Frames(link[s], "connector") : f.t = "hello" => f.id = l.id /\ f.role = l.opts.role
  /\ LIn(s) => l.peer.role = oppositeRole(l.opts.role)
  /\ LIn(s) /\ CIn(s) => l.peer.id = c.id
  /\ LIn(s) /\ CIn(s) /\ c.at \in Partnered => c.peer.id = l.id /\ c.peer.role = l.opts.role
  /\ CIn(s) /\ c.at = "hello" => link[s].yes = {}
  /\ CIn(s) /\ c.at = "hello" /\ LIn(s) => l.at = "sig"
  /\ CIn(s) /\ c.at = "hello" => \A f \in Frames(link[s], "listener") : f.t # "sig"
Talks == \A s \in Connection : Talk(s)

\* The peers a vault has are those its command saw, or fewer, until it saves; and
\* the command's peer, if the vault has it, has the role it is to have.
Remembers(m) == cmd[m].at \in {"listening", "ready", "hello"} => \A i \in Paired(vaults[m].peers) :
  cmd[m].seen[i] # NoPeer /\ cmd[m].seen[i].role = vaults[m].peers[i].role
Steady(m) == cmd[m].at \in Partnered =>
  LET e == vaults[m].peers[cmd[m].peer.id] IN e # NoPeer => e.role = cmd[m].peer.role

\* Once the other person has confirmed, the other vault does not have this one in the
\* role that its machine has here.
Match(m) == cmd[m].at \in Partnered /\ Other(cmd[m].side) \in link[cmd[m].s].yes =>
  LET e == vaults[Partner(m)].peers[cmd[m].id] IN e # NoPeer => e.role # cmd[m].peer.role

\* An identity that is not saved yet is known in its own session only.
Fresh(m) == cmd[m].created /\ cmd[m].at \notin {"idle", "ack"} =>
  /\ \A n \in Machine : cmd[n].at \in Partnered /\ cmd[n].peer.id = cmd[m].id => cmd[n].s = cmd[m].s
  /\ \A s \in Connection, d \in Side : cmd[m].id \in Hellos(link[s], d) => s = cmd[m].s
  /\ \A n \in Machine : cmd[m].id \in Paired(vaults[n].peers) =>
       cmd[m].at \in Partnered /\ vaults[n].own = cmd[m].peer.id

\* Some machine has identity i as a peer, or may be about to.
Met(i) == \/ \E n \in Machine : i \in Paired(vaults[n].peers)
          \/ \E n \in Machine : cmd[n].at \in Partnered /\ cmd[n].peer.id = i
          \/ \E s \in Connection, d \in Side : i \in Hellos(link[s], d)
FreshEdit(m) == edit[m].at = "save" /\ edit[m].kind = "whoami" =>
  edit[m].base.own \notin {NoId, cmd[m].id} /\ ~Met(edit[m].base.own)

Opposed(m, n) ==
  LET i == vaults[m].own
      j == vaults[n].own
  IN m # n /\ i # NoId /\ j # NoId /\ vaults[m].peers[j] # NoPeer /\ vaults[n].peers[i] # NoPeer
       => vaults[m].peers[j].role # vaults[n].peers[i].role

(***************************************************************************)
(* Frames and connections.                                                  *)
(***************************************************************************)
LEMMA AppendElements ==
  ASSUME NEW F, NEW q \in Seq(F), NEW f \in F
  PROVE  Append(q, f) \in Seq(F) /\ Elements(Append(q, f)) = Elements(q) \cup {f}
<1>1. Append(q, f) \in Seq(F) /\ Len(Append(q, f)) = Len(q) + 1 /\ Len(q) \in Nat
  OBVIOUS
<1>2. \A i \in 1..Len(q) : Append(q, f)[i] = q[i]
  OBVIOUS
<1>3. Append(q, f)[Len(q) + 1] = f
  OBVIOUS
<1> QED
  BY <1>1, <1>2, <1>3 DEF Elements

LEMMA TailElements ==
  ASSUME NEW F, NEW q \in Seq(F), q # <<>>
  PROVE  /\ Tail(q) \in Seq(F) /\ Elements(Tail(q)) \subseteq Elements(q)
         /\ Head(q) \in F /\ Head(q) \in Elements(q)
<1>1. Len(q) \in Nat /\ Len(q) >= 1 /\ Head(q) = q[1]
  OBVIOUS
<1>2. Tail(q) \in Seq(F) /\ Len(Tail(q)) = Len(q) - 1 /\ \A i \in 1..Len(q) - 1 : Tail(q)[i] = q[i + 1]
  OBVIOUS
<1>3. \A i \in 1..Len(q) : q[i] \in F
  OBVIOUS
<1> QED
  BY <1>1, <1>2, <1>3 DEF Elements

LEMMA SubElements ==
  ASSUME NEW F, NEW q \in Seq(F), NEW n \in 0..1, n < Len(q)
  PROVE  SubSeq(q, 1, n) \in Seq(F) /\ Elements(SubSeq(q, 1, n)) \subseteq Elements(q)
<1>1. Len(q) \in Nat /\ Len(q) >= n /\ \A i \in 1..Len(q) : q[i] \in F
  OBVIOUS
<1>2. Len(SubSeq(q, 1, n)) = n /\ \A i \in 1..n : SubSeq(q, 1, n)[i] = q[i]
  BY <1>1
<1>3. SubSeq(q, 1, n) \in Seq(F)
  BY <1>1
<1> QED
  BY <1>1, <1>2, <1>3 DEF Elements

LEMMA EmptyElements == Elements(<<>>) = {} /\ \A F : <<>> \in Seq(F)
BY DEF Elements

LEMMA FrameTypes ==
  /\ [t |-> "error"] \in Frame /\ [t |-> "sig"] \in Frame
  /\ \A b \in BOOLEAN : [t |-> "confirm", ok |-> b] \in Frame /\ [t |-> "saved", ok |-> b] \in Frame
BY DEF Frame

\* Frames that promise nothing and introduce nobody.
Harmless(f) == f.t \notin {"hello", "sig"} /\ ~Confirms(f) /\ ~PeerSaved(f)

\* k is now k2: nobody has confirmed or saved, and no frame is there that says more.
Less(k, k2) ==
  /\ k2.l = k.l /\ k2.c = k.c /\ k2.yes = k.yes /\ k2.wrote = k.wrote
  /\ k2.h = k.h \/ (k.h # "none" /\ k2.h = "over")
  /\ k.h = "none" => k2 = k
  /\ \A d \in Side : \A f \in Frames(k2, d) : f \in Frames(k, d) \/ Harmless(f)

LEMMA LinkFields ==
  ASSUME NEW k \in Links
  PROVE  /\ k.l \in Machine /\ k.c \in Machine /\ k.h \in {"none", "hello", "in", "over"}
         /\ k.to \in [Side -> Seq(Frame)] /\ k.shut \subseteq Side /\ k.yes \subseteq Side
         /\ k.wrote \subseteq Side /\ k.told \subseteq Side /\ k.broken \in BOOLEAN
         /\ \A d \in Side : k.to[d] \in Seq(Frame)
BY DEF Links

LEMMA SendIs ==
  ASSUME NEW k \in Links, NEW d \in Side, NEW f \in Frame
  PROVE  LET k2 == Send(k, d, f) IN
         /\ k2 \in Links
         /\ k2.l = k.l /\ k2.c = k.c /\ k2.h = k.h /\ k2.shut = k.shut /\ k2.yes = k.yes
         /\ k2.wrote = k.wrote /\ k2.told = k.told /\ k2.broken = k.broken
         /\ \A e \in Side : Frames(k2, e) \subseteq Frames(k, e) \cup {f}
         /\ Frames(k2, d) = Frames(k, d)
<1> DEFINE k2 == [k EXCEPT !.to[Other(d)] = Append(@, f)]
<1>1. Other(d) \in Side /\ Other(d) # d
  BY DEF Side, Other
<1>2. Append(k.to[Other(d)], f) \in Seq(Frame)
      /\ Elements(Append(k.to[Other(d)], f)) = Elements(k.to[Other(d)]) \cup {f}
  BY <1>1, LinkFields, AppendElements
<1>3. k2 \in Links
  BY <1>1, <1>2 DEF Links
<1>4. /\ k2.l = k.l /\ k2.c = k.c /\ k2.h = k.h /\ k2.shut = k.shut /\ k2.yes = k.yes
      /\ k2.wrote = k.wrote /\ k2.told = k.told /\ k2.broken = k.broken
      /\ k2.to[Other(d)] = Append(k.to[Other(d)], f) /\ \A e \in Side \ {Other(d)} : k2.to[e] = k.to[e]
  BY <1>1 DEF Links
<1> HIDE DEF k2
<1>5. /\ \A e \in Side : Frames(k2, e) \subseteq Frames(k, e) \cup {f}
      /\ Frames(k2, d) = Frames(k, d)
  BY <1>1, <1>2, <1>4 DEF Frames
<1>6. Send(k, d, f) = IF k.shut # {} THEN k ELSE k2
  BY DEF Send, k2
<1> QED
  BY <1>3, <1>4, <1>5, <1>6

LEMMA ShutIs ==
  ASSUME NEW k \in Links, NEW d \in Side
  PROVE  LET k2 == Shut(k, d) IN
         /\ k2 \in Links
         /\ k2.l = k.l /\ k2.c = k.c /\ k2.yes = k.yes /\ k2.wrote = k.wrote /\ k2.told = k.told
         /\ k2.h = IF d = "listener" THEN "over" ELSE k.h
         /\ \A e \in Side : Frames(k2, e) \subseteq Frames(k, e)
<1>1. <<>> \in Seq(Frame) /\ Elements(<<>>) = {}
  BY EmptyElements
<1> DEFINE k2 == Shut(k, d)
<1>2. /\ k2.l = k.l /\ k2.c = k.c /\ k2.yes = k.yes /\ k2.wrote = k.wrote /\ k2.told = k.told
      /\ k2.h = IF d = "listener" THEN "over" ELSE k.h
      /\ \A e \in Side \ {d} : k2.to[e] = k.to[e]
      /\ k2.to[d] = <<>>
  BY DEF Shut, Links
<1>3. k2 \in Links
  BY <1>1 DEF Shut, Links
<1> HIDE DEF k2
<1>4. \A e \in Side : Frames(k2, e) \subseteq Frames(k, e)
  BY <1>1, <1>2 DEF Frames
<1> QED
  BY <1>2, <1>3, <1>4 DEF k2

LEMMA BrokeIs ==
  ASSUME NEW k \in Links
  PROVE  LET k2 == Broke(k) IN
         /\ k2 \in Links
         /\ k2.l = k.l /\ k2.c = k.c /\ k2.h = k.h /\ k2.yes = k.yes /\ k2.wrote = k.wrote
         /\ k2.told = k.told /\ k2.to = k.to /\ k2.shut = k.shut
         /\ \A e \in Side : Frames(k2, e) = Frames(k, e)
BY DEF Broke, Links, Frames

LEMMA ToIs ==
  ASSUME NEW k \in Links, NEW d \in Side, NEW q \in Seq(Frame), Elements(q) \subseteq Frames(k, d)
  PROVE  LET k2 == [k EXCEPT !.to[d] = q] IN
         /\ k2 \in Links
         /\ k2.l = k.l /\ k2.c = k.c /\ k2.h = k.h /\ k2.yes = k.yes /\ k2.wrote = k.wrote
         /\ k2.told = k.told /\ k2.shut = k.shut
         /\ \A e \in Side : Frames(k2, e) \subseteq Frames(k, e)
         /\ Frames(k2, d) = Elements(q)
<1> DEFINE k2 == [k EXCEPT !.to[d] = q]
<1>1. /\ k2.l = k.l /\ k2.c = k.c /\ k2.h = k.h /\ k2.yes = k.yes /\ k2.wrote = k.wrote
      /\ k2.told = k.told /\ k2.shut = k.shut
      /\ \A e \in Side \ {d} : k2.to[e] = k.to[e]
      /\ k2.to[d] = q
  BY DEF Links
<1>2. k2 \in Links
  BY DEF Links
<1> HIDE DEF k2
<1>3. \A e \in Side : Frames(k2, e) \subseteq Frames(k, e)
  BY <1>1 DEF Frames
<1>4. Frames(k2, d) = Elements(q)
  BY <1>1 DEF Frames
<1> QED
  BY <1>1, <1>2, <1>3, <1>4 DEF k2

LEMMA EmptyTo ==
  ASSUME NEW k \in Links, NEW d \in Side
  PROVE  LET k2 == [k EXCEPT !.to[d] = <<>>] IN
         /\ k2 \in Links
         /\ k2.l = k.l /\ k2.c = k.c /\ k2.h = k.h /\ k2.yes = k.yes /\ k2.wrote = k.wrote
         /\ k2.told = k.told /\ k2.shut = k.shut
         /\ \A e \in Side : Frames(k2, e) \subseteq Frames(k, e)
         /\ Frames(k2, d) = {}
<1>1. <<>> \in Seq(Frame) /\ Elements(<<>>) = {}
  BY EmptyElements
<1> QED
  BY <1>1, ToIs

\* A side takes the first of its frames.
LEMMA TookIs ==
  ASSUME NEW k \in Links, NEW d \in Side, k.to[d] # <<>>
  PROVE  LET k2 == [k EXCEPT !.to[d] = Tail(@)] IN
         /\ k2 \in Links
         /\ k2.l = k.l /\ k2.c = k.c /\ k2.h = k.h /\ k2.yes = k.yes /\ k2.wrote = k.wrote
         /\ k2.told = k.told /\ k2.shut = k.shut
         /\ \A e \in Side : Frames(k2, e) \subseteq Frames(k, e)
         /\ Head(k.to[d]) \in Frame /\ Head(k.to[d]) \in Frames(k, d)
<1>1. k.to[d] \in Seq(Frame)
  BY DEF Links
<1>2. /\ Tail(k.to[d]) \in Seq(Frame) /\ Elements(Tail(k.to[d])) \subseteq Frames(k, d)
      /\ Head(k.to[d]) \in Frame /\ Head(k.to[d]) \in Frames(k, d)
  BY <1>1, TailElements DEF Frames
<1>3. [k EXCEPT !.to[d] = Tail(@)] = [k EXCEPT !.to[d] = Tail(k.to[d])]
  OBVIOUS
<1> HIDE DEF Links
<1> DEFINE q == Tail(k.to[d])
<1>4. q \in Seq(Frame) /\ Elements(q) \subseteq Frames(k, d)
  BY <1>2
<1> HIDE DEF q
<1>5. LET k2 == [k EXCEPT !.to[d] = q] IN
         /\ k2 \in Links
         /\ k2.l = k.l /\ k2.c = k.c /\ k2.h = k.h /\ k2.yes = k.yes /\ k2.wrote = k.wrote
         /\ k2.told = k.told /\ k2.shut = k.shut
         /\ \A e \in Side : Frames(k2, e) \subseteq Frames(k, e)
  BY SMTT(30), <1>4, ToIs
<1> QED
  BY <1>2, <1>3, <1>5 DEF q

LEMMA RefuseIs ==
  ASSUME NEW k \in Links, NEW d \in Side
  PROVE  LET k2 == Refuse(k, d) IN
         /\ k2 \in Links
         /\ k2.l = k.l /\ k2.c = k.c /\ k2.yes = k.yes /\ k2.wrote = k.wrote /\ k2.told = k.told
         /\ k2.h = IF d = "listener" THEN "over" ELSE k.h
         /\ \A e \in Side : \A f \in Frames(k2, e) : f \in Frames(k, e) \/ Harmless(f)
<1> DEFINE f == [t |-> "error"]
           k1 == Send(k, d, f)
<1>1. f \in Frame /\ Harmless(f)
  BY FrameTypes DEF Harmless, Confirms, PeerSaved
<1> HIDE DEF f
<1>2. /\ k1 \in Links
      /\ k1.l = k.l /\ k1.c = k.c /\ k1.h = k.h /\ k1.yes = k.yes /\ k1.wrote = k.wrote /\ k1.told = k.told
      /\ \A e \in Side : Frames(k1, e) \subseteq Frames(k, e) \cup {f}
  BY <1>1, SendIs
<1>3. Refuse(k, d) = Shut(Broke(k1), d)
  BY DEF Refuse, Broke, k1, f
<1> HIDE DEF k1
<1> DEFINE k2 == Broke(k1)
<1>4. /\ k2 \in Links
      /\ k2.l = k.l /\ k2.c = k.c /\ k2.h = k.h /\ k2.yes = k.yes /\ k2.wrote = k.wrote /\ k2.told = k.told
      /\ \A e \in Side : Frames(k2, e) \subseteq Frames(k, e) \cup {f}
  BY <1>2, BrokeIs
<1> HIDE DEF k2
<1>5. LET k3 == Shut(k2, d) IN
         /\ k3 \in Links
         /\ k3.l = k.l /\ k3.c = k.c /\ k3.yes = k.yes /\ k3.wrote = k.wrote /\ k3.told = k.told
         /\ k3.h = IF d = "listener" THEN "over" ELSE k.h
         /\ \A e \in Side : Frames(k3, e) \subseteq Frames(k, e) \cup {f}
  BY <1>4, ShutIs
<1> QED
  BY <1>1, <1>3, <1>5 DEF k2

\* What is less stays less when a side ends it, or sends something harmless.
LEMMA LessShut ==
  ASSUME NEW k \in Links, NEW k2 \in Links, Less(k, k2), k.h # "none", NEW d \in Side
  PROVE  Less(k, Shut(k2, d)) /\ Less(k, Broke(k2)) /\ Less(k, Refuse(k2, d))
<1>1. Less(k, Shut(k2, d))
  BY ShutIs DEF Less
<1>2. Less(k, Broke(k2))
  BY BrokeIs DEF Less
<1>3. Less(k, Refuse(k2, d))
  BY RefuseIs DEF Less
<1> QED
  BY <1>1, <1>2, <1>3

LEMMA LessSend ==
  ASSUME NEW k \in Links, NEW k2 \in Links, Less(k, k2), k.h # "none", NEW d \in Side,
         NEW f \in Frame, Harmless(f)
  PROVE  Less(k, Send(k2, d, f))
BY SendIs DEF Less

LEMMA LessTaken ==
  ASSUME NEW k \in Links, NEW k2 \in Links, k.h # "none",
         k2.l = k.l, k2.c = k.c, k2.h = k.h, k2.yes = k.yes, k2.wrote = k.wrote,
         \A e \in Side : Frames(k2, e) \subseteq Frames(k, e)
  PROVE  Less(k, k2)
BY DEF Less

LEMMA LessSame == ASSUME NEW k PROVE Less(k, k)
BY DEF Less

(***************************************************************************)
(* Steps that end commands, or refuse or lose something.                    *)
(***************************************************************************)
SameCmd(c, d) ==
  /\ d.at = c.at /\ d.side = c.side /\ d.opts = c.opts /\ d.id = c.id /\ d.created = c.created
  /\ d.seen = c.seen /\ d.s = c.s /\ d.peer = c.peer /\ d.base = c.base

Untold == \A s \in Connection : link'[s].told = link[s].told

Quiet ==
  /\ vaults' = vaults /\ edit' = edit /\ minted' = minted /\ events' \in Nat
  /\ cmd' \in [Machine -> Commands] /\ link' \in [Connection -> Links]
  /\ \A m \in Machine : cmd'[m] = NoCmd \/ SameCmd(cmd[m], cmd'[m])
  /\ \A s \in Connection : Less(link[s], link'[s])
  /\ \A s \in Connection : link'[s].h \in {"in", "hello"} => SameCmd(cmd[link[s].l], cmd'[link[s].l])
  /\ \A s \in Connection : link[s].h = "in" /\ link'[s].h # "in" => cmd'[link[s].l] = NoCmd

LEMMA IdsAre ==
  /\ Id = 1..MaxIdentity /\ NoId = 0 /\ PubKey = Id /\ MaxIdentity \in Nat /\ MaxOwned \in 0..MaxIdentity
  /\ MaxSession \in Nat /\ Connection \subseteq Nat /\ 0 \notin Connection
  /\ Stranger \subseteq (MaxOwned + 1)..MaxIdentity
  /\ Listens \subseteq Opts /\ Connects \subseteq Opts /\ \A o \in Listens : o.role \in Role
  /\ HostName \in [Machine -> PeerName] /\ NoName \notin PeerName
BY PairingAssumption DEF PairingAssumption, Connection, Opts

LEMMA NoThingTypes ==
  /\ NewVault \in Saved /\ NewVault.own = NoId /\ Paired(NewVault.peers) = {}
  /\ NoCmd \in Commands /\ NoCmd.at = "idle" /\ NoCmd.s = 0 /\ NoCmd.id = NoId
  /\ NoCmd.seen = NewVault.peers /\ NoCmd.base = NewVault
  /\ NoEdit \in Edits /\ NoEdit.at = "idle" /\ NoEdit.base = NewVault
  /\ NoLink \in Links /\ NoLink.h = "none" /\ NoLink.yes = {} /\ NoLink.wrote = {} /\ NoLink.told = {}
  /\ NoLink.to = [d \in Side |-> <<>>]
<1>1. NewVault \in Saved /\ NewVault.own = NoId /\ Paired(NewVault.peers) = {} /\ NewVault.peers \in Tables
  BY DEF NewVault, Saved, Tables, Paired
<1>2. /\ NoCmd \in Commands /\ NoCmd.at = "idle" /\ NoCmd.s = 0 /\ NoCmd.id = NoId
      /\ NoCmd.seen = NewVault.peers /\ NoCmd.base = NewVault
  BY <1>1 DEF NoCmd, Commands, Ats, Side, Opts
<1>3. NoEdit \in Edits /\ NoEdit.at = "idle" /\ NoEdit.base = NewVault
  BY <1>1 DEF NoEdit, Edits
<1>4. (CHOOSE m \in Machine : TRUE) \in Machine
  BY PairingAssumption DEF PairingAssumption
<1>5. [d \in Side |-> <<>>] \in [Side -> Seq(Frame)]
  BY EmptyElements
<1>6. /\ NoLink \in Links /\ NoLink.h = "none" /\ NoLink.yes = {} /\ NoLink.wrote = {} /\ NoLink.told = {}
      /\ NoLink.to = [d \in Side |-> <<>>]
  BY <1>4, <1>5 DEF NoLink, Links
<1> QED
  BY <1>1, <1>2, <1>3, <1>6

LEMMA PairTypes ==
  ASSUME PairTypeOK
  PROVE  /\ \A m \in Machine : /\ vaults[m] \in Saved /\ cmd[m] \in Commands /\ edit[m] \in Edits
                               /\ cmd[m].s \in {0} \cup Connection /\ cmd[m].side \in Side /\ cmd[m].at \in Ats
                               /\ cmd[m].opts \in Opts /\ cmd[m].seen \in Tables /\ cmd[m].base \in Saved
                               /\ vaults[m].peers \in Tables /\ cmd[m].base.peers \in Tables
                               /\ edit[m].base \in Saved /\ edit[m].base.peers \in Tables
                               /\ cmd[m].fails \in Nat /\ cmd[m].id \in Id \cup {NoId} /\ cmd[m].created \in BOOLEAN
                               /\ cmd[m].peer \in Peers \cup {NoPeer}
                               /\ vaults[m].own \in Id \cup {NoId} /\ edit[m].base.own \in Id \cup {NoId}
         /\ \A s \in Connection : link[s] \in Links /\ link[s].l \in Machine /\ link[s].c \in Machine
         /\ \A m \in Machine : m \in DOMAIN cmd /\ m \in DOMAIN vaults /\ m \in DOMAIN edit
<1>1. \A m \in Machine : vaults[m] \in Saved /\ cmd[m] \in Commands /\ edit[m] \in Edits
  BY DEF PairTypeOK
<1>2. \A v \in Saved : v.peers \in Tables /\ v.own \in Id \cup {NoId}
  BY DEF Saved
<1>3. \A e \in Edits : e.base \in Saved
  BY DEF Edits
<1>4. \A c \in Commands : /\ c.s \in {0} \cup Connection /\ c.side \in Side /\ c.at \in Ats
         /\ c.opts \in Opts /\ c.seen \in Tables /\ c.base \in Saved
         /\ c.fails \in Nat /\ c.id \in Id \cup {NoId} /\ c.created \in BOOLEAN
         /\ c.peer \in Peers \cup {NoPeer}
  BY DEF Commands
<1>5. \A s \in Connection : link[s] \in Links /\ link[s].l \in Machine /\ link[s].c \in Machine
  BY LinkFields DEF PairTypeOK
<1>6. \A m \in Machine : m \in DOMAIN cmd /\ m \in DOMAIN vaults /\ m \in DOMAIN edit
  BY DEF PairTypeOK
<1> QED
  BY <1>1, <1>2, <1>3, <1>4, <1>5, <1>6

LEMMA Sides ==
  /\ "listener" \in Side /\ "connector" \in Side
  /\ \A d \in Side : Other(d) \in Side /\ Other(d) # d /\ Other(Other(d)) = d
  /\ \A d \in Side : d = "listener" \/ d = "connector"
BY DEF Side, Other

LEMMA QuietTypes ==
  ASSUME PairTypeOK, Quiet
  PROVE  PairTypeOK'
BY DEF PairTypeOK, Quiet

LEMMA QuietTruthful ==
  ASSUME NEW k, NEW k2, Less(k, k2), Truthful(k)
  PROVE  Truthful(k2)
BY DEF Less, Truthful, Harmless

LEMMA QuietStructure ==
  ASSUME PairTypeOK, Structure, Quiet
  PROVE  Structure'
<1> USE DEF Structure
<1>1. ASSUME NEW m \in Machine
      PROVE  PlaceOK(cmd'[m]) /\ (cmd'[m].s # 0 => Attached(m, cmd'[m], link'[cmd'[m].s]))
  <2>1. CASE cmd'[m] = NoCmd
    BY <2>1, NoThingTypes DEF PlaceOK, Connected, Partnered
  <2>2. CASE SameCmd(cmd[m], cmd'[m])
    <3> DEFINE s == cmd[m].s
    <3>1. PlaceOK(cmd'[m]) /\ cmd'[m].s = s
      BY <2>2 DEF PlaceOK, SameCmd
    <3>2. ASSUME s # 0 PROVE Attached(m, cmd'[m], link'[s])
      <4>1. s \in Connection /\ Attached(m, cmd[m], link[s]) /\ Less(link[s], link'[s])
        BY <3>2, PairTypes DEF Quiet
      <4>2. cmd[m].side = "listener" => link'[s].h = "in"
        <5> SUFFICES ASSUME cmd[m].side = "listener", link'[s].h # "in" PROVE FALSE
          OBVIOUS
        <5>1. link[s].h = "in" /\ link[s].l = m
          BY <4>1 DEF Attached, End
        <5>2. cmd'[m] = NoCmd
          BY <5>1, <4>1 DEF Quiet
        <5> QED
          BY <5>2, <3>1, <3>2, NoThingTypes
      <4> QED
        BY <4>1, <4>2, <2>2 DEF Attached, Less, SameCmd, End
    <3> QED
      BY <3>1, <3>2
  <2> QED
    BY <2>1, <2>2 DEF Quiet
<1>2. ASSUME NEW s \in Connection PROVE LinkOK(s, link[s])'
  <2>1. LinkOK(s, link[s]) /\ Less(link[s], link'[s])
    BY DEF Quiet
  <2>2. Truthful(link[s])'
    BY <2>1, QuietTruthful DEF LinkOK, Truthful, Confirms, PeerSaved
  <2>3. link'[s].h \in {"in", "hello"} => SameCmd(cmd[link[s].l], cmd'[link[s].l]) /\ link'[s].h = link[s].h
    BY <2>1 DEF Quiet, Less
  <2>4. cmd'[link[s].c].s = s => SameCmd(cmd[link[s].c], cmd'[link[s].c])
    BY NoThingTypes, PairTypes, IdsAre DEF Quiet
  <2>5. link[s].h = "hello" /\ link'[s].h = "hello" =>
          /\ cmd'[link[s].l].at # "idle" /\ cmd'[link[s].l].side = "listener"
          /\ cmd'[link[s].c].s = s => cmd'[link[s].c].at = "hello"
          /\ link'[s].yes = {} /\ \A f \in Frames(link'[s], "connector") : f.t # "hello"
    BY Zenon, <2>1, <2>3, <2>4, Sides DEF LinkOK, Less, SameCmd, Harmless
  <2>6. link'[s].h = "in" => cmd'[link[s].l].s = s /\ cmd'[link[s].l].side = "listener"
    BY Zenon, <2>1, <2>3 DEF LinkOK, SameCmd
  <2>7. link'[s].l = link[s].l /\ link'[s].c = link[s].c /\ (link[s].h = "none" => link'[s] = link[s])
        /\ (link'[s].h = link[s].h \/ (link[s].h # "none" /\ link'[s].h = "over"))
    BY <2>1 DEF Less
  <2>8. (link'[s].h = "none" => link'[s] = NoLink) /\ (link'[s].h # "none" => link'[s].l # link'[s].c)
    BY <2>1, <2>7 DEF LinkOK
  <2>9. link'[s].h = "hello" => link[s].h = "hello"
    BY <2>7
  <2>10. Frames(link[s], "connector")' = Frames(link'[s], "connector")
    BY DEF Frames
  <2> QED
    BY <2>2, <2>5, <2>6, <2>7, <2>8, <2>9, <2>10 DEF LinkOK
<1> QED
  BY <1>1, <1>2

\* A command ends: its connection, if it has one, is k but for being closed.
LEMMA OverIsQuiet ==
  ASSUME PairTypeOK, Structure, NEW m \in Machine, NEW s \in {0} \cup Connection, NEW k, OverIn(m, s, k),
         cmd[m].s \in {0, s},
         s # 0 => /\ k \in Links /\ Less(link[s], k) /\ link[s].h # "none"
                  /\ End(link[s], cmd[m].side) = m
                  /\ cmd[m].side = "connector" => k.h = link[s].h,
         UNCHANGED <<vaults, edit, minted>>, events' \in Nat
  PROVE  Quiet /\ ((s # 0 => k.told = link[s].told) => Untold)
<1> DEFINE d == cmd[m].side
<1>0. d \in Side /\ \A r \in Connection : link[r] \in Links
  BY PairTypes
<1>1. /\ cmd' = [cmd EXCEPT ![m] = NoCmd]
      /\ \A r \in Connection : link'[r] =
           IF r = s THEN Shut(k, d)
           ELSE IF d = "listener" /\ link[r].l = m /\ link[r].h = "hello" THEN Shut(link[r], "listener")
           ELSE link[r]
      /\ link' = [r \in Connection |-> link'[r]]
  BY DEF OverIn
<1>2. /\ cmd' \in [Machine -> Commands] /\ cmd'[m] = NoCmd
      /\ \A n \in Machine \ {m} : cmd'[n] = cmd[n]
  BY <1>1, NoThingTypes DEF PairTypeOK
<1>3. ASSUME NEW r \in Connection PROVE link'[r] \in Links /\ Less(link[r], link'[r])
  <2>1. CASE r = s
    BY <2>1, <1>0, <1>1, IdsAre, ShutIs, LessShut
  <2>2. CASE r # s /\ d = "listener" /\ link[r].l = m /\ link[r].h = "hello"
    BY SMTT(30), <2>2, <1>0, <1>1, ShutIs, LessShut, LessSame, Sides
  <2>3. CASE r # s /\ ~(d = "listener" /\ link[r].l = m /\ link[r].h = "hello")
    BY <2>3, <1>0, <1>1, LessSame
  <2> QED
    BY <2>1, <2>2, <2>3
<1>4. link' \in [Connection -> Links]
  BY <1>1, <1>3
<1>5. ASSUME NEW r \in Connection, link'[r].h \in {"in", "hello"} PROVE link[r].l # m
  <2> SUFFICES ASSUME link[r].l = m PROVE FALSE
    OBVIOUS
  <2>1. link[r].h = link'[r].h
    BY <1>3, <1>5 DEF Less
  <2>2. d = "listener"
    BY <2>1, <1>5 DEF Structure, LinkOK
  <2>3. CASE r = s
    BY <2>2, <2>3, <1>1, <1>5, ShutIs, Sides, IdsAre
  <2>4. CASE r # s /\ link[r].h = "hello"
    BY <2>2, <2>4, <1>0, <1>1, <1>5, ShutIs, Sides
  <2>5. CASE r # s /\ link[r].h = "in"
    <3>1. cmd[m].s = r
      BY <2>5 DEF Structure, LinkOK
    <3> QED
      BY <3>1, <2>5, IdsAre
  <2> QED
    BY <2>1, <2>3, <2>4, <2>5, <1>5
<1>6. ASSUME NEW r \in Connection, link[r].h = "in", link'[r].h # "in" PROVE link[r].l = m
  <2>1. CASE r = s
    <3>1. d = "listener"
      <4> SUFFICES ASSUME d = "connector" PROVE FALSE
        BY <1>0, Sides
      <4>1. k \in Links /\ k.h = "in" /\ link'[r] = Shut(k, "connector")
        BY <2>1, <1>1, <1>6, IdsAre
      <4> QED
        BY <4>1, <1>6, ShutIs, Sides
    <3> QED
      BY <3>1, <2>1, IdsAre DEF End
  <2>2. CASE r # s
    BY <2>2, <1>1, <1>6
  <2> QED
    BY <2>1, <2>2
<1>7. \A n \in Machine : SameCmd(cmd[n], cmd[n])
  BY DEF SameCmd
<1>8. \A r \in Connection : link'[r].h \in {"in", "hello"} => SameCmd(cmd[link[r].l], cmd'[link[r].l])
  BY <1>5, <1>2, <1>7, PairTypes
<1>9. \A r \in Connection : link[r].h = "in" /\ link'[r].h # "in" => cmd'[link[r].l] = NoCmd
  BY <1>6, <1>2
<1>10. Quiet
  BY <1>2, <1>3, <1>4, <1>7, <1>8, <1>9 DEF Quiet
<1>11. ASSUME s # 0 => k.told = link[s].told, NEW r \in Connection PROVE link'[r].told = link[r].told
  <2>1. CASE r = s
    <3>1. k \in Links /\ link'[r] = Shut(k, d) /\ k.told = link[s].told
      BY <2>1, <1>1, <1>11, IdsAre
    <3> QED
      BY <2>1, <3>1, <1>0, ShutIs
  <2>2. CASE r # s
    BY <2>2, <1>0, <1>1, ShutIs, Sides
  <2> QED
    BY <2>1, <2>2
<1> QED
  BY <1>10, <1>11 DEF Untold

\* A connection gets less, and no command takes notice.
LEMMA LossIsQuiet ==
  ASSUME PairTypeOK, Structure, NEW s \in Connection, NEW k \in Links, Less(link[s], k),
         link' = [link EXCEPT ![s] = k], cmd' \in [Machine -> Commands],
         \A m \in Machine : SameCmd(cmd[m], cmd'[m]),
         link[s].h = "in" => k.h = "in",
         UNCHANGED <<vaults, edit, minted>>, events' \in Nat, k.told = link[s].told
  PROVE  Quiet /\ Untold
<1>1. link' \in [Connection -> Links] /\ link'[s] = k /\ \A r \in Connection \ {s} : link'[r] = link[r]
  BY DEF PairTypeOK
<1>2. \A r \in Connection : Less(link[r], link'[r])
  BY <1>1, LessSame
<1>3. \A r \in Connection : link[r].l \in Machine
  BY PairTypes
<1> QED
  BY <1>1, <1>2, <1>3 DEF Quiet, Untold

(***************************************************************************)
(* What the other steps do.                                                 *)
(***************************************************************************)
\* The command of m goes on with connection s, which nobody else's step has changed.
GoesOn(m, s, at) ==
  /\ cmd' \in [Machine -> Commands] /\ \A n \in Machine \ {m} : cmd'[n] = cmd[n]
  /\ cmd'[m].at = at /\ cmd'[m].s = s /\ s \in Connection
  /\ cmd'[m].side = cmd[m].side /\ cmd'[m].opts = cmd[m].opts /\ cmd'[m].id = cmd[m].id
  /\ cmd'[m].created = cmd[m].created /\ cmd'[m].seen = cmd[m].seen
  /\ link' \in [Connection -> Links] /\ \A r \in Connection \ {s} : link'[r] = link[r]
  /\ edit' = edit /\ minted' = minted /\ events' \in Nat

\* Connection s stays what it is, and the frames on it are those it had and new.
Carries(s, new) ==
  /\ link'[s].l = link[s].l /\ link'[s].c = link[s].c
  /\ \A d \in Side : Frames(link'[s], d) \subseteq Frames(link[s], d) \cup new[d]

Nothing == [d \in Side |-> {}]
Only(d, f) == [e \in Side |-> IF e = d THEN {f} ELSE {}]

Stays(s) == link'[s].h = link[s].h /\ link'[s].wrote = link[s].wrote

Dialled(m, l, s, f) ==
  /\ cmd[m].at = "ready" /\ cmd[l].at = "listening" /\ m # l
  /\ GoesOn(m, s, "hello") /\ vaults' = vaults /\ cmd'[m].peer = cmd[m].peer /\ cmd'[m].base = cmd[m].base
  /\ link[s].h = "none" /\ \A r \in Connection : r < s => link[r].h # "none"
  /\ link'[s].h = "hello" /\ link'[s].l = l /\ link'[s].c = m
  /\ link'[s].yes = {} /\ link'[s].wrote = {} /\ link'[s].told = {}
  /\ Frames(link'[s], "listener") = {f} /\ Frames(link'[s], "connector") = {}
  /\ f.t = "hello" /\ f.id = cmd[m].id /\ f.role = cmd[m].opts.role

LetIn(l, s, f, g) ==
  /\ cmd[l].at = "listening" /\ link[s].l = l /\ link[s].h = "hello"
  /\ f \in Frames(link[s], "listener") /\ RightPin(f) /\ RolesAgree(cmd[l].opts.role, f.role)
  /\ GoesOn(l, s, "sig") /\ vaults' = vaults /\ cmd'[l].base = cmd[l].base
  /\ cmd'[l].peer = PeerFrom(l, f, oppositeRole(cmd[l].opts.role)) /\ Prechecked(l, cmd'[l].peer)
  /\ Carries(s, Only("connector", g)) /\ Frames(link'[s], "listener") = {}
  /\ link'[s].h = "in" /\ link'[s].yes = link[s].yes /\ link'[s].wrote = link[s].wrote /\ link'[s].told = link[s].told
  /\ g.t = "hello" /\ g.id = cmd[l].id /\ g.role = cmd[l].opts.role

Replied(m, f, g) ==
  LET s == cmd[m].s IN
  /\ cmd[m].at = "hello" /\ f \in Frames(link[s], "connector") /\ f.t = "hello"
  /\ RolesAgree(f.role, cmd[m].opts.role)
  /\ GoesOn(m, s, "code") /\ vaults' = vaults /\ cmd'[m].base = cmd[m].base
  /\ cmd'[m].peer = PeerFrom(m, f, f.role) /\ Prechecked(m, cmd'[m].peer)
  /\ Carries(s, Only("listener", g)) /\ g.t = "sig"
  /\ Stays(s) /\ link'[s].yes = link[s].yes /\ link'[s].told = link[s].told

Signed(m) ==
  LET s == cmd[m].s IN
  /\ cmd[m].at = "sig" /\ \E f \in Frames(link[s], "listener") : f.t = "sig"
  /\ GoesOn(m, s, "code") /\ vaults' = vaults /\ cmd'[m].base = cmd[m].base /\ cmd'[m].peer = cmd[m].peer
  /\ Carries(s, Nothing) /\ Stays(s) /\ link'[s].yes = link[s].yes /\ link'[s].told = link[s].told

Agrees(m, g) ==
  LET s == cmd[m].s IN
  /\ cmd[m].at = "code"
  /\ GoesOn(m, s, "confirm") /\ vaults' = vaults /\ cmd'[m].base = cmd[m].base /\ cmd'[m].peer = cmd[m].peer
  /\ Carries(s, Only(Other(cmd[m].side), g)) /\ Stays(s) /\ g.t = "confirm"
  /\ link'[s].yes = link[s].yes \cup {cmd[m].side} /\ link'[s].told = link[s].told

Heard(m) ==
  LET s == cmd[m].s IN
  /\ cmd[m].at = "confirm" /\ \E f \in Frames(link[s], cmd[m].side) : Confirms(f)
  /\ GoesOn(m, s, "reread") /\ vaults' = vaults /\ cmd'[m].base = cmd[m].base /\ cmd'[m].peer = cmd[m].peer
  /\ Carries(s, Nothing) /\ Stays(s) /\ link'[s].yes = link[s].yes /\ link'[s].told = link[s].told

Decides(m) ==
  /\ cmd[m].at = "reread" /\ MayWrite(m) /\ SameIdentity(m)
  /\ Accepts(Ident(cmd[m].id), vaults[m].peers, cmd[m].peer, cmd[m].opts.replace, Explicit(m))
  /\ GoesOn(m, cmd[m].s, "save") /\ vaults' = vaults /\ cmd'[m].peer = cmd[m].peer /\ link' = link
  /\ cmd'[m].base = [own |-> cmd[m].id, peers |-> Upsert(vaults[m].peers, cmd[m].peer, Explicit(m))]

Saves(m, g) ==
  LET s == cmd[m].s IN
  /\ cmd[m].at = "save"
  /\ vaults' = [vaults EXCEPT ![m] = cmd[m].base]
  /\ GoesOn(m, s, "ack") /\ cmd'[m].base = NewVault /\ cmd'[m].peer = cmd[m].peer
  /\ Carries(s, Only(Other(cmd[m].side), g)) /\ g.t = "saved"
  /\ link'[s].h = link[s].h /\ link'[s].yes = link[s].yes /\ link'[s].told = link[s].told
  /\ link'[s].wrote = link[s].wrote \cup {cmd[m].side}

Enters(m, c) ==
  /\ cmd[m].at = "idle" /\ cmd' = [cmd EXCEPT ![m] = c] /\ c \in Commands
  /\ c.at \in {"listening", "ready"} /\ c.side = (IF c.at = "listening" THEN "listener" ELSE "connector")
  /\ c.side = "listener" => c.opts.role \in Role
  /\ vaults' = vaults /\ edit' = edit /\ link' = link /\ events' \in Nat
  /\ c.s = 0 /\ c.base = NewVault /\ c.seen = vaults[m].peers
  /\ c.created = (vaults[m].own = NoId)
  /\ IF c.created THEN minted + 1 \in Id \ Stranger /\ minted' = minted + 1 /\ c.id = minted + 1
                  ELSE minted' = minted /\ c.id = vaults[m].own

(***************************************************************************)
(* Which step does what.                                                    *)
(***************************************************************************)
LEMMA EnterDoes ==
  ASSUME PairTypeOK, NEW m \in Machine, NEW side \in Side, NEW at, NEW o \in Opts, Enter(m, side, at, o),
         at = IF side = "listener" THEN "listening" ELSE "ready",
         side = "listener" => o.role \in Role
  PROVE  \E c : Enters(m, c)
<1> DEFINE new == vaults[m].own = NoId
           i == IF new THEN minted + 1 ELSE vaults[m].own
           c == [NoCmd EXCEPT !.at = at, !.side = side, !.opts = o, !.created = new,
                  !.id = i, !.seen = vaults[m].peers]
<1>1. /\ cmd[m].at = "idle" /\ (new => minted + 1 \in Id \ Stranger)
      /\ minted' = (IF new THEN minted + 1 ELSE minted) /\ cmd' = [cmd EXCEPT ![m] = c]
  BY DEF Enter, Stands
<1>2. /\ vaults[m].peers \in Tables /\ i \in Id /\ at \in {"listening", "ready"}
  BY <1>1, PairTypes, IdsAre
<1> HIDE DEF i, new
<1>3. /\ c.at = at /\ c.side = side /\ c.opts = o /\ c.created = new /\ c.id = i
      /\ c.seen = vaults[m].peers /\ c.s = 0 /\ c.base = NewVault
  BY DEF NoCmd
<1>4. c \in Commands
  <2>1. new \in BOOLEAN /\ NewVault \in Saved
    BY NoThingTypes DEF new
  <2> QED
    BY <1>2, <2>1 DEF NoCmd, Commands, Ats
<1> HIDE DEF c
<1>5. c.side = (IF c.at = "listening" THEN "listener" ELSE "connector") /\ c.at \in {"listening", "ready"}
  BY <1>3, Sides
<1>6. IF c.created THEN minted + 1 \in Id \ Stranger /\ minted' = minted + 1 /\ c.id = minted + 1
                  ELSE minted' = minted /\ c.id = vaults[m].own
  BY <1>1, <1>3 DEF i
<1>7. c.created = (vaults[m].own = NoId)
  BY <1>3 DEF new
<1>8. cmd[m].at = "idle" /\ cmd' = [cmd EXCEPT ![m] = c] /\ c \in Commands /\ (c.side = "listener" => c.opts.role \in Role)
      /\ c.s = 0 /\ c.base = NewVault /\ c.seen = vaults[m].peers
  BY <1>1, <1>3, <1>4
<1>9. vaults' = vaults /\ edit' = edit /\ link' = link /\ events' \in Nat
  BY DEF Enter, PairTypeOK
<1> QED
  BY <1>5, <1>6, <1>7, <1>8, <1>9 DEF Enters

LEMMA HelloIs ==
  ASSUME PairTypeOK, NEW m \in Machine, NEW pin \in BOOLEAN, cmd[m].id \in Id
  PROVE  /\ ownHello(m, pin) \in Frame /\ ownHello(m, pin).t = "hello"
         /\ ownHello(m, pin).id = cmd[m].id /\ ownHello(m, pin).role = cmd[m].opts.role
<1>1. cmd[m].opts.role \in Role \cup {"any"} /\ HostName[m] \in PeerName
  BY PairTypes, IdsAre DEF Opts
<1> QED
  BY <1>1 DEF ownHello, Frame


LEMMA DialDoes ==
  ASSUME PairTypeOK, Structure, NEW m \in Machine, NEW l \in Machine, NEW pin \in BOOLEAN, Dial(m, l, pin)
  PROVE  \E s \in Connection, f \in Frame : Dialled(m, l, s, f)
<1> DEFINE f == ownHello(m, pin)
<1>1. PICK s \in Unused :
        /\ cmd[m].at = "ready" /\ cmd[l].at = "listening"
        /\ \A r \in Unused : s <= r
        /\ link' = [link EXCEPT ![s] = [NoLink EXCEPT !.l = l, !.c = m, !.h = "hello",
                                         !.to["listener"] = <<f>>]]
        /\ cmd' = [cmd EXCEPT ![m].at = "hello", ![m].s = s]
  BY DEF Dial, Stands
<1>2. s \in Connection /\ link[s].h = "none" /\ \A r \in Connection : r < s => link[r].h # "none"
  BY <1>1, IdsAre DEF Unused
<1>3. f \in Frame /\ f.t = "hello" /\ f.id = cmd[m].id /\ f.role = cmd[m].opts.role
  BY <1>1, HelloIs DEF Structure, PlaceOK
<1> HIDE DEF f
<1> DEFINE k == [NoLink EXCEPT !.l = l, !.c = m, !.h = "hello", !.to["listener"] = <<f>>]
<1>4. /\ k.l = l /\ k.c = m /\ k.h = "hello" /\ k.yes = {} /\ k.wrote = {} /\ k.told = {}
      /\ k.to["listener"] = <<f>> /\ k.to["connector"] = <<>>
  BY NoThingTypes, Sides DEF NoLink
<1>5. <<f>> \in Seq(Frame) /\ Elements(<<f>>) = {f}
  BY <1>3 DEF Elements
<1>6. k \in Links
  BY Zenon, <1>5, NoThingTypes, Sides DEF NoLink, Links
<1>7. Frames(k, "listener") = {f} /\ Frames(k, "connector") = {}
  BY <1>4, <1>5, EmptyElements DEF Frames
<1> HIDE DEF k
<1>8. /\ link' \in [Connection -> Links] /\ link'[s] = k /\ \A r \in Connection \ {s} : link'[r] = link[r]
  BY <1>1, <1>2, <1>6 DEF PairTypeOK, k
<1> DEFINE c == [cmd[m] EXCEPT !.at = "hello", !.s = s]
<1>9. /\ c \in Commands /\ c.at = "hello" /\ c.s = s /\ c.side = cmd[m].side /\ c.opts = cmd[m].opts
      /\ c.id = cmd[m].id /\ c.created = cmd[m].created /\ c.seen = cmd[m].seen
      /\ c.peer = cmd[m].peer /\ c.base = cmd[m].base
  <2>1. cmd[m] \in Commands /\ "hello" \in Ats /\ s \in {0} \cup Connection
    BY <1>2, PairTypes DEF Ats
  <2> QED
    BY <2>1 DEF Commands
<1> HIDE DEF c
<1>10. cmd' \in [Machine -> Commands] /\ cmd'[m] = c /\ \A n \in Machine \ {m} : cmd'[n] = cmd[n]
  BY <1>1, <1>9 DEF PairTypeOK, c
<1>11. GoesOn(m, s, "hello") /\ vaults' = vaults
  <2>1. vaults' = vaults /\ edit' = edit /\ minted' = minted /\ events' \in Nat
    BY DEF Dial, PairTypeOK
  <2> QED
    BY <2>1, <1>2, <1>8, <1>9, <1>10 DEF GoesOn
<1>12. Dialled(m, l, s, f)
  BY ZenonT(30), <1>1, <1>2, <1>3, <1>4, <1>7, <1>8, <1>9, <1>10, <1>11 DEF Dialled
<1> QED
  BY <1>2, <1>3, <1>12

LEMMA PeerIs ==
  ASSUME PairTypeOK, NEW m \in Machine, NEW f \in Frame, f.t = "hello", NEW role \in Role
  PROVE  LET p == PeerFrom(m, f, role) IN
         p \in Peers /\ p.id = f.id /\ p.ed = f.id /\ p.x = f.id /\ p.role = role /\ f.id \in Id
<1>1. f.id \in Id /\ f.name \in PeerName
  BY DEF Frame
<1>2. cmd[m].opts.name \in PeerName \cup {NoName}
  BY PairTypes DEF Opts
<1> QED
  BY <1>1, <1>2, IdsAre DEF PeerFrom, Peers

LEMMA RolesAre == /\ \A r \in Role : oppositeRole(r) \in Role /\ oppositeRole(r) # r
                  /\ \A r, a : RolesAgree(r, a) /\ r \in Role => a \in {"any", oppositeRole(r)}
BY DEF Role, oppositeRole, RolesAgree

(***************************************************************************)
(* The peer table.                                                          *)
(***************************************************************************)
LEMMA UpsertIs ==
  ASSUME NEW peers \in Tables, NEW cand \in Peers, NEW explicit \in BOOLEAN
  PROVE  LET p == Upsert(peers, cand, explicit) IN
         /\ p[cand.id] = IF peers[cand.id] # NoPeer
                           THEN [peers[cand.id] EXCEPT !.name = NameFor(peers, cand, explicit)]
                           ELSE [name |-> NameFor(peers, cand, explicit), ed |-> cand.ed, x |-> cand.x, role |-> cand.role]
         /\ \A i \in Id \ {cand.id} :
              p[i] = IF i \in Clash(peers, cand, explicit) THEN NoPeer ELSE peers[i]
BY DEF Upsert, Peers

LEMMA UpsertType ==
  ASSUME NEW peers \in Tables, NEW cand \in Peers, NEW explicit \in BOOLEAN
  PROVE  Upsert(peers, cand, explicit) \in Tables
<1>1. /\ cand.id \in Id /\ cand.ed \in PubKey /\ cand.x \in PubKey /\ cand.role \in Role /\ cand.name \in PeerName
      /\ \A i \in Id : peers[i] \in Entry \cup {NoPeer}
  BY DEF Peers, Tables
<1>2. NameFor(peers, cand, explicit) \in PeerName
  BY <1>1 DEF NameFor, Entry
<1>3. [name |-> NameFor(peers, cand, explicit), ed |-> cand.ed, x |-> cand.x, role |-> cand.role] \in Entry
  BY <1>1, <1>2 DEF Entry
<1>4. ASSUME peers[cand.id] # NoPeer
      PROVE  [peers[cand.id] EXCEPT !.name = NameFor(peers, cand, explicit)] \in Entry
  <2>1. peers[cand.id] \in Entry
    BY <1>1, <1>4
  <2> QED
    BY <2>1, <1>2 DEF Entry
<1> QED
  BY <1>1, <1>3, <1>4 DEF Upsert, Tables

LEMMA ExplicitIs == \A m \in Machine : Explicit(m) \in BOOLEAN
BY DEF Explicit

\* A command's own connection, and the frame it reads.
LEMMA MineIs ==
  ASSUME PairTypeOK, Structure, NEW m \in Machine, cmd[m].s # 0
  PROVE  LET s == cmd[m].s  d == cmd[m].side IN
         /\ s \in Connection /\ d \in Side /\ Mine(m) = link[s] /\ link[s] \in Links
         /\ Attached(m, cmd[m], link[s]) /\ link[s].h # "none" /\ End(link[s], d) = m
         /\ LinkOK(s, link[s]) /\ s \in {0} \cup Connection
         /\ (d = "connector" => link[s].h = link[s].h)
         /\ HasFrame(m) =>
              /\ Took(m) \in Links /\ Less(link[s], Took(m)) /\ Took(m).h = link[s].h
              /\ Took(m).l = link[s].l /\ Took(m).c = link[s].c /\ Took(m).yes = link[s].yes
              /\ Took(m).wrote = link[s].wrote /\ Took(m).told = link[s].told
              /\ \A e \in Side : Frames(Took(m), e) \subseteq Frames(link[s], e)
              /\ Next_(m) \in Frame /\ Next_(m) \in Frames(link[s], d)
<1> DEFINE s == cmd[m].s
           d == cmd[m].side
<1>1. /\ s \in Connection /\ d \in Side /\ Mine(m) = link[s] /\ link[s] \in Links
      /\ Attached(m, cmd[m], link[s]) /\ link[s].h # "none" /\ End(link[s], d) = m /\ LinkOK(s, link[s])
  BY PairTypes DEF Mine, Structure, Attached
<1>2. ASSUME HasFrame(m)
      PROVE  /\ Took(m) \in Links /\ Less(link[s], Took(m)) /\ Took(m).h = link[s].h
             /\ Took(m).l = link[s].l /\ Took(m).c = link[s].c /\ Took(m).yes = link[s].yes
             /\ Took(m).wrote = link[s].wrote /\ Took(m).told = link[s].told
             /\ \A e \in Side : Frames(Took(m), e) \subseteq Frames(link[s], e)
             /\ Next_(m) \in Frame /\ Next_(m) \in Frames(link[s], d)
  <2>1. link[s].to[d] # <<>>
    BY <1>2 DEF HasFrame, Mine
  <2>2. Took(m) = [link[s] EXCEPT !.to[d] = Tail(@)] /\ Next_(m) = Head(link[s].to[d])
    BY DEF Took, Mine, Next_
  <2>3. LET k2 == Took(m) IN
         /\ k2 \in Links
         /\ k2.l = link[s].l /\ k2.c = link[s].c /\ k2.h = link[s].h /\ k2.yes = link[s].yes
         /\ k2.wrote = link[s].wrote /\ k2.told = link[s].told
         /\ \A e \in Side : Frames(k2, e) \subseteq Frames(link[s], e)
         /\ Next_(m) \in Frame /\ Next_(m) \in Frames(link[s], d)
    <3>1. LET k2 == [link[s] EXCEPT !.to[d] = Tail(@)] IN
          /\ k2 \in Links
          /\ k2.l = link[s].l /\ k2.c = link[s].c /\ k2.h = link[s].h /\ k2.yes = link[s].yes
          /\ k2.wrote = link[s].wrote /\ k2.told = link[s].told
          /\ \A e \in Side : Frames(k2, e) \subseteq Frames(link[s], e)
          /\ Head(link[s].to[d]) \in Frame /\ Head(link[s].to[d]) \in Frames(link[s], d)
      BY ZenonT(30), <1>1, <2>1, TookIs
    <3> QED
      BY Zenon, <2>2, <3>1
  <2> QED
    BY <1>1, <2>3, LessTaken
<1> QED
  BY <1>1, <1>2

\* A command that ends and leaves its own connection as k, which is less than it was.
LEMMA MineOver ==
  ASSUME PairTypeOK, Structure, NEW m \in Machine, cmd[m].s # 0,
         NEW k \in Links, Less(link[cmd[m].s], k), k.h = link[cmd[m].s].h, Over(m, k),
         UNCHANGED <<vaults, edit, minted, events>>
  PROVE  Quiet /\ (k.told = link[cmd[m].s].told => Untold)
<1>1. /\ cmd[m].s \in Connection /\ link[cmd[m].s].h # "none" /\ End(link[cmd[m].s], cmd[m].side) = m
  BY MineIs
<1>2. OverIn(m, cmd[m].s, k) /\ events' \in Nat
  BY DEF Over, PairTypeOK
<1> QED
  BY Zenon, <1>1, <1>2, OverIsQuiet

LEMMA AtIs ==
  ASSUME NEW c \in Commands, NEW at \in Ats
  PROVE  LET d == [c EXCEPT !.at = at] IN
         /\ d \in Commands /\ d.at = at
         /\ d.side = c.side /\ d.opts = c.opts /\ d.id = c.id /\ d.created = c.created
         /\ d.seen = c.seen /\ d.s = c.s /\ d.peer = c.peer /\ d.base = c.base
BY DEF Commands

LEMMA StepIs ==
  ASSUME PairTypeOK, Structure, NEW m \in Machine, cmd[m].s # 0, NEW at \in Ats, NEW k \in Links, Step(m, at, k),
         UNCHANGED <<vaults, edit, minted, events>>
  PROVE  LET s == cmd[m].s IN
         vaults' = vaults /\
         GoesOn(m, s, at) /\ cmd'[m].base = cmd[m].base /\ cmd'[m].peer = cmd[m].peer /\ link'[s] = k
<1> DEFINE c == [cmd[m] EXCEPT !.at = at]
<1>1. /\ c \in Commands /\ c.at = at
      /\ c.side = cmd[m].side /\ c.opts = cmd[m].opts /\ c.id = cmd[m].id /\ c.created = cmd[m].created
      /\ c.seen = cmd[m].seen /\ c.s = cmd[m].s /\ c.peer = cmd[m].peer /\ c.base = cmd[m].base
  <2>1. cmd[m] \in Commands
    BY PairTypes
  <2> QED
    BY <2>1, AtIs
<1>2. cmd' = [cmd EXCEPT ![m] = c] /\ link' = [link EXCEPT ![cmd[m].s] = k]
  BY DEF Step, Goto
<1> HIDE DEF c
<1>3. cmd[m].s \in Connection
  BY MineIs
<1>4. /\ cmd' \in [Machine -> Commands] /\ cmd'[m] = c /\ \A n \in Machine \ {m} : cmd'[n] = cmd[n]
  BY <1>1, <1>2 DEF PairTypeOK
<1>5. /\ link' \in [Connection -> Links] /\ link'[cmd[m].s] = k
      /\ \A r \in Connection \ {cmd[m].s} : link'[r] = link[r]
  BY <1>2, <1>3 DEF PairTypeOK
<1> QED
  BY <1>1, <1>3, <1>4, <1>5 DEF GoesOn, PairTypeOK

LEMMA TakeReplyDoes ==
  ASSUME PairTypeOK, Structure, NEW m \in Machine, TakeReply(m)
  PROVE  (Quiet /\ Untold) \/ \E f \in Frame, g \in Frame : Replied(m, f, g)
<1> DEFINE s == cmd[m].s
           f == Next_(m)
           cand == PeerFrom(m, f, f.role)
<1>1. cmd[m].at = "hello" /\ HasFrame(m) /\ s # 0 /\ cmd[m].side = "connector"
  BY DEF TakeReply, Stands, HasFrame, Structure, PlaceOK
<1>2. UNCHANGED <<vaults, edit, minted, events>>
  BY DEF TakeReply
<1>3. /\ s \in Connection /\ link[s] \in Links /\ link[s].h # "none"
      /\ Took(m) \in Links /\ Less(link[s], Took(m)) /\ Took(m).h = link[s].h
      /\ Took(m).l = link[s].l /\ Took(m).c = link[s].c /\ Took(m).yes = link[s].yes
      /\ Took(m).wrote = link[s].wrote /\ Took(m).told = link[s].told
      /\ \A e \in Side : Frames(Took(m), e) \subseteq Frames(link[s], e)
      /\ f \in Frame /\ f \in Frames(link[s], "connector")
  BY <1>1, MineIs
<1>4. CASE ~parseHello(f)
  <2>1. Over(m, Broke(Took(m)))
    BY <1>4 DEF TakeReply
  <2>2. Broke(Took(m)) \in Links /\ Less(link[s], Broke(Took(m))) /\ Broke(Took(m)).h = link[s].h
        /\ Broke(Took(m)).told = link[s].told
    BY <1>3, BrokeIs, LessShut, Sides
  <2> QED
    BY <1>1, <1>2, <2>1, <2>2, MineOver
<1>5. CASE parseHello(f) /\ RolesAgree(f.role, cmd[m].opts.role) /\ Prechecked(m, cand)
  <2> DEFINE g == [t |-> "sig"]
             k == Send(Took(m), "connector", g)
             c == [cmd[m] EXCEPT !.at = "code", !.peer = cand]
  <2>1. cmd' = [cmd EXCEPT ![m] = c] /\ link' = [link EXCEPT ![s] = k]
    BY <1>5 DEF TakeReply
  <2>2. g \in Frame /\ g.t = "sig"
    BY FrameTypes
  <2> HIDE DEF g
  <2>3. /\ k \in Links /\ k.l = link[s].l /\ k.c = link[s].c /\ k.h = link[s].h /\ k.yes = link[s].yes
        /\ k.wrote = link[s].wrote /\ k.told = link[s].told
        /\ \A e \in Side : Frames(k, e) \subseteq Frames(Took(m), e) \cup {g}
        /\ Frames(k, "connector") = Frames(Took(m), "connector")
    BY <1>3, <2>2, SendIs, Sides
  <2> HIDE DEF k
  <2>4. f.t = "hello" /\ f.role \in Role
    <3>1. f.t = "hello"
      BY <1>5 DEF parseHello
    <3>2. Truthful(link[s])
      BY Zenon, <1>1, MineIs DEF LinkOK
    <3> QED
      BY <3>1, <3>2, <1>3, Sides DEF Truthful
  <2>5. cand \in Peers
    BY <1>3, <2>4, PeerIs
  <2> HIDE DEF cand
  <2>6. /\ c \in Commands /\ c.at = "code" /\ c.s = s /\ c.side = cmd[m].side /\ c.opts = cmd[m].opts
        /\ c.id = cmd[m].id /\ c.created = cmd[m].created /\ c.seen = cmd[m].seen
        /\ c.peer = cand /\ c.base = cmd[m].base
    <3>1. cmd[m] \in Commands /\ "code" \in Ats
      BY PairTypes DEF Ats
    <3> QED
      BY <3>1, <2>5 DEF Commands
  <2> HIDE DEF c
  <2>7. GoesOn(m, s, "code") /\ cmd'[m] = c /\ link'[s] = k
    <3>1. /\ cmd' \in [Machine -> Commands] /\ cmd'[m] = c /\ \A n \in Machine \ {m} : cmd'[n] = cmd[n]
      BY <2>1, <2>6 DEF PairTypeOK
    <3>2. /\ link' \in [Connection -> Links] /\ link'[s] = k /\ \A r \in Connection \ {s} : link'[r] = link[r]
      BY <1>3, <2>1, <2>3 DEF PairTypeOK
    <3> QED
      BY <1>2, <1>3, <2>6, <3>1, <3>2 DEF GoesOn, PairTypeOK
  <2>8. Carries(s, Only("listener", g))
    BY <1>3, <2>3, <2>7, Sides DEF Carries, Only
  <2>9. Replied(m, f, g)
    BY <1>1, <1>2, <1>3, <1>5, <2>2, <2>3, <2>4, <2>6, <2>7, <2>8 DEF Replied, Stays, cand
  <2> QED
    BY <1>3, <2>2, <2>9
<1>6. CASE parseHello(f) /\ ~(RolesAgree(f.role, cmd[m].opts.role) /\ Prechecked(m, cand))
  <2>1. Over(m, Refuse(Took(m), "connector"))
    BY <1>6 DEF TakeReply
  <2>2. /\ Refuse(Took(m), "connector") \in Links /\ Less(link[s], Refuse(Took(m), "connector"))
        /\ Refuse(Took(m), "connector").h = link[s].h /\ Refuse(Took(m), "connector").told = link[s].told
    BY <1>3, RefuseIs, LessShut, Sides
  <2> QED
    BY <1>1, <1>2, <2>1, <2>2, MineOver
<1> QED
  BY <1>4, <1>5, <1>6

LEMMA TakeSigDoes ==
  ASSUME PairTypeOK, Structure, NEW m \in Machine, TakeSig(m)
  PROVE  (Quiet /\ Untold) \/ Signed(m)
<1> DEFINE s == cmd[m].s
           f == Next_(m)
<1>1. cmd[m].at = "sig" /\ HasFrame(m) /\ s # 0 /\ cmd[m].side = "listener"
  BY DEF TakeSig, Stands, HasFrame, Structure, PlaceOK
<1>2. UNCHANGED <<vaults, edit, minted, events>>
  BY DEF TakeSig
<1>3. /\ s \in Connection /\ link[s] \in Links /\ link[s].h # "none"
      /\ Took(m) \in Links /\ Less(link[s], Took(m)) /\ Took(m).h = link[s].h
      /\ Took(m).l = link[s].l /\ Took(m).c = link[s].c /\ Took(m).yes = link[s].yes
      /\ Took(m).wrote = link[s].wrote /\ Took(m).told = link[s].told
      /\ \A e \in Side : Frames(Took(m), e) \subseteq Frames(link[s], e)
      /\ f \in Frames(link[s], "listener")
  BY <1>1, MineIs
<1>4. CASE f.t = "sig"
  <2>1. Step(m, "code", Took(m)) /\ "code" \in Ats
    BY <1>4 DEF TakeSig, Ats
  <2>2. vaults' = vaults /\ GoesOn(m, s, "code") /\ cmd'[m].base = cmd[m].base /\ cmd'[m].peer = cmd[m].peer /\ link'[s] = Took(m)
    BY <1>1, <1>2, <1>3, <2>1, StepIs
  <2>3. Carries(s, Nothing) /\ Stays(s)
    BY <1>3, <2>2 DEF Carries, Stays, Nothing
  <2> QED
    BY <1>1, <1>3, <1>4, <2>2, <2>3 DEF Signed
<1>5. CASE f.t # "sig"
  <2>1. Over(m, Broke(Took(m)))
    BY <1>5 DEF TakeSig
  <2>2. Broke(Took(m)) \in Links /\ Less(link[s], Broke(Took(m))) /\ Broke(Took(m)).h = link[s].h
        /\ Broke(Took(m)).told = link[s].told
    BY <1>3, BrokeIs, LessShut, Sides
  <2> QED
    BY <1>1, <1>2, <2>1, <2>2, MineOver
<1> QED
  BY <1>4, <1>5

LEMMA TakeConfirmDoes ==
  ASSUME PairTypeOK, Structure, NEW m \in Machine, TakeConfirm(m)
  PROVE  (Quiet /\ Untold) \/ Heard(m)
<1> DEFINE s == cmd[m].s
           f == Next_(m)
<1>1. cmd[m].at = "confirm" /\ HasFrame(m) /\ s # 0
  BY DEF TakeConfirm, Stands, HasFrame
<1>2. UNCHANGED <<vaults, edit, minted, events>>
  BY DEF TakeConfirm
<1>3. /\ s \in Connection /\ link[s] \in Links /\ link[s].h # "none"
      /\ Took(m) \in Links /\ Less(link[s], Took(m)) /\ Took(m).h = link[s].h
      /\ Took(m).l = link[s].l /\ Took(m).c = link[s].c /\ Took(m).yes = link[s].yes
      /\ Took(m).wrote = link[s].wrote /\ Took(m).told = link[s].told
      /\ \A e \in Side : Frames(Took(m), e) \subseteq Frames(link[s], e)
      /\ f \in Frames(link[s], cmd[m].side)
  BY <1>1, MineIs
<1>4. CASE Confirms(f)
  <2>1. Step(m, "reread", Took(m)) /\ "reread" \in Ats
    BY <1>4 DEF TakeConfirm, Ats
  <2>2. vaults' = vaults /\ GoesOn(m, s, "reread") /\ cmd'[m].base = cmd[m].base /\ cmd'[m].peer = cmd[m].peer /\ link'[s] = Took(m)
    BY <1>1, <1>2, <1>3, <2>1, StepIs
  <2>3. Carries(s, Nothing) /\ Stays(s)
    BY <1>3, <2>2 DEF Carries, Stays, Nothing
  <2> QED
    BY <1>1, <1>3, <1>4, <2>2, <2>3 DEF Heard
<1>5. CASE ~Confirms(f)
  <2>1. Over(m, Broke(Took(m)))
    BY <1>5 DEF TakeConfirm
  <2>2. Broke(Took(m)) \in Links /\ Less(link[s], Broke(Took(m))) /\ Broke(Took(m)).h = link[s].h
        /\ Broke(Took(m)).told = link[s].told
    BY <1>3, BrokeIs, LessShut, Sides
  <2> QED
    BY <1>1, <1>2, <2>1, <2>2, MineOver
<1> QED
  BY <1>4, <1>5

LEMMA HarmlessNo ==
  /\ Harmless([t |-> "confirm", ok |-> FALSE]) /\ [t |-> "confirm", ok |-> FALSE] \in Frame
  /\ Harmless([t |-> "saved", ok |-> FALSE]) /\ [t |-> "saved", ok |-> FALSE] \in Frame
BY FrameTypes DEF Harmless, Confirms, PeerSaved

\* A command says no, in one way or another, and ends.
LEMMA NoIsQuiet ==
  ASSUME PairTypeOK, Structure, NEW m \in Machine, cmd[m].s # 0, NEW f \in Frame, Harmless(f),
         Over(m, Broke(Send(Mine(m), cmd[m].side, f))), UNCHANGED <<vaults, edit, minted, events>>
  PROVE  Quiet /\ Untold
<1> DEFINE s == cmd[m].s
           d == cmd[m].side
           k == Send(Mine(m), d, f)
<1>1. /\ s \in Connection /\ d \in Side /\ Mine(m) = link[s] /\ link[s] \in Links /\ link[s].h # "none"
  BY MineIs
<1>2. k \in Links /\ Less(link[s], k) /\ k.h = link[s].h /\ k.told = link[s].told
  BY <1>1, SendIs, LessSend, LessSame
<1> HIDE DEF k
<1>3. Broke(k) \in Links /\ Less(link[s], Broke(k)) /\ Broke(k).h = link[s].h /\ Broke(k).told = link[s].told
  BY <1>1, <1>2, BrokeIs, LessShut
<1>4. Over(m, Broke(k))
  BY DEF k
<1> QED
  BY <1>3, <1>4, MineOver

LEMMA CompareDoes ==
  ASSUME PairTypeOK, Structure, NEW m \in Machine, NEW ok \in BOOLEAN, Compare(m, ok)
  PROVE  (Quiet /\ Untold) \/ \E g \in Frame : Agrees(m, g)
<1> DEFINE s == cmd[m].s
           d == cmd[m].side
           g == [t |-> "confirm", ok |-> ok]
           k == Send(Mine(m), d, g)
<1>1. cmd[m].at = "code" /\ s # 0
  BY DEF Compare, Stands, Structure, PlaceOK, Connected, Partnered
<1>2. UNCHANGED <<vaults, edit, minted, events>>
  BY DEF Compare
<1>3. /\ s \in Connection /\ d \in Side /\ Mine(m) = link[s] /\ link[s] \in Links /\ link[s].h # "none"
  BY <1>1, MineIs
<1>4. CASE ok
  <2>1. Step(m, "confirm", [k EXCEPT !.yes = @ \cup {d}]) /\ "confirm" \in Ats
    BY <1>4 DEF Compare, Ats
  <2>2. g \in Frame /\ g.t = "confirm"
    BY FrameTypes
  <2> HIDE DEF g
  <2>3. /\ k \in Links /\ k.l = link[s].l /\ k.c = link[s].c /\ k.h = link[s].h /\ k.yes = link[s].yes
        /\ k.wrote = link[s].wrote /\ k.told = link[s].told
        /\ \A e \in Side : Frames(k, e) \subseteq Frames(link[s], e) \cup {g}
        /\ Frames(k, d) = Frames(link[s], d)
    BY <1>3, <2>2, SendIs
  <2> HIDE DEF k
  <2> DEFINE k2 == [k EXCEPT !.yes = @ \cup {d}]
  <2>4. /\ k2 \in Links /\ k2.l = link[s].l /\ k2.c = link[s].c /\ k2.h = link[s].h
        /\ k2.yes = link[s].yes \cup {d} /\ k2.wrote = link[s].wrote /\ k2.told = link[s].told /\ k2.to = k.to
    BY Zenon, <1>3, <2>3 DEF Links
  <2>5. Step(m, "confirm", k2)
    BY <2>1
  <2> HIDE DEF k2
  <2>6. vaults' = vaults /\ GoesOn(m, s, "confirm") /\ cmd'[m].base = cmd[m].base /\ cmd'[m].peer = cmd[m].peer /\ link'[s] = k2
    BY <1>1, <1>2, <2>1, <2>4, <2>5, StepIs
  <2>7. Carries(s, Only(Other(d), g)) /\ Stays(s)
    <3>1. \A e \in Side : e # d => e = Other(d)
      BY <1>3 DEF Other, Side
    <3>2. \A e \in Side : Frames(k2, e) = Frames(k, e)
      BY <2>4 DEF Frames
    <3> QED
      BY Zenon, <2>3, <2>4, <2>6, <3>1, <3>2 DEF Carries, Stays, Only
  <2>8. Agrees(m, g)
    BY <1>1, <2>2, <2>4, <2>6, <2>7 DEF Agrees
  <2> QED
    BY <2>2, <2>8
<1>5. CASE ~ok
  <2>1. g = [t |-> "confirm", ok |-> FALSE]
    BY <1>5
  <2>2. Over(m, Broke(k))
    BY <1>5 DEF Compare
  <2> QED
    BY <1>1, <1>2, <2>1, <2>2, HarmlessNo, NoIsQuiet
<1> QED
  BY <1>4, <1>5

LEMMA RereadDoes ==
  ASSUME PairTypeOK, Structure, NEW m \in Machine, Reread(m)
  PROVE  (Quiet /\ Untold) \/ Decides(m)
<1> DEFINE b == [own |-> cmd[m].id, peers |-> Upsert(vaults[m].peers, cmd[m].peer, Explicit(m))]
           ok == SameIdentity(m)
                 /\ Accepts(Ident(cmd[m].id), vaults[m].peers, cmd[m].peer, cmd[m].opts.replace, Explicit(m))
<1>1. cmd[m].at = "reread" /\ cmd[m].s # 0 /\ MayWrite(m) /\ UNCHANGED <<vaults, edit, minted, events>>
      /\ cmd[m].peer \in Peers
  BY DEF Reread, Stands, Structure, PlaceOK, Connected, Partnered
<1>2. CASE ok
  <2>1. cmd' = [cmd EXCEPT ![m].at = "save", ![m].base = b] /\ link' = link
    BY <1>2 DEF Reread
  <2>2. b \in Saved
    BY <1>1, PairTypes, UpsertType, ExplicitIs DEF Saved
  <2> HIDE DEF b
  <2> DEFINE c == [cmd[m] EXCEPT !.at = "save", !.base = b]
  <2>3. /\ c \in Commands /\ c.at = "save" /\ c.s = cmd[m].s /\ c.side = cmd[m].side /\ c.opts = cmd[m].opts
        /\ c.id = cmd[m].id /\ c.created = cmd[m].created /\ c.seen = cmd[m].seen
        /\ c.peer = cmd[m].peer /\ c.base = b
    <3>1. cmd[m] \in Commands /\ "save" \in Ats
      BY PairTypes DEF Ats
    <3> QED
      BY <3>1, <2>2 DEF Commands
  <2>4. cmd' = [cmd EXCEPT ![m] = c]
    BY <2>1 DEF PairTypeOK
  <2> HIDE DEF c
  <2>5. /\ cmd' \in [Machine -> Commands] /\ cmd'[m] = c /\ \A n \in Machine \ {m} : cmd'[n] = cmd[n]
    BY <2>3, <2>4 DEF PairTypeOK
  <2>6. cmd[m].s \in Connection /\ link \in [Connection -> Links]
    BY <1>1, MineIs DEF PairTypeOK
  <2>7. GoesOn(m, cmd[m].s, "save")
    BY <1>1, <2>1, <2>3, <2>5, <2>6 DEF GoesOn, PairTypeOK
  <2> QED
    BY <1>1, <1>2, <2>1, <2>3, <2>5, <2>7 DEF Decides, b
<1>3. CASE ~ok
  <2>1. Over(m, Broke(Send(Mine(m), cmd[m].side, [t |-> "saved", ok |-> FALSE])))
    BY <1>3 DEF Reread
  <2> QED
    BY <1>1, <2>1, HarmlessNo, NoIsQuiet
<1> QED
  BY <1>2, <1>3

LEMMA SavePeerDoes ==
  ASSUME PairTypeOK, Structure, NEW m \in Machine, SavePeer(m)
  PROVE  \E g \in Frame : Saves(m, g)
<1> DEFINE s == cmd[m].s
           d == cmd[m].side
           g == [t |-> "saved", ok |-> TRUE]
           k == Send(link[s], d, g)
<1>1. cmd[m].at = "save" /\ s # 0
  BY DEF SavePeer, Stands, Structure, PlaceOK, Connected, Partnered
<1>2. /\ s \in Connection /\ d \in Side /\ link[s] \in Links /\ link[s].h # "none"
  BY <1>1, MineIs
<1>3. g \in Frame /\ g.t = "saved"
  BY FrameTypes
<1>4. /\ cmd' = [cmd EXCEPT ![m].at = "ack", ![m].base = NewVault]
      /\ link' = [link EXCEPT ![s] = [k EXCEPT !.wrote = @ \cup {d}]]
      /\ vaults' = [vaults EXCEPT ![m] = cmd[m].base]
  BY <1>2 DEF SavePeer, Mine
<1> HIDE DEF g
<1>5. /\ k \in Links /\ k.l = link[s].l /\ k.c = link[s].c /\ k.h = link[s].h /\ k.yes = link[s].yes
      /\ k.wrote = link[s].wrote /\ k.told = link[s].told
      /\ \A e \in Side : Frames(k, e) \subseteq Frames(link[s], e) \cup {g}
      /\ Frames(k, d) = Frames(link[s], d)
  BY <1>2, <1>3, SendIs
<1> HIDE DEF k
<1> DEFINE k2 == [k EXCEPT !.wrote = @ \cup {d}]
<1>6. /\ k2 \in Links /\ k2.l = link[s].l /\ k2.c = link[s].c /\ k2.h = link[s].h
      /\ k2.wrote = link[s].wrote \cup {d} /\ k2.yes = link[s].yes /\ k2.told = link[s].told /\ k2.to = k.to
  BY Zenon, <1>2, <1>5 DEF Links
<1>7. link' = [link EXCEPT ![s] = k2]
  BY <1>4
<1> HIDE DEF k2
<1> DEFINE c == [cmd[m] EXCEPT !.at = "ack", !.base = NewVault]
<1>8. /\ c \in Commands /\ c.at = "ack" /\ c.s = cmd[m].s /\ c.side = cmd[m].side /\ c.opts = cmd[m].opts
      /\ c.id = cmd[m].id /\ c.created = cmd[m].created /\ c.seen = cmd[m].seen
      /\ c.peer = cmd[m].peer /\ c.base = NewVault
  <2>1. cmd[m] \in Commands /\ "ack" \in Ats /\ NewVault \in Saved
    BY PairTypes, NoThingTypes DEF Ats
  <2> QED
    BY <2>1 DEF Commands
<1>9. cmd' = [cmd EXCEPT ![m] = c]
  BY <1>4 DEF PairTypeOK
<1> HIDE DEF c
<1>10. /\ cmd' \in [Machine -> Commands] /\ cmd'[m] = c /\ \A n \in Machine \ {m} : cmd'[n] = cmd[n]
  BY <1>8, <1>9 DEF PairTypeOK
<1>11. /\ link' \in [Connection -> Links] /\ link'[s] = k2 /\ \A r \in Connection \ {s} : link'[r] = link[r]
  BY <1>2, <1>6, <1>7 DEF PairTypeOK
<1>12. GoesOn(m, s, "ack")
  BY <1>2, <1>8, <1>10, <1>11 DEF GoesOn, SavePeer, PairTypeOK
<1>13. Carries(s, Only(Other(d), g))
  <2>1. \A e \in Side : e # d => e = Other(d)
    BY <1>2 DEF Other, Side
  <2>2. \A e \in Side : Frames(k2, e) = Frames(k, e)
    BY <1>6 DEF Frames
  <2> QED
    BY Zenon, <1>5, <1>6, <1>11, <2>1, <2>2 DEF Carries, Only
<1>14. Saves(m, g)
  BY Zenon, <1>1, <1>3, <1>4, <1>6, <1>8, <1>10, <1>11, <1>12, <1>13 DEF Saves
<1> QED
  BY <1>3, <1>14

LEMMA SaveFailsDoes ==
  ASSUME PairTypeOK, Structure, NEW m \in Machine, SaveFails(m)
  PROVE  Quiet /\ Untold
<1>1. cmd[m].s # 0 /\ UNCHANGED <<vaults, edit, minted, events>>
      /\ Over(m, Broke(Send(Mine(m), cmd[m].side, [t |-> "saved", ok |-> FALSE])))
  BY DEF SaveFails, Stands, Structure, PlaceOK, Connected, Partnered
<1> QED
  BY <1>1, HarmlessNo, NoIsQuiet

\* What the last frame tells: that the other side has saved.
Told(m) ==
  LET s == cmd[m].s IN
  /\ s \in Connection
  /\ \A r \in Connection \ {s} : link'[r].told = link[r].told
  /\ link'[s].told # link[s].told =>
       /\ cmd[m].at = "ack" /\ \E f \in Frames(link[s], cmd[m].side) : PeerSaved(f)
       /\ link'[s].told = link[s].told \cup {cmd[m].side}

LEMMA TakeAckDoes ==
  ASSUME PairTypeOK, Structure, NEW m \in Machine, TakeAck(m)
  PROVE  Quiet /\ Told(m)
<1> DEFINE s == cmd[m].s
           d == cmd[m].side
           f == Next_(m)
           told == IF PeerSaved(f) THEN link[s].told \cup {d} ELSE link[s].told
           k == [Took(m) EXCEPT !.told = told]
<1>1. cmd[m].at = "ack" /\ HasFrame(m) /\ s # 0
  BY DEF TakeAck, Stands, HasFrame
<1>2. UNCHANGED <<vaults, edit, minted, events>>
  BY DEF TakeAck
<1>3. /\ s \in Connection /\ link[s] \in Links /\ link[s].h # "none" /\ d \in Side
      /\ Took(m) \in Links /\ Less(link[s], Took(m)) /\ Took(m).h = link[s].h
      /\ Took(m).l = link[s].l /\ Took(m).c = link[s].c /\ Took(m).yes = link[s].yes
      /\ Took(m).wrote = link[s].wrote /\ Took(m).told = link[s].told
      /\ \A e \in Side : Frames(Took(m), e) \subseteq Frames(link[s], e)
      /\ f \in Frames(link[s], d)
  BY <1>1, MineIs
<1>4. told \subseteq Side
  BY <1>3, LinkFields
<1>5. Over(m, k)
  BY <1>3 DEF TakeAck
<1> HIDE DEF told
<1>6. /\ k \in Links /\ k.l = link[s].l /\ k.c = link[s].c /\ k.h = link[s].h /\ k.yes = link[s].yes
      /\ k.wrote = link[s].wrote /\ k.told = told /\ k.to = Took(m).to
  BY <1>3, <1>4 DEF Links
<1> HIDE DEF k
<1>7. \A e \in Side : Frames(k, e) \subseteq Frames(link[s], e)
  BY Zenon, <1>3, <1>6 DEF Frames
<1>8. Less(link[s], k)
  BY <1>3, <1>6, <1>7, LessTaken
<1>9. Quiet
  BY <1>1, <1>2, <1>5, <1>6, <1>8, MineOver
<1>10. /\ \A r \in Connection \ {s} : link'[r].told = link[r].told
       /\ link'[s].told = told
  <2>1. \A r \in Connection : link'[r] =
           IF r = s THEN Shut(k, d)
           ELSE IF d = "listener" /\ link[r].l = m /\ link[r].h = "hello" THEN Shut(link[r], "listener")
           ELSE link[r]
    BY <1>5 DEF Over, OverIn
  <2>2. \A r \in Connection : link[r] \in Links
    BY PairTypes
  <2>3. Shut(k, d).told = told /\ \A r \in Connection : Shut(link[r], "listener").told = link[r].told
    <3>1. Shut(k, d).told = k.told
      BY <1>3, <1>6, ShutIs
    <3>2. ASSUME NEW r \in Connection PROVE Shut(link[r], "listener").told = link[r].told
      BY <2>2, ShutIs, Sides
    <3> QED
      BY <3>1, <3>2, <1>6
  <2> QED
    BY <1>3, <2>1, <2>3
<1>11. Told(m)
  BY Zenon, <1>1, <1>3, <1>10 DEF Told, told
<1> QED
  BY <1>9, <1>11

LEMMA GiveUpDoes ==
  ASSUME PairTypeOK, Structure, NEW m \in Machine, GiveUp(m)
  PROVE  Quiet /\ Untold
<1>1. UNCHANGED <<vaults, edit, minted, events>> /\ events' \in Nat
  BY DEF GiveUp, PairTypeOK
<1>2. CASE cmd[m].s = 0
  <2>1. OverIn(m, 0, NoLink)
    BY <1>2 DEF GiveUp, Over
  <2> QED
    BY <1>1, <1>2, <2>1, OverIsQuiet
<1>3. CASE cmd[m].s # 0
  <2>1. Over(m, Broke(link[cmd[m].s]))
    BY <1>3 DEF GiveUp, Mine
  <2>2. link[cmd[m].s] \in Links /\ link[cmd[m].s].h # "none"
    BY <1>3, MineIs
  <2>3. /\ Broke(link[cmd[m].s]) \in Links /\ Less(link[cmd[m].s], Broke(link[cmd[m].s]))
        /\ Broke(link[cmd[m].s]).h = link[cmd[m].s].h /\ Broke(link[cmd[m].s]).told = link[cmd[m].s].told
    BY <2>2, BrokeIs, LessShut, LessSame, Sides
  <2> QED
    BY <1>1, <1>3, <2>1, <2>3, MineOver
<1> QED
  BY <1>2, <1>3

LEMMA HelloTimeoutDoes ==
  ASSUME PairTypeOK, Structure, NEW s \in Connection, HelloTimeout(s)
  PROVE  Quiet /\ Untold
<1> DEFINE k == Shut(Broke(link[s]), "listener")
<1>1. link[s].h = "hello" /\ link' = [link EXCEPT ![s] = k] /\ link[s] \in Links
  BY PairTypes DEF HelloTimeout, PairTypeOK
<1>2. Broke(link[s]) \in Links /\ Less(link[s], Broke(link[s])) /\ Broke(link[s]).told = link[s].told
  BY <1>1, BrokeIs, LessShut, LessSame, Sides
<1>3. k \in Links /\ Less(link[s], k) /\ k.told = link[s].told
  BY <1>1, <1>2, ShutIs, LessShut, Sides
<1> HIDE DEF k
<1>4. UNCHANGED <<vaults, cmd, edit, minted>> /\ events' \in Nat /\ cmd' \in [Machine -> Commands]
  BY DEF HelloTimeout, PairTypeOK
<1>5. \A m \in Machine : SameCmd(cmd[m], cmd'[m])
  BY <1>4 DEF SameCmd
<1> QED
  BY <1>1, <1>3, <1>4, <1>5, LossIsQuiet

LEMMA LoseDoes ==
  ASSUME PairTypeOK, Structure, NEW s \in Connection, Lose(s)
  PROVE  Quiet /\ Untold
<1> DEFINE b == Broke(link[s])
<1>1. PICK n \in [Side -> 0..1] :
        link' = [link EXCEPT ![s] = [b EXCEPT !.shut = Side,
                  !.h = IF @ = "hello" THEN "over" ELSE @,
                  !.to = [d \in Side |-> IF n[d] < Len(b.to[d]) THEN SubSeq(b.to[d], 1, n[d]) ELSE b.to[d]]]]
  BY Zenon DEF Lose
<1> DEFINE to == [d \in Side |-> IF n[d] < Len(b.to[d]) THEN SubSeq(b.to[d], 1, n[d]) ELSE b.to[d]]
           h == IF b.h = "hello" THEN "over" ELSE b.h
           k == [b EXCEPT !.shut = Side, !.h = h, !.to = to]
<1>2. link' = [link EXCEPT ![s] = k]
  BY <1>1
<1>3. link[s] \in Links /\ link[s].h # "none" /\ events' \in Nat /\ UNCHANGED <<vaults, cmd, edit, minted>>
  BY PairTypes DEF Lose, PairTypeOK
<1>4. /\ b \in Links /\ b.l = link[s].l /\ b.c = link[s].c /\ b.h = link[s].h /\ b.yes = link[s].yes
      /\ b.wrote = link[s].wrote /\ b.told = link[s].told
      /\ \A e \in Side : Frames(b, e) = Frames(link[s], e)
  BY <1>3, BrokeIs
<1> HIDE DEF b
<1>5. \A d \in Side : to[d] \in Seq(Frame) /\ Elements(to[d]) \subseteq Elements(b.to[d])
  <2> SUFFICES ASSUME NEW d \in Side
               PROVE  to[d] \in Seq(Frame) /\ Elements(to[d]) \subseteq Elements(b.to[d])
    OBVIOUS
  <2>1. b.to[d] \in Seq(Frame) /\ n[d] \in 0..1
    BY <1>4, LinkFields
  <2> QED
    BY <2>1, SubElements
<1>6. to \in [Side -> Seq(Frame)] /\ h \in {"none", "hello", "in", "over"}
      /\ (link[s].h = "in" => h = "in") /\ (h = link[s].h \/ h = "over")
  BY <1>3, <1>4, <1>5, LinkFields
<1> HIDE DEF to, h
<1>7. /\ k \in Links /\ k.l = link[s].l /\ k.c = link[s].c /\ k.h = h /\ k.yes = link[s].yes
      /\ k.wrote = link[s].wrote /\ k.told = link[s].told /\ k.to = to
  BY <1>4, <1>6 DEF Links
<1> HIDE DEF k
<1>8. \A e \in Side : Frames(k, e) \subseteq Frames(link[s], e)
  BY <1>4, <1>5, <1>7 DEF Frames
<1>9. Less(link[s], k)
  BY <1>3, <1>6, <1>7, <1>8 DEF Less
<1>10. cmd' \in [Machine -> Commands] /\ \A m \in Machine : SameCmd(cmd[m], cmd'[m])
  BY <1>3 DEF SameCmd, PairTypeOK
<1> QED
  BY <1>2, <1>3, <1>6, <1>7, <1>9, <1>10, LossIsQuiet

LEMMA TakeHelloDoes ==
  ASSUME PairTypeOK, Structure, NEW l \in Machine, NEW s \in Connection, TakeHello(l, s)
  PROVE  (Quiet /\ Untold) \/ \E f \in Frame, g \in Frame : LetIn(l, s, f, g)
<1> DEFINE k == [link[s] EXCEPT !.to["listener"] = <<>>]
           f == Head(link[s].to["listener"])
           role == cmd[l].opts.role
           cand == PeerFrom(l, f, oppositeRole(role))
<1>1. /\ link[s].l = l /\ link[s].h = "hello" /\ link[s].to["listener"] # <<>>
      /\ UNCHANGED <<vaults, edit, minted, events>> /\ events' \in Nat
  BY DEF TakeHello, PairTypeOK
<1>2. link[s] \in Links /\ cmd[l] \in Commands /\ LinkOK(s, link[s]) /\ PlaceOK(cmd[l])
  BY PairTypes DEF Structure
<1>3. /\ k \in Links /\ k.l = l /\ k.c = link[s].c /\ k.h = "hello" /\ k.yes = link[s].yes
      /\ k.wrote = link[s].wrote /\ k.told = link[s].told
      /\ \A e \in Side : Frames(k, e) \subseteq Frames(link[s], e)
      /\ Frames(k, "listener") = {}
  BY ZenonT(30), <1>1, <1>2, EmptyTo, Sides
<1>4. f \in Frame /\ f \in Frames(link[s], "listener")
  <2>1. link[s].to["listener"] \in Seq(Frame)
    BY <1>2, LinkFields, Sides
  <2> QED
    BY <1>1, <2>1, TailElements DEF Frames
<1>5. /\ \/ Busy(l) /\ link' = [link EXCEPT ![s] = Refuse(k, "listener")] /\ UNCHANGED cmd
         \/ /\ ~Busy(l) /\ ~RightPin(f)
            /\ IF cmd[l].fails + 1 < PIN_MAX_FAILURES
                 THEN /\ cmd' = [cmd EXCEPT ![l].fails = @ + 1]
                      /\ link' = [link EXCEPT ![s] = Refuse(k, "listener")]
                 ELSE OverIn(l, s, Refuse(k, "listener"))
         \/ /\ ~Busy(l) /\ RightPin(f)
            /\ IF RolesAgree(role, f.role) /\ Prechecked(l, cand)
                 THEN /\ cmd' = [cmd EXCEPT ![l].at = "sig", ![l].s = s, ![l].peer = cand]
                      /\ link' = [link EXCEPT ![s] = [Send(k, "listener", ownHello(l, TRUE)) EXCEPT !.h = "in"]]
                 ELSE OverIn(l, s, Refuse(k, "listener"))
  BY Zenon DEF TakeHello
<1> HIDE DEF k, f
<1> DEFINE r == Refuse(k, "listener")
<1>6. r \in Links /\ Less(link[s], r) /\ r.told = link[s].told
  <2>1. Less(link[s], k)
    BY <1>1, <1>2, <1>3, LessTaken
  <2>2. r \in Links /\ r.told = link[s].told
    BY <1>3, RefuseIs, Sides
  <2> QED
    BY <1>1, <1>2, <1>3, <2>1, <2>2, LessShut, Sides
<1> HIDE DEF r
<1>7. ASSUME ~Busy(l)
      PROVE  cmd[l].at = "listening" /\ cmd[l].s = 0 /\ cmd[l].side = "listener" /\ cmd[l].id \in Id
             /\ role \in Role
  BY <1>2, <1>7 DEF Busy, Stands, PlaceOK, Connected, Partnered
<1>8. ASSUME ~Busy(l), OverIn(l, s, r) PROVE Quiet /\ Untold
  BY <1>1, <1>2, <1>6, <1>7, <1>8, OverIsQuiet, IdsAre DEF End
<1>9. CASE Busy(l) /\ link' = [link EXCEPT ![s] = r] /\ UNCHANGED cmd
  <2>1. cmd' \in [Machine -> Commands] /\ \A m \in Machine : SameCmd(cmd[m], cmd'[m])
    BY <1>9 DEF PairTypeOK, SameCmd
  <2> QED
    BY <1>1, <1>6, <1>9, <2>1, LossIsQuiet
<1>10. CASE ~Busy(l) /\ ~RightPin(f) /\ cmd[l].fails + 1 < PIN_MAX_FAILURES
            /\ cmd' = [cmd EXCEPT ![l].fails = @ + 1] /\ link' = [link EXCEPT ![s] = r]
  <2> DEFINE c == [cmd[l] EXCEPT !.fails = @ + 1]
  <2>1. c \in Commands /\ SameCmd(cmd[l], c)
    BY <1>2 DEF Commands, SameCmd
  <2>2. cmd' = [cmd EXCEPT ![l] = c]
    BY <1>10
  <2> HIDE DEF c
  <2>3. cmd' \in [Machine -> Commands] /\ cmd'[l] = c /\ \A m \in Machine \ {l} : cmd'[m] = cmd[m]
    BY <2>1, <2>2 DEF PairTypeOK
  <2>4. \A m \in Machine : SameCmd(cmd[m], cmd'[m])
    BY <2>1, <2>3 DEF SameCmd
  <2> QED
    BY <1>1, <1>6, <1>10, <2>3, <2>4, LossIsQuiet
<1>11. CASE /\ ~Busy(l) /\ RightPin(f) /\ RolesAgree(role, f.role) /\ Prechecked(l, cand)
            /\ cmd' = [cmd EXCEPT ![l].at = "sig", ![l].s = s, ![l].peer = cand]
            /\ link' = [link EXCEPT ![s] = [Send(k, "listener", ownHello(l, TRUE)) EXCEPT !.h = "in"]]
  <2> DEFINE g == ownHello(l, TRUE)
             k2 == Send(k, "listener", g)
             k3 == [k2 EXCEPT !.h = "in"]
             c == [cmd[l] EXCEPT !.at = "sig", !.s = s, !.peer = cand]
  <2>1. cmd' = [cmd EXCEPT ![l] = c] /\ link' = [link EXCEPT ![s] = k3]
    BY <1>11 DEF PairTypeOK
  <2>2. g \in Frame /\ g.t = "hello" /\ g.id = cmd[l].id /\ g.role = cmd[l].opts.role
    BY <1>7, <1>11, HelloIs
  <2> HIDE DEF g
  <2>3. /\ k2 \in Links /\ k2.l = k.l /\ k2.c = k.c /\ k2.h = k.h /\ k2.yes = k.yes
        /\ k2.wrote = k.wrote /\ k2.told = k.told
        /\ \A e \in Side : Frames(k2, e) \subseteq Frames(k, e) \cup {g}
        /\ Frames(k2, "listener") = Frames(k, "listener")
    BY <1>3, <2>2, SendIs, Sides
  <2> HIDE DEF k2
  <2>4. /\ k3 \in Links /\ k3.l = l /\ k3.c = link[s].c /\ k3.h = "in" /\ k3.yes = link[s].yes
        /\ k3.wrote = link[s].wrote /\ k3.told = link[s].told /\ k3.to = k2.to
    BY <1>3, <2>3 DEF Links
  <2> HIDE DEF k3
  <2>5. f.t = "hello"
    BY <1>11 DEF RightPin, parseHello
  <2>6. cand \in Peers
    BY <1>4, <1>7, <1>11, <2>5, PeerIs, RolesAre
  <2> HIDE DEF cand
  <2>7. /\ c \in Commands /\ c.at = "sig" /\ c.s = s /\ c.side = cmd[l].side /\ c.opts = cmd[l].opts
        /\ c.id = cmd[l].id /\ c.created = cmd[l].created /\ c.seen = cmd[l].seen
        /\ c.peer = cand /\ c.base = cmd[l].base
    <3>1. "sig" \in Ats
      BY DEF Ats
    <3> QED
      BY <1>2, <2>6, <3>1 DEF Commands
  <2> HIDE DEF c
  <2>8. GoesOn(l, s, "sig") /\ cmd'[l] = c /\ link'[s] = k3 /\ vaults' = vaults
    <3>1. /\ cmd' \in [Machine -> Commands] /\ cmd'[l] = c /\ \A n \in Machine \ {l} : cmd'[n] = cmd[n]
      BY <2>1, <2>7 DEF PairTypeOK
    <3>2. /\ link' \in [Connection -> Links] /\ link'[s] = k3 /\ \A q \in Connection \ {s} : link'[q] = link[q]
      BY <2>1, <2>4 DEF PairTypeOK
    <3> QED
      BY <1>1, <2>7, <3>1, <3>2 DEF GoesOn
  <2>9. /\ \A e \in Side : Frames(k3, e) = Frames(k2, e)
        /\ \A e \in Side : e = "listener" \/ e = "connector"
    BY <2>4, Sides DEF Frames
  <2>10. Carries(s, Only("connector", g)) /\ Frames(link'[s], "listener") = {}
    BY <1>1, <1>3, <2>3, <2>4, <2>8, <2>9, Sides DEF Carries, Only
  <2>11. LetIn(l, s, f, g)
    BY Zenon, <1>1, <1>4, <1>7, <1>11, <2>2, <2>4, <2>7, <2>8, <2>10 DEF LetIn, cand
  <2> QED
    BY <1>4, <2>2, <2>11
<1> QED
  BY <1>5, <1>8, <1>9, <1>10, <1>11 DEF r, f

(***************************************************************************)
(* Structure is kept.                                                       *)
(***************************************************************************)
\* Connection s after a step of m's command on it, and what has to be seen to.
Grows(m, s) ==
  /\ cmd[m].at # "idle" /\ cmd[m].s \in {0, s}
  /\ PlaceOK(cmd'[m]) /\ Attached(m, cmd'[m], link'[s])
  /\ link[s].h # "none" => /\ link'[s].l = link[s].l /\ link'[s].c = link[s].c
                           /\ link'[s].h \in {link[s].h, "in"}
  /\ link[s].yes \subseteq link'[s].yes /\ link'[s].yes \subseteq link[s].yes \cup {cmd[m].side}
  /\ link[s].wrote \subseteq link'[s].wrote
  /\ link'[s].h \in {"in", "hello"} =>
       cmd'[link'[s].l].side = "listener" /\ cmd'[link'[s].l].at # "idle"
  /\ link'[s].h = "in" => cmd'[link'[s].l].s = s
  /\ link'[s].h = "hello" => /\ cmd'[link'[s].c].s = s => cmd'[link'[s].c].at = "hello"
                             /\ link'[s].yes = {} /\ \A f \in Frames(link'[s], "connector") : f.t # "hello"
  /\ link'[s].l # link'[s].c /\ Truthful(link'[s])

LEMMA StepStructure ==
  ASSUME PairTypeOK, Structure, NEW m \in Machine, NEW s, NEW at, at # "idle", GoesOn(m, s, at), Grows(m, s)
  PROVE  Structure'
<1>1. /\ s \in Connection /\ \A n \in Machine \ {m} : cmd'[n] = cmd[n]
      /\ cmd'[m].at = at /\ cmd'[m].s = s /\ cmd'[m].side = cmd[m].side
      /\ \A r \in Connection \ {s} : link'[r] = link[r]
  BY DEF GoesOn
<1>2. \A n \in Machine : PlaceOK(cmd[n]) /\ (cmd[n].s # 0 => Attached(n, cmd[n], link[cmd[n].s]))
  BY DEF Structure
<1>3. ASSUME NEW n \in Machine
      PROVE  PlaceOK(cmd'[n]) /\ (cmd'[n].s # 0 => Attached(n, cmd'[n], link'[cmd'[n].s]))
  <2>1. CASE n = m
    BY <2>1, <1>1 DEF Grows
  <2>2. CASE n # m /\ cmd[n].s # s
    BY <2>2, <1>1, <1>2, PairTypes
  <2>3. CASE n # m /\ cmd[n].s = s
    <3>1. cmd'[n] = cmd[n] /\ PlaceOK(cmd[n]) /\ Attached(n, cmd[n], link[s]) /\ link[s].h # "none"
      BY <2>3, <1>1, <1>2, IdsAre DEF Attached
    <3>2. cmd[n].side # cmd[m].side
      BY <3>1, <2>3, <1>1 DEF Grows, Attached, End
    <3>3. cmd[n].side \in Side /\ cmd[m].side \in Side /\ Other(cmd[n].side) = cmd[m].side
      BY <3>2, PairTypes DEF Side, Other
    <3> QED
      BY <3>1, <3>2, <3>3, <2>3 DEF Grows, Attached, End
  <2> QED
    BY <2>1, <2>2, <2>3
<1>4. ASSUME NEW r \in Connection PROVE LinkOK(r, link[r])'
  <2>1. CASE r = s
    <3>1. Truthful(link'[s]) = Truthful(link[s])' /\ Frames(link'[s], "connector") = Frames(link[s], "connector")'
      BY DEF Truthful, Confirms, PeerSaved, Frames
    <3> QED
      BY <2>1, <3>1 DEF Grows, LinkOK, Attached
  <2>2. CASE r # s
    <3>1. LinkOK(r, link[r]) /\ link'[r] = link[r] /\ link[r].l \in Machine
      BY <2>2, <1>1, PairTypes DEF Structure
    <3>2. Truthful(link[r])'
      BY <3>1 DEF LinkOK, Truthful, Confirms, PeerSaved
    <3>3. link[r].h = "in" => link[r].l # m
      BY <3>1, <2>2, IdsAre DEF LinkOK, Grows
    <3>4. cmd'[link[r].l].side = cmd[link[r].l].side
          /\ (cmd[link[r].l].at # "idle" => cmd'[link[r].l].at # "idle")
      BY <1>1, <3>1
    <3>5. link[r].h = "in" => cmd'[link[r].l] = cmd[link[r].l]
      BY <1>1, <3>1, <3>3
    <3>6. cmd'[link[r].c].s = r => cmd'[link[r].c] = cmd[link[r].c]
      BY <1>1, <2>2, PairTypes
    <3>7. Frames(link[r], "connector")' = Frames(link[r], "connector")
      BY <3>1 DEF Frames
    <3> QED
      BY <3>1, <3>2, <3>4, <3>5, <3>6, <3>7 DEF LinkOK
  <2> QED
    BY <2>1, <2>2
<1> QED
  BY <1>3, <1>4 DEF Structure

LEMMA GoesTypes ==
  ASSUME PairTypeOK, NEW m \in Machine, NEW s, NEW at, GoesOn(m, s, at), vaults' \in [Machine -> Saved]
  PROVE  PairTypeOK'
BY DEF GoesOn, PairTypeOK

\* The command of m in connection s, before the step.
LEMMA OwnIs ==
  ASSUME PairTypeOK, Structure, NEW m \in Machine, cmd[m].at \in Connected
  PROVE  LET s == cmd[m].s IN
         /\ s \in Connection /\ s # 0 /\ cmd[m].side \in Side /\ Other(cmd[m].side) \in Side
         /\ PlaceOK(cmd[m]) /\ Attached(m, cmd[m], link[s]) /\ LinkOK(s, link[s]) /\ link[s].h # "none"
         /\ cmd[link[s].l].s = s \/ link[s].h # "in"
         /\ link[s].l \in Machine /\ link[s].c \in Machine /\ Truthful(link[s])
         /\ link[s].yes \subseteq Side
<1>1. cmd[m].s # 0 /\ PlaceOK(cmd[m])
  BY DEF Structure, PlaceOK
<1>2. cmd[m].s \in Connection /\ cmd[m].side \in Side /\ Other(cmd[m].side) \in Side
  BY <1>1, PairTypes, Sides
<1> QED
  BY ZenonT(30), <1>1, <1>2, PairTypes, LinkFields DEF Structure, LinkOK, Attached

LEMMA DialledKeeps ==
  ASSUME PairTypeOK, Structure, NEW m \in Machine, NEW l \in Machine, NEW s \in Connection, NEW f \in Frame,
         Dialled(m, l, s, f)
  PROVE  PairTypeOK' /\ Structure'
<1>1. PairTypeOK'
  BY GoesTypes DEF Dialled, PairTypeOK
<1>2. PlaceOK(cmd[m]) /\ PlaceOK(cmd[l]) /\ cmd[m].at = "ready" /\ cmd[l].at = "listening"
  BY DEF Structure, Dialled
<1>3. /\ cmd'[m].at = "hello" /\ cmd'[m].s = s /\ cmd'[m].side = "connector" /\ cmd'[m].id \in Id
      /\ cmd[m].s = 0 /\ cmd'[l] = cmd[l] /\ cmd[l].side = "listener"
  BY <1>2 DEF Dialled, GoesOn, PlaceOK, Connected, Partnered
<1>4. link[s].yes = {} /\ link[s].wrote = {}
  BY NoThingTypes DEF Structure, LinkOK, Dialled
<1>5. Truthful(link'[s])
  BY Sides DEF Dialled, Truthful, Confirms, PeerSaved
<1>6. PlaceOK(cmd'[m]) /\ Attached(m, cmd'[m], link'[s])
  BY <1>3, IdsAre DEF PlaceOK, Connected, Partnered, Attached, End, Dialled
<1>7. Grows(m, s)
  <2>1. Frames(link'[s], "connector") = {} /\ link'[s].c = m
    BY DEF Dialled
  <2> QED
    BY <2>1, <1>2, <1>3, <1>4, <1>5, <1>6 DEF Grows, Dialled
<1> QED
  BY <1>1, <1>7, StepStructure DEF Dialled

LEMMA LetInKeeps ==
  ASSUME PairTypeOK, Structure, NEW l \in Machine, NEW s \in Connection, NEW f \in Frame, NEW g \in Frame,
         LetIn(l, s, f, g)
  PROVE  PairTypeOK' /\ Structure'
<1>1. PairTypeOK'
  BY GoesTypes DEF LetIn, PairTypeOK
<1>2. /\ PlaceOK(cmd[l]) /\ cmd[l].at = "listening" /\ LinkOK(s, link[s]) /\ link[s].h = "hello" /\ link[s].l = l
  BY DEF Structure, LetIn
<1>3. /\ cmd'[l].at = "sig" /\ cmd'[l].s = s /\ cmd'[l].side = "listener" /\ cmd'[l].id \in Id
      /\ cmd[l].s = 0 /\ cmd'[l].opts.role \in Role /\ cmd[l].opts.role \in Role
  BY <1>2 DEF LetIn, GoesOn, PlaceOK, Connected, Partnered
<1>4. cmd'[l].peer \in Peers
  <2>1. f.t = "hello"
    BY DEF LetIn, RightPin, parseHello
  <2> QED
    BY <1>3, <2>1, PeerIs, RolesAre DEF LetIn
<1>5. link[s].yes = {} /\ link'[s].yes = {} /\ link'[s].h = "in" /\ link'[s].wrote = link[s].wrote
      /\ link'[s].l = l /\ link'[s].c = link[s].c /\ link[s].l # link[s].c /\ Truthful(link[s])
  BY <1>2 DEF LinkOK, LetIn, Carries
<1>6. Truthful(link'[s])
  <2>1. \A d \in Side : \A x \in Frames(link'[s], d) : x \in Frames(link[s], d) \/ (d = "connector" /\ x = g)
    BY DEF LetIn, Carries, Only
  <2>2. ~Confirms(g) /\ ~PeerSaved(g) /\ g.t = "hello" /\ g.role \in Role
    BY <1>3 DEF LetIn, Confirms, PeerSaved
  <2> QED
    BY <1>5, <2>1, <2>2 DEF Truthful
<1>7. PlaceOK(cmd'[l]) /\ Attached(l, cmd'[l], link'[s])
  BY <1>3, <1>4, <1>5, IdsAre DEF PlaceOK, Connected, Partnered, Attached, End
<1>8. Grows(l, s)
  BY <1>2, <1>3, <1>5, <1>6, <1>7 DEF Grows
<1> QED
  BY <1>8, <1>1, StepStructure DEF LetIn

\* A step of a command within its session.
LEMMA SessionKeeps ==
  ASSUME PairTypeOK, Structure, NEW m \in Machine, cmd[m].at \in Connected, NEW at \in Partnered,
         GoesOn(m, cmd[m].s, at), vaults' \in [Machine -> Saved], cmd'[m].peer \in Peers,
         LET s == cmd[m].s  d == cmd[m].side IN
         /\ at = "sig" => d = "listener"
         /\ link'[s].l = link[s].l /\ link'[s].c = link[s].c /\ link'[s].h = link[s].h
         /\ link[s].h = "hello" => cmd[m].at # "hello"
         /\ link[s].yes \subseteq link'[s].yes /\ link'[s].yes \subseteq link[s].yes \cup {d}
         /\ link[s].wrote \subseteq link'[s].wrote
         /\ at \in {"confirm", "reread", "save", "ack"} <=> d \in link'[s].yes
         /\ at \in {"reread", "save", "ack"} => Other(d) \in link[s].yes
         /\ at = "ack" => d \in link'[s].wrote
         /\ Truthful(link'[s])
  PROVE  PairTypeOK' /\ Structure'
<1> DEFINE s == cmd[m].s
           d == cmd[m].side
<1>1. /\ s \in Connection /\ s # 0 /\ d \in Side /\ PlaceOK(cmd[m]) /\ Attached(m, cmd[m], link[s]) /\ LinkOK(s, link[s])
      /\ link[s].h # "none"
  BY Zenon, OwnIs
<1>2. /\ cmd'[m].at = at /\ cmd'[m].s = s /\ cmd'[m].side = d /\ cmd'[m].opts = cmd[m].opts /\ cmd'[m].id = cmd[m].id
      /\ \A n \in Machine \ {m} : cmd'[n] = cmd[n]
  BY Zenon DEF GoesOn
<1>3. cmd[m].at # "idle" /\ at # "idle" /\ at \in Connected /\ at \notin {"listening", "ready", "hello"}
  BY DEF Connected, Partnered
<1>4. PlaceOK(cmd'[m])
  BY Zenon, <1>1, <1>2, <1>3 DEF PlaceOK
<1>5. Attached(m, cmd'[m], link'[s])
  BY Zenon, <1>1, <1>2 DEF Attached, End
<1>6. link[s].h # "hello"
  <2> SUFFICES ASSUME link[s].h = "hello" PROVE FALSE
    OBVIOUS
  <2>1. d = "connector" /\ link[s].c = m
    BY Zenon, <1>1, Sides DEF Attached, End
  <2> QED
    BY Zenon, <1>1, <2>1 DEF LinkOK
<1>7. link'[s].h = "in" => cmd'[link'[s].l].s = s /\ cmd'[link'[s].l].side = "listener" /\ cmd'[link'[s].l].at # "idle"
  <2> SUFFICES ASSUME link[s].h = "in"
               PROVE  cmd'[link[s].l].s = s /\ cmd'[link[s].l].side = "listener" /\ cmd'[link[s].l].at # "idle"
    OBVIOUS
  <2>1. cmd[link[s].l].s = s /\ cmd[link[s].l].side = "listener" /\ link[s].l \in Machine
    BY Zenon, <1>1, PairTypes DEF LinkOK
  <2>2. cmd[link[s].l].at # "idle"
    BY Zenon, <1>1, <2>1 DEF Structure, PlaceOK, Connected, Partnered
  <2> QED
    BY ZenonT(30), <1>2, <1>3, <2>1, <2>2
<1>8. Grows(m, s)
  BY Zenon, <1>1, <1>2, <1>3, <1>4, <1>5, <1>6, <1>7 DEF Grows, LinkOK
<1>9. Structure'
  BY <1>3, <1>8, StepStructure
<1> QED
  BY Zenon, <1>9, GoesTypes

LEMMA CarriesTruth ==
  ASSUME NEW s \in Connection, NEW new, Carries(s, new), Truthful(link[s]),
         link[s].yes \subseteq link'[s].yes, link[s].wrote \subseteq link'[s].wrote,
         \A d \in Side : \A f \in new[d] : /\ Confirms(f) => Other(d) \in link'[s].yes
                                           /\ PeerSaved(f) => Other(d) \in link'[s].wrote
                                           /\ f.t # "hello"
  PROVE  Truthful(link'[s])
BY DEF Carries, Truthful

LEMMA RepliedKeeps ==
  ASSUME PairTypeOK, Structure, NEW m \in Machine, NEW f \in Frame, NEW g \in Frame, Replied(m, f, g)
  PROVE  PairTypeOK' /\ Structure'
<1> DEFINE s == cmd[m].s
           d == cmd[m].side
<1>1. cmd[m].at = "hello" /\ cmd[m].at \in Connected /\ "code" \in Partnered
  BY DEF Replied, Connected, Partnered
<1>2. /\ s \in Connection /\ d \in Side /\ Attached(m, cmd[m], link[s]) /\ LinkOK(s, link[s]) /\ Truthful(link[s])
  BY <1>1, OwnIs
<1>3. /\ f \in Frames(link[s], "connector") /\ f.t = "hello"
      /\ GoesOn(m, s, "code") /\ vaults' = vaults /\ cmd'[m].peer = PeerFrom(m, f, f.role)
      /\ Carries(s, Only("listener", g)) /\ g.t = "sig"
      /\ link'[s].h = link[s].h /\ link'[s].wrote = link[s].wrote /\ link'[s].yes = link[s].yes
  BY DEF Replied, Stays
<1>4. cmd'[m].peer \in Peers
  BY <1>2, <1>3, PeerIs, Sides DEF Truthful
<1>5. link[s].h # "hello"
  BY Zenon, <1>2, <1>3 DEF LinkOK
<1>6. Truthful(link'[s])
  BY <1>2, <1>3, CarriesTruth DEF Only, Confirms, PeerSaved
<1>7. d \notin link'[s].yes
  BY <1>1, <1>2, <1>3 DEF Attached
<1>8. link'[s].l = link[s].l /\ link'[s].c = link[s].c /\ vaults' \in [Machine -> Saved]
  BY <1>3 DEF Carries, PairTypeOK
<1> HIDE DEF s, d
<1> QED
  BY Zenon, <1>1, <1>3, <1>4, <1>5, <1>6, <1>7, <1>8, SessionKeeps DEF s, d

LEMMA SignedKeeps ==
  ASSUME PairTypeOK, Structure, NEW m \in Machine, Signed(m)
  PROVE  PairTypeOK' /\ Structure'
<1> DEFINE s == cmd[m].s
           d == cmd[m].side
<1>1. cmd[m].at = "sig" /\ cmd[m].at \in Connected /\ cmd[m].at \in Partnered /\ "code" \in Partnered
  BY DEF Signed, Connected, Partnered
<1>2. /\ s \in Connection /\ d \in Side /\ Attached(m, cmd[m], link[s]) /\ Truthful(link[s]) /\ cmd[m].peer \in Peers
  BY <1>1, OwnIs DEF PlaceOK
<1>3. /\ GoesOn(m, s, "code") /\ vaults' = vaults /\ cmd'[m].peer = cmd[m].peer /\ Carries(s, Nothing)
      /\ link'[s].h = link[s].h /\ link'[s].wrote = link[s].wrote /\ link'[s].yes = link[s].yes
  BY DEF Signed, Stays
<1>4. Truthful(link'[s])
  BY <1>2, <1>3, CarriesTruth DEF Nothing
<1>5. d \notin link'[s].yes
  BY <1>1, <1>2, <1>3 DEF Attached
<1>6. link'[s].l = link[s].l /\ link'[s].c = link[s].c /\ vaults' \in [Machine -> Saved]
  BY <1>3 DEF Carries, PairTypeOK
<1> HIDE DEF s, d
<1> QED
  BY Zenon, <1>1, <1>2, <1>3, <1>4, <1>5, <1>6, SessionKeeps DEF s, d

LEMMA AgreesKeeps ==
  ASSUME PairTypeOK, Structure, NEW m \in Machine, NEW g \in Frame, Agrees(m, g)
  PROVE  PairTypeOK' /\ Structure'
<1> DEFINE s == cmd[m].s
           d == cmd[m].side
<1>1. cmd[m].at = "code" /\ cmd[m].at \in Connected /\ cmd[m].at \in Partnered /\ "confirm" \in Partnered
  BY DEF Agrees, Connected, Partnered
<1>2. /\ s \in Connection /\ d \in Side /\ Truthful(link[s]) /\ cmd[m].peer \in Peers
  BY <1>1, OwnIs DEF PlaceOK
<1>3. /\ GoesOn(m, s, "confirm") /\ vaults' = vaults /\ cmd'[m].peer = cmd[m].peer
      /\ Carries(s, Only(Other(d), g)) /\ g.t = "confirm"
      /\ link'[s].h = link[s].h /\ link'[s].wrote = link[s].wrote /\ link'[s].yes = link[s].yes \cup {d}
  BY DEF Agrees, Stays
<1>4. Truthful(link'[s])
  <2>1. Other(Other(d)) = d
    BY <1>2, Sides
  <2>2. \A e \in Side : \A x \in Only(Other(d), g)[e] : x = g /\ e = Other(d)
    BY DEF Only
  <2> HIDE DEF d
  <2> QED
    BY <1>2, <1>3, <2>1, <2>2, CarriesTruth DEF PeerSaved
<1>5. link'[s].l = link[s].l /\ link'[s].c = link[s].c /\ vaults' \in [Machine -> Saved]
  BY <1>3 DEF Carries, PairTypeOK
<1> HIDE DEF s, d
<1> QED
  BY Zenon, <1>1, <1>2, <1>3, <1>4, <1>5, SessionKeeps DEF s, d

LEMMA HeardKeeps ==
  ASSUME PairTypeOK, Structure, NEW m \in Machine, Heard(m)
  PROVE  PairTypeOK' /\ Structure'
<1> DEFINE s == cmd[m].s
           d == cmd[m].side
<1>1. cmd[m].at = "confirm" /\ cmd[m].at \in Connected /\ cmd[m].at \in Partnered /\ "reread" \in Partnered
  BY DEF Heard, Connected, Partnered
<1>2. /\ s \in Connection /\ d \in Side /\ Attached(m, cmd[m], link[s]) /\ Truthful(link[s]) /\ cmd[m].peer \in Peers
  BY <1>1, OwnIs DEF PlaceOK
<1>3. /\ GoesOn(m, s, "reread") /\ vaults' = vaults /\ cmd'[m].peer = cmd[m].peer /\ Carries(s, Nothing)
      /\ link'[s].h = link[s].h /\ link'[s].wrote = link[s].wrote /\ link'[s].yes = link[s].yes
      /\ \E f \in Frames(link[s], d) : Confirms(f)
  BY DEF Heard, Stays
<1>4. Truthful(link'[s])
  BY <1>2, <1>3, CarriesTruth DEF Nothing
<1>5. d \in link'[s].yes /\ Other(d) \in link[s].yes
  BY <1>1, <1>2, <1>3 DEF Attached, Truthful
<1>6. link'[s].l = link[s].l /\ link'[s].c = link[s].c /\ vaults' \in [Machine -> Saved]
  BY <1>3 DEF Carries, PairTypeOK
<1> HIDE DEF s, d
<1> QED
  BY <1>1, <1>2, <1>3, <1>4, <1>5, <1>6, SessionKeeps DEF s, d

LEMMA DecidesKeeps ==
  ASSUME PairTypeOK, Structure, NEW m \in Machine, Decides(m)
  PROVE  PairTypeOK' /\ Structure'
<1> DEFINE s == cmd[m].s
           d == cmd[m].side
<1>1. cmd[m].at = "reread" /\ cmd[m].at \in Connected /\ cmd[m].at \in Partnered /\ "save" \in Partnered
  BY DEF Decides, Connected, Partnered
<1>2. /\ s \in Connection /\ d \in Side /\ Attached(m, cmd[m], link[s]) /\ Truthful(link[s]) /\ cmd[m].peer \in Peers
  BY <1>1, OwnIs DEF PlaceOK
<1>3. /\ GoesOn(m, s, "save") /\ vaults' = vaults /\ cmd'[m].peer = cmd[m].peer /\ link' = link
  BY DEF Decides
<1>4. d \in link'[s].yes /\ Other(d) \in link[s].yes /\ vaults' \in [Machine -> Saved]
  BY <1>1, <1>2, <1>3 DEF Attached, PairTypeOK
<1> HIDE DEF s, d
<1> QED
  BY <1>1, <1>2, <1>3, <1>4, SessionKeeps DEF s, d

LEMMA SavesKeeps ==
  ASSUME PairTypeOK, Structure, NEW m \in Machine, NEW g \in Frame, Saves(m, g)
  PROVE  PairTypeOK' /\ Structure'
<1> DEFINE s == cmd[m].s
           d == cmd[m].side
<1>1. cmd[m].at = "save" /\ cmd[m].at \in Connected /\ cmd[m].at \in Partnered /\ "ack" \in Partnered
  BY DEF Saves, Connected, Partnered
<1>2. /\ s \in Connection /\ d \in Side /\ Attached(m, cmd[m], link[s]) /\ Truthful(link[s]) /\ cmd[m].peer \in Peers
  BY <1>1, OwnIs DEF PlaceOK
<1>3. /\ GoesOn(m, s, "ack") /\ cmd'[m].peer = cmd[m].peer
      /\ Carries(s, Only(Other(d), g)) /\ g.t = "saved"
      /\ link'[s].h = link[s].h /\ link'[s].yes = link[s].yes /\ link'[s].wrote = link[s].wrote \cup {d}
      /\ vaults' = [vaults EXCEPT ![m] = cmd[m].base]
  BY DEF Saves
<1>4. Truthful(link'[s])
  <2>1. Other(Other(d)) = d
    BY <1>2, Sides
  <2>2. \A e \in Side : \A x \in Only(Other(d), g)[e] : x = g /\ e = Other(d)
    BY DEF Only
  <2> HIDE DEF d
  <2> QED
    BY <1>2, <1>3, <2>1, <2>2, CarriesTruth DEF Confirms
<1>5. d \in link'[s].yes /\ Other(d) \in link[s].yes
  BY <1>1, <1>2, <1>3 DEF Attached
<1>6. link'[s].l = link[s].l /\ link'[s].c = link[s].c /\ vaults' \in [Machine -> Saved]
  BY <1>3, PairTypes DEF Carries, PairTypeOK
<1> HIDE DEF s, d
<1> QED
  BY <1>1, <1>2, <1>3, <1>4, <1>5, <1>6, SessionKeeps DEF s, d

(***************************************************************************)
(* whoami and unpair.                                                       *)
(***************************************************************************)
Asks(m)  == edit[m].at = "idle" /\ edit'[m].at = "ask" /\ edit'[m].base = edit[m].base
            /\ vaults' = vaults /\ minted' = minted
Drops(m) == edit'[m] = NoEdit /\ vaults' = vaults /\ minted' = minted
Mints(m) ==
  /\ edit[m].at = "ask" /\ MayWrite(m) /\ vaults[m].own = NoId
  /\ minted + 1 \in Id \ Stranger /\ minted' = minted + 1 /\ vaults' = vaults
  /\ edit'[m].at = "save" /\ edit'[m].kind = "whoami"
  /\ edit'[m].base = [own |-> minted + 1, peers |-> vaults[m].peers]
Removes(m) ==
  /\ edit[m].at = "ask" /\ MayWrite(m) /\ edit[m].id \in Id /\ minted' = minted /\ vaults' = vaults
  /\ edit'[m].at = "save" /\ edit'[m].kind = "unpair" /\ edit'[m].id = edit[m].id
  /\ edit'[m].base = [own |-> vaults[m].own, peers |-> removePeer(vaults[m].peers, edit[m].id)]
Stores(m) ==
  /\ edit[m].at = "save" /\ vaults' = [vaults EXCEPT ![m] = edit[m].base]
  /\ edit'[m] = NoEdit /\ minted' = minted

Edited(m) ==
  /\ cmd' = cmd /\ link' = link /\ events' \in Nat
  /\ edit' \in [Machine -> Edits] /\ \A n \in Machine \ {m} : edit'[n] = edit[n]
  /\ Asks(m) \/ Drops(m) \/ Mints(m) \/ Removes(m) \/ Stores(m)

LEMMA AskDoes ==
  ASSUME PairTypeOK, NEW m \in Machine, WhoAmI(m) \/ \E i \in Id : Unpair(m, i)
  PROVE  Edited(m)
<1>1. edit[m] \in Edits /\ edit[m].at = "idle" /\ UNCHANGED <<vaults, cmd, link, minted>> /\ events' \in Nat
  BY PairTypes DEF WhoAmI, Unpair, PairTypeOK
<1>2. PICK c \in Edits : edit' = [edit EXCEPT ![m] = c] /\ c.at = "ask" /\ c.base = edit[m].base
  <2>1. CASE WhoAmI(m)
    <3> DEFINE c == [edit[m] EXCEPT !.at = "ask", !.kind = "whoami"]
    <3>1. edit' = [edit EXCEPT ![m] = c]
      BY <2>1 DEF WhoAmI, PairTypeOK
    <3>2. c \in Edits /\ c.at = "ask" /\ c.base = edit[m].base
      BY <1>1 DEF Edits
    <3> QED
      BY <3>1, <3>2
  <2>2. CASE \E i \in Id : Unpair(m, i)
    <3>1. PICK i \in Id : Unpair(m, i)
      BY <2>2
    <3> DEFINE c == [edit[m] EXCEPT !.at = "ask", !.kind = "unpair", !.id = i]
    <3>2. edit' = [edit EXCEPT ![m] = c]
      BY <3>1 DEF Unpair, PairTypeOK
    <3>3. c \in Edits /\ c.at = "ask" /\ c.base = edit[m].base
      BY <1>1 DEF Edits
    <3> QED
      BY <3>2, <3>3
  <2> QED
    BY <2>1, <2>2
<1>3. edit' \in [Machine -> Edits] /\ edit'[m] = c /\ \A n \in Machine \ {m} : edit'[n] = edit[n]
  BY <1>2 DEF PairTypeOK
<1> QED
  BY <1>1, <1>2, <1>3 DEF Edited, Asks

LEMMA DropDoes ==
  ASSUME PairTypeOK, NEW m \in Machine, edit' = [edit EXCEPT ![m] = NoEdit],
         UNCHANGED <<vaults, cmd, link, minted, events>>
  PROVE  Edited(m)
<1>1. /\ edit' \in [Machine -> Edits] /\ edit'[m] = NoEdit /\ events' \in Nat
      /\ \A n \in Machine \ {m} : edit'[n] = edit[n]
  BY NoThingTypes DEF PairTypeOK
<1> QED
  <2>1. Drops(m) /\ cmd' = cmd /\ link' = link
    BY <1>1 DEF Drops
  <2> QED
    BY <1>1, <2>1 DEF Edited

LEMMA SavingIs ==
  ASSUME PairTypeOK, NEW m \in Machine, NEW b \in Saved,
         edit' = [edit EXCEPT ![m].at = "save", ![m].base = b]
  PROVE  /\ edit' \in [Machine -> Edits] /\ \A n \in Machine \ {m} : edit'[n] = edit[n]
         /\ edit'[m].at = "save" /\ edit'[m].base = b /\ edit'[m].kind = edit[m].kind /\ edit'[m].id = edit[m].id
<1> DEFINE c == [edit[m] EXCEPT !.at = "save", !.base = b]
<1>1. edit' = [edit EXCEPT ![m] = c]
  BY DEF PairTypeOK
<1>2. c \in Edits /\ c.at = "save" /\ c.base = b /\ c.kind = edit[m].kind /\ c.id = edit[m].id
  BY ZenonT(30), PairTypes DEF Edits
<1> HIDE DEF c
<1> QED
  BY ZenonT(30), <1>1, <1>2 DEF PairTypeOK

LEMMA RemoveType ==
  ASSUME NEW peers \in Tables, NEW i \in Id
  PROVE  removePeer(peers, i) \in Tables /\ Paired(removePeer(peers, i)) \subseteq Paired(peers)
         /\ \A j \in Paired(removePeer(peers, i)) : removePeer(peers, i)[j] = peers[j]
BY DEF removePeer, Tables, Paired

LEMMA ApprovedDoes ==
  ASSUME PairTypeOK, NEW m \in Machine, WhoAmIApproved(m) \/ UnpairApproved(m)
  PROVE  Edited(m)
<1>1. edit[m] \in Edits /\ edit[m].at = "ask" /\ MayWrite(m) /\ UNCHANGED <<vaults, cmd, link, events>>
      /\ events' \in Nat /\ vaults[m] \in Saved
  BY PairTypes DEF WhoAmIApproved, UnpairApproved, PairTypeOK
<1>2. CASE WhoAmIApproved(m)
  <2>1. CASE vaults[m].own # NoId
    BY <1>2, <2>1, DropDoes DEF WhoAmIApproved
  <2>2. CASE vaults[m].own = NoId
    <3> DEFINE b == [own |-> minted + 1, peers |-> vaults[m].peers]
    <3>1. /\ minted + 1 \in Id \ Stranger /\ minted' = minted + 1 /\ edit[m].kind = "whoami"
          /\ edit' = [edit EXCEPT ![m].at = "save", ![m].base = b]
      BY <1>2, <2>2 DEF WhoAmIApproved
    <3>2. b \in Saved
      BY <3>1, PairTypes DEF Saved
    <3> HIDE DEF b
    <3>3. /\ edit' \in [Machine -> Edits] /\ \A n \in Machine \ {m} : edit'[n] = edit[n]
          /\ edit'[m].at = "save" /\ edit'[m].base = b /\ edit'[m].kind = edit[m].kind /\ edit'[m].id = edit[m].id
      BY <3>1, <3>2, SavingIs
    <3> QED
      BY <1>1, <2>2, <3>1, <3>3 DEF Edited, Mints, b
  <2> QED
    BY <2>1, <2>2
<1>3. CASE UnpairApproved(m)
  <2>1. CASE edit[m].id \notin Paired(vaults[m].peers)
    BY <1>1, <1>3, <2>1, DropDoes DEF UnpairApproved
  <2>2. CASE edit[m].id \in Paired(vaults[m].peers)
    <3> DEFINE b == [own |-> vaults[m].own, peers |-> removePeer(vaults[m].peers, edit[m].id)]
    <3>1. edit[m].id \in Id /\ minted' = minted /\ edit[m].kind = "unpair"
      BY <1>3, <2>2 DEF Paired, UnpairApproved
    <3>2. [vaults[m] EXCEPT !.peers = removePeer(@, edit[m].id)] = b
      BY <1>1 DEF Saved
    <3>3. edit' = [edit EXCEPT ![m].at = "save", ![m].base = b]
      BY <1>3, <2>2, <3>2 DEF UnpairApproved
    <3>4. b \in Saved
      BY <3>1, PairTypes, RemoveType DEF Saved
    <3> HIDE DEF b
    <3>5. /\ edit' \in [Machine -> Edits] /\ \A n \in Machine \ {m} : edit'[n] = edit[n]
          /\ edit'[m].at = "save" /\ edit'[m].base = b /\ edit'[m].kind = edit[m].kind /\ edit'[m].id = edit[m].id
      BY <3>3, <3>4, SavingIs
    <3> QED
      BY <1>1, <2>2, <3>1, <3>5 DEF Edited, Removes, b
  <2> QED
    BY <2>1, <2>2
<1> QED
  BY <1>2, <1>3

LEMMA SaveEditDoes ==
  ASSUME PairTypeOK, NEW m \in Machine, SaveEdit(m)
  PROVE  Edited(m)
<1>1. /\ edit' \in [Machine -> Edits] /\ edit'[m] = NoEdit /\ events' \in Nat
      /\ \A n \in Machine \ {m} : edit'[n] = edit[n]
  BY NoThingTypes DEF PairTypeOK, SaveEdit
<1> QED
  <2>1. Stores(m) /\ cmd' = cmd /\ link' = link
    BY <1>1 DEF Stores, SaveEdit
  <2> QED
    BY <1>1, <2>1 DEF Edited

(***************************************************************************)
(* Every step, and the two invariants.                                      *)
(***************************************************************************)
Effect ==
  \/ Quiet /\ (Untold \/ \E m \in Machine : Told(m))
  \/ \E m \in Machine : \E c : Enters(m, c)
  \/ \E m, l \in Machine : \E s \in Connection, f \in Frame : Dialled(m, l, s, f)
  \/ \E l \in Machine : \E s \in Connection, f, g \in Frame : LetIn(l, s, f, g)
  \/ \E m \in Machine : \E f, g \in Frame : Replied(m, f, g)
  \/ \E m \in Machine : Signed(m)
  \/ \E m \in Machine : \E g \in Frame : Agrees(m, g)
  \/ \E m \in Machine : Heard(m)
  \/ \E m \in Machine : Decides(m)
  \/ \E m \in Machine : \E g \in Frame : Saves(m, g)
  \/ \E m \in Machine : Edited(m)

LEMMA StutterIsQuiet ==
  ASSUME PairTypeOK, UNCHANGED pairVars
  PROVE  Quiet /\ Untold
BY LessSame DEF Quiet, Untold, pairVars, PairTypeOK, SameCmd

LEMMA NextDoes ==
  ASSUME PairTypeOK, Structure, [PairNext]_pairVars
  PROVE  Effect
<1>1. CASE \E m \in Listener, o \in Listens : Listen(m, o)
  <2>1. PICK m \in Machine, o \in Listens : Listen(m, o)
    BY <1>1, PairingAssumption DEF PairingAssumption
  <2>2. Enter(m, "listener", "listening", o) /\ o \in Opts /\ o.role \in Role
    BY <2>1, IdsAre DEF Listen
  <2>3. \E c : Enters(m, c)
    BY <2>2, EnterDoes, Sides
  <2> QED
    BY <2>3 DEF Effect
<1>2. CASE \E m \in Machine, o \in Connects : Ready(m, o)
  <2>1. PICK m \in Machine, o \in Connects : Ready(m, o)
    BY <1>2
  <2>2. Enter(m, "connector", "ready", o) /\ o \in Opts
    BY <2>1, IdsAre DEF Ready
  <2>3. \E c : Enters(m, c)
    BY <2>2, EnterDoes, Sides
  <2> QED
    BY <2>3 DEF Effect
<1>3. CASE \E m, l \in Machine, pin \in BOOLEAN : Dial(m, l, pin)
  BY <1>3, DialDoes DEF Effect
<1>4. CASE \E l \in Machine, s \in Connection : TakeHello(l, s)
  BY <1>4, TakeHelloDoes DEF Effect
<1>5. CASE \E m \in Machine : TakeReply(m)
  BY <1>5, TakeReplyDoes DEF Effect
<1>6. CASE \E m \in Machine : TakeSig(m)
  BY <1>6, TakeSigDoes DEF Effect
<1>7. CASE \E m \in Machine, ok \in BOOLEAN : Compare(m, ok)
  BY <1>7, CompareDoes DEF Effect
<1>8. CASE \E m \in Machine : TakeConfirm(m)
  BY <1>8, TakeConfirmDoes DEF Effect
<1>9. CASE \E m \in Machine : Reread(m)
  BY <1>9, RereadDoes DEF Effect
<1>10. CASE \E m \in Machine : SavePeer(m)
  BY <1>10, SavePeerDoes DEF Effect
<1>11. CASE \E m \in Machine : SaveFails(m)
  BY <1>11, SaveFailsDoes DEF Effect
<1>12. CASE \E m \in Machine : TakeAck(m)
  BY <1>12, TakeAckDoes DEF Effect
<1>13. CASE \E m \in Machine : GiveUp(m)
  BY <1>13, GiveUpDoes DEF Effect
<1>14. CASE \E s \in Connection : HelloTimeout(s)
  BY <1>14, HelloTimeoutDoes DEF Effect
<1>15. CASE \E s \in Connection : Lose(s)
  BY <1>15, LoseDoes DEF Effect
<1>16. CASE \E m \in Machine : WhoAmI(m)
  BY <1>16, AskDoes DEF Effect
<1>17. CASE \E m \in Machine, i \in Id : Unpair(m, i)
  BY <1>17, AskDoes DEF Effect
<1>18. CASE \E m \in Machine : WhoAmIApproved(m)
  BY <1>18, ApprovedDoes DEF Effect
<1>19. CASE \E m \in Machine : UnpairApproved(m)
  BY <1>19, ApprovedDoes DEF Effect
<1>20. CASE \E m \in Machine : SaveEdit(m)
  BY <1>20, SaveEditDoes DEF Effect
<1>21. CASE \E m \in Machine : DropEdit(m)
  BY <1>21, DropDoes DEF DropEdit, Effect
<1>22. CASE UNCHANGED pairVars
  BY <1>22, StutterIsQuiet DEF Effect
<1> QED
  BY <1>1, <1>2, <1>3, <1>4, <1>5, <1>6, <1>7, <1>8, <1>9, <1>10, <1>11, <1>12, <1>13, <1>14, <1>15,
     <1>16, <1>17, <1>18, <1>19, <1>20, <1>21, <1>22 DEF PairNext

LEMMA EntersKeeps ==
  ASSUME PairTypeOK, Structure, NEW m \in Machine, NEW c, Enters(m, c)
  PROVE  PairTypeOK' /\ Structure'
<1>1. /\ vaults' = vaults /\ edit' = edit /\ link' = link /\ events' \in Nat
      /\ cmd' \in [Machine -> Commands] /\ cmd'[m] = c /\ \A n \in Machine \ {m} : cmd'[n] = cmd[n]
      /\ minted' \in MaxOwned..MaxIdentity
  BY IdsAre DEF Enters, PairTypeOK
<1>2. PairTypeOK'
  BY <1>1 DEF PairTypeOK
<1>3. cmd[m].at = "idle" /\ c.s = 0 /\ c.at \in {"listening", "ready"}
      /\ c.side = (IF c.at = "listening" THEN "listener" ELSE "connector")
  BY DEF Enters
<1>4. c.id \in Id /\ (c.side = "listener" => c.opts.role \in Role)
  BY IdsAre, PairTypes DEF Enters
<1>5. \A n \in Machine : PlaceOK(cmd'[n]) /\ (cmd'[n].s # 0 => Attached(n, cmd'[n], link'[cmd'[n].s]))
  BY <1>1, <1>3, <1>4, IdsAre DEF Structure, PlaceOK, Connected, Partnered
<1>6. cmd[m].s = 0
  BY <1>3 DEF Structure, PlaceOK, Connected, Partnered
<1>7. ASSUME NEW s \in Connection PROVE LinkOK(s, link[s])'
  <2>1. LinkOK(s, link[s]) /\ link[s].l \in Machine /\ link[s].c \in Machine /\ s # 0
    BY PairTypes, IdsAre DEF Structure
  <2>2. Truthful(link[s])' = Truthful(link[s]) /\ Frames(link[s], "connector")' = Frames(link[s], "connector")
    BY <1>1 DEF Truthful, Frames, Confirms, PeerSaved
  <2>3. link[s].h \in {"in", "hello"} => link[s].l # m
    BY <1>3, <1>6, <2>1 DEF LinkOK
  <2>4. cmd'[link[s].c].s = s => cmd'[link[s].c] = cmd[link[s].c]
    BY <1>1, <1>3, <2>1
  <2> QED
    BY <1>1, <2>1, <2>2, <2>3, <2>4 DEF LinkOK
<1> QED
  BY <1>2, <1>5, <1>7 DEF Structure

LEMMA EditedKeeps ==
  ASSUME PairTypeOK, Structure, NEW m \in Machine, Edited(m)
  PROVE  PairTypeOK' /\ Structure'
<1>1. vaults' \in [Machine -> Saved] /\ minted' \in MaxOwned..MaxIdentity
  <2>1. edit[m].base \in Saved
    BY PairTypes
  <2> QED
    BY <2>1, IdsAre DEF Edited, Asks, Drops, Mints, Removes, Stores, PairTypeOK
<1>2. PairTypeOK'
  BY <1>1 DEF Edited, PairTypeOK
<1>3. cmd' = cmd /\ link' = link
  BY DEF Edited
<1>4. Structure'
  BY <1>3 DEF Structure, LinkOK, PlaceOK, Attached, Truthful, Frames, Confirms, PeerSaved, End
<1> QED
  BY <1>2, <1>4

LEMMA EffectKeeps ==
  ASSUME PairTypeOK, Structure, Effect
  PROVE  PairTypeOK' /\ Structure'
BY QuietTypes, QuietStructure, EntersKeeps, DialledKeeps, LetInKeeps, RepliedKeeps, SignedKeeps, AgreesKeeps,
   HeardKeeps, DecidesKeeps, SavesKeeps, EditedKeeps DEF Effect

LEMMA InitTypes ==
  ASSUME PairInit
  PROVE  PairTypeOK /\ Structure
<1>1. vaults \in [Machine -> Saved]
  <2>1. vaults \in [Machine -> Vaults0 \cup {NewVault}]
    BY DEF PairInit
  <2>2. Vaults0 \subseteq Saved /\ NewVault \in Saved
    BY PairingAssumption, IdsAre, NoThingTypes DEF PairingAssumption, Saved
  <2> QED
    BY <2>1, <2>2
<1>2. /\ cmd = [m \in Machine |-> NoCmd] /\ edit = [m \in Machine |-> NoEdit]
      /\ link = [s \in Connection |-> NoLink] /\ minted = MaxOwned /\ events = 0
  BY DEF PairInit
<1>3. PairTypeOK
  BY <1>1, <1>2, NoThingTypes, IdsAre DEF PairTypeOK
<1>4. \A m \in Machine : PlaceOK(cmd[m]) /\ cmd[m].s = 0
  BY <1>2, NoThingTypes DEF PlaceOK, Connected, Partnered
<1>5. Truthful(NoLink)
  BY NoThingTypes, EmptyElements DEF Truthful, Frames
<1>6. \A s \in Connection : LinkOK(s, link[s])
  BY <1>2, <1>5, NoThingTypes DEF LinkOK
<1> QED
  BY <1>3, <1>4, <1>6 DEF Structure

\* Commands are where their connections say they are, throughout.
THEOREM PairStructure == PairSpec => [](PairTypeOK /\ Structure)
<1>1. PairInit => PairTypeOK /\ Structure
  BY InitTypes
<1>2. PairTypeOK /\ Structure /\ [PairNext]_pairVars => PairTypeOK' /\ Structure'
  BY NextDoes, EffectKeeps
<1> QED
  BY <1>1, <1>2, PTL DEF PairSpec

\* A listener is in one session at most, however many connect.
THEOREM OneSession == PairSpec => []OnePartner
<1>1. ASSUME PairTypeOK, Structure PROVE OnePartner
  <2> SUFFICES ASSUME NEW l \in Machine
               PROVE  Cardinality({s \in Connection : link[s].l = l /\ link[s].h = "in"}) <= 1
    BY DEF OnePartner
  <2> DEFINE S == {s \in Connection : link[s].l = l /\ link[s].h = "in"}
  <2>1. \A s \in S : s = cmd[l].s
    BY <1>1 DEF Structure, LinkOK
  <2>2. S = {} \/ S = {cmd[l].s}
    BY <2>1
  <2>3. Cardinality({}) = 0 /\ Cardinality({cmd[l].s}) = 1
    BY FS_EmptySet, FS_Singleton
  <2> QED
    BY <2>2, <2>3
<1> QED
  BY <1>1, PairStructure, PTL

(***************************************************************************)
(* Sessions keep their promise.                                             *)
(***************************************************************************)
yesOf   == [s \in Connection |-> link[s].yes]
wroteOf == [s \in Connection |-> link[s].wrote]
toldOf  == [s \in Connection |-> link[s].told]

\* One connection changes, or none.
LEMMA OfIs ==
  ASSUME NEW s \in Connection, \A r \in Connection \ {s} : link'[r] = link[r]
  PROVE  /\ yesOf' = [yesOf EXCEPT ![s] = link'[s].yes]
         /\ wroteOf' = [wroteOf EXCEPT ![s] = link'[s].wrote]
         /\ toldOf' = [toldOf EXCEPT ![s] = link'[s].told]
         /\ link'[s].yes = link[s].yes => yesOf' = yesOf
         /\ link'[s].wrote = link[s].wrote => wroteOf' = wroteOf
         /\ link'[s].told = link[s].told => toldOf' = toldOf
         /\ yesOf[s] = link[s].yes /\ wroteOf[s] = link[s].wrote /\ toldOf[s] = link[s].told
<1>1. /\ yesOf' = [r \in Connection |-> link'[r].yes] /\ wroteOf' = [r \in Connection |-> link'[r].wrote]
      /\ toldOf' = [r \in Connection |-> link'[r].told]
  BY DEF yesOf, wroteOf, toldOf
<1> QED
  BY <1>1 DEF yesOf, wroteOf, toldOf

LEMMA PromiseStep ==
  ASSUME PairTypeOK, Structure, Effect
  PROVE  [Promise!Next]_<<yesOf, wroteOf, toldOf>>
<1>0. Promise!Side = Side
  BY DEF Promise!Side, Side
<1>1. ASSUME Quiet, Untold \/ \E m \in Machine : Told(m) PROVE [Promise!Next]_<<yesOf, wroteOf, toldOf>>
  <2>1. yesOf' = yesOf /\ wroteOf' = wroteOf
    BY <1>1 DEF Quiet, Less, yesOf, wroteOf
  <2>2. CASE Untold
    BY <2>1, <2>2 DEF Untold, toldOf
  <2>3. ASSUME NEW m \in Machine, Told(m) PROVE [Promise!Next]_<<yesOf, wroteOf, toldOf>>
    <3> DEFINE s == cmd[m].s
    <3>1. CASE link'[s].told = link[s].told
      <4>1. toldOf' = toldOf
        BY <2>3, <3>1 DEF Told, toldOf
      <4> QED
        BY <2>1, <4>1
    <3>2. CASE link'[s].told # link[s].told
      <4>1. /\ s \in Connection /\ cmd[m].at = "ack" /\ link'[s].told = link[s].told \cup {cmd[m].side}
            /\ \E f \in Frames(link[s], cmd[m].side) : PeerSaved(f)
            /\ \A r \in Connection \ {s} : link'[r].told = link[r].told
        BY <2>3, <3>2 DEF Told
      <4>2. Other(cmd[m].side) \in link[s].wrote /\ cmd[m].side \in link[s].wrote /\ cmd[m].side \in Side
        BY Zenon, <4>1, OwnIs DEF Connected, Partnered, Attached, Truthful
      <4>3. link[s].wrote = Side
        BY <4>1, <4>2, PairTypes, LinkFields DEF Side, Other
      <4>4. toldOf' = [toldOf EXCEPT ![s] = @ \cup {cmd[m].side}] /\ wroteOf[s] = Side
        BY <4>1, <4>3 DEF toldOf, wroteOf
      <4>5. Promise!Tell(s, cmd[m].side)
        BY <1>0, <2>1, <4>4 DEF Promise!Tell, yesOf, wroteOf, toldOf
      <4> QED
        BY Zenon, <1>0, <4>1, <4>2, <4>5 DEF Promise!Next, Promise!Confirm, Promise!Write, Promise!Tell
    <3> QED
      BY <3>1, <3>2
  <2> QED
    BY <1>1, <2>2, <2>3
<1>2. ASSUME NEW m \in Machine, NEW s \in Connection, NEW at, GoesOn(m, s, at),
             link'[s].yes = link[s].yes, link'[s].wrote = link[s].wrote, link'[s].told = link[s].told
      PROVE  UNCHANGED <<yesOf, wroteOf, toldOf>>
  BY <1>2, OfIs DEF GoesOn
<1>3. ASSUME NEW m \in Machine, NEW c, Enters(m, c) PROVE UNCHANGED <<yesOf, wroteOf, toldOf>>
  BY <1>3 DEF Enters, yesOf, wroteOf, toldOf
<1>4. ASSUME NEW m \in Machine, NEW l \in Machine, NEW s \in Connection, NEW f \in Frame, Dialled(m, l, s, f)
      PROVE  UNCHANGED <<yesOf, wroteOf, toldOf>>
  <2>1. link[s] = NoLink
    BY <1>4 DEF Dialled, Structure, LinkOK
  <2> QED
    BY ZenonT(30), <1>2, <1>4, <2>1, NoThingTypes DEF Dialled
<1>5. ASSUME NEW l \in Machine, NEW s \in Connection, NEW f \in Frame, NEW g \in Frame, LetIn(l, s, f, g)
      PROVE  UNCHANGED <<yesOf, wroteOf, toldOf>>
  BY <1>2, <1>5 DEF LetIn
<1>6. ASSUME NEW m \in Machine, NEW f \in Frame, NEW g \in Frame, Replied(m, f, g)
      PROVE  UNCHANGED <<yesOf, wroteOf, toldOf>>
  BY <1>2, <1>6 DEF Replied, Stays, GoesOn
<1>7. ASSUME NEW m \in Machine, Signed(m) \/ Heard(m)
      PROVE  UNCHANGED <<yesOf, wroteOf, toldOf>>
  BY <1>2, <1>7 DEF Signed, Heard, Stays, GoesOn
<1>8. ASSUME NEW m \in Machine, NEW g \in Frame, Agrees(m, g) PROVE Promise!Next
  <2> DEFINE s == cmd[m].s
  <2>1. s \in Connection /\ cmd[m].side \in Side
    BY Zenon, <1>8, PairTypes DEF Agrees, GoesOn
  <2>2. /\ yesOf' = [yesOf EXCEPT ![s] = @ \cup {cmd[m].side}] /\ wroteOf' = wroteOf /\ toldOf' = toldOf
    BY Zenon, <1>8, <2>1, OfIs DEF Agrees, GoesOn, Stays
  <2>3. Promise!Confirm(s, cmd[m].side)
    BY <2>2 DEF Promise!Confirm, yesOf, wroteOf, toldOf
  <2> QED
    BY Zenon, <1>0, <2>1, <2>3 DEF Promise!Next, Promise!Confirm, Promise!Write, Promise!Tell
<1>9. ASSUME NEW m \in Machine, Decides(m) PROVE UNCHANGED <<yesOf, wroteOf, toldOf>>
  BY <1>9 DEF Decides, yesOf, wroteOf, toldOf
<1>10. ASSUME NEW m \in Machine, NEW g \in Frame, Saves(m, g) PROVE Promise!Next
  <2> DEFINE s == cmd[m].s
  <2>1. s \in Connection /\ cmd[m].side \in Side /\ cmd[m].at = "save"
    BY Zenon, <1>10, PairTypes DEF Saves, GoesOn
  <2>2. /\ wroteOf' = [wroteOf EXCEPT ![s] = @ \cup {cmd[m].side}] /\ yesOf' = yesOf /\ toldOf' = toldOf
    BY Zenon, <1>10, <2>1, OfIs DEF Saves, GoesOn
  <2>3. cmd[m].side \in link[s].yes /\ Other(cmd[m].side) \in link[s].yes
    BY <2>1, OwnIs DEF Connected, Partnered, Attached
  <2>4. yesOf[s] = Side
    BY <2>1, <2>3, PairTypes, LinkFields DEF Side, Other, yesOf
  <2>5. Promise!Write(s, cmd[m].side)
    BY <1>0, <2>2, <2>4 DEF Promise!Write, yesOf, wroteOf, toldOf
  <2> QED
    BY Zenon, <1>0, <2>1, <2>5 DEF Promise!Next, Promise!Confirm, Promise!Write, Promise!Tell
<1>11. ASSUME NEW m \in Machine, Edited(m) PROVE UNCHANGED <<yesOf, wroteOf, toldOf>>
  BY <1>11 DEF Edited, yesOf, wroteOf, toldOf
<1> QED
  BY <1>1, <1>3, <1>4, <1>5, <1>6, <1>7, <1>8, <1>9, <1>10, <1>11 DEF Effect

\* Nobody writes a peer before both people have confirmed, and whoever is told that
\* the other side has saved is told the truth.
THEOREM PromiseKept == PairSpec => KeepsPromise
<1>1. PairInit => Promise!Init
  BY NoThingTypes DEF PairInit, Promise!Init
<1>2. ASSUME PairTypeOK, Structure, [PairNext]_pairVars
      PROVE  [Promise!Next]_<<[s \in Connection |-> link[s].yes], [s \in Connection |-> link[s].wrote],
                              [s \in Connection |-> link[s].told]>>
  BY <1>2, NextDoes, PromiseStep DEF yesOf, wroteOf, toldOf
<1>3. PairTypeOK /\ Structure /\ [PairNext]_pairVars => [Promise!Next]_(Promise!vars)
  BY <1>2 DEF Promise!vars
<1> QED
  BY <1>1, <1>3, PairStructure, PTL DEF PairSpec, KeepsPromise, Promise!Spec

(***************************************************************************)
(* Identities and tables.                                                   *)
(***************************************************************************)
LEMMA PairedIs == Paired(NewVault.peers) = {} /\ \A own : Proper(own, NewVault.peers)
BY NoThingTypes DEF Proper, Keyed, TableOK

\* A candidate who is let in has its name and key to itself, in a table where the
\* others have.
LEMMA UpsertKeepsTable ==
  ASSUME NEW own \in Id, NEW peers \in Tables, NEW cand \in Peers, NEW replace, NEW explicit \in BOOLEAN,
         NEW own0, Proper(own0, peers), own \notin Paired(peers), cand.ed = cand.id, cand.x = cand.id,
         Accepts(Ident(own), peers, cand, replace, explicit)
  PROVE  /\ Proper(own, Upsert(peers, cand, explicit))
         /\ Paired(Upsert(peers, cand, explicit)) \subseteq Paired(peers) \cup {cand.id}
<1> DEFINE p == Upsert(peers, cand, explicit)
           name == NameFor(peers, cand, explicit)
<1>1. /\ p[cand.id] = IF peers[cand.id] # NoPeer THEN [peers[cand.id] EXCEPT !.name = name]
                        ELSE [name |-> name, ed |-> cand.ed, x |-> cand.x, role |-> cand.role]
      /\ \A i \in Id \ {cand.id} : p[i] = IF i \in Clash(peers, cand, explicit) THEN NoPeer ELSE peers[i]
  BY UpsertIs
<1>2. cand.id \in Id /\ \A i \in Paired(peers) : peers[i] \in Entry
  BY DEF Peers, Paired, Tables
<1>3. p[cand.id].name = name /\ p[cand.id].ed = cand.id /\ p[cand.id].x = cand.id
  <2>1. CASE peers[cand.id] = NoPeer
    BY <1>1, <2>1
  <2>2. CASE peers[cand.id] # NoPeer
    <3>1. peers[cand.id] \in Entry /\ peers[cand.id].ed = cand.id /\ peers[cand.id].x = cand.id
      BY <1>2, <2>2 DEF Paired, Proper, Keyed
    <3> QED
      BY <1>1, <2>2, <3>1 DEF Entry
  <2> QED
    BY <2>1, <2>2
<1> HIDE DEF p
<1>4. \A i \in Paired(p) \ {cand.id} : i \in Paired(peers) /\ p[i] = peers[i] /\ p[i].name # name
  BY <1>1 DEF Paired, Clash
<1>5. cand.id # own
  BY IdsAre DEF Accepts, ShowsOwn, Ident
<1>6. Keyed(p)
  BY <1>3, <1>4 DEF Keyed, Proper
<1>7. \A i, j \in Paired(p) : i # j => p[i].name # p[j].name
  BY <1>3, <1>4 DEF Proper, TableOK
<1>8. own \notin Paired(p)
  BY <1>4, <1>5
<1>9. TableOK(Ident(own), p)
  BY <1>6, <1>7, <1>8 DEF TableOK, Keyed, Ident
<1>10. Paired(p) \subseteq Paired(peers) \cup {cand.id}
  BY <1>4
<1> QED
  BY <1>6, <1>9, <1>10 DEF Proper, p

LEMMA RemoveKeepsTable ==
  ASSUME NEW own, NEW peers \in Tables, NEW i \in Id, Proper(own, peers)
  PROVE  Proper(own, removePeer(peers, i))
BY RemoveType DEF Proper, Keyed, TableOK

\* An identity that is not in the table may become the table's.
LEMMA ProperWith ==
  ASSUME NEW own, NEW own2 \in Id, NEW peers \in Tables, Proper(own, peers), own2 \notin Paired(peers)
  PROVE  Proper(own2, peers)
BY DEF Proper, Keyed, TableOK, Ident

(***************************************************************************)
(* A step of machine m: what it may add to what machines have and know.     *)
(***************************************************************************)
Lawful(m) ==
  /\ minted' \in {minted, minted + 1}
  /\ minted' # minted => minted + 1 \in Id \ Stranger
  /\ \A n \in Machine : Owns(n)' \subseteq Owns(n) \cup (IF n = m /\ minted' # minted THEN {minted + 1} ELSE {})
  /\ \A n \in Machine : \A i \in Knows(n)' : i \in Knows(n) \/ (i \in 1..minted /\ i \notin Owns(n))
  /\ \A s \in Connection, d \in Side : \A i \in Hellos(link'[s], d) :
       i \in 1..minted /\ \A n \in Machine : n # End(link'[s], Other(d)) => i \notin Owns(n)
  /\ \A n \in Machine : cmd'[n].at \in Partnered =>
       /\ cmd'[n].peer.id \in 1..minted /\ cmd'[n].peer.ed = cmd'[n].peer.id /\ cmd'[n].peer.x = cmd'[n].peer.id
       /\ \A q \in Machine : q # Partner(n)' => cmd'[n].peer.id \notin Owns(q)
  /\ ProperOK'

LEMMA LawfulKeeps ==
  ASSUME PairTypeOK, PairTypeOK', Identities, NEW m \in Machine, Lawful(m)
  PROVE  Identities'
<1>1. minted \in Nat /\ minted' \in Nat /\ minted + 1 \notin 1..minted /\ 1..minted \subseteq 1..minted'
  BY IdsAre DEF PairTypeOK, Lawful
<1>2. OwnsOK'
  <2>1. \A n \in Machine : \A i \in Owns(n)' : i \in Owns(n) \/ (n = m /\ i = minted + 1 /\ minted' = minted + 1)
    BY DEF Lawful
  <2>2. \A n \in Machine : \A i \in Owns(n)' : i \in (1..minted') \ Stranger
    BY <1>1, <2>1 DEF Lawful, Identities, OwnsOK
  <2>3. \A n, q \in Machine : n # q => Owns(n)' \cap Owns(q)' = {}
    BY <1>1, <2>1 DEF Identities, OwnsOK
  <2> QED
    BY <2>2, <2>3 DEF OwnsOK
<1>3. \A n \in Machine : \A i \in Owns(n)' : i \in Owns(n) \/ (i = minted + 1 /\ i \notin Stranger)
  BY DEF Lawful
<1>4. KnowsOK'
  BY <1>1, <1>3 DEF Lawful, Identities, KnowsOK
<1>5. HellosOK'
  <2>1. \A s \in Connection, d \in Side : Hellos(link[s], d)' = Hellos(link'[s], d) /\ End(link[s], d)' = End(link'[s], d)
    BY DEF Hellos, Frames, End
  <2>2. \A s \in Connection, d \in Side : \A i \in Hellos(link'[s], d) :
          i \in 1..minted /\ i # minted + 1 /\ \A n \in Machine : n # End(link'[s], Other(d)) => i \notin Owns(n)
    BY <1>1 DEF Lawful
  <2>3. \A d \in Side : Other(d) \in Side
    BY Sides
  <2> QED
    BY <1>1, <1>3, <2>1, <2>2, <2>3 DEF HellosOK
<1>6. PeersOK'
  <2>1. \A n \in Machine : cmd'[n].at \in Partnered =>
       /\ cmd'[n].peer.id \in 1..minted /\ cmd'[n].peer.id # minted + 1
       /\ cmd'[n].peer.ed = cmd'[n].peer.id /\ cmd'[n].peer.x = cmd'[n].peer.id
       /\ \A q \in Machine : q # Partner(n)' => cmd'[n].peer.id \notin Owns(q)
    BY <1>1 DEF Lawful
  <2> QED
    BY <1>1, <1>3, <2>1 DEF PeersOK
<1> QED
  BY <1>2, <1>4, <1>5, <1>6 DEF Identities, Lawful

SameEnds == \A s \in Connection : link[s].h # "none" => link'[s].l = link[s].l /\ link'[s].c = link[s].c

LEMMA PartnerIs ==
  ASSUME PairTypeOK, Structure, Identities, NEW m \in Machine, cmd[m].at \in Partnered
  PROVE  /\ Partner(m) \in Machine /\ Partner(m) # m
         /\ cmd[m].peer.id \in 1..minted /\ cmd[m].peer.ed = cmd[m].peer.id /\ cmd[m].peer.x = cmd[m].peer.id
         /\ \A n \in Machine : n # Partner(m) => cmd[m].peer.id \notin Owns(n)
         /\ cmd[m].peer.id \notin Owns(m) /\ cmd[m].peer \in Peers
<1>1. /\ cmd[m].side \in Side /\ Attached(m, cmd[m], link[cmd[m].s]) /\ LinkOK(cmd[m].s, link[cmd[m].s])
      /\ link[cmd[m].s].h # "none" /\ cmd[m].peer \in Peers
      /\ link[cmd[m].s].l \in Machine /\ link[cmd[m].s].c \in Machine
  BY OwnIs DEF Connected, PlaceOK
<1>2. Partner(m) \in Machine /\ Partner(m) # m
  BY Zenon, <1>1 DEF Partner, Attached, End, LinkOK, Side, Other
<1>3. /\ cmd[m].peer.id \in 1..minted /\ cmd[m].peer.ed = cmd[m].peer.id /\ cmd[m].peer.x = cmd[m].peer.id
      /\ \A n \in Machine : n # Partner(m) => cmd[m].peer.id \notin Owns(n)
  BY DEF Identities, PeersOK
<1> QED
  BY <1>1, <1>2, <1>3

LEMMA PartnerStays ==
  ASSUME PairTypeOK, Structure, SameEnds, NEW m \in Machine, cmd[m].at \in Partnered,
         cmd'[m].s = cmd[m].s, cmd'[m].side = cmd[m].side
  PROVE  Partner(m)' = Partner(m)
<1>1. cmd[m].s \in Connection /\ link[cmd[m].s].h # "none"
  BY OwnIs DEF Connected
<1>2. Partner(m)' = End(link'[cmd'[m].s], Other(cmd'[m].side))
  BY DEF Partner, End
<1> QED
  BY <1>1, <1>2 DEF Partner, End, SameEnds

\* A peer a command keeps.
PeerKept(m) ==
  cmd'[m].at \in Partnered =>
       /\ cmd[m].at \in Partnered /\ cmd'[m].peer = cmd[m].peer
       /\ cmd'[m].s = cmd[m].s /\ cmd'[m].side = cmd[m].side

LEMMA PeerKeptLawful ==
  ASSUME PairTypeOK, Structure, Identities, SameEnds, NEW m \in Machine, PeerKept(m), cmd'[m].at \in Partnered
  PROVE  /\ cmd'[m].peer.id \in 1..minted /\ cmd'[m].peer.ed = cmd'[m].peer.id /\ cmd'[m].peer.x = cmd'[m].peer.id
         /\ \A q \in Machine : q # Partner(m)' => cmd'[m].peer.id \notin Owns(q)
<1>1. Partner(m)' = Partner(m)
  BY PartnerStays DEF PeerKept
<1> QED
  BY <1>1, PartnerIs DEF PeerKept

HellosKept ==
  \A s \in Connection, d \in Side : \A i \in Hellos(link'[s], d) :
    i \in Hellos(link[s], d) /\ End(link'[s], Other(d)) = End(link[s], Other(d))

LEMMA HellosKeptLawful ==
  ASSUME PairTypeOK, Identities, HellosKept, NEW s \in Connection, NEW d \in Side, NEW i \in Hellos(link'[s], d)
  PROVE  i \in 1..minted /\ \A n \in Machine : n # End(link'[s], Other(d)) => i \notin Owns(n)
BY DEF HellosKept, Identities, HellosOK

LEMMA CarriesHellos ==
  ASSUME NEW s \in Connection, NEW new, \A r \in Connection \ {s} : link'[r] = link[r], Carries(s, new),
         \A d \in Side : \A f \in new[d] : f.t # "hello"
  PROVE  HellosKept
<1>1. \A d \in Side : Hellos(link'[s], d) \subseteq Hellos(link[s], d)
  BY DEF Carries, Hellos
<1>2. \A d \in Side : End(link'[s], d) = End(link[s], d)
  BY DEF Carries, End
<1> QED
  BY <1>1, <1>2, Sides DEF HellosKept

\* What machines have after a step that makes no identity.
LEMMA QuietLawful ==
  ASSUME PairTypeOK, Structure, Identities, Quiet, NEW m \in Machine
  PROVE  Lawful(m)
<1>1. vaults' = vaults /\ edit' = edit /\ minted' = minted
  BY DEF Quiet
<1>2. \A n \in Machine : cmd'[n] = NoCmd \/ SameCmd(cmd[n], cmd'[n])
  BY DEF Quiet
<1>3. NoCmd.id = NoId /\ NoCmd.base = NewVault /\ NoCmd.seen = NewVault.peers /\ NewVault.own = NoId
      /\ Paired(NewVault.peers) = {} /\ NoCmd.at \notin Partnered
  BY NoThingTypes DEF Partnered
<1>4. ASSUME NEW n \in Machine PROVE Owns(n)' \subseteq Owns(n) /\ Knows(n)' \subseteq Knows(n)
  <2>1. CASE cmd'[n] = NoCmd
    BY <1>1, <1>3, <2>1 DEF Owns, Knows, Paired
  <2>2. CASE SameCmd(cmd[n], cmd'[n])
    BY <1>1, <2>2 DEF Owns, Knows, Paired, SameCmd
  <2> QED
    BY <1>2, <2>1, <2>2
<1>5. SameEnds
  BY DEF Quiet, Less, SameEnds
<1>6. \A n \in Machine : PeerKept(n)
  BY <1>2, <1>3 DEF PeerKept, SameCmd
<1>7. HellosKept
  <2>1. \A s \in Connection, d \in Side : Hellos(link'[s], d) \subseteq Hellos(link[s], d)
    BY DEF Quiet, Less, Hellos, Harmless
  <2> QED
    BY <2>1, Sides DEF HellosKept, Quiet, Less, End
<1>8. ProperOK'
  <2> SUFFICES ASSUME NEW n \in Machine
               PROVE  /\ Proper(vaults[n].own, vaults[n].peers) /\ Proper(edit[n].base.own, edit[n].base.peers)
                      /\ Keyed(cmd'[n].seen) /\ Proper(cmd'[n].base.own, cmd'[n].base.peers)
    BY <1>1 DEF ProperOK, Proper, Keyed, TableOK, Paired
  <2>1. /\ Proper(vaults[n].own, vaults[n].peers) /\ Proper(edit[n].base.own, edit[n].base.peers)
        /\ Keyed(cmd[n].seen) /\ Proper(cmd[n].base.own, cmd[n].base.peers)
    BY DEF Identities, ProperOK
  <2>2. Keyed(NewVault.peers) /\ Proper(NewVault.own, NewVault.peers)
    BY PairedIs DEF Proper
  <2> QED
    BY <1>2, <1>3, <2>1, <2>2 DEF SameCmd
<1> QED
  BY <1>1, <1>4, <1>5, <1>6, <1>7, <1>8, PeerKeptLawful, HellosKeptLawful DEF Lawful

PeerLawful(m) ==
  /\ cmd'[m].peer.id \in 1..minted /\ cmd'[m].peer.ed = cmd'[m].peer.id /\ cmd'[m].peer.x = cmd'[m].peer.id
  /\ \A q \in Machine : q # Partner(m)' => cmd'[m].peer.id \notin Owns(q)
HellosLawful ==
  \A s \in Connection, d \in Side : \A i \in Hellos(link'[s], d) :
    i \in 1..minted /\ \A n \in Machine : n # End(link'[s], Other(d)) => i \notin Owns(n)

\* A command goes on; what it decides to save is what it was.
LEMMA GoesLawful ==
  ASSUME PairTypeOK, Structure, Identities, NEW m \in Machine, NEW s, NEW at, GoesOn(m, s, at),
         vaults' = vaults, cmd'[m].base = cmd[m].base, SameEnds, HellosLawful,
         cmd'[m].at \in Partnered => PeerLawful(m)
  PROVE  Lawful(m)
<1>1. /\ edit' = edit /\ minted' = minted /\ \A n \in Machine \ {m} : cmd'[n] = cmd[n]
      /\ cmd'[m].id = cmd[m].id /\ cmd'[m].seen = cmd[m].seen
  BY DEF GoesOn
<1>2. \A n \in Machine : Owns(n)' = Owns(n) /\ Knows(n)' = Knows(n)
  BY <1>1 DEF Owns, Knows, Paired
<1>3. ASSUME NEW n \in Machine, cmd'[n].at \in Partnered PROVE PeerLawful(n)
  <2>1. CASE n = m
    BY <2>1, <1>3
  <2>2. CASE n # m
    <3>1. PeerKept(n)
      BY <1>1, <2>2, <1>3 DEF PeerKept
    <3> QED
      BY <3>1, <1>3, PeerKeptLawful DEF PeerLawful
  <2> QED
    BY <2>1, <2>2
<1>4. ProperOK'
  <2>1. \A n \in Machine :
          /\ Proper(vaults[n].own, vaults[n].peers) /\ Proper(edit[n].base.own, edit[n].base.peers)
          /\ Keyed(cmd[n].seen) /\ Proper(cmd[n].base.own, cmd[n].base.peers)
    BY DEF Identities, ProperOK
  <2>2. \A n \in Machine : cmd'[n].seen = cmd[n].seen /\ cmd'[n].base = cmd[n].base
    BY <1>1
  <2>3. \A n \in Machine :
          /\ Proper(vaults[n].own, vaults[n].peers) /\ Proper(edit[n].base.own, edit[n].base.peers)
          /\ Keyed(cmd'[n].seen) /\ Proper(cmd'[n].base.own, cmd'[n].base.peers)
    BY <2>1, <2>2
  <2> QED
    BY <1>1, <2>3 DEF ProperOK, Proper, Keyed, TableOK, Paired
<1> QED
  BY <1>1, <1>2, <1>3, <1>4 DEF Lawful, PeerLawful, HellosLawful

LEMMA SessionLawful ==
  ASSUME PairTypeOK, Structure, Identities, NEW m \in Machine, NEW at, GoesOn(m, cmd[m].s, at), NEW new,
         cmd[m].at \in Partnered, vaults' = vaults, cmd'[m].base = cmd[m].base, cmd'[m].peer = cmd[m].peer,
         Carries(cmd[m].s, new), \A d \in Side : \A f \in new[d] : f.t # "hello"
  PROVE  Lawful(m)
<1>1. /\ cmd[m].s \in Connection /\ cmd'[m].s = cmd[m].s /\ cmd'[m].side = cmd[m].side
      /\ \A r \in Connection \ {cmd[m].s} : link'[r] = link[r]
  BY DEF GoesOn
<1>2. SameEnds
  BY <1>1 DEF Carries, SameEnds
<1>3. PeerKept(m)
  BY <1>1 DEF PeerKept
<1>4. HellosLawful
  <2>1. HellosKept
    BY <1>1, CarriesHellos
  <2> QED
    BY <2>1, HellosKeptLawful DEF HellosLawful
<1>5. cmd'[m].at \in Partnered => PeerLawful(m)
  BY <1>2, <1>3, PeerKeptLawful DEF PeerLawful
<1> QED
  BY <1>2, <1>4, <1>5, GoesLawful

LEMMA SignedLawful ==
  ASSUME PairTypeOK, Structure, Identities, NEW m \in Machine, Signed(m) \/ Heard(m) \/ \E g \in Frame : Agrees(m, g)
  PROVE  Lawful(m)
<1>1. CASE Signed(m) \/ Heard(m)
  <2>1. PICK at : GoesOn(m, cmd[m].s, at)
    BY <1>1 DEF Signed, Heard
  <2>2. \A d \in Side : Nothing[d] = {}
    BY DEF Nothing
  <2>3. cmd[m].at \in Partnered /\ vaults' = vaults /\ cmd'[m].base = cmd[m].base /\ cmd'[m].peer = cmd[m].peer
        /\ Carries(cmd[m].s, Nothing)
    BY <1>1 DEF Signed, Heard, Partnered
  <2> QED
    BY <2>1, <2>2, <2>3, SessionLawful
<1>2. ASSUME NEW g \in Frame, Agrees(m, g) PROVE Lawful(m)
  <2> DEFINE new == Only(Other(cmd[m].side), g)
  <2>1. \A d \in Side : \A f \in new[d] : f.t # "hello"
    BY <1>2 DEF Only, Agrees
  <2> HIDE DEF new
  <2>2. cmd[m].at \in Partnered /\ vaults' = vaults /\ cmd'[m].base = cmd[m].base /\ cmd'[m].peer = cmd[m].peer
        /\ Carries(cmd[m].s, new) /\ GoesOn(m, cmd[m].s, "confirm")
    BY <1>2 DEF Agrees, Partnered, new
  <2> QED
    BY <2>1, <2>2, SessionLawful
<1> QED
  BY <1>1, <1>2

LEMMA DialledLawful ==
  ASSUME PairTypeOK, Structure, Identities, NEW m \in Machine, NEW l \in Machine, NEW s \in Connection, NEW f \in Frame,
         Dialled(m, l, s, f)
  PROVE  Lawful(m)
<1>1. /\ GoesOn(m, s, "hello") /\ vaults' = vaults /\ cmd'[m].base = cmd[m].base /\ "hello" \notin Partnered
      /\ cmd'[m].at = "hello" /\ \A r \in Connection \ {s} : link'[r] = link[r]
  BY DEF Dialled, GoesOn, Partnered
<1>2. SameEnds
  BY <1>1 DEF Dialled, SameEnds
<1>3. cmd[m].id \in Owns(m)
  BY IdsAre DEF Structure, PlaceOK, Dialled, Owns
<1>4. Hellos(link'[s], "listener") = {cmd[m].id} /\ Hellos(link'[s], "connector") = {}
  BY DEF Dialled, Hellos
<1>5. ASSUME NEW r \in Connection, NEW d \in Side, NEW i \in Hellos(link'[r], d)
      PROVE  i \in 1..minted /\ \A n \in Machine : n # End(link'[r], Other(d)) => i \notin Owns(n)
  <2>1. CASE r = s
    <3>1. d = "listener" /\ i = cmd[m].id /\ End(link'[s], Other(d)) = m
      BY <2>1, <1>4, <1>5, Sides DEF Dialled, End, Other
    <3> QED
      BY <2>1, <3>1, <1>3 DEF Identities, OwnsOK
  <2>2. CASE r # s
    BY <2>2, <1>1 DEF Identities, HellosOK
  <2> QED
    BY <2>1, <2>2
<1>6. HellosLawful
  BY <1>5 DEF HellosLawful
<1> QED
  BY <1>1, <1>2, <1>6, GoesLawful

\* The id in a hello is its sender's.
LEMMA HelloOwner ==
  ASSUME Identities, NEW s \in Connection, NEW d \in Side, NEW f \in Frames(link[s], d), f.t = "hello"
  PROVE  f.id \in 1..minted /\ \A n \in Machine : n # End(link[s], Other(d)) => f.id \notin Owns(n)
BY DEF Identities, HellosOK, Hellos

LEMMA NewHello ==
  ASSUME PairTypeOK, Structure, Identities, NEW m \in Machine, NEW s \in Connection, NEW d \in Side, NEW g,
         \A r \in Connection \ {s} : link'[r] = link[r], Carries(s, Only(d, g)),
         g.t = "hello" => g.id = cmd[m].id /\ cmd[m].id \in Id /\ End(link[s], Other(d)) = m
  PROVE  HellosLawful
<1>1. \A e \in Side : End(link'[s], e) = End(link[s], e)
  BY DEF Carries, End
<1>2. \A e \in Side : \A i \in Hellos(link'[s], e) : i \in Hellos(link[s], e) \/ (e = d /\ g.t = "hello" /\ i = g.id)
  BY DEF Carries, Only, Hellos
<1>3. g.t = "hello" => g.id \in Owns(m)
  BY IdsAre DEF Owns
<1>4. ASSUME NEW r \in Connection, NEW e \in Side, NEW i \in Hellos(link'[r], e)
      PROVE  i \in 1..minted /\ \A n \in Machine : n # End(link'[r], Other(e)) => i \notin Owns(n)
  <2>1. CASE r = s /\ i \in Hellos(link[s], e)
    BY <2>1, <1>1, Sides DEF Identities, HellosOK
  <2>2. CASE r = s /\ e = d /\ g.t = "hello" /\ i = g.id
    BY <2>2, <1>1, <1>3, Sides DEF Identities, OwnsOK
  <2>3. CASE r # s
    BY <2>3 DEF Identities, HellosOK
  <2> QED
    BY <2>1, <2>2, <2>3, <1>2
<1> QED
  BY <1>4 DEF HellosLawful

LEMMA LetInLawful ==
  ASSUME PairTypeOK, Structure, Identities, NEW l \in Machine, NEW s \in Connection, NEW f \in Frame, NEW g \in Frame,
         LetIn(l, s, f, g)
  PROVE  Lawful(l)
<1>1. /\ GoesOn(l, s, "sig") /\ vaults' = vaults /\ cmd'[l].base = cmd[l].base /\ cmd'[l].at = "sig" /\ cmd'[l].s = s
      /\ cmd'[l].side = cmd[l].side
      /\ \A r \in Connection \ {s} : link'[r] = link[r]
      /\ link'[s].l = link[s].l /\ link'[s].c = link[s].c /\ link[s].l = l
      /\ Carries(s, Only("connector", g)) /\ g.t = "hello" /\ g.id = cmd[l].id
  BY DEF LetIn, GoesOn, Carries
<1>2. SameEnds
  BY <1>1 DEF SameEnds
<1>3. cmd[l].side = "listener" /\ cmd[l].id \in Id /\ cmd[l].opts.role \in Role
  BY DEF Structure, PlaceOK, LetIn
<1>4. HellosLawful
  <2>1. End(link[s], Other("connector")) = l
    BY <1>1 DEF End, Other
  <2> QED
    BY <1>1, <1>3, <2>1, NewHello, Sides
<1>5. f \in Frames(link[s], "listener") /\ f.t = "hello"
  BY DEF LetIn, RightPin, parseHello
<1>6. cmd'[l].peer.id = f.id /\ cmd'[l].peer.ed = f.id /\ cmd'[l].peer.x = f.id
  BY <1>3, <1>5, PeerIs, RolesAre DEF LetIn
<1>7. Partner(l)' = End(link[s], Other("listener"))
  BY <1>1, <1>3 DEF Partner, End
<1>8. PeerLawful(l)
  BY <1>5, <1>6, <1>7, HelloOwner, Sides DEF PeerLawful
<1> QED
  BY <1>1, <1>2, <1>4, <1>8, GoesLawful

LEMMA RepliedLawful ==
  ASSUME PairTypeOK, Structure, Identities, NEW m \in Machine, NEW f \in Frame, NEW g \in Frame, Replied(m, f, g)
  PROVE  Lawful(m)
<1> DEFINE s == cmd[m].s
<1>1. /\ GoesOn(m, s, "code") /\ vaults' = vaults /\ cmd'[m].base = cmd[m].base /\ cmd'[m].at = "code" /\ cmd'[m].s = s
      /\ cmd'[m].side = cmd[m].side /\ s \in Connection
      /\ \A r \in Connection \ {s} : link'[r] = link[r]
      /\ link'[s].l = link[s].l /\ link'[s].c = link[s].c
      /\ Carries(s, Only("listener", g)) /\ g.t = "sig" /\ cmd'[m].peer = PeerFrom(m, f, f.role)
  BY DEF Replied, GoesOn, Carries
<1>2. SameEnds
  BY <1>1 DEF SameEnds
<1>3. cmd[m].side = "connector" /\ cmd[m].at \in Connected
  BY DEF Structure, PlaceOK, Replied, Connected
<1>4. HellosLawful
  BY <1>1, NewHello, Sides
<1>5. f \in Frames(link[s], "connector") /\ f.t = "hello"
  BY DEF Replied
<1>6. f.role \in Role
  BY <1>3, <1>5, OwnIs, Sides DEF Truthful
<1>7. cmd'[m].peer.id = f.id /\ cmd'[m].peer.ed = f.id /\ cmd'[m].peer.x = f.id
  BY <1>1, <1>5, <1>6, PeerIs
<1>8. Partner(m)' = End(link[s], Other("connector"))
  BY <1>1, <1>3 DEF Partner, End
<1>9. PeerLawful(m)
  BY <1>1, <1>5, <1>7, <1>8, HelloOwner, Sides DEF PeerLawful
<1> QED
  BY <1>1, <1>2, <1>4, <1>9, GoesLawful

LEMMA EntersLawful ==
  ASSUME PairTypeOK, Structure, Identities, NEW m \in Machine, NEW c, Enters(m, c)
  PROVE  Lawful(m)
<1>1. /\ vaults' = vaults /\ edit' = edit /\ link' = link
      /\ cmd' \in [Machine -> Commands] /\ cmd'[m] = c /\ \A n \in Machine \ {m} : cmd'[n] = cmd[n]
      /\ c.at \notin Partnered /\ c.base = NewVault /\ c.seen = vaults[m].peers
  BY DEF Enters, PairTypeOK, Partnered
<1>2. /\ minted' \in {minted, minted + 1} /\ (minted' # minted => minted + 1 \in Id \ Stranger)
      /\ (c.id = vaults[m].own \/ (minted' # minted /\ c.id = minted + 1))
  BY IdsAre DEF Enters, PairTypeOK
<1>3. NewVault.own = NoId /\ Paired(NewVault.peers) = {} /\ Keyed(NewVault.peers) /\ Proper(NewVault.own, NewVault.peers)
  BY NoThingTypes, PairedIs DEF Proper
<1>4. ASSUME NEW n \in Machine
      PROVE  Knows(n)' \subseteq Knows(n)
             /\ Owns(n)' \subseteq Owns(n) \cup (IF n = m /\ minted' # minted THEN {minted + 1} ELSE {})
  <2>1. CASE n = m
    BY <1>1, <1>2, <1>3, <2>1 DEF Owns, Knows, Paired
  <2>2. CASE n # m
    BY <1>1, <2>2 DEF Owns, Knows, Paired
  <2> QED
    BY <2>1, <2>2
<1>5. SameEnds /\ \A n \in Machine : PeerKept(n)
  BY <1>1 DEF SameEnds, PeerKept
<1>6. HellosKept
  BY <1>1 DEF HellosKept
<1>7. ProperOK'
  <2>1. \A n \in Machine :
          /\ Proper(vaults[n].own, vaults[n].peers) /\ Proper(edit[n].base.own, edit[n].base.peers)
          /\ Keyed(cmd[n].seen) /\ Proper(cmd[n].base.own, cmd[n].base.peers) /\ Keyed(vaults[n].peers)
    BY DEF Identities, ProperOK, Proper
  <2>2. \A n \in Machine :
          /\ Proper(vaults[n].own, vaults[n].peers) /\ Proper(edit[n].base.own, edit[n].base.peers)
          /\ Keyed(cmd'[n].seen) /\ Proper(cmd'[n].base.own, cmd'[n].base.peers)
    BY <1>1, <1>3, <2>1
  <2> QED
    BY <1>1, <2>2 DEF ProperOK
<1> QED
  BY <1>2, <1>4, <1>5, <1>6, <1>7, PeerKeptLawful, HellosKeptLawful DEF Lawful

LEMMA DecidesLawful ==
  ASSUME PairTypeOK, Structure, Identities, NEW m \in Machine, Decides(m)
  PROVE  Lawful(m)
<1> DEFINE p == Upsert(vaults[m].peers, cmd[m].peer, Explicit(m))
<1>1. /\ vaults' = vaults /\ edit' = edit /\ link' = link /\ minted' = minted
      /\ \A n \in Machine \ {m} : cmd'[n] = cmd[n]
      /\ cmd'[m].id = cmd[m].id /\ cmd'[m].seen = cmd[m].seen /\ cmd'[m].s = cmd[m].s /\ cmd'[m].side = cmd[m].side
      /\ cmd'[m].peer = cmd[m].peer /\ cmd'[m].base.own = cmd[m].id /\ cmd'[m].base.peers = p
      /\ Accepts(Ident(cmd[m].id), vaults[m].peers, cmd[m].peer, cmd[m].opts.replace, Explicit(m))
      /\ cmd[m].at \in Partnered
  BY DEF Decides, GoesOn, Partnered
<1>2. /\ cmd[m].peer \in Peers /\ cmd[m].peer.id \in 1..minted /\ cmd[m].peer.id \notin Owns(m)
      /\ cmd[m].peer.ed = cmd[m].peer.id /\ cmd[m].peer.x = cmd[m].peer.id
  BY <1>1, PartnerIs
<1>3. cmd[m].id \in Id /\ cmd[m].id \in Owns(m)
  BY <1>1, IdsAre DEF Structure, PlaceOK, Owns, Partnered
<1>4. vaults[m].peers \in Tables /\ Proper(vaults[m].own, vaults[m].peers) /\ cmd[m].id \notin Paired(vaults[m].peers)
  BY <1>3, PairTypes DEF Identities, ProperOK, KnowsOK, Knows
<1>5. Proper(cmd[m].id, p) /\ Paired(p) \subseteq Paired(vaults[m].peers) \cup {cmd[m].peer.id}
  BY <1>1, <1>2, <1>3, <1>4, ExplicitIs, UpsertKeepsTable
<1> HIDE DEF p
<1>6. \A n \in Machine : Owns(n)' \subseteq Owns(n)
  BY <1>1 DEF Owns
<1>7. ASSUME NEW n \in Machine, NEW i \in Knows(n)' PROVE i \in Knows(n) \/ (i \in 1..minted /\ i \notin Owns(n))
  <2>1. CASE n = m
    <3>1. Knows(m)' = Paired(vaults[m].peers) \cup Paired(cmd[m].seen) \cup Paired(p) \cup Paired(edit[m].base.peers)
      BY <1>1 DEF Knows, Paired
    <3> QED
      BY <2>1, <3>1, <1>2, <1>5, <1>7 DEF Knows
  <2>2. CASE n # m
    BY <1>1, <1>7, <2>2 DEF Knows, Paired
  <2> QED
    BY <2>1, <2>2
<1>8. SameEnds /\ \A n \in Machine : PeerKept(n)
  BY <1>1 DEF SameEnds, PeerKept
<1>9. HellosKept
  BY <1>1 DEF HellosKept
<1>10. ProperOK'
  <2>1. \A n \in Machine :
          /\ Proper(vaults[n].own, vaults[n].peers) /\ Proper(edit[n].base.own, edit[n].base.peers)
          /\ Keyed(cmd[n].seen) /\ Proper(cmd[n].base.own, cmd[n].base.peers)
    BY DEF Identities, ProperOK
  <2>2. \A n \in Machine :
          /\ Proper(vaults[n].own, vaults[n].peers) /\ Proper(edit[n].base.own, edit[n].base.peers)
          /\ Keyed(cmd'[n].seen) /\ Proper(cmd'[n].base.own, cmd'[n].base.peers)
    BY <1>1, <1>5, <2>1
  <2> QED
    BY <1>1, <2>2 DEF ProperOK
<1> QED
  BY <1>1, <1>6, <1>7, <1>8, <1>9, <1>10, PeerKeptLawful, HellosKeptLawful DEF Lawful

LEMMA SavesLawful ==
  ASSUME PairTypeOK, Structure, Identities, NEW m \in Machine, NEW g \in Frame, Saves(m, g)
  PROVE  Lawful(m)
<1> DEFINE s == cmd[m].s
           new == Only(Other(cmd[m].side), g)
<1>1. /\ edit' = edit /\ minted' = minted /\ \A n \in Machine \ {m} : cmd'[n] = cmd[n]
      /\ cmd'[m].id = cmd[m].id /\ cmd'[m].seen = cmd[m].seen /\ cmd'[m].s = cmd[m].s /\ cmd'[m].side = cmd[m].side
      /\ cmd'[m].peer = cmd[m].peer /\ cmd'[m].base = NewVault /\ cmd[m].at \in Partnered
      /\ s \in Connection /\ \A r \in Connection \ {s} : link'[r] = link[r]
  BY DEF Saves, GoesOn, Partnered
<1>2. vaults'[m] = cmd[m].base /\ \A n \in Machine \ {m} : vaults'[n] = vaults[n]
  BY DEF Saves, PairTypeOK
<1>3. Carries(s, new) /\ \A d \in Side : \A f \in new[d] : f.t # "hello"
  BY DEF Saves, Only
<1> HIDE DEF new
<1>4. NewVault.own = NoId /\ Paired(NewVault.peers) = {} /\ Proper(NewVault.own, NewVault.peers)
  BY NoThingTypes, PairedIs
<1>5. ASSUME NEW n \in Machine PROVE Owns(n)' \subseteq Owns(n) /\ Knows(n)' \subseteq Knows(n)
  <2>1. CASE n = m
    BY <1>1, <1>2, <1>4, <2>1 DEF Owns, Knows, Paired
  <2>2. CASE n # m
    BY <1>1, <1>2, <2>2 DEF Owns, Knows, Paired
  <2> QED
    BY <2>1, <2>2
<1>6. SameEnds /\ \A n \in Machine : PeerKept(n)
  BY <1>1, <1>3 DEF SameEnds, PeerKept, Carries
<1>7. HellosKept
  BY <1>1, <1>3, CarriesHellos
<1>8. ProperOK'
  <2>1. \A n \in Machine :
          /\ Proper(vaults[n].own, vaults[n].peers) /\ Proper(edit[n].base.own, edit[n].base.peers)
          /\ Keyed(cmd[n].seen) /\ Proper(cmd[n].base.own, cmd[n].base.peers)
    BY DEF Identities, ProperOK
  <2>2. \A n \in Machine :
          /\ Proper(vaults'[n].own, vaults'[n].peers) /\ Proper(edit[n].base.own, edit[n].base.peers)
          /\ Keyed(cmd'[n].seen) /\ Proper(cmd'[n].base.own, cmd'[n].base.peers)
    BY <1>1, <1>2, <1>4, <2>1
  <2> QED
    BY <1>1, <2>2 DEF ProperOK
<1> QED
  BY <1>1, <1>5, <1>6, <1>7, <1>8, PeerKeptLawful, HellosKeptLawful DEF Lawful

LEMMA EditedLawful ==
  ASSUME PairTypeOK, Structure, Identities, NEW m \in Machine, Edited(m)
  PROVE  Lawful(m)
<1>1. /\ cmd' = cmd /\ link' = link /\ \A n \in Machine \ {m} : edit'[n] = edit[n] /\ vaults'[n] = vaults[n]
      /\ (Stores(m) => vaults'[m] = edit[m].base) /\ (~Stores(m) => vaults' = vaults)
  BY DEF Edited, Asks, Drops, Mints, Removes, Stores, PairTypeOK
<1>2. NewVault.own = NoId /\ Paired(NewVault.peers) = {} /\ Proper(NewVault.own, NewVault.peers)
  BY NoThingTypes, PairedIs
<1>3. /\ vaults[m].peers \in Tables /\ edit[m].base.peers \in Tables
      /\ Proper(vaults[m].own, vaults[m].peers) /\ Proper(edit[m].base.own, edit[m].base.peers)
      /\ minted \in Nat
  BY PairTypes, IdsAre DEF Identities, ProperOK, PairTypeOK
<1> DEFINE b == edit'[m].base
           v == vaults'[m]
<1>4. /\ minted' \in {minted, minted + 1} /\ (minted' # minted => minted + 1 \in Id \ Stranger)
      /\ {b.own, v.own} \subseteq {vaults[m].own, edit[m].base.own, NoId} \cup (IF minted' # minted THEN {minted + 1} ELSE {})
      /\ Paired(b.peers) \cup Paired(v.peers) \subseteq Paired(vaults[m].peers) \cup Paired(edit[m].base.peers)
      /\ Proper(b.own, b.peers) /\ Proper(v.own, v.peers)
  <2>1. CASE Asks(m)
    BY <1>3, <2>1 DEF Asks
  <2>2. CASE Drops(m)
    BY <1>2, <1>3, <2>2, NoThingTypes DEF Drops
  <2>3. CASE Mints(m)
    <3>1. /\ b.own = minted + 1 /\ b.peers = vaults[m].peers /\ v = vaults[m] /\ minted' = minted + 1
          /\ minted + 1 \in Id \ Stranger
      BY <2>3 DEF Mints
    <3>2. minted + 1 \notin Paired(vaults[m].peers)
      BY <1>3, <3>1 DEF Identities, KnowsOK, Knows
    <3> QED
      BY <1>3, <3>1, <3>2, ProperWith
  <2>4. CASE Removes(m)
    <3>1. /\ b.own = vaults[m].own /\ b.peers = removePeer(vaults[m].peers, edit[m].id) /\ v = vaults[m]
          /\ minted' = minted /\ edit[m].id \in Id
      BY <2>4 DEF Removes
    <3> QED
      BY <1>3, <3>1, RemoveType, RemoveKeepsTable
  <2>5. CASE Stores(m)
    BY <1>1, <1>2, <1>3, <2>5, NoThingTypes DEF Stores
  <2> QED
    BY <2>1, <2>2, <2>3, <2>4, <2>5 DEF Edited
<1> HIDE DEF b, v
<1>5. ASSUME NEW n \in Machine
      PROVE  Knows(n)' \subseteq Knows(n)
             /\ Owns(n)' \subseteq Owns(n) \cup (IF n = m /\ minted' # minted THEN {minted + 1} ELSE {})
  <2>1. CASE n = m
    <3>1. /\ Owns(m)' = {v.own, cmd[m].id, cmd[m].base.own, b.own} \ {NoId}
          /\ Knows(m)' = Paired(v.peers) \cup Paired(cmd[m].seen) \cup Paired(cmd[m].base.peers) \cup Paired(b.peers)
      BY <1>1 DEF Owns, Knows, Paired, b, v
    <3> QED
      BY <2>1, <3>1, <1>4 DEF Owns, Knows
  <2>2. CASE n # m
    BY <1>1, <2>2 DEF Owns, Knows, Paired
  <2> QED
    BY <2>1, <2>2
<1>6. SameEnds /\ (\A n \in Machine : PeerKept(n)) /\ HellosKept
  BY <1>1 DEF SameEnds, PeerKept, HellosKept
<1>7. ProperOK'
  <2>1. \A n \in Machine :
          /\ Proper(vaults[n].own, vaults[n].peers) /\ Proper(edit[n].base.own, edit[n].base.peers)
          /\ Keyed(cmd[n].seen) /\ Proper(cmd[n].base.own, cmd[n].base.peers)
    BY DEF Identities, ProperOK
  <2>2. \A n \in Machine :
          /\ Proper(vaults'[n].own, vaults'[n].peers) /\ Proper(edit'[n].base.own, edit'[n].base.peers)
          /\ Keyed(cmd[n].seen) /\ Proper(cmd[n].base.own, cmd[n].base.peers)
    BY <1>1, <1>4, <2>1 DEF b, v
  <2> QED
    BY <1>1, <2>2 DEF ProperOK
<1> QED
  BY <1>4, <1>5, <1>6, <1>7, PeerKeptLawful, HellosKeptLawful DEF Lawful

LEMMA EffectLawful ==
  ASSUME PairTypeOK, Structure, Identities, Effect
  PROVE  Identities'
<1>1. \E m \in Machine : Lawful(m)
  <2>1. Machine # {}
    BY PairingAssumption DEF PairingAssumption
  <2> QED
    BY <2>1, QuietLawful, EntersLawful, DialledLawful, LetInLawful, RepliedLawful, SignedLawful, DecidesLawful,
       SavesLawful, EditedLawful DEF Effect
<1> QED
  BY <1>1, EffectKeeps, LawfulKeeps

LEMMA InitIdentities ==
  ASSUME PairInit, PairTypeOK
  PROVE  Identities
<1>1. /\ cmd = [m \in Machine |-> NoCmd] /\ edit = [m \in Machine |-> NoEdit]
      /\ link = [s \in Connection |-> NoLink] /\ minted = MaxOwned
      /\ \A m, n \in Machine : m # n /\ vaults[m].own # NoId => vaults[m].own # vaults[n].own
      /\ vaults \in [Machine -> Vaults0 \cup {NewVault}]
  BY DEF PairInit
<1>2. /\ NoCmd.at \notin Partnered /\ NoCmd.id = NoId /\ NoCmd.base = NewVault /\ NoCmd.seen = NewVault.peers
      /\ NoEdit.base = NewVault
      /\ NewVault.own = NoId /\ Paired(NewVault.peers) = {} /\ Proper(NewVault.own, NewVault.peers)
      /\ Keyed(NewVault.peers)
  BY NoThingTypes, PairedIs DEF Partnered, Proper
<1>3. ASSUME NEW m \in Machine
      PROVE  /\ vaults[m].own \in 0..MaxOwned /\ Paired(vaults[m].peers) \subseteq Stranger
             /\ Keyed(vaults[m].peers) /\ Proper(vaults[m].own, vaults[m].peers)
  <2>1. CASE vaults[m] = NewVault
    BY <1>2, <2>1, IdsAre
  <2>2. CASE vaults[m] \in Vaults0
    <3>1. /\ vaults[m].own \in 0..MaxOwned /\ Paired(vaults[m].peers) \subseteq Stranger
          /\ Keyed(vaults[m].peers)
          /\ \A i, j \in Paired(vaults[m].peers) : i # j => vaults[m].peers[i].name # vaults[m].peers[j].name
      BY <2>2, PairingAssumption DEF PairingAssumption, Keyed
    <3>2. vaults[m].own \notin Paired(vaults[m].peers)
      BY <3>1, IdsAre
    <3> QED
      BY <3>1, <3>2 DEF Proper, TableOK, Keyed, Ident
  <2> QED
    BY <1>1, <2>1, <2>2
<1>4. \A m \in Machine : Owns(m) = {vaults[m].own} \ {NoId} /\ Knows(m) = Paired(vaults[m].peers)
  BY <1>1, <1>2 DEF Owns, Knows
<1>5. OwnsOK /\ KnowsOK
  BY <1>1, <1>3, <1>4, IdsAre DEF OwnsOK, KnowsOK
<1>6. HellosOK
  <2>1. \A s \in Connection, d \in Side : Hellos(link[s], d) = {}
    BY <1>1, NoThingTypes, EmptyElements DEF Hellos, Frames
  <2> QED
    BY <2>1 DEF HellosOK
<1>7. PeersOK /\ ProperOK
  BY <1>1, <1>2, <1>3 DEF PeersOK, ProperOK
<1> QED
  BY <1>5, <1>6, <1>7 DEF Identities

LEMMA PairIdentities == PairSpec => [](PairTypeOK /\ Structure /\ Identities)
<1>1. PairInit => PairTypeOK /\ Structure /\ Identities
  BY InitTypes, InitIdentities
<1>2. PairTypeOK /\ Structure /\ Identities /\ [PairNext]_pairVars => PairTypeOK' /\ Structure' /\ Identities'
  BY NextDoes, EffectKeeps, EffectLawful
<1> QED
  BY <1>1, <1>2, PTL DEF PairSpec

\* Whatever pairings, whoami and unpair do to a vault, beside each other or not: a
\* name and a key belong to one of its peers, and none of them is the vault itself.
THEOREM TablesKept == PairSpec => []TablesOK
<1>1. ASSUME Identities PROVE TablesOK
  BY <1>1 DEF Identities, ProperOK, Proper, TablesOK
<1> QED
  BY <1>1, PairIdentities, PTL

(***************************************************************************)
(* Nobody saves between another's last look and its save.                   *)
(***************************************************************************)
AloneAt(m) ==
  /\ ~(cmd[m].at = "save" /\ edit[m].at = "save")
  /\ cmd[m].at = "save" => /\ SameIdentity(m)
       /\ cmd[m].base = [own |-> cmd[m].id, peers |-> Upsert(vaults[m].peers, cmd[m].peer, Explicit(m))]
  /\ edit[m].at = "save" =>
       IF edit[m].kind = "whoami" THEN vaults[m].own = NoId /\ edit[m].base.peers = vaults[m].peers
       ELSE edit[m].base = [own |-> vaults[m].own, peers |-> removePeer(vaults[m].peers, edit[m].id)]

LEMMA AloneAtSame ==
  ASSUME NEW m \in Machine, AloneAt(m), vaults'[m] = vaults[m], edit'[m] = edit[m],
         cmd'[m].at # "save" \/ SameCmd(cmd[m], cmd'[m])
  PROVE  AloneAt(m)'
BY DEF AloneAt, SameCmd, SameIdentity, Explicit

LEMMA AloneKeeps ==
  ASSUME Alone, PairTypeOK, Effect, \A m \in Machine : AloneAt(m)
  PROVE  \A m \in Machine : AloneAt(m)'
<1>0. \A n \in Machine : SameCmd(cmd[n], cmd[n])
  BY DEF SameCmd
<1>1. CASE Quiet
  <2>1. NoCmd.at # "save"
    BY NoThingTypes
  <2> QED
    BY <1>1, <2>1, AloneAtSame DEF Quiet
<1>2. ASSUME NEW m \in Machine, NEW s, NEW at, at # "save", GoesOn(m, s, at), vaults' = vaults
      PROVE  \A n \in Machine : AloneAt(n)'
  BY <1>2, <1>0, AloneAtSame DEF GoesOn
<1>3. ASSUME NEW m \in Machine, NEW c, Enters(m, c) PROVE \A n \in Machine : AloneAt(n)'
  <2>1. cmd'[m] = c /\ c.at # "save" /\ vaults' = vaults /\ edit' = edit /\ \A n \in Machine \ {m} : cmd'[n] = cmd[n]
    BY <1>3 DEF Enters, PairTypeOK
  <2> QED
    BY <2>1, <1>0, AloneAtSame
<1>4. ASSUME NEW m \in Machine, Decides(m) PROVE \A n \in Machine : AloneAt(n)'
  <2>1. /\ vaults' = vaults /\ edit' = edit /\ \A n \in Machine \ {m} : cmd'[n] = cmd[n]
        /\ cmd'[m].at = "save" /\ cmd'[m].opts = cmd[m].opts /\ cmd'[m].id = cmd[m].id
        /\ cmd'[m].created = cmd[m].created /\ cmd'[m].peer = cmd[m].peer /\ SameIdentity(m)
        /\ edit[m].at # "save"
        /\ cmd'[m].base = [own |-> cmd[m].id, peers |-> Upsert(vaults[m].peers, cmd[m].peer, Explicit(m))]
    BY <1>4 DEF Decides, GoesOn, MayWrite, Writing
  <2>2. AloneAt(m)'
    BY <2>1 DEF AloneAt, SameIdentity, Explicit
  <2> QED
    BY <2>1, <2>2, <1>0, AloneAtSame
<1>5. ASSUME NEW m \in Machine, NEW g \in Frame, Saves(m, g) PROVE \A n \in Machine : AloneAt(n)'
  <2>1. /\ edit' = edit /\ cmd'[m].at = "ack" /\ edit[m].at # "save"
        /\ \A n \in Machine \ {m} : cmd'[n] = cmd[n] /\ vaults'[n] = vaults[n]
    BY <1>5 DEF Saves, GoesOn, PairTypeOK, AloneAt
  <2>2. AloneAt(m)'
    BY <2>1 DEF AloneAt
  <2> QED
    BY <2>1, <2>2, <1>0, AloneAtSame
<1>6. ASSUME NEW m \in Machine, Edited(m) PROVE \A n \in Machine : AloneAt(n)'
  <2>1. /\ cmd' = cmd /\ \A n \in Machine \ {m} : edit'[n] = edit[n] /\ vaults'[n] = vaults[n]
    BY <1>6 DEF Edited, Asks, Drops, Mints, Removes, Stores, PairTypeOK
  <2>2. AloneAt(m)'
    <3>1. CASE Asks(m) \/ Drops(m)
      <4>1. vaults' = vaults /\ edit'[m].at # "save"
        BY <3>1, NoThingTypes DEF Asks, Drops
      <4> QED
        BY <2>1, <4>1 DEF AloneAt, SameIdentity, Explicit
    <3>2. CASE Mints(m)
      BY <2>1, <3>2 DEF Mints, AloneAt, MayWrite, Writing
    <3>3. CASE Removes(m)
      BY <2>1, <3>3 DEF Removes, AloneAt, MayWrite, Writing
    <3>4. CASE Stores(m)
      BY <2>1, <3>4, NoThingTypes DEF Stores, AloneAt
    <3> QED
      BY <1>6, <3>1, <3>2, <3>3, <3>4 DEF Edited
  <2> QED
    BY <2>1, <2>2, <1>0, AloneAtSame
<1>7. /\ \A m, l \in Machine : \A s \in Connection, f \in Frame : Dialled(m, l, s, f) => GoesOn(m, s, "hello") /\ vaults' = vaults
      /\ \A l \in Machine : \A s \in Connection, f, g \in Frame : LetIn(l, s, f, g) => GoesOn(l, s, "sig") /\ vaults' = vaults
      /\ \A m \in Machine : \A f, g \in Frame : Replied(m, f, g) => GoesOn(m, cmd[m].s, "code") /\ vaults' = vaults
      /\ \A m \in Machine : Signed(m) => GoesOn(m, cmd[m].s, "code") /\ vaults' = vaults
      /\ \A m \in Machine : \A g \in Frame : Agrees(m, g) => GoesOn(m, cmd[m].s, "confirm") /\ vaults' = vaults
      /\ \A m \in Machine : Heard(m) => GoesOn(m, cmd[m].s, "reread") /\ vaults' = vaults
  BY DEF Dialled, LetIn, Replied, Signed, Agrees, Heard
<1> QED
  BY <1>1, <1>2, <1>3, <1>4, <1>5, <1>6, <1>7 DEF Effect

LEMMA InitAlone ==
  ASSUME PairInit
  PROVE  \A m \in Machine : AloneAt(m)
BY NoThingTypes DEF PairInit, AloneAt

LEMMA WhoSaves ==
  ASSUME Effect
  PROVE  \/ vaults' = vaults
         \/ \E q \in Machine : \E g \in Frame : Saves(q, g)
         \/ \E q \in Machine : Edited(q)
<1>1. Quiet => vaults' = vaults
  BY DEF Quiet
<1>2. \A m \in Machine : \A c : Enters(m, c) => vaults' = vaults
  BY DEF Enters
<1>3. \A m \in Machine : \A l \in Machine, s \in Connection, f \in Frame : Dialled(m, l, s, f) => vaults' = vaults
  BY DEF Dialled
<1>4. \A m \in Machine : \A s \in Connection, f, g \in Frame : LetIn(m, s, f, g) => vaults' = vaults
  BY DEF LetIn
<1>5. \A m \in Machine : \A f, g \in Frame : Replied(m, f, g) => vaults' = vaults
  BY DEF Replied
<1>6. \A m \in Machine : \A g \in Frame : Signed(m) \/ Agrees(m, g) \/ Heard(m) \/ Decides(m) => vaults' = vaults
  BY DEF Signed, Agrees, Heard, Decides
<1>7. (\E m \in Machine : Signed(m) \/ Heard(m) \/ Decides(m)) => vaults' = vaults
  BY DEF Signed, Heard, Decides
<1> QED
  BY <1>1, <1>2, <1>3, <1>4, <1>5, <1>6, <1>7 DEF Effect

\* An identity that is saved stays, if nobody saves in between.
THEOREM IdentityStays == Alone => (PairSpec => IdentityKept)
<1> SUFFICES ASSUME Alone PROVE PairSpec => IdentityKept
  OBVIOUS
<1> DEFINE I == PairTypeOK /\ Structure /\ \A m \in Machine : AloneAt(m)
<1>1. PairInit => I
  BY InitTypes, InitAlone
<1>2. I /\ [PairNext]_pairVars => I'
  BY NextDoes, EffectKeeps, AloneKeeps
<1>3. ASSUME I, [PairNext]_pairVars
      PROVE  \A m \in Machine : vaults[m].own # NoId => vaults'[m].own = vaults[m].own
  <2> SUFFICES ASSUME NEW m \in Machine, vaults[m].own # NoId PROVE vaults'[m].own = vaults[m].own
    OBVIOUS
  <2>0. AloneAt(m) /\ vaults \in [Machine -> Saved] /\ PairTypeOK /\ Structure
    BY <1>3 DEF PairTypeOK
  <2>1. ASSUME NEW q \in Machine, NEW g \in Frame, Saves(q, g) PROVE vaults'[m].own = vaults[m].own
    <3>1. CASE q = m
      <4>1. vaults'[m] = cmd[m].base /\ cmd[m].at = "save"
        BY <2>0, <2>1, <3>1 DEF Saves
      <4>2. cmd[m].base.own = cmd[m].id /\ cmd[m].id = vaults[m].own
        BY <2>0, <4>1 DEF AloneAt, SameIdentity
      <4> QED
        BY <4>1, <4>2
    <3>2. CASE q # m
      BY <2>0, <2>1, <3>2 DEF Saves
    <3> QED
      BY <3>1, <3>2
  <2>2. ASSUME NEW q \in Machine, Edited(q) PROVE vaults'[m].own = vaults[m].own
    <3>1. CASE ~Stores(q)
      BY <2>2, <3>1 DEF Edited, Asks, Drops, Mints, Removes
    <3>2. CASE Stores(q) /\ q = m
      <4>1. vaults'[m] = edit[m].base /\ edit[m].at = "save"
        BY <2>0, <3>2 DEF Stores
      <4> QED
        BY <2>0, <4>1 DEF AloneAt
    <3>3. CASE Stores(q) /\ q # m
      BY <2>0, <3>3 DEF Stores
    <3> QED
      BY <3>1, <3>2, <3>3
  <2>3. \/ vaults' = vaults
        \/ \E q \in Machine : \E g \in Frame : Saves(q, g)
        \/ \E q \in Machine : Edited(q)
    BY <2>0, <1>3, NextDoes, WhoSaves
  <2> QED
    BY <2>1, <2>2, <2>3
<1>4. I /\ [PairNext]_pairVars
        => [\A m \in Machine : vaults[m].own # NoId => vaults'[m].own = vaults[m].own]_pairVars
  BY <1>3
<1> HIDE DEF I
<1> QED
  BY <1>1, <1>2, <1>4, PTL DEF PairSpec, IdentityKept

(***************************************************************************)
(* What the two sides of a session know of each other.                      *)
(***************************************************************************)
LEMMA TalkKept ==
  ASSUME NEW s \in Connection, Talk(s), link'[s].l = link[s].l, link'[s].c = link[s].c,
         \A d \in Side : \A f \in Frames(link'[s], d) : f \in Frames(link[s], d) \/ f.t \notin {"hello", "sig"},
         LET l == link[s].l  c == link[s].c IN
         /\ LIn(s)' => LIn(s) /\ cmd'[l].id = cmd[l].id /\ cmd'[l].opts = cmd[l].opts /\ cmd'[l].peer = cmd[l].peer
         /\ CIn(s)' => /\ CIn(s) /\ cmd'[c].id = cmd[c].id
                       /\ cmd'[c].at \in Partnered => cmd[c].at \in Partnered /\ cmd'[c].peer = cmd[c].peer
         /\ CIn(s)' /\ cmd'[c].at = "hello" =>
              /\ cmd[c].at = "hello" /\ link'[s].yes = link[s].yes /\ (LIn(s)' => cmd'[l].at = cmd[l].at)
  PROVE  Talk(s)'
<1>1. \A d \in Side : Frames(link[s], d)' = Frames(link'[s], d)
  BY DEF Frames
<1>2. Frames(link[s], "listener")' = Frames(link'[s], "listener") /\ Frames(link[s], "connector")' = Frames(link'[s], "connector")
  BY <1>1, Sides
<1>3. /\ \A f \in Frames(link'[s], "listener") : f \in Frames(link[s], "listener") \/ f.t \notin {"hello", "sig"}
      /\ \A f \in Frames(link'[s], "connector") : f \in Frames(link[s], "connector") \/ f.t \notin {"hello", "sig"}
  BY Sides
<1> QED
  BY <1>2, <1>3 DEF Talk

\* A command that is in a session is on one side of it.
LEMMA InIs ==
  ASSUME PairTypeOK, Structure, NEW s \in Connection
  PROVE  /\ LIn(s) => /\ cmd[link[s].l].s = s /\ cmd[link[s].l].side = "listener"
                      /\ cmd[link[s].l].at \in Partnered
         /\ link[s].l \in Machine /\ link[s].c \in Machine /\ s # 0
         /\ CIn(s) => cmd[link[s].c].at \in Connected \ {"sig"} /\ link[s].l # link[s].c
<1>1. link[s].l \in Machine /\ link[s].c \in Machine /\ s # 0 /\ LinkOK(s, link[s])
  BY PairTypes, IdsAre DEF Structure
<1>2. \A m \in Machine : PlaceOK(cmd[m])
  BY DEF Structure
<1>3. LIn(s) => cmd[link[s].l].s = s /\ cmd[link[s].l].side = "listener"
  BY <1>1 DEF LIn, LinkOK
<1>4. LIn(s) => cmd[link[s].l].at \in Partnered
  BY <1>1, <1>2, <1>3 DEF PlaceOK, Connected
<1>5. CIn(s) => cmd[link[s].c].at \in Connected \ {"sig"} /\ link[s].l # link[s].c
  BY <1>1, <1>2 DEF CIn, PlaceOK, LinkOK
<1> QED
  BY <1>1, <1>3, <1>4, <1>5

LEMMA QuietTalks ==
  ASSUME PairTypeOK, Structure, Talks, Quiet
  PROVE  Talks'
<1> SUFFICES ASSUME NEW s \in Connection PROVE Talk(s)'
  BY DEF Talks
<1>1. /\ Less(link[s], link'[s]) /\ link[s].l \in Machine /\ link[s].c \in Machine /\ s # 0
      /\ \A m \in Machine : cmd'[m] = NoCmd \/ SameCmd(cmd[m], cmd'[m])
      /\ (link'[s].h \in {"in", "hello"} => SameCmd(cmd[link[s].l], cmd'[link[s].l]))
  BY InIs DEF Quiet
<1>2. LIn(s)' => LIn(s) /\ SameCmd(cmd[link[s].l], cmd'[link[s].l])
  BY <1>1 DEF LIn, Less
<1>3. CIn(s)' => CIn(s) /\ SameCmd(cmd[link[s].c], cmd'[link[s].c])
  BY <1>1, NoThingTypes DEF CIn, Less, SameCmd
<1>4. \A d \in Side : \A f \in Frames(link'[s], d) : f \in Frames(link[s], d) \/ f.t \notin {"hello", "sig"}
  BY <1>1 DEF Less, Harmless
<1> QED
  BY <1>1, <1>2, <1>3, <1>4, TalkKept DEF Less, SameCmd, Talks

\* Sessions the step's machine is not in.
LEMMA OtherTalk ==
  ASSUME PairTypeOK, Structure, NEW m \in Machine, NEW s \in Connection, Talk(s), link'[s] = link[s],
         \A n \in Machine \ {m} : cmd'[n] = cmd[n], cmd[m].s # s, cmd'[m].s # s
  PROVE  Talk(s)'
<1>1. (LIn(s)' => LIn(s)) /\ (LIn(s) => link[s].l # m) /\ (CIn(s)' => link[s].c # m)
  BY InIs DEF LIn, CIn
<1>2. (LIn(s)' => cmd'[link[s].l] = cmd[link[s].l]) /\ (CIn(s)' => cmd'[link[s].c] = cmd[link[s].c] /\ CIn(s))
  BY <1>1, InIs DEF CIn
<1> QED
  BY <1>1, <1>2, TalkKept

LEMMA EntersTalks ==
  ASSUME PairTypeOK, Structure, Talks, NEW m \in Machine, NEW c, Enters(m, c) \/ Edited(m)
  PROVE  Talks'
<1>1. CASE Enters(m, c)
  <2>1. /\ link' = link /\ cmd'[m].s = 0 /\ \A n \in Machine \ {m} : cmd'[n] = cmd[n]
    BY <1>1 DEF Enters, PairTypeOK
  <2>2. cmd[m].s = 0
    BY <1>1 DEF Enters, Structure, PlaceOK, Connected, Partnered
  <2> QED
    BY <2>1, <2>2, IdsAre, OtherTalk DEF Talks
<1>2. CASE Edited(m)
  <2>1. cmd' = cmd /\ link' = link
    BY <1>2 DEF Edited
  <2>2. ASSUME NEW s \in Connection PROVE Talk(s)'
    <3>1. (LIn(s)' <=> LIn(s)) /\ (CIn(s)' <=> CIn(s)) /\ Talk(s)
      BY <2>1 DEF LIn, CIn, Talks
    <3> QED
      BY <2>1, <3>1, TalkKept
  <2> QED
    BY <2>2 DEF Talks
<1> QED
  BY <1>1, <1>2

LEMMA GoesOnTalks ==
  ASSUME PairTypeOK, Structure, Talks, NEW m \in Machine, NEW s, NEW at, GoesOn(m, s, at), cmd[m].s \in {0, s},
         Talk(s)'
  PROVE  Talks'
<1>1. \A r \in Connection \ {s} : Talk(r)'
  BY IdsAre, OtherTalk DEF GoesOn, Talks
<1> QED
  BY <1>1 DEF Talks, GoesOn

\* A step of a side that has let the other in.
LEMMA SessionTalks ==
  ASSUME PairTypeOK, Structure, Talks, NEW m \in Machine, NEW s \in Connection, s = cmd[m].s, NEW at \in Partnered,
         GoesOn(m, s, at), NEW new,
         cmd[m].at \in Partnered, cmd'[m].peer = cmd[m].peer, Carries(s, new),
         link'[s].h = link[s].h,
         \A d \in Side : \A f \in new[d] : f.t \notin {"hello", "sig"},
         cmd[m].at # "sig" \/ \E f \in Frames(link[s], "listener") : f.t = "sig"
  PROVE  Talks'
<1> DEFINE l == link[s].l
           c == link[s].c
<1>1. /\ s \in Connection /\ cmd'[m].s = s /\ cmd'[m].side = cmd[m].side /\ cmd'[m].id = cmd[m].id
      /\ cmd'[m].opts = cmd[m].opts /\ cmd'[m].at = at /\ at # "hello" /\ cmd[m].at # "hello"
      /\ \A n \in Machine \ {m} : cmd'[n] = cmd[n]
  BY DEF GoesOn, Partnered
<1>2. Talk(s) /\ l \in Machine /\ c \in Machine
  BY <1>1, InIs DEF Talks
<1>3. /\ link'[s].l = l /\ link'[s].c = c
      /\ \A d \in Side : \A f \in Frames(link'[s], d) : f \in Frames(link[s], d) \/ f.t \notin {"hello", "sig"}
  BY DEF Carries
<1>4. (LIn(s)' <=> LIn(s)) /\ (CIn(s)' => CIn(s))
  BY <1>1, <1>2, <1>3 DEF LIn, CIn
<1>5. cmd'[l].id = cmd[l].id /\ cmd'[l].opts = cmd[l].opts /\ cmd'[l].peer = cmd[l].peer
      /\ cmd'[c].id = cmd[c].id /\ cmd'[c].peer = cmd[c].peer /\ (cmd'[c].at \in Partnered => cmd[c].at \in Partnered)
  BY Zenon, <1>1, <1>2
<1>6. ~(CIn(s)' /\ cmd'[c].at = "hello")
  <2> SUFFICES ASSUME CIn(s)', cmd'[c].at = "hello" PROVE FALSE
    OBVIOUS
  <2>1. c # m /\ CIn(s) /\ cmd[c].at = "hello"
    BY <1>1, <1>2, <1>4
  <2>2. Attached(m, cmd[m], link[s]) /\ cmd[m].side \in Side
    BY Zenon, <1>1, PairTypes, IdsAre DEF Structure
  <2>3. l = m /\ LIn(s)
    BY <2>1, <2>2 DEF Attached, End, LIn
  <2>4. cmd[m].at = "sig" /\ \A f \in Frames(link[s], "listener") : f.t # "sig"
    BY Zenon, <1>2, <2>1, <2>3 DEF Talk
  <2> QED
    BY <2>4
<1>7. Talk(s)'
  BY Zenon, <1>1, <1>2, <1>3, <1>4, <1>5, <1>6, TalkKept
<1> QED
  BY <1>7, GoesOnTalks

LEMMA DialledTalks ==
  ASSUME PairTypeOK, Structure, Talks, NEW m \in Machine, NEW l \in Machine, NEW s \in Connection, NEW f \in Frame,
         Dialled(m, l, s, f)
  PROVE  Talks'
<1>1. /\ GoesOn(m, s, "hello") /\ link'[s].l = l /\ link'[s].c = m /\ link'[s].h = "hello" /\ link'[s].yes = {}
      /\ Frames(link'[s], "listener") = {f} /\ Frames(link'[s], "connector") = {}
      /\ f.t = "hello" /\ f.id = cmd[m].id /\ cmd'[m].id = cmd[m].id
  BY DEF Dialled, GoesOn
<1>2. cmd[m].s = 0
  BY DEF Dialled, Structure, PlaceOK, Connected, Partnered
<1>3. ~LIn(s)' /\ Frames(link[s], "listener")' = {f}
  BY <1>1 DEF LIn, Frames
<1>4. Talk(s)'
  BY <1>1, <1>3 DEF Talk
<1> QED
  BY <1>1, <1>2, <1>4, GoesOnTalks

LEMMA LetInTalks ==
  ASSUME PairTypeOK, Structure, Talks, NEW l \in Machine, NEW s \in Connection, NEW f \in Frame, NEW g \in Frame,
         LetIn(l, s, f, g)
  PROVE  Talks'
<1> DEFINE c == link[s].c
<1>1. /\ GoesOn(l, s, "sig") /\ link[s].l = l /\ link'[s].l = l /\ link'[s].c = c /\ link'[s].h = "in"
      /\ link[s].h = "hello" /\ link'[s].yes = link[s].yes
      /\ f \in Frames(link[s], "listener") /\ f.t = "hello" /\ cmd'[l].at = "sig"
      /\ Frames(link'[s], "listener") = {} /\ Frames(link'[s], "connector") \subseteq Frames(link[s], "connector") \cup {g}
      /\ g.id = cmd[l].id /\ g.role = cmd[l].opts.role /\ cmd'[l].id = cmd[l].id /\ cmd'[l].opts = cmd[l].opts
      /\ cmd'[l].peer = PeerFrom(l, f, oppositeRole(cmd[l].opts.role))
      /\ \A n \in Machine \ {l} : cmd'[n] = cmd[n]
  BY Sides DEF LetIn, GoesOn, Carries, Only, RightPin, parseHello
<1>2. cmd[l].s = 0 /\ cmd[l].opts.role \in Role
  BY DEF LetIn, Structure, PlaceOK, Connected, Partnered
<1>3. /\ c \in Machine /\ l # c /\ link[s].yes = {} /\ (cmd[c].s = s => cmd[c].at = "hello")
      /\ \A x \in Frames(link[s], "connector") : x.t # "hello"
  BY <1>1, PairTypes DEF Structure, LinkOK
<1>4. cmd'[l].peer.id = f.id /\ cmd'[l].peer.role = oppositeRole(cmd[l].opts.role)
  BY <1>1, <1>2, PeerIs, RolesAre
<1>5. CIn(s)' => CIn(s) /\ cmd'[c] = cmd[c] /\ cmd[c].at = "hello"
  BY <1>1, <1>3 DEF CIn
<1>6. CIn(s) => f.id = cmd[c].id
  BY <1>1 DEF Talks, Talk
<1>7. "hello" \notin Partnered
  BY DEF Partnered
<1>8. Frames(link[s], "listener")' = Frames(link'[s], "listener") /\ Frames(link[s], "connector")' = Frames(link'[s], "connector")
  BY DEF Frames
<1>9. Talk(s)'
  BY <1>1, <1>3, <1>4, <1>5, <1>6, <1>7, <1>8 DEF Talk
<1> QED
  BY <1>1, <1>2, <1>9, GoesOnTalks

LEMMA RepliedTalks ==
  ASSUME PairTypeOK, Structure, Talks, NEW m \in Machine, NEW s \in Connection, s = cmd[m].s,
         NEW f \in Frame, NEW g \in Frame, Replied(m, f, g)
  PROVE  Talks'
<1> DEFINE l == link[s].l
<1>1. /\ GoesOn(m, s, "code") /\ link'[s].l = l /\ link'[s].c = link[s].c /\ link'[s].h = link[s].h
      /\ f \in Frames(link[s], "connector") /\ f.t = "hello" /\ cmd'[m].at = "code"
      /\ Frames(link'[s], "listener") \subseteq Frames(link[s], "listener") \cup {g} /\ g.t = "sig"
      /\ Frames(link'[s], "connector") \subseteq Frames(link[s], "connector")
      /\ cmd'[m].peer = PeerFrom(m, f, f.role) /\ cmd'[m].id = cmd[m].id
      /\ \A n \in Machine \ {m} : cmd'[n] = cmd[n]
  BY Sides DEF Replied, GoesOn, Carries, Only, Stays
<1>2. cmd[m].at = "hello" /\ cmd[m].at \in Connected /\ cmd[m].side = "connector" /\ cmd'[m].side = "connector"
  BY DEF Replied, Connected, Structure, PlaceOK, GoesOn
<1>3. /\ Attached(m, cmd[m], link[s]) /\ LinkOK(s, link[s]) /\ l \in Machine /\ link[s].h # "none" /\ Truthful(link[s])
  BY <1>2, OwnIs
<1>4. link[s].c = m /\ l # m /\ CIn(s) /\ CIn(s)'
  BY SMTT(30), <1>1, <1>2, <1>3, Sides DEF Attached, End, LinkOK, CIn, GoesOn
<1>5. f.role \in Role
  BY <1>1, <1>3, Sides DEF Truthful
<1>6. cmd'[m].peer.id = f.id /\ cmd'[m].peer.role = f.role
  BY <1>1, <1>5, PeerIs
<1>7. (LIn(s)' <=> LIn(s)) /\ cmd'[l] = cmd[l]
  BY <1>1, <1>3, <1>4 DEF LIn
<1>8. Frames(link[s], "listener")' = Frames(link'[s], "listener") /\ Frames(link[s], "connector")' = Frames(link'[s], "connector")
  BY DEF Frames
<1>9. /\ \A x \in Frames(link[s], "listener") : x.t = "hello" => x.id = cmd[m].id
      /\ LIn(s) => \A x \in Frames(link[s], "connector") : x.t = "hello" => x.id = cmd[l].id /\ x.role = cmd[l].opts.role
      /\ LIn(s) => cmd[l].peer.role = oppositeRole(cmd[l].opts.role) /\ cmd[l].peer.id = cmd[m].id
  BY SMTT(30), <1>4 DEF Talks, Talk
<1>10. Talk(s)'
  <2>1. \A x \in Frames(link'[s], "listener") : x.t = "hello" => x.id = cmd'[m].id
    BY Zenon, <1>1, <1>9
  <2>2. LIn(s) => \A x \in Frames(link'[s], "connector") : x.t = "hello" => x.id = cmd'[l].id /\ x.role = cmd'[l].opts.role
    <3> SUFFICES ASSUME LIn(s), NEW x \in Frames(link'[s], "connector"), x.t = "hello"
                 PROVE  x.id = cmd'[l].id /\ x.role = cmd'[l].opts.role
      OBVIOUS
    <3>1. x \in Frames(link[s], "connector")
      BY <1>1
    <3> QED
      BY Zenon, <1>7, <1>9, <3>1
  <2>3. LIn(s) => /\ cmd'[m].peer.id = cmd'[l].id /\ cmd'[m].peer.role = cmd'[l].opts.role
                  /\ cmd'[l].peer.role = oppositeRole(cmd'[l].opts.role) /\ cmd'[l].peer.id = cmd'[m].id
    BY ZenonT(30), <1>1, <1>6, <1>7, <1>9
  <2>4. link'[s].l = l /\ link'[s].c = m /\ cmd'[m].at # "hello" /\ (LIn(s)' <=> LIn(s))
    BY <1>1, <1>4, <1>7
  <2> QED
    BY ZenonT(30), <1>8, <2>1, <2>2, <2>3, <2>4 DEF Talk
<1> QED
  BY <1>1, <1>10, GoesOnTalks

LEMMA FollowedTalks ==
  ASSUME PairTypeOK, Structure, Talks, NEW m \in Machine,
         Signed(m) \/ Heard(m) \/ Decides(m) \/ (\E g \in Frame : Agrees(m, g)) \/ (\E g \in Frame : Saves(m, g))
  PROVE  Talks'
<1>1. cmd[m].at \in Partnered
  BY Zenon DEF Signed, Agrees, Heard, Decides, Saves, Partnered
<1>2. PICK s \in Connection : s = cmd[m].s
  BY <1>1, OwnIs DEF Connected
<1>3. \A d \in Side : Nothing[d] = {}
  BY DEF Nothing
<1>4. CASE Signed(m)
  <2>1. /\ GoesOn(m, s, "code") /\ cmd'[m].peer = cmd[m].peer /\ Carries(s, Nothing) /\ link'[s].h = link[s].h
        /\ \E f \in Frames(link[s], "listener") : f.t = "sig"
    BY <1>2, <1>4 DEF Signed, Stays
  <2>2. "code" \in Partnered
    BY DEF Partnered
  <2> QED
    BY <1>1, <1>2, <1>3, <2>1, <2>2, SessionTalks
<1>5. CASE Heard(m)
  <2>1. /\ GoesOn(m, s, "reread") /\ cmd'[m].peer = cmd[m].peer /\ Carries(s, Nothing) /\ link'[s].h = link[s].h
        /\ cmd[m].at # "sig"
    BY <1>2, <1>5 DEF Heard, Stays
  <2>2. "reread" \in Partnered
    BY DEF Partnered
  <2> QED
    BY <1>1, <1>2, <1>3, <2>1, <2>2, SessionTalks
<1>6. CASE Decides(m)
  <2>1. /\ GoesOn(m, s, "save") /\ cmd'[m].peer = cmd[m].peer /\ link' = link /\ cmd[m].at # "sig"
    BY <1>2, <1>6 DEF Decides
  <2>2. "save" \in Partnered
    BY DEF Partnered
  <2>3. Carries(s, Nothing) /\ link'[s].h = link[s].h
    BY <2>1 DEF Carries
  <2> QED
    BY <1>1, <1>2, <1>3, <2>1, <2>2, <2>3, SessionTalks
<1>7. ASSUME NEW g \in Frame, Agrees(m, g) \/ Saves(m, g) PROVE Talks'
  <2>1. PICK at \in Partnered : GoesOn(m, s, at)
    BY Zenon, <1>2, <1>7 DEF Agrees, Saves, Partnered
  <2> DEFINE new == Only(Other(cmd[m].side), g)
  <2>2. /\ cmd'[m].peer = cmd[m].peer /\ Carries(s, new) /\ link'[s].h = link[s].h
        /\ cmd[m].at # "sig" /\ g.t \notin {"hello", "sig"}
    BY Zenon, <1>2, <1>7 DEF Agrees, Saves, Stays
  <2>3. \A d \in Side : \A f \in new[d] : f.t \notin {"hello", "sig"}
    BY <2>2 DEF Only
  <2> HIDE DEF new
  <2> QED
    BY <1>1, <1>2, <2>1, <2>2, <2>3, SessionTalks
<1> QED
  BY <1>4, <1>5, <1>6, <1>7

LEMMA TalksKeeps ==
  ASSUME PairTypeOK, Structure, Talks, Effect
  PROVE  Talks'
<1>1. ASSUME NEW m \in Machine, NEW f \in Frame, NEW g \in Frame, Replied(m, f, g) PROVE Talks'
  <2>1. PICK s \in Connection : s = cmd[m].s
    BY <1>1 DEF Replied, GoesOn
  <2> QED
    BY <1>1, <2>1, RepliedTalks
<1>2. Quiet => Talks'
  BY QuietTalks
<1>3. (\E m \in Machine : \E c : Enters(m, c)) \/ (\E m \in Machine : Edited(m)) => Talks'
  BY EntersTalks
<1>4. (\E m, l \in Machine : \E s \in Connection, f \in Frame : Dialled(m, l, s, f))
      \/ (\E l \in Machine : \E s \in Connection, f, g \in Frame : LetIn(l, s, f, g)) => Talks'
  BY DialledTalks, LetInTalks
<1> QED
  BY <1>1, <1>2, <1>3, <1>4, FollowedTalks DEF Effect

(***************************************************************************)
(* What a step may do to a command, to a connection and to a vault.         *)
(***************************************************************************)
\* The command goes on with the peer it has.
Follows(m) ==
  /\ cmd[m].at \in Partnered \ {"ack"} /\ cmd'[m].at \in Partnered
  /\ cmd'[m].s = cmd[m].s /\ cmd'[m].side = cmd[m].side /\ cmd'[m].id = cmd[m].id /\ cmd'[m].peer = cmd[m].peer
  /\ cmd'[m].opts = cmd[m].opts /\ cmd'[m].created = cmd[m].created /\ cmd'[m].seen = cmd[m].seen
Dials(m) == \E l \in Machine : \E s \in Connection, f \in Frame : Dialled(m, l, s, f)
Admits(l) == \E s \in Connection, f, g \in Frame : LetIn(l, s, f, g)
Answered(m) == \E f, g \in Frame : Replied(m, f, g)

Course(m) == \/ cmd'[m] = NoCmd
             \/ \E c : Enters(m, c)
             \/ SameCmd(cmd[m], cmd'[m]) \/ Follows(m)
             \/ Dials(m) \/ Admits(m) \/ Answered(m)

LEMMA FollowsIs ==
  ASSUME NEW m \in Machine,
         Signed(m) \/ Heard(m) \/ Decides(m) \/ (\E g \in Frame : Agrees(m, g)) \/ (\E g \in Frame : Saves(m, g))
  PROVE  Follows(m) /\ \A n \in Machine \ {m} : cmd'[n] = cmd[n]
<1>1. CASE Signed(m)
  BY <1>1 DEF Signed, GoesOn, Follows, Partnered
<1>2. CASE Heard(m)
  BY <1>2 DEF Heard, GoesOn, Follows, Partnered
<1>3. CASE Decides(m)
  BY <1>3 DEF Decides, GoesOn, Follows, Partnered
<1>4. CASE \E g \in Frame : Agrees(m, g)
  BY <1>4 DEF Agrees, GoesOn, Follows, Partnered
<1>5. CASE \E g \in Frame : Saves(m, g)
  BY <1>5 DEF Saves, GoesOn, Follows, Partnered
<1> QED
  BY <1>1, <1>2, <1>3, <1>4, <1>5

LEMMA Courses ==
  ASSUME PairTypeOK, Effect
  PROVE  \A m \in Machine : Course(m)
<1>0. \A m \in Machine : cmd'[m] = cmd[m] => Course(m)
  BY DEF Course, SameCmd
<1>1. Quiet => \A m \in Machine : Course(m)
  BY DEF Quiet, Course
<1>2. ASSUME NEW q \in Machine, \A m \in Machine \ {q} : cmd'[m] = cmd[m], Course(q) PROVE \A m \in Machine : Course(m)
  BY <1>0, <1>2
<1>3. ASSUME NEW q \in Machine, NEW c, Enters(q, c) PROVE \A m \in Machine : Course(m)
  <2>1. Course(q) /\ \A m \in Machine \ {q} : cmd'[m] = cmd[m]
    BY <1>3 DEF Course, Enters, PairTypeOK
  <2> QED
    BY <2>1, <1>2
<1>4. ASSUME NEW q \in Machine, Dials(q) \/ Admits(q) \/ Answered(q) PROVE \A m \in Machine : Course(m)
  <2>1. \A m \in Machine \ {q} : cmd'[m] = cmd[m]
    BY SMTT(30), <1>4 DEF Dials, Admits, Answered, Dialled, LetIn, Replied, GoesOn
  <2>2. Course(q)
    BY <1>4 DEF Course
  <2> QED
    BY <2>1, <2>2, <1>2
<1>5. ASSUME NEW q \in Machine,
         Signed(q) \/ Heard(q) \/ Decides(q) \/ (\E g \in Frame : Agrees(q, g)) \/ (\E g \in Frame : Saves(q, g))
      PROVE \A m \in Machine : Course(m)
  <2>1. Course(q) /\ \A m \in Machine \ {q} : cmd'[m] = cmd[m]
    BY <1>5, FollowsIs DEF Course
  <2> QED
    BY <2>1, <1>2
<1>6. (\E q \in Machine : Edited(q)) => \A m \in Machine : Course(m)
  BY <1>0 DEF Edited
<1> QED
  BY <1>1, <1>3, <1>4, <1>5, <1>6 DEF Effect, Dials, Admits, Answered

\* Connection s keeps its two machines, and nobody new confirms in it.
SameTalk(s) ==
  /\ link'[s].l = link[s].l /\ link'[s].c = link[s].c
  /\ link'[s].h # "none" <=> link[s].h # "none"
  /\ link'[s].h = "hello" => link[s].h = "hello"
  /\ \A d \in Side : \A i \in Hellos(link'[s], d) : i \in Hellos(link[s], d)

LEMMA SameTalkIs ==
  ASSUME NEW s \in Connection, NEW new, Carries(s, new), link'[s].h = link[s].h, \A d \in Side : \A f \in new[d] : f.t # "hello"
  PROVE  SameTalk(s)
BY DEF SameTalk, Carries, Hellos

\* What a step does to connection s.
Turn(s) ==
  \/ SameTalk(s) /\ link'[s].yes = link[s].yes
  \/ \E m, l \in Machine, f \in Frame : Dialled(m, l, s, f)
  \/ \E l \in Machine : \E f, g \in Frame : LetIn(l, s, f, g)
  \/ \E m \in Machine : \E g \in Frame : Agrees(m, g) /\ cmd[m].s = s /\ SameTalk(s)

LEMMA TurnTo ==
  ASSUME PairTypeOK, Effect
  PROVE  \A s \in Connection : Turn(s)
<1>0. \A s \in Connection : link'[s] = link[s] => Turn(s)
  BY DEF Turn, SameTalk
<1>1. ASSUME Quiet PROVE \A s \in Connection : Turn(s)
  <2> SUFFICES ASSUME NEW s \in Connection PROVE Turn(s)
    OBVIOUS
  <2>1. Less(link[s], link'[s])
    BY <1>1 DEF Quiet
  <2>2. SameTalk(s) /\ link'[s].yes = link[s].yes
    BY <2>1 DEF Less, Harmless, Hellos, SameTalk
  <2> QED
    BY <2>2 DEF Turn
<1>2. (\E m \in Machine : \E c : Enters(m, c)) \/ (\E m \in Machine : Edited(m) \/ Decides(m)) => \A s \in Connection : Turn(s)
  BY <1>0 DEF Enters, Edited, Decides
<1>3. ASSUME NEW m \in Machine, NEW s, NEW at, GoesOn(m, s, at), Turn(s) PROVE \A r \in Connection : Turn(r)
  BY <1>0, <1>3 DEF GoesOn
<1>4. ASSUME NEW m \in Machine, NEW l \in Machine, NEW s \in Connection, NEW f \in Frame, Dialled(m, l, s, f)
      PROVE  \A r \in Connection : Turn(r)
  <2>1. GoesOn(m, s, "hello") /\ Turn(s)
    BY <1>4 DEF Dialled, Turn
  <2> QED
    BY <2>1, <1>3
<1>5. ASSUME NEW l \in Machine, NEW s \in Connection, NEW f \in Frame, NEW g \in Frame, LetIn(l, s, f, g)
      PROVE  \A r \in Connection : Turn(r)
  <2>1. GoesOn(l, s, "sig") /\ Turn(s)
    BY <1>5 DEF LetIn, Turn
  <2> QED
    BY <2>1, <1>3
<1>6. \A d \in Side : Nothing[d] = {}
  BY DEF Nothing
<1>7. ASSUME NEW m \in Machine, Signed(m) \/ Heard(m) PROVE \A r \in Connection : Turn(r)
  <2>1. PICK s \in Connection : s = cmd[m].s
    BY <1>7 DEF Signed, Heard, GoesOn
  <2>2. PICK at : GoesOn(m, s, at)
    BY <1>7, <2>1 DEF Signed, Heard
  <2>3. Carries(s, Nothing) /\ link'[s].h = link[s].h /\ link'[s].yes = link[s].yes
    BY <1>7, <2>1 DEF Signed, Heard, Stays
  <2>4. Turn(s)
    BY <1>6, <2>3, SameTalkIs DEF Turn
  <2> QED
    BY <2>2, <2>4, <1>3
<1>8. ASSUME NEW m \in Machine, NEW g \in Frame, Agrees(m, g) \/ Saves(m, g) \/ \E f \in Frame : Replied(m, f, g)
      PROVE \A r \in Connection : Turn(r)
  <2>1. PICK s \in Connection : s = cmd[m].s
    BY Zenon, <1>8 DEF Agrees, Saves, Replied, GoesOn
  <2>2. PICK at : GoesOn(m, s, at)
    BY Zenon, <1>8, <2>1 DEF Agrees, Saves, Replied
  <2>3. PICK d : Carries(s, Only(d, g)) /\ link'[s].h = link[s].h /\ g.t # "hello"
    BY Zenon, <1>8, <2>1 DEF Agrees, Saves, Replied, Stays
  <2>4. \A e \in Side : \A x \in Only(d, g)[e] : x.t # "hello"
    BY <2>3 DEF Only
  <2>5. SameTalk(s)
    BY <2>3, <2>4, SameTalkIs
  <2>6. link'[s].yes = link[s].yes \/ Agrees(m, g)
    BY <1>8, <2>1 DEF Saves, Replied
  <2>7. Turn(s)
    BY <2>1, <2>5, <2>6 DEF Turn
  <2> QED
    BY <2>2, <2>7, <1>3
<1> QED
  BY <1>1, <1>2, <1>4, <1>5, <1>7, <1>8 DEF Effect

(***************************************************************************)
(* Nobody confirms in an old session after a newer one.                     *)
(***************************************************************************)
LEMMA NoSession ==
  ASSUME Structure, NEW m \in Machine, cmd[m].at \notin Connected
  PROVE  cmd[m].s = 0
BY DEF Structure, PlaceOK

LEMMA DialledLater ==
  ASSUME PairTypeOK, Structure, Before, NEW m \in Machine, NEW l \in Machine, NEW s \in Connection, NEW f \in Frame,
         Dialled(m, l, s, f), NEW n \in Machine, NEW t \in Connection, Said(n, t)
  PROVE  t < s
<1>1. link[t].h # "none"
  BY NoThingTypes DEF Structure, LinkOK, Said
<1>2. link[s].h = "none" /\ s \in Nat /\ t \in Nat
  BY IdsAre DEF Dialled
<1> QED
  BY <1>1, <1>2 DEF Before

LEMMA SaidIs ==
  ASSUME PairTypeOK, Structure, Effect, NEW m \in Machine, NEW t \in Connection, Said(m, t)'
  PROVE  Said(m, t) \/ (cmd[m].s = t /\ cmd'[m].s = t /\ t # 0)
<1>1. PICK d \in link'[t].yes : End(link'[t], d) = m
  BY DEF Said, End
<1>2. Turn(t)
  BY TurnTo
<1>3. CASE SameTalk(t) /\ link'[t].yes = link[t].yes
  BY <1>1, <1>3 DEF SameTalk, Said, End
<1>4. CASE \E q, l \in Machine, f \in Frame : Dialled(q, l, t, f)
  BY <1>1, <1>4 DEF Dialled
<1>5. CASE \E l \in Machine : \E f, g \in Frame : LetIn(l, t, f, g)
  BY <1>1, <1>5 DEF LetIn, Carries, Said, End
<1>6. ASSUME NEW n \in Machine, NEW g \in Frame, Agrees(n, g), cmd[n].s = t, SameTalk(t)
      PROVE  Said(m, t) \/ (cmd[m].s = t /\ cmd'[m].s = t /\ t # 0)
  <2>1. link'[t].yes = link[t].yes \cup {cmd[n].side} /\ cmd'[n].s = t /\ cmd[n].at \in Connected
    BY <1>6 DEF Agrees, GoesOn, Connected, Partnered
  <2>2. End(link[t], cmd[n].side) = n /\ t # 0
    BY <1>6, <2>1, OwnIs, IdsAre DEF Attached
  <2>3. End(link[t], d) = m
    BY <1>1, <1>6 DEF SameTalk, End
  <2> QED
    BY <1>1, <1>6, <2>1, <2>2, <2>3 DEF Said
<1> QED
  BY <1>2, <1>3, <1>4, <1>5, <1>6 DEF Turn

LEMMA OrderedKeeps ==
  ASSUME PairTypeOK, Structure, Structure', Ordered, Effect
  PROVE  Ordered'
<1>0. Before /\ Newest /\ Waits
  BY DEF Ordered
<1>1. /\ \A s \in Connection : s \in Nat /\ s # 0
      /\ \A m \in Machine : cmd[m].s \in {0} \cup Connection
  BY IdsAre, PairTypes
<1>2. \A s \in Connection : link[s].h # "none" => link'[s].h # "none"
  BY TurnTo DEF Turn, SameTalk, Dialled, LetIn
<1>3. Before'
  <2> SUFFICES ASSUME NEW s \in Connection, NEW t \in Connection, s < t, link'[t].h # "none" PROVE link'[s].h # "none"
    BY DEF Before
  <2>1. CASE link[t].h # "none"
    BY <1>0, <1>2, <2>1 DEF Before
  <2>2. ASSUME NEW m \in Machine, NEW l \in Machine, NEW f \in Frame, Dialled(m, l, t, f) PROVE link'[s].h # "none"
    BY <1>2, <2>2 DEF Dialled
  <2> QED
    BY <2>1, <2>2, TurnTo DEF Turn, SameTalk, LetIn
<1>4. ASSUME NEW m \in Machine, NEW t \in Connection, Said(m, t), cmd[m].s # 0, cmd'[m].s = cmd[m].s
      PROVE  t <= cmd'[m].s
  BY <1>0, <1>4 DEF Newest
<1>5. Newest'
  <2> SUFFICES ASSUME NEW m \in Machine, NEW t \in Connection, Said(m, t)', cmd'[m].s # 0 PROVE t <= cmd'[m].s
    BY DEF Newest
  <2>1. CASE cmd[m].s = t /\ cmd'[m].s = t
    BY <1>1, <2>1
  <2>2. CASE Said(m, t)
    <3>1. CASE cmd'[m] = NoCmd \/ \E c : Enters(m, c)
      BY <3>1, NoThingTypes DEF Enters, PairTypeOK
    <3>2. CASE SameCmd(cmd[m], cmd'[m]) \/ Follows(m) \/ Answered(m)
      BY <1>4, <2>2, <3>2 DEF SameCmd, Follows, Answered, Replied, GoesOn
    <3>3. ASSUME NEW l \in Machine, NEW s \in Connection, NEW f \in Frame, Dialled(m, l, s, f) PROVE t <= cmd'[m].s
      <4>1. t < s /\ cmd'[m].s = s
        BY SMTT(30), <1>0, <2>2, <3>3, DialledLater DEF Dialled, GoesOn
      <4> QED
        BY <1>1, <4>1
    <3>4. ASSUME NEW s \in Connection, NEW f \in Frame, NEW g \in Frame, LetIn(m, s, f, g) PROVE t <= cmd'[m].s
      <4>1. cmd'[m].s = s /\ link[s].l = m /\ link[s].h = "hello" /\ cmd[m].at \notin Connected
        BY <3>4 DEF LetIn, GoesOn, Connected, Partnered
      <4>2. cmd[m].s # t
        BY <1>1, <4>1, NoSession
      <4> QED
        BY <1>0, <2>2, <4>1, <4>2 DEF Waits
    <3> QED
      BY <3>1, <3>2, <3>3, <3>4, Courses DEF Course, Dials, Admits
  <2> QED
    BY <2>1, <2>2, SaidIs
<1>6. Waits'
  <2> SUFFICES ASSUME NEW s \in Connection, NEW t \in Connection, link'[s].h = "hello", Said(link[s].l, t)'
               PROVE  t <= s \/ cmd'[link'[s].l].s = t
    BY DEF Waits
  <2>1. PICK l \in Machine : l = link'[s].l /\ cmd'[l].at # "idle" /\ cmd'[l].side = "listener"
    <3>1. PairTypeOK'
      BY EffectKeeps
    <3> QED
      BY <3>1, PairTypes, LinkFields DEF Structure, LinkOK, PairTypeOK
  <2>2. Said(l, t)'
    BY <2>1 DEF Said, End
  <2>3. CASE SameTalk(s) /\ Said(l, t)
    <3>1. link[s].h = "hello" /\ link[s].l = l
      BY <2>1, <2>3 DEF SameTalk
    <3>2. t <= s \/ cmd[l].s = t
      BY <1>0, <2>3, <3>1 DEF Waits
    <3>3. ASSUME cmd[l].s = t PROVE cmd'[l].s = t
      <4>1. cmd[l].at \in Connected
        BY <1>1, <2>1, <3>3, NoSession
      <4>2. cmd'[l] # NoCmd /\ ~(\E c : Enters(l, c)) /\ ~Dials(l) /\ ~Admits(l)
        BY <2>1, <4>1, NoThingTypes DEF Enters, Dials, Dialled, Admits, LetIn, Connected, Partnered
      <4> QED
        BY <2>1, <3>3, <4>2, Courses DEF Course, SameCmd, Follows, Answered, Replied, GoesOn
    <3> QED
      BY <2>1, <3>2, <3>3
  <2>4. ASSUME NEW m \in Machine, NEW n \in Machine, NEW f \in Frame, Dialled(m, n, s, f), Said(l, t) PROVE t <= s
    BY <1>0, <1>1, <2>1, <2>4, DialledLater
  <2>5. ~(\E q \in Machine : \E f, g \in Frame : LetIn(q, s, f, g))
    BY DEF LetIn
  <2> QED
    BY <2>1, <2>2, <2>3, <2>4, <2>5, SaidIs, TurnTo DEF Turn
<1> QED
  BY <1>3, <1>5, <1>6 DEF Ordered

(***************************************************************************)
(* Two commands in one session, and what a step writes to a vault.          *)
(***************************************************************************)
LEMMA SessionOf ==
  ASSUME PairTypeOK, Structure, Talks, NEW m \in Machine, NEW n \in Machine, m # n, cmd[m].s = cmd[n].s,
         cmd[m].at \in Partnered, cmd[n].at \in Partnered, cmd[m].side = "listener"
  PROVE  /\ cmd[n].side = "connector" /\ Partner(m) = n /\ Partner(n) = m
         /\ cmd[m].peer.id = cmd[n].id /\ cmd[n].peer.id = cmd[m].id /\ cmd[m].peer.role # cmd[n].peer.role
<1>1. PICK s \in Connection : s = cmd[m].s
  BY OwnIs DEF Connected
<1>2. Attached(m, cmd[m], link[s]) /\ Attached(n, cmd[n], link[s]) /\ PlaceOK(cmd[m]) /\ cmd[n].side \in Side
  BY <1>1, OwnIs DEF Connected
<1>3. link[s].l = m /\ link[s].h = "in" /\ cmd[n].side = "connector" /\ link[s].c = n
  BY <1>2, Sides DEF Attached, End
<1>4. LIn(s) /\ CIn(s) /\ Talk(s)
  BY <1>1, <1>3 DEF LIn, CIn, Talks
<1>5. /\ cmd[m].peer.role = oppositeRole(cmd[m].opts.role) /\ cmd[m].peer.id = cmd[n].id
      /\ cmd[n].peer.id = cmd[m].id /\ cmd[n].peer.role = cmd[m].opts.role
  BY <1>3, <1>4 DEF Talk
<1>6. cmd[m].opts.role \in Role
  BY <1>2 DEF PlaceOK, Partnered
<1>7. Partner(m) = n /\ Partner(n) = m
  BY <1>1, <1>3 DEF Partner, End, Other
<1> QED
  BY <1>3, <1>5, <1>6, <1>7, RolesAre

LEMMA Together ==
  ASSUME PairTypeOK, Structure, Talks, NEW m \in Machine, NEW n \in Machine, m # n, cmd[m].s = cmd[n].s,
         cmd[m].at \in Partnered, cmd[n].at \in Partnered
  PROVE  /\ cmd[n].side = Other(cmd[m].side) /\ Partner(m) = n /\ Partner(n) = m
         /\ cmd[m].peer.id = cmd[n].id /\ cmd[n].peer.id = cmd[m].id /\ cmd[m].peer.role # cmd[n].peer.role
<1>1. CASE cmd[m].side = "listener"
  BY <1>1, SessionOf DEF Other
<1>2. CASE cmd[n].side = "listener"
  <2>1. /\ cmd[m].side = "connector" /\ Partner(m) = n /\ Partner(n) = m
        /\ cmd[m].peer.id = cmd[n].id /\ cmd[n].peer.id = cmd[m].id /\ cmd[m].peer.role # cmd[n].peer.role
    BY <1>2, SessionOf
  <2> QED
    BY <1>2, <2>1 DEF Other
<1>3. CASE cmd[m].side = "connector" /\ cmd[n].side = "connector"
  <2>1. /\ Attached(m, cmd[m], link[cmd[m].s]) /\ Attached(n, cmd[n], link[cmd[n].s])
    BY OwnIs DEF Connected
  <2> QED
    BY <1>3, <2>1 DEF Attached, End
<1> QED
  BY <1>1, <1>2, <1>3, PairTypes, Sides

Shrinks(m) ==
  /\ vaults'[m].own = vaults[m].own
  /\ \A i \in Paired(vaults'[m].peers) : i \in Paired(vaults[m].peers) /\ vaults'[m].peers[i] = vaults[m].peers[i]
Wrote(m) ==
  /\ cmd[m].at = "save" /\ cmd'[m].at = "ack" /\ SameIdentity(m)
  /\ vaults'[m] = [own |-> cmd[m].id, peers |-> Upsert(vaults[m].peers, cmd[m].peer, Explicit(m))]
  /\ \A n \in Machine \ {m} : vaults'[n] = vaults[n] /\ cmd'[n] = cmd[n]
Named(m) ==
  /\ edit[m].at = "save" /\ edit[m].kind = "whoami" /\ vaults[m].own = NoId
  /\ vaults'[m].own = edit[m].base.own /\ vaults'[m].peers = vaults[m].peers
  /\ \A n \in Machine \ {m} : vaults'[n] = vaults[n]

LEMMA Writes ==
  ASSUME PairTypeOK, \A m \in Machine : AloneAt(m), Effect
  PROVE  (\A m \in Machine : Shrinks(m)) \/ \E m \in Machine : Wrote(m) \/ Named(m)
<1>1. vaults' = vaults => \A m \in Machine : Shrinks(m)
  BY DEF Shrinks
<1>2. ASSUME NEW m \in Machine, NEW g \in Frame, Saves(m, g) PROVE Wrote(m)
  <2>1. /\ cmd[m].at = "save" /\ cmd'[m].at = "ack" /\ vaults'[m] = cmd[m].base
        /\ \A n \in Machine \ {m} : vaults'[n] = vaults[n] /\ cmd'[n] = cmd[n]
    BY <1>2 DEF Saves, GoesOn, PairTypeOK
  <2> QED
    BY <2>1 DEF Wrote, AloneAt
<1>3. ASSUME NEW m \in Machine, Edited(m)
      PROVE  (\A n \in Machine : Shrinks(n)) \/ Named(m)
  <2>1. CASE ~Stores(m)
    BY <1>1, <1>3, <2>1 DEF Edited, Asks, Drops, Mints, Removes
  <2>2. CASE Stores(m)
    <3>1. /\ edit[m].at = "save" /\ vaults'[m] = edit[m].base /\ vaults[m].peers \in Tables
          /\ \A n \in Machine \ {m} : vaults'[n] = vaults[n]
      BY <2>2, PairTypes DEF Stores, PairTypeOK
    <3>2. CASE edit[m].kind = "whoami"
      BY <3>1, <3>2 DEF Named, AloneAt
    <3>3. CASE edit[m].kind # "whoami"
      <4>0. edit[m].base = [own |-> vaults[m].own, peers |-> removePeer(vaults[m].peers, edit[m].id)]
        BY <3>1, <3>3 DEF AloneAt
      <4>1. vaults'[m].own = vaults[m].own /\ vaults'[m].peers = removePeer(vaults[m].peers, edit[m].id)
        BY <3>1, <4>0
      <4>2. \A i \in Paired(removePeer(vaults[m].peers, edit[m].id)) :
              i \in Paired(vaults[m].peers) /\ removePeer(vaults[m].peers, edit[m].id)[i] = vaults[m].peers[i]
        BY <3>1 DEF removePeer, Paired, Tables
      <4> QED
        BY <3>1, <4>1, <4>2 DEF Shrinks
    <3> QED
      BY <3>2, <3>3
  <2> QED
    BY <2>1, <2>2
<1> QED
  BY <1>1, <1>2, <1>3, WhoSaves

\* A save gives the peer its role, unless the vault has it already; the others stay
\* what they are.
LEMMA WroteIs ==
  ASSUME PairTypeOK, Structure, NEW m \in Machine, Wrote(m)
  PROVE  LET t == vaults[m].peers  t2 == vaults'[m].peers  i == cmd[m].peer.id IN
         /\ cmd[m].at \in Partnered /\ i \in Id /\ cmd[m].id \in Id /\ vaults'[m].own = cmd[m].id
         /\ t2[i].role = IF t[i] # NoPeer THEN t[i].role ELSE cmd[m].peer.role
         /\ \A j \in Paired(t2) \ {i} : j \in Paired(t) /\ t2[j] = t[j]
         /\ Other(cmd[m].side) \in link[cmd[m].s].yes /\ cmd[m].side \in link[cmd[m].s].yes
         /\ IF cmd[m].created THEN vaults[m].own = NoId ELSE vaults[m].own = cmd[m].id
<1> DEFINE t == vaults[m].peers
           t2 == vaults'[m].peers
           i == cmd[m].peer.id
           x == Explicit(m)
<1>1. cmd[m].at \in Partnered /\ cmd[m].at \in Connected
  BY DEF Wrote, Partnered, Connected
<1>2. PlaceOK(cmd[m]) /\ Attached(m, cmd[m], link[cmd[m].s])
  BY <1>1, OwnIs
<1>3. cmd[m].peer \in Peers /\ cmd[m].id \in Id
  BY <1>1, <1>2 DEF PlaceOK, Partnered
<1>4. i \in Id /\ t \in Tables /\ x \in BOOLEAN
  BY <1>3, PairTypes, ExplicitIs DEF Peers
<1>5. t2 = Upsert(t, cmd[m].peer, x) /\ vaults'[m].own = cmd[m].id
  BY DEF Wrote
<1>6. /\ t2[i] = IF t[i] # NoPeer THEN [t[i] EXCEPT !.name = NameFor(t, cmd[m].peer, x)]
                 ELSE [name |-> NameFor(t, cmd[m].peer, x), ed |-> cmd[m].peer.ed, x |-> cmd[m].peer.x, role |-> cmd[m].peer.role]
      /\ \A j \in Id \ {i} : t2[j] = IF j \in Clash(t, cmd[m].peer, x) THEN NoPeer ELSE t[j]
  BY SMTT(30), <1>3, <1>4, <1>5, UpsertIs
<1>7. t[i] # NoPeer => t[i] \in Entry
  BY <1>4 DEF Tables
<1> HIDE DEF t, t2, x
<1>8. t2[i].role = IF t[i] # NoPeer THEN t[i].role ELSE cmd[m].peer.role
  BY <1>6, <1>7 DEF Entry
<1>9. \A j \in Paired(t2) \ {i} : j \in Paired(t) /\ t2[j] = t[j]
  BY Zenon, <1>6 DEF Paired
<1>10. Other(cmd[m].side) \in link[cmd[m].s].yes /\ cmd[m].side \in link[cmd[m].s].yes
  BY <1>2 DEF Wrote, Attached
<1> QED
  BY Zenon, <1>1, <1>3, <1>4, <1>5, <1>8, <1>9, <1>10 DEF t, t2, Wrote, SameIdentity

(***************************************************************************)
(* The roles that vaults have for the peers of their sessions.              *)
(***************************************************************************)
Fewer(m) == \A i \in Paired(vaults'[m].peers) : i \in Paired(vaults[m].peers) /\ vaults'[m].peers[i] = vaults[m].peers[i]

LEMMA FewerIs ==
  ASSUME PairTypeOK, \A m \in Machine : AloneAt(m), Effect, NEW m \in Machine
  PROVE  Fewer(m) \/ Wrote(m)
BY Writes DEF Fewer, Shrinks, Wrote, Named

LEMMA RemembersKeeps ==
  ASSUME PairTypeOK, \A m \in Machine : AloneAt(m), Effect, \A m \in Machine : Remembers(m)
  PROVE  \A m \in Machine : Remembers(m)'
<1> SUFFICES ASSUME NEW m \in Machine, cmd'[m].at \in {"listening", "ready", "hello"}
             PROVE  \A i \in Paired(vaults'[m].peers) :
                      cmd'[m].seen[i] # NoPeer /\ cmd'[m].seen[i].role = vaults'[m].peers[i].role
  BY DEF Remembers, Paired
<1>1. Fewer(m)
  BY FewerIs DEF Wrote
<1>2. ASSUME NEW c, Enters(m, c) PROVE cmd'[m].seen = vaults[m].peers
  BY <1>2 DEF Enters, PairTypeOK
<1>3. CASE \E c : Enters(m, c)
  BY <1>1, <1>2, <1>3 DEF Fewer, Paired
<1>4. CASE SameCmd(cmd[m], cmd'[m]) \/ Dials(m)
  <2>1. cmd[m].at \in {"listening", "ready", "hello"} /\ cmd'[m].seen = cmd[m].seen
    BY <1>4 DEF SameCmd, Dials, Dialled, GoesOn
  <2> QED
    BY <1>1, <2>1 DEF Fewer, Remembers
<1>5. cmd'[m] # NoCmd /\ ~Follows(m) /\ ~Admits(m) /\ ~Answered(m)
  BY NoThingTypes DEF Follows, Admits, LetIn, Answered, Replied, GoesOn, Partnered
<1> QED
  BY <1>3, <1>4, <1>5, Courses DEF Course

LEMMA SteadyKeeps ==
  ASSUME PairTypeOK, Structure, Structure', \A m \in Machine : AloneAt(m), Effect,
         \A m \in Machine : Remembers(m) /\ Steady(m)
  PROVE  \A m \in Machine : Steady(m)'
<1> SUFFICES ASSUME NEW m \in Machine, cmd'[m].at \in Partnered, vaults'[m].peers[cmd'[m].peer.id] # NoPeer
             PROVE  vaults'[m].peers[cmd'[m].peer.id].role = cmd'[m].peer.role
  BY DEF Steady
<1> DEFINE i == cmd'[m].peer.id
<1>1. i \in Id /\ cmd'[m].at # "idle"
  BY DEF Structure, PlaceOK, Peers, Partnered
<1>2. Fewer(m) => i \in Paired(vaults[m].peers) /\ vaults'[m].peers[i] = vaults[m].peers[i]
  BY <1>1 DEF Fewer, Paired
<1>3. CASE SameCmd(cmd[m], cmd'[m]) \/ Follows(m)
  <2>1. cmd[m].at \in Partnered /\ cmd[m].peer = cmd'[m].peer
    BY <1>3 DEF SameCmd, Follows
  <2>2. vaults[m].peers[i] # NoPeer => vaults[m].peers[i].role = cmd[m].peer.role
    BY Zenon, <2>1 DEF Steady
  <2>3. CASE Wrote(m)
    BY ZenonT(30), <2>1, <2>2, <2>3, WroteIs
  <2>4. CASE Fewer(m)
    BY Zenon, <1>2, <2>1, <2>2, <2>4 DEF Paired
  <2> QED
    BY <2>3, <2>4, FewerIs
<1>4. CASE Admits(m) \/ Answered(m)
  <2>1. cmd[m].at \in {"listening", "hello"} /\ Prechecked(m, cmd'[m].peer)
    BY <1>4 DEF Admits, LetIn, Answered, Replied
  <2>2. Fewer(m)
    BY <2>1, FewerIs DEF Wrote
  <2>3. cmd[m].seen[i] # NoPeer /\ cmd[m].seen[i].role = vaults[m].peers[i].role
    BY Zenon, <1>2, <2>1, <2>2 DEF Remembers
  <2>4. cmd[m].seen[i].role = cmd'[m].peer.role
    BY Zenon, <2>1, <2>3 DEF Prechecked, Accepts, OtherRole
  <2> QED
    BY Zenon, <1>2, <2>2, <2>3, <2>4
<1>5. cmd'[m] # NoCmd /\ ~(\E c : Enters(m, c)) /\ ~Dials(m)
  <2>1. \A c : Enters(m, c) => cmd'[m].at \notin Partnered
    BY DEF Enters, PairTypeOK, Partnered
  <2>2. NoCmd.at \notin Partnered
    BY NoThingTypes DEF Partnered
  <2>3. ~Dials(m)
    BY DEF Dials, Dialled, GoesOn, Partnered
  <2> QED
    BY <2>1, <2>2, <2>3
<1> QED
  BY Zenon, <1>3, <1>4, <1>5, Courses DEF Course

\* A command that has a peer had it before, or has just got it, in a session where
\* nobody has confirmed.
LEMMA PeerFromStep ==
  ASSUME PairTypeOK, Structure, Talks, Effect, NEW m \in Machine, cmd'[m].at \in Partnered
  PROVE  \/ /\ cmd[m].at \in Partnered /\ cmd'[m].peer = cmd[m].peer /\ cmd'[m].s = cmd[m].s
            /\ cmd'[m].side = cmd[m].side /\ cmd'[m].id = cmd[m].id /\ cmd'[m].created = cmd[m].created
            /\ cmd[m].at = "ack" => cmd'[m].at = "ack"
         \/ /\ cmd[m].at \in {"listening", "hello"} /\ link'[cmd'[m].s].yes = {}
            /\ \E d \in Side : cmd'[m].peer.id \in Hellos(link[cmd'[m].s], d)
            /\ cmd'[m].id = cmd[m].id /\ cmd'[m].created = cmd[m].created
            /\ cmd[m].s \in {0, cmd'[m].s} /\ cmd'[m].s \in Connection /\ vaults' = vaults
<1>1. CASE SameCmd(cmd[m], cmd'[m]) \/ Follows(m)
  BY <1>1 DEF SameCmd, Follows
<1>2. ASSUME NEW s \in Connection, NEW f \in Frame, NEW g \in Frame, LetIn(m, s, f, g)
      PROVE  /\ cmd[m].at = "listening" /\ link'[s].yes = {} /\ cmd'[m].s = s /\ vaults' = vaults
             /\ cmd'[m].peer.id \in Hellos(link[s], "listener") /\ cmd[m].s = 0
             /\ cmd'[m].id = cmd[m].id /\ cmd'[m].created = cmd[m].created
  <2>1. /\ cmd[m].at = "listening" /\ link'[s].yes = link[s].yes /\ cmd'[m].s = s /\ link[s].h = "hello" /\ vaults' = vaults
        /\ f \in Frames(link[s], "listener") /\ f.t = "hello"
        /\ cmd'[m].peer = PeerFrom(m, f, oppositeRole(cmd[m].opts.role))
        /\ cmd'[m].id = cmd[m].id /\ cmd'[m].created = cmd[m].created
    BY <1>2 DEF LetIn, GoesOn, RightPin, parseHello
  <2>2. cmd[m].s = 0 /\ link[s].yes = {} /\ cmd[m].opts.role \in Role
    BY <2>1 DEF Structure, LinkOK, PlaceOK, Connected, Partnered
  <2>3. cmd'[m].peer.id = f.id
    BY <2>1, <2>2, PeerIs, RolesAre
  <2> QED
    BY <2>1, <2>2, <2>3 DEF Hellos
<1>3. ASSUME NEW f \in Frame, NEW g \in Frame, Replied(m, f, g), NEW s \in Connection, s = cmd[m].s
      PROVE  /\ cmd[m].at = "hello" /\ link'[s].yes = {} /\ cmd'[m].s = s /\ vaults' = vaults
             /\ cmd'[m].peer.id \in Hellos(link[s], "connector")
             /\ cmd'[m].id = cmd[m].id /\ cmd'[m].created = cmd[m].created
  <2>1. /\ cmd[m].at = "hello" /\ link'[s].yes = link[s].yes /\ cmd'[m].s = s /\ vaults' = vaults
        /\ f \in Frames(link[s], "connector") /\ f.t = "hello" /\ cmd'[m].peer = PeerFrom(m, f, f.role)
        /\ cmd'[m].id = cmd[m].id /\ cmd'[m].created = cmd[m].created
    BY <1>3 DEF Replied, GoesOn
  <2>2. /\ cmd[m].side = "connector" /\ Attached(m, cmd[m], link[s]) /\ Truthful(link[s])
    BY Zenon, <1>3, <2>1, OwnIs DEF Connected, PlaceOK
  <2>3. link[s].c = m /\ CIn(s)
    BY <1>3, <2>2 DEF Attached, End, CIn
  <2>4. link[s].yes = {}
    BY <2>1, <2>3 DEF Talks, Talk
  <2>5. f.role \in Role
    BY <2>1, <2>2, Sides DEF Truthful
  <2>6. cmd'[m].peer.id = f.id
    BY <2>1, <2>5, PeerIs
  <2> QED
    BY <2>1, <2>4, <2>6 DEF Hellos
<1>4. Answered(m) => \E s \in Connection : s = cmd[m].s
  BY DEF Answered, Replied, GoesOn
<1>5. cmd'[m] # NoCmd /\ ~(\E c : Enters(m, c)) /\ ~Dials(m)
  <2>1. \A c : Enters(m, c) => cmd'[m].at \notin Partnered
    BY DEF Enters, PairTypeOK, Partnered
  <2>2. NoCmd.at \notin Partnered
    BY NoThingTypes DEF Partnered
  <2>3. ~Dials(m)
    BY DEF Dials, Dialled, GoesOn, Partnered
  <2> QED
    BY <2>1, <2>2, <2>3
<1> QED
  BY <1>1, <1>2, <1>3, <1>4, <1>5, Courses, Sides DEF Course, Admits, Answered

LEMMA PartnerBy ==
  ASSUME PairTypeOK, Structure, Identities, NEW m \in Machine, NEW n \in Machine, cmd[n].at \in Partnered,
         \/ cmd[n].peer.id = cmd[m].id
         \/ cmd[n].peer.id = vaults[m].own
  PROVE  Partner(n) = m
<1>1. cmd[n].peer.id \in 1..minted
  BY DEF Identities, PeersOK
<1>2. cmd[n].peer.id \in Owns(m)
  BY <1>1, IdsAre DEF Owns
<1> QED
  BY <1>2, PartnerIs

\* The other side of a session in which m has confirmed.
LEMMA PartnerSaid ==
  ASSUME PairTypeOK, Structure, NEW m \in Machine, cmd[m].at \in Partnered, Other(cmd[m].side) \in link[cmd[m].s].yes
  PROVE  Said(Partner(m), cmd[m].s) /\ cmd[m].s \in Connection /\ cmd[m].s # 0
BY OwnIs DEF Connected, Said, Partner

\* Two commands that have each other as partners, where both people have confirmed:
\* the sessions are one.
LEMMA OneTalk ==
  ASSUME PairTypeOK, Structure, Ordered, NEW m \in Machine, NEW n \in Machine, Partner(m) = n, Partner(n) = m,
         cmd[m].at \in Partnered, Other(cmd[m].side) \in link[cmd[m].s].yes,
         cmd[n].at \in Partnered, Other(cmd[n].side) \in link[cmd[n].s].yes
  PROVE  cmd[m].s = cmd[n].s
<1>1. /\ Said(n, cmd[m].s) /\ cmd[m].s \in Connection /\ cmd[m].s # 0
      /\ Said(m, cmd[n].s) /\ cmd[n].s \in Connection /\ cmd[n].s # 0
  BY PartnerSaid
<1>2. cmd[m].s <= cmd[n].s /\ cmd[n].s <= cmd[m].s
  BY <1>1 DEF Ordered, Newest
<1>3. cmd[m].s \in Nat /\ cmd[n].s \in Nat
  BY <1>1, IdsAre
<1> QED
  BY <1>2, <1>3

LEMMA MatchKeeps ==
  ASSUME PairTypeOK, Structure, Identities, Ordered, Talks, Effect,
         \A m \in Machine : AloneAt(m) /\ Steady(m) /\ Match(m)
  PROVE  \A m \in Machine : Match(m)'
<1> SUFFICES ASSUME NEW m \in Machine, cmd'[m].at \in Partnered, Other(cmd'[m].side) \in link'[cmd'[m].s].yes
             PROVE  LET e == vaults'[Partner(m)'].peers[cmd'[m].id] IN e # NoPeer => e.role # cmd'[m].peer.role
  BY Zenon DEF Match, Partner, End
<1> DEFINE p == Partner(m)
           i == cmd[m].id
           d == Other(cmd[m].side)
<1>1. /\ cmd[m].at \in Partnered /\ cmd'[m].peer = cmd[m].peer /\ cmd'[m].s = cmd[m].s
      /\ cmd'[m].side = cmd[m].side /\ cmd'[m].id = i
  BY PeerFromStep
<1>2. PICK s \in Connection : s = cmd[m].s
  BY <1>1, OwnIs DEF Connected
<1>3. /\ p \in Machine /\ p # m /\ Attached(m, cmd[m], link[s]) /\ LinkOK(s, link[s]) /\ link[s].h # "none"
      /\ PlaceOK(cmd[m]) /\ d \in Side
  BY <1>1, <1>2, OwnIs, PartnerIs DEF Connected
<1>4. i \in Id /\ End(link[s], d) = p
  BY <1>1, <1>2, <1>3 DEF PlaceOK, Partnered, Partner
<1>5. link'[s].l = link[s].l /\ link'[s].c = link[s].c
  BY <1>3, TurnTo DEF Turn, SameTalk, Dialled, LetIn, Carries
<1>6. Partner(m)' = p
  BY <1>1, <1>2, <1>5 DEF Partner, End
<1>7. CASE d \in link[s].yes
  <2>1. vaults[p].peers[i] # NoPeer => vaults[p].peers[i].role # cmd[m].peer.role
    BY <1>1, <1>2, <1>7 DEF Match
  <2>2. CASE Fewer(p)
    BY <1>1, <1>4, <1>6, <2>1, <2>2 DEF Fewer, Paired
  <2>3. CASE Wrote(p)
    <3>1. /\ cmd[p].at \in Partnered /\ Other(cmd[p].side) \in link[cmd[p].s].yes
          /\ LET t == vaults[p].peers  t2 == vaults'[p].peers  j == cmd[p].peer.id IN
               /\ t2[j].role = IF t[j] # NoPeer THEN t[j].role ELSE cmd[p].peer.role
               /\ \A x \in Paired(t2) \ {j} : x \in Paired(t) /\ t2[x] = t[x]
      BY Zenon, <1>3, <2>3, WroteIs
    <3>2. CASE cmd[p].peer.id # i
      BY <1>1, <1>4, <1>6, <2>1, <3>1, <3>2 DEF Paired
    <3>3. CASE cmd[p].peer.id = i
      <4>1. Partner(p) = m
        BY <1>3, <3>1, <3>3, PartnerBy
      <4>2. cmd[p].s = cmd[m].s
        BY Zenon, <1>1, <1>2, <1>3, <1>7, <3>1, <4>1, OneTalk
      <4>3. cmd[p].peer.role # cmd[m].peer.role
        BY <1>1, <1>3, <3>1, <4>2, Together
      <4> QED
        BY <1>1, <1>6, <2>1, <3>1, <3>3, <4>3
    <3> QED
      BY <3>2, <3>3
  <2> QED
    BY <1>3, <2>2, <2>3, FewerIs
<1>8. CASE d \notin link[s].yes
  <2>1. d \in link'[s].yes
    BY <1>1, <1>2
  <2>2. PICK n \in Machine, g \in Frame : Agrees(n, g) /\ cmd[n].s = s
    BY <1>3, <1>8, <2>1, TurnTo DEF Turn, Dialled, LetIn
  <2>3. /\ link'[s].yes = link[s].yes \cup {cmd[n].side} /\ cmd[n].at \in Partnered /\ vaults' = vaults
    BY <2>2 DEF Agrees, Partnered
  <2>4. cmd[n].side = d /\ Attached(n, cmd[n], link[s])
    BY Zenon, <1>8, <2>1, <2>2, <2>3, OwnIs DEF Connected
  <2>5. n = p
    BY <1>4, <2>4 DEF Attached
  <2>6. cmd[p].peer.id = i /\ cmd[p].peer.role # cmd[m].peer.role
    BY <1>1, <1>2, <1>3, <2>2, <2>3, <2>5, Together
  <2>7. vaults[p].peers[i] # NoPeer => vaults[p].peers[i].role = cmd[p].peer.role
    BY Zenon, <2>3, <2>5, <2>6 DEF Steady
  <2> QED
    BY <1>1, <1>6, <2>3, <2>6, <2>7
<1> QED
  BY <1>7, <1>8

(***************************************************************************)
(* Identities that are not saved yet.                                       *)
(***************************************************************************)
\* Whoever is met after a step was met before, or has introduced itself.
LEMMA HellosFrom ==
  ASSUME PairTypeOK, Structure, Effect, NEW s \in Connection, NEW d \in Side, NEW i \in Hellos(link'[s], d)
  PROVE  \/ i \in Hellos(link[s], d)
         \/ \E q \in Machine : i = cmd[q].id /\ cmd[q].id \in Id /\ cmd[q].at \in {"ready", "listening"} /\ cmd'[q].s = s
<1>1. CASE SameTalk(s)
  BY <1>1 DEF SameTalk
<1>2. ASSUME NEW m \in Machine, NEW l \in Machine, NEW f \in Frame, Dialled(m, l, s, f)
      PROVE  i = cmd[m].id /\ cmd[m].id \in Id /\ cmd[m].at = "ready" /\ cmd'[m].s = s
  <2>1. /\ Frames(link'[s], "listener") = {f} /\ Frames(link'[s], "connector") = {} /\ f.id = cmd[m].id
        /\ cmd[m].at = "ready" /\ cmd'[m].s = s
    BY <1>2 DEF Dialled, GoesOn
  <2>2. cmd[m].id \in Id
    BY <2>1 DEF Structure, PlaceOK
  <2> QED
    BY <2>1, <2>2, Sides DEF Hellos
<1>3. ASSUME NEW l \in Machine, NEW f \in Frame, NEW g \in Frame, LetIn(l, s, f, g)
      PROVE  \/ i \in Hellos(link[s], d)
             \/ i = cmd[l].id /\ cmd[l].id \in Id /\ cmd[l].at = "listening" /\ cmd'[l].s = s
  <2>1. /\ Frames(link'[s], d) \subseteq Frames(link[s], d) \cup {g} /\ g.id = cmd[l].id
        /\ cmd[l].at = "listening" /\ cmd'[l].s = s
    BY <1>3 DEF LetIn, GoesOn, Carries, Only
  <2>2. cmd[l].id \in Id
    BY <2>1 DEF Structure, PlaceOK
  <2> QED
    BY <2>1, <2>2 DEF Hellos
<1> QED
  BY <1>1, <1>2, <1>3, TurnTo DEF Turn, SameTalk

LEMMA MetFrom ==
  ASSUME PairTypeOK, PairTypeOK', Structure, Talks, Effect, \A m \in Machine : AloneAt(m), NEW i, Met(i)'
  PROVE  Met(i) \/ \E q \in Machine : i = cmd[q].id /\ cmd[q].id \in Id /\ cmd[q].at \in {"ready", "listening"}
<1>1. ASSUME NEW n \in Machine, i \in Paired(vaults'[n].peers) PROVE Met(i)
  <2>1. CASE Fewer(n)
    BY <1>1, <2>1 DEF Fewer, Met
  <2>2. CASE Wrote(n)
    BY Zenon, <1>1, <2>2, WroteIs DEF Met
  <2> QED
    BY <2>1, <2>2, FewerIs
<1>2. ASSUME NEW n \in Machine, cmd'[n].at \in Partnered, cmd'[n].peer.id = i PROVE Met(i)
  BY <1>2, PeerFromStep DEF Met
<1>3. ASSUME NEW s \in Connection, NEW d \in Side, i \in Hellos(link'[s], d)
      PROVE  Met(i) \/ \E q \in Machine : i = cmd[q].id /\ cmd[q].id \in Id /\ cmd[q].at \in {"ready", "listening"}
  BY <1>3, HellosFrom DEF Met
<1> QED
  <2>1. \/ \E n \in Machine : i \in Paired(vaults'[n].peers)
        \/ \E n \in Machine : cmd'[n].at \in Partnered /\ cmd'[n].peer.id = i
        \/ \E s \in Connection, d \in Side : i \in Hellos(link'[s], d)
    BY DEF Met, Paired, Hellos, Frames
  <2> QED
    BY <1>1, <1>2, <1>3, <2>1

\* An identity that is generated is nobody's, and nobody has met it.
LEMMA MintedIsNew ==
  ASSUME PairTypeOK, Identities, minted + 1 \in Id \ Stranger
  PROVE  /\ ~Met(minted + 1) /\ \A m \in Machine : minted + 1 \notin Owns(m)
         /\ minted + 1 \in Id
<1>1. minted \in Nat /\ minted + 1 \notin 1..minted
  BY IdsAre DEF PairTypeOK
<1>2. \A n \in Machine : minted + 1 \notin Knows(n) /\ minted + 1 \notin Owns(n)
  BY <1>1 DEF Identities, KnowsOK, OwnsOK
<1>3. \A n \in Machine : cmd[n].at \in Partnered => cmd[n].peer.id # minted + 1
  BY <1>1 DEF Identities, PeersOK
<1>4. \A s \in Connection, d \in Side : minted + 1 \notin Hellos(link[s], d)
  BY <1>1 DEF Identities, HellosOK
<1> QED
  BY <1>2, <1>3, <1>4 DEF Met, Knows

LEMMA WhoEdits ==
  ASSUME Effect
  PROVE  edit' = edit \/ \E q \in Machine : Edited(q)
<1>1. Quiet => edit' = edit
  BY DEF Quiet
<1>2. \A m \in Machine : \A c : Enters(m, c) => edit' = edit
  BY DEF Enters
<1>3. \A m, s, at : GoesOn(m, s, at) => edit' = edit
  BY DEF GoesOn
<1>4. \A m \in Machine : \A l \in Machine, s \in Connection, f \in Frame : Dialled(m, l, s, f) => edit' = edit
  BY <1>3 DEF Dialled
<1>5. \A m \in Machine : \A s \in Connection, f, g \in Frame : LetIn(m, s, f, g) => edit' = edit
  BY <1>3 DEF LetIn
<1>6. \A m \in Machine : \A f, g \in Frame : Replied(m, f, g) => edit' = edit
  BY <1>3 DEF Replied
<1>7. \A m \in Machine : \A g \in Frame : Agrees(m, g) \/ Saves(m, g) => edit' = edit
  BY <1>3 DEF Agrees, Saves
<1>8. \A m \in Machine : Signed(m) \/ Heard(m) \/ Decides(m) => edit' = edit
  BY <1>3 DEF Signed, Heard, Decides
<1> QED
  BY <1>1, <1>2, <1>4, <1>5, <1>6, <1>7, <1>8 DEF Effect

LEMMA FreshEditKeeps ==
  ASSUME PairTypeOK, PairTypeOK', Structure, Identities, Talks, Effect, \A m \in Machine : AloneAt(m) /\ FreshEdit(m)
  PROVE  \A m \in Machine : FreshEdit(m)'
<1> SUFFICES ASSUME NEW m \in Machine, edit'[m].at = "save", edit'[m].kind = "whoami", NEW i, i = edit'[m].base.own
             PROVE  i \notin {NoId, cmd'[m].id} /\ ~Met(i)'
  BY DEF FreshEdit, Met, Paired, Hellos, Frames
<1>1. CASE edit'[m] = edit[m]
  <2>1. i = edit[m].base.own /\ i \notin {NoId, cmd[m].id} /\ ~Met(i) /\ vaults[m].own = NoId
    BY <1>1 DEF FreshEdit, AloneAt
  <2>2. i \in Owns(m)
    BY <2>1 DEF Owns
  <2>3. \A q \in Machine : i # cmd[q].id
    BY <2>1, <2>2 DEF Identities, OwnsOK, Owns
  <2>4. ~Met(i)'
    BY <2>1, <2>3, MetFrom
  <2>5. i # cmd'[m].id
    <3>1. CASE cmd'[m] = NoCmd
      BY <2>1, <3>1, NoThingTypes
    <3>2. ASSUME NEW c, Enters(m, c) PROVE i # cmd'[m].id
      <4>1. cmd'[m].id = minted + 1 /\ minted + 1 \in Id \ Stranger
        BY <2>1, <3>2 DEF Enters, PairTypeOK
      <4> QED
        BY <2>2, <4>1, MintedIsNew
    <3>3. CASE SameCmd(cmd[m], cmd'[m]) \/ Follows(m) \/ Dials(m) \/ Admits(m) \/ Answered(m)
      BY SMTT(30), <2>1, <3>3 DEF SameCmd, Follows, Dials, Dialled, Admits, LetIn, Answered, Replied, GoesOn
    <3> QED
      BY <3>1, <3>2, <3>3, Courses DEF Course
  <2> QED
    BY <1>1, <2>1, <2>4, <2>5
<1>2. CASE edit'[m] # edit[m]
  <2>1. Mints(m) /\ cmd' = cmd /\ link' = link
    <3>1. \E q \in Machine : Edited(q)
      BY <1>2, WhoEdits
    <3>2. Edited(m)
      BY <1>2, <3>1 DEF Edited
    <3> QED
      BY <3>2, NoThingTypes DEF Edited, Asks, Drops, Removes, Stores
  <2>2. /\ i = minted + 1 /\ minted + 1 \in Id \ Stranger /\ vaults' = vaults
    BY <2>1 DEF Mints
  <2>3. ~Met(minted + 1) /\ minted + 1 \notin Owns(m) /\ minted + 1 # NoId
    BY <2>2, MintedIsNew, IdsAre
  <2>4. cmd[m].id # minted + 1
    BY <2>3 DEF Owns
  <2>5. ~Met(i)'
    BY <2>1, <2>2, <2>3 DEF Met, Paired, Hellos, Frames
  <2> QED
    BY <2>1, <2>2, <2>3, <2>4, <2>5
<1> QED
  BY <1>1, <1>2

LEMMA PartnerMeets ==
  ASSUME PairTypeOK, Structure, NEW m \in Machine, NEW n \in Machine, m # n, cmd[n].at \in Partnered,
         cmd[m].s = cmd[n].s, Partner(n) = m, Other(cmd[n].side) \in link[cmd[n].s].yes
  PROVE  cmd[m].at \in Partnered
<1>1. PICK s \in Connection : s = cmd[n].s /\ s # 0 /\ Attached(n, cmd[n], link[s]) /\ cmd[n].side \in Side
  BY OwnIs DEF Connected
<1>2. Attached(m, cmd[m], link[s]) /\ cmd[m].side \in Side
  BY <1>1, PairTypes DEF Structure
<1>3. cmd[m].side # cmd[n].side
  BY <1>1, <1>2 DEF Attached
<1>4. cmd[m].side = Other(cmd[n].side)
  BY <1>1, <1>2, <1>3 DEF Side, Other
<1> QED
  BY <1>1, <1>2, <1>4 DEF Attached, Partnered

LEMMA FreshKeeps ==
  ASSUME PairTypeOK, PairTypeOK', Structure, Structure', Identities, Talks, Effect,
         \A m \in Machine : AloneAt(m) /\ Fresh(m)
  PROVE  \A m \in Machine : Fresh(m)'
<1> SUFFICES ASSUME NEW m \in Machine, cmd'[m].created, cmd'[m].at \notin {"idle", "ack"}, NEW i, i = cmd'[m].id
             PROVE  /\ \A n \in Machine : cmd'[n].at \in Partnered /\ cmd'[n].peer.id = i => cmd'[n].s = cmd'[m].s
                    /\ \A s \in Connection, d \in Side : i \in Hellos(link'[s], d) => s = cmd'[m].s
                    /\ \A n \in Machine : i \in Paired(vaults'[n].peers) =>
                         cmd'[m].at \in Partnered /\ vaults'[n].own = cmd'[m].peer.id
  BY DEF Fresh, Paired, Hellos, Frames
<1>1. ASSUME NEW c, Enters(m, c)
      PROVE  /\ \A n \in Machine : ~(cmd'[n].at \in Partnered /\ cmd'[n].peer.id = i)
             /\ \A s \in Connection, d \in Side : i \notin Hellos(link'[s], d)
             /\ \A n \in Machine : i \notin Paired(vaults'[n].peers)
  <2>1. /\ cmd'[m] = c /\ c.at \notin Partnered /\ \A n \in Machine \ {m} : cmd'[n] = cmd[n]
        /\ link' = link /\ vaults' = vaults
    BY <1>1 DEF Enters, PairTypeOK, Partnered
  <2>2. i = minted + 1 /\ minted + 1 \in Id \ Stranger
    BY <1>1, <2>1 DEF Enters
  <2>3. ~Met(i)
    BY <2>2, MintedIsNew
  <2> QED
    BY <2>1, <2>3 DEF Met
<1>2. CASE ~\E c : Enters(m, c)
  <2>1. /\ cmd[m].id = i /\ cmd[m].created /\ cmd[m].at \notin {"idle", "ack"} /\ cmd[m].s \in {0, cmd'[m].s}
        /\ cmd[m].at \in Partnered => cmd'[m].at \in Partnered /\ cmd'[m].peer = cmd[m].peer
    <3>1. CASE SameCmd(cmd[m], cmd'[m])
      BY <3>1 DEF SameCmd
    <3>2. CASE Follows(m)
      BY <3>2 DEF Follows, Partnered
    <3>3. CASE Dials(m) \/ Admits(m) \/ Answered(m)
      <4>1. /\ cmd[m].id = i /\ cmd[m].created /\ cmd[m].at \in {"ready", "listening", "hello"}
            /\ cmd[m].at = "hello" => cmd'[m].s = cmd[m].s
        BY ZenonT(30), <3>3 DEF Dials, Dialled, Admits, LetIn, Answered, Replied, GoesOn
      <4>2. cmd[m].at # "hello" => cmd[m].s = 0
        BY <4>1, NoSession DEF Connected, Partnered
      <4> QED
        BY <4>1, <4>2 DEF Partnered
    <3> QED
      BY <1>2, <3>1, <3>2, <3>3, Courses, NoThingTypes DEF Course
  <2>2. /\ \A n \in Machine : cmd[n].at \in Partnered /\ cmd[n].peer.id = i => cmd[n].s = cmd[m].s
        /\ \A s \in Connection, d \in Side : i \in Hellos(link[s], d) => s = cmd[m].s
        /\ \A n \in Machine : i \in Paired(vaults[n].peers) =>
             cmd[m].at \in Partnered /\ vaults[n].own = cmd[m].peer.id
    BY <2>1 DEF Fresh
  <2>3. i # NoId /\ i \in Owns(m) /\ \A s \in Connection : s # 0
    BY <2>1, IdsAre DEF Structure, PlaceOK, Owns
  <2>4. ASSUME NEW n \in Machine, cmd'[n].at \in Partnered, cmd'[n].peer.id = i PROVE cmd'[n].s = cmd'[m].s
    <3>1. cmd'[n].s # 0
      BY <2>4 DEF Structure, PlaceOK, Connected
    <3>2. cmd'[n].s = cmd[m].s
      BY <2>2, <2>4, PeerFromStep
    <3> QED
      BY <2>1, <3>1, <3>2
  <2>5. ASSUME NEW s \in Connection, NEW d \in Side, i \in Hellos(link'[s], d) PROVE s = cmd'[m].s
    <3>1. CASE i \in Hellos(link[s], d)
      BY <2>1, <2>2, <2>3, <3>1
    <3>2. ASSUME NEW q \in Machine, i = cmd[q].id, cmd'[q].s = s PROVE s = cmd'[m].s
      <4>1. i \in Owns(q)
        BY <2>3, <3>2 DEF Owns
      <4>2. q = m
        BY <2>3, <4>1 DEF Identities, OwnsOK
      <4> QED
        BY <3>2, <4>2
    <3> QED
      BY <2>5, <3>1, <3>2, HellosFrom
  <2>6. cmd[m].at \in Partnered => cmd[m].peer.id # NoId
    BY IdsAre DEF Identities, PeersOK
  <2>7. ASSUME NEW n \in Machine, i \in Paired(vaults'[n].peers)
        PROVE  cmd'[m].at \in Partnered /\ vaults'[n].own = cmd'[m].peer.id
    <3>1. CASE Shrinks(n) \/ vaults'[n] = vaults[n]
      BY <2>1, <2>2, <2>7, <3>1 DEF Shrinks
    <3>2. CASE Named(n)
      BY <2>2, <2>6, <2>7, <3>2 DEF Named
    <3>3. CASE Wrote(n)
      <4>1. n # m
        BY <3>3 DEF Wrote
      <4>2. /\ cmd[n].at \in Partnered /\ vaults'[n].own = cmd[n].id /\ Other(cmd[n].side) \in link[cmd[n].s].yes
            /\ i # cmd[n].peer.id => i \in Paired(vaults[n].peers)
            /\ IF cmd[n].created THEN vaults[n].own = NoId ELSE vaults[n].own = cmd[n].id
        BY Zenon, <2>7, <3>3, WroteIs
      <4>3. CASE i # cmd[n].peer.id
        BY <2>1, <2>2, <2>6, <4>2, <4>3
      <4>4. CASE i = cmd[n].peer.id
        <5>1. Partner(n) = m
          BY <2>1, <4>2, <4>4, PartnerBy
        <5>2. cmd[n].s = cmd[m].s
          BY <2>2, <4>2, <4>4
        <5>3. cmd[m].at \in Partnered
          BY <4>1, <4>2, <5>1, <5>2, PartnerMeets
        <5>4. cmd[m].peer.id = cmd[n].id
          BY <4>1, <4>2, <5>2, <5>3, Together
        <5> QED
          BY <2>1, <4>2, <5>3, <5>4
      <4> QED
        BY <4>3, <4>4
    <3> QED
      BY <3>1, <3>2, <3>3, Writes DEF Wrote, Named
  <2> QED
    BY <2>4, <2>5, <2>7
<1> QED
  BY <1>1, <1>2

LEMMA OpposedKeeps ==
  ASSUME PairTypeOK, Structure, Identities, Effect,
         \A m \in Machine : AloneAt(m) /\ Steady(m) /\ Match(m) /\ Fresh(m) /\ FreshEdit(m),
         \A m, n \in Machine : Opposed(m, n)
  PROVE  \A m, n \in Machine : Opposed(m, n)'
<1>1. \A m, n \in Machine : Opposed(m, n)' <=> Opposed(n, m)'
  BY DEF Opposed
<1>2. \A m \in Machine : vaults[m].own # NoId => vaults[m].own \in Id
  BY PairTypes DEF Saved
<1>3. CASE \A m \in Machine : Shrinks(m)
  <2> SUFFICES ASSUME NEW m \in Machine, NEW n \in Machine PROVE Opposed(m, n)'
    OBVIOUS
  <2>1. /\ \A j \in Id : vaults'[m].peers[j] # NoPeer =>
             vaults[m].peers[j] # NoPeer /\ vaults'[m].peers[j] = vaults[m].peers[j]
        /\ \A j \in Id : vaults'[n].peers[j] # NoPeer =>
             vaults[n].peers[j] # NoPeer /\ vaults'[n].peers[j] = vaults[n].peers[j]
        /\ vaults'[m].own = vaults[m].own /\ vaults'[n].own = vaults[n].own
    BY <1>3 DEF Shrinks, Paired
  <2> DEFINE i == vaults[m].own
             j == vaults[n].own
  <2>2. /\ m # n /\ i # NoId /\ j # NoId /\ vaults[m].peers[j] # NoPeer /\ vaults[n].peers[i] # NoPeer
             => vaults[m].peers[j].role # vaults[n].peers[i].role
        /\ (i # NoId => i \in Id) /\ (j # NoId => j \in Id)
    BY <1>2 DEF Opposed
  <2>3. m # n /\ i # NoId /\ j # NoId /\ vaults'[m].peers[j] # NoPeer /\ vaults'[n].peers[i] # NoPeer
          => vaults'[m].peers[j].role # vaults'[n].peers[i].role
    BY <2>1, <2>2
  <2>4. vaults'[m].own = i /\ vaults'[n].own = j
    BY <2>1
  <2> HIDE DEF i, j
  <2> QED
    BY <2>3, <2>4 DEF Opposed
<1>4. ASSUME NEW m \in Machine, NEW n \in Machine, vaults'[m] = vaults[m], vaults'[n] = vaults[n] PROVE Opposed(m, n)'
  BY <1>4 DEF Opposed
<1>5. ASSUME NEW m \in Machine, NEW n \in Machine, m # n, Wrote(m) PROVE Opposed(m, n)'
  <2> DEFINE i == cmd[m].id
             j == vaults[n].own
             t == vaults[m].peers
             t2 == vaults'[m].peers
             p == cmd[m].peer.id
  <2>1. /\ vaults'[m].own = i /\ vaults'[n] = vaults[n] /\ cmd[m].at \in Partnered /\ i \in Id
        /\ t2[p].role = IF t[p] # NoPeer THEN t[p].role ELSE cmd[m].peer.role
        /\ \A x \in Paired(t2) \ {p} : x \in Paired(t) /\ t2[x] = t[x]
        /\ Other(cmd[m].side) \in link[cmd[m].s].yes
        /\ IF cmd[m].created THEN vaults[m].own = NoId ELSE vaults[m].own = i
    BY Zenon, <1>5, WroteIs DEF Wrote
  <2> SUFFICES ASSUME j # NoId, t2[j] # NoPeer, vaults[n].peers[i] # NoPeer
               PROVE  t2[j].role # vaults[n].peers[i].role
    BY Zenon, <2>1 DEF Opposed
  <2>2. CASE j = p
    <3>1. Partner(m) = n
      BY Zenon, <2>1, <2>2, PartnerBy
    <3>2. vaults[n].peers[i].role # cmd[m].peer.role
      BY Zenon, <2>1, <3>1 DEF Match
    <3>3. t[p] # NoPeer => t[p].role = cmd[m].peer.role
      BY Zenon, <2>1 DEF Steady
    <3> QED
      BY Zenon, <2>1, <2>2, <3>2, <3>3
  <2>3. CASE j # p
    <3>1. t[j] # NoPeer /\ t2[j] = t[j]
      BY Zenon, <1>2, <2>1, <2>3 DEF Paired
    <3>2. CASE cmd[m].created
      <4>1. cmd[m].at \notin {"idle", "ack"}
        BY <1>5 DEF Wrote
      <4>2. i \in Paired(vaults[n].peers)
        BY Zenon, <2>1 DEF Paired
      <4> QED
        BY <2>3, <3>2, <4>1, <4>2 DEF Fresh
    <3>3. CASE ~cmd[m].created
      <4>1. vaults[m].own = i /\ i # NoId
        BY <2>1, <3>3, IdsAre
      <4> QED
        BY Zenon, <1>5, <3>1, <4>1 DEF Opposed
    <3> QED
      BY <3>2, <3>3
  <2> QED
    BY <2>2, <2>3
<1>6. ASSUME NEW m \in Machine, NEW n \in Machine, m # n, Named(m) PROVE Opposed(m, n)'
  <2>1. /\ vaults'[n] = vaults[n] /\ vaults'[m].own = edit[m].base.own /\ ~Met(edit[m].base.own)
        /\ edit[m].base.own \in Id \cup {NoId}
    BY <1>6, PairTypes DEF Named, FreshEdit, Saved
  <2>2. edit[m].base.own = NoId \/ vaults[n].peers[edit[m].base.own] = NoPeer
    BY <2>1 DEF Met, Paired
  <2> QED
    BY Zenon, <2>1, <2>2 DEF Opposed
<1>7. ASSUME NEW q \in Machine, Wrote(q) \/ Named(q), NEW m \in Machine, NEW n \in Machine PROVE Opposed(m, n)'
  <2>1. \A x \in Machine \ {q} : vaults'[x] = vaults[x]
    BY <1>7 DEF Wrote, Named
  <2>2. CASE m = n
    BY <2>2 DEF Opposed
  <2>3. CASE m # n /\ q \notin {m, n}
    BY <1>4, <2>1, <2>3
  <2>4. CASE m # n /\ q = m
    BY <1>5, <1>6, <1>7, <2>4
  <2>5. CASE m # n /\ q = n
    BY <1>1, <1>5, <1>6, <1>7, <2>5
  <2> QED
    BY <2>2, <2>3, <2>4, <2>5
<1> QED
  BY <1>3, <1>7, Writes

LEMMA InitRoles ==
  ASSUME PairInit, PairTypeOK, Identities
  PROVE  /\ Ordered /\ Talks
         /\ \A m \in Machine : Remembers(m) /\ Steady(m) /\ Match(m) /\ Fresh(m) /\ FreshEdit(m)
         /\ \A m, n \in Machine : Opposed(m, n)
<1>1. /\ \A m \in Machine : cmd[m].at = "idle" /\ edit[m].at = "idle"
      /\ \A s \in Connection : link[s].h = "none" /\ link[s].yes = {}
      /\ minted = MaxOwned
      /\ \A m \in Machine : vaults[m].own \in 0..MaxOwned /\ Paired(vaults[m].peers) \subseteq Stranger
  <2>1. \A v \in Vaults0 : v.own \in 0..MaxOwned /\ Paired(v.peers) \subseteq Stranger
    BY PairingAssumption DEF PairingAssumption
  <2>2. NewVault.own \in 0..MaxOwned /\ Paired(NewVault.peers) \subseteq Stranger
    BY NoThingTypes, IdsAre
  <2> QED
    BY <2>1, <2>2, NoThingTypes DEF PairInit
<1>2. Ordered
  BY <1>1 DEF Ordered, Before, Newest, Waits, Said
<1>3. Talks
  BY Zenon, <1>1 DEF Talks, Talk, LIn, CIn
<1>4. \A m \in Machine : Remembers(m) /\ Steady(m) /\ Match(m) /\ Fresh(m) /\ FreshEdit(m)
  BY <1>1 DEF Remembers, Steady, Match, Fresh, FreshEdit, Partnered
<1>5. ASSUME NEW m \in Machine, NEW n \in Machine PROVE Opposed(m, n)
  <2>1. vaults[n].own # NoId => vaults[n].own \in Id /\ vaults[n].own \notin Stranger
    BY <1>1, IdsAre
  <2>2. vaults[n].own # NoId => vaults[m].peers[vaults[n].own] = NoPeer
    BY <1>1, <2>1 DEF Paired
  <2> QED
    BY <2>2 DEF Opposed
<1> QED
  BY <1>2, <1>3, <1>4, <1>5

\* Two machines that have each other as peers agree on which of them is the source,
\* also when each got there in a session that the other did not finish, if nobody
\* else saves between a command's last look and its save.
THEOREM RolesAgreed == Alone => (PairSpec => []RolesMatch)
<1> SUFFICES ASSUME Alone PROVE PairSpec => []RolesMatch
  OBVIOUS
<1> DEFINE I == /\ PairTypeOK /\ Structure /\ Identities /\ Ordered /\ Talks
                /\ \A m \in Machine : /\ AloneAt(m) /\ Remembers(m) /\ Steady(m) /\ Match(m)
                                      /\ Fresh(m) /\ FreshEdit(m)
                /\ \A m, n \in Machine : Opposed(m, n)
<1>1. PairInit => I
  BY InitTypes, InitIdentities, InitAlone, InitRoles
<1>2. ASSUME I, [PairNext]_pairVars PROVE I'
  <2>1. Effect
    BY <1>2, NextDoes
  <2>2. PairTypeOK' /\ Structure'
    BY <1>2, <2>1, EffectKeeps
  <2>3. Identities' /\ Ordered' /\ Talks'
    BY <1>2, <2>1, <2>2, EffectLawful, OrderedKeeps, TalksKeeps
  <2>4. \A m \in Machine : AloneAt(m)'
    BY <1>2, <2>1, AloneKeeps
  <2>5. \A m \in Machine : Remembers(m)'
    BY <1>2, <2>1, RemembersKeeps
  <2>6. \A m \in Machine : Steady(m)'
    BY <1>2, <2>1, <2>2, SteadyKeeps
  <2>7. \A m \in Machine : Match(m)'
    BY <1>2, <2>1, MatchKeeps
  <2>8. \A m \in Machine : Fresh(m)' /\ FreshEdit(m)'
    BY <1>2, <2>1, <2>2, FreshKeeps, FreshEditKeeps
  <2>9. \A m, n \in Machine : Opposed(m, n)'
    BY <1>2, <2>1, OpposedKeeps
  <2> QED
    BY <2>2, <2>3, <2>4, <2>5, <2>6, <2>7, <2>8, <2>9
<1>3. I => RolesMatch
  BY DEF RolesMatch, Opposed
<1> HIDE DEF I
<1>4. I /\ [PairNext]_pairVars => I'
  BY <1>2
<1> QED
  BY <1>1, <1>3, <1>4, PTL DEF PairSpec

=============================================================================
