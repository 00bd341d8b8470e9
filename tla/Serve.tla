-------------------------------- MODULE Serve --------------------------------
(***************************************************************************)
(* Who gets a secret, and after whose approval: the requests to abra serve  *)
(* (api/server.ts, its web dash in api/dash.ts, api/passkeys.ts and         *)
(* api/session.ts) and to the MCP server (mcp/server.ts), with the gate     *)
(* both ask through (platform/reveal-gate.ts) and their session grants      *)
(* (api/grants.ts, mcp/grants.ts).                                          *)
(*                                                                         *)
(* Requests are handled side by side: one waits for who called it, for the  *)
(* user or for the vault, while others go on, grants and sessions end, and  *)
(* a server is started anew.  A project has one variable, the dash one      *)
(* relying party, the machine one connection.  A client answers a challenge *)
(* with the one ceremony or the other, maybe twice, late or never.          *)
(***************************************************************************)
EXTENDS Naturals, Sequences, FiniteSets

CONSTANTS
  MaxSlot,         \* bound on the requests handled at a time
  App,             \* who asks: a command line, or the name an MCP agent gives itself
  Exe,             \* the executables of processes
  Project,
  AgentGrants,     \* the <<exe, project>> the agent has grants for
  All,             \* an API key's projects: null
  Nobody,
  MaxRequest, MaxKey, MaxChallenge,   \* bounds on requests, on keys at a time, on challenges
  MaxTime,                            \* bound on the clock
  MAX_TTL, CHALLENGE_TTL, SESSION_TTL,
  Ttl, KeyTime     \* what requests ask for; 0: no grant, a key that does not expire

Slot    == 1..MaxSlot
Server  == {"serve", "mcp"}
Backend == {"biometric", "passphrase", "password"}

\* What there is of a project: nothing, the project, its variable.
Content == 0..2
Key     == [id : 1..MaxKey, project : Project \cup {All}, until : Nat]
Vault   == [proj : [Project -> Content], keys : SUBSET Key, connected : BOOLEAN,
            passkeys : SUBSET (0..MaxChallenge)]    \* by the challenge they were made with

ASSUME ServeAssumption ==
  /\ MaxSlot \in Nat /\ Nobody \notin App \cup Exe \cup Project /\ All \notin Project /\ Project # {}
  /\ AgentGrants \subseteq Exe \X Project
  /\ MaxRequest \in Nat /\ MaxKey \in Nat \ {0} /\ MaxChallenge \in Nat /\ MaxTime \in Nat
  /\ MAX_TTL \in Nat \ {0} /\ CHALLENGE_TTL \in Nat \ {0} /\ SESSION_TTL \in Nat \ {0}
  /\ Ttl \subseteq Nat /\ KeyTime \subseteq Nat

VARIABLES
  backend, tty,      \* how the machine approves, and whether there is a terminal to ask on
  vault, now,
  grants,            \* the servers' session grants
  queue, asking,     \* authChain: the requests waiting for their dialog, the one that has it
  sessions,          \* the browser's, with the challenge each was opened with
  challenge,         \* the one challenge kept
  req,               \* what each slot is handling
  begun, made,       \* how many requests have come, challenges been made
  approved,          \* what the user approved since the server's grants were last dropped
  enrolling,         \* the challenges made after the user approved a registration
  opened             \* how often each challenge opened a session
machine == <<backend, tty>>
browser == <<sessions, challenge, made, enrolling, opened>>
vars == <<machine, vault, now, grants, queue, asking, browser, req, begun, approved>>

(***************************************************************************)
(* base: the vault as the request read it; new: what it is to save; how:    *)
(* what an answer with values was given for; stale: of one that adds to the *)
(* vault, has another saved since its user approved, or since it came.      *)
(***************************************************************************)
Empty == [proj |-> [p \in Project |-> 0], keys |-> {}, connected |-> FALSE, passkeys |-> {}]
Idle  == [at |-> "idle", kind |-> "secret", server |-> "serve", app |-> Nobody, project |-> Nobody,
          ttl |-> 0, base |-> Empty, new |-> Empty, key |-> 0,
          how |-> "none", stale |-> FALSE]

Adding == {"issue", "register", "login"}

Init ==
  /\ backend \in Backend /\ tty \in BOOLEAN /\ (backend = "biometric" => tty)
  /\ vault = [Empty EXCEPT !.proj = [p \in Project |-> 2], !.connected = TRUE, !.passkeys = {0},
                !.keys = {[id |-> 1, project |-> p, until |-> 1] : p \in {CHOOSE p \in Project : TRUE}}]
  /\ now = 1 /\ grants = {} /\ queue = <<>> /\ asking = 0
  /\ sessions = {[challenge |-> 0, until |-> 1 + SESSION_TTL]}
  /\ challenge = [value |-> 0, until |-> 0] /\ made = 0 /\ enrolling = {0}
  /\ opened = [c \in 0..MaxChallenge |-> IF c = 0 THEN 1 ELSE 0]
  /\ req = [r \in Slot |-> Idle] /\ begun = 0 /\ approved = {}

At(r, at)  == req[r].at = at
Goes(r, c) == req' = [req EXCEPT ![r] = c]

\* A request comes, takes the first free slot, and is handled as far as c.
Begin(r, c) ==
  /\ At(r, "idle") /\ \A q \in 1..(r - 1) : ~At(q, "idle")
  /\ begun < MaxRequest /\ begun' = begun + 1 /\ Goes(r, c)

\* An answer has gone out, or the caller has.
Done(r) ==
  /\ At(r, "answered")
  /\ Goes(r, Idle)
  /\ UNCHANGED <<machine, vault, now, grants, queue, asking, browser, begun, approved>>

(***************************************************************************)
(* Session grants.                                                          *)
(***************************************************************************)
\* A slip: for any project.
findAnyGrant(s, app, p) == \E g \in grants : g.server = s /\ g.app = app /\ g.until > now
findGrant(s, app, p) ==
  \E g \in grants : g.server = s /\ g.app = app /\ g.project = p /\ g.until > now

\* One for each app and project: a new one replaces the old.
issueGrant(s, app, p, ttl) ==
  {g \in grants : ~(g.server = s /\ g.app = app /\ g.project = p)}
    \cup {[server |-> s, app |-> app, project |-> p, until |-> now + ttl]}

\* None under a passphrase, a day at most.
GrantTime(ttl) == IF backend = "passphrase" THEN 0 ELSE IF ttl > MAX_TTL THEN MAX_TTL ELSE ttl

\* DELETE /grants
revokeAll ==
  /\ grants' = {g \in grants : g.server # "serve"}
  /\ approved' = {a \in approved : a.server # "serve"}
  /\ UNCHANGED <<machine, vault, now, queue, asking, browser, req, begun>>

(***************************************************************************)
(* POST /secret.                                                            *)
(***************************************************************************)
HasVar(p) == vault.proj[p] = 2

\* Up to identifyPeer(); from the LAN an API key is needed.
Secret(r, app, p, ttl) ==
  /\ HasVar(p)
  /\ Begin(r, [Idle EXCEPT !.at = "identify", !.app = app, !.project = p, !.ttl = ttl])
  /\ UNCHANGED <<machine, vault, now, grants, queue, asking, browser, approved>>

\* With an API key: looked up in the vault as read, and checked, the LAN's requests too.
SecretWithKey(r, p, id) ==
  /\ HasVar(p)
  /\ Begin(r, [Idle EXCEPT !.at = "key", !.project = p, !.key = id, !.base = vault])
  /\ UNCHANGED <<machine, vault, now, grants, queue, asking, browser, approved>>

findValidApiKey(v, id) == {k \in v.keys : k.id = id /\ (k.until # 0 => now <= k.until)}
apiKeyHasAccess(k, p) == k.project = All \/ k.project = p

AnswerKey(r) ==
  LET c == req[r]
      good == \E k \in findValidApiKey(c.base, c.key) : apiKeyHasAccess(k, c.project)
  IN
  /\ At(r, "key")
  /\ Goes(r, IF good THEN [c EXCEPT !.at = "answered", !.how = "key"] ELSE Idle)
  /\ UNCHANGED <<machine, vault, now, grants, queue, asking, browser, begun, approved>>

\* The caller is known: a grant, or enqueueAuth().
Identified(r) ==
  LET c == req[r] IN
  /\ At(r, "identify")
  /\ IF GrantTime(c.ttl) > 0 /\ findGrant("serve", c.app, c.project)
     THEN Goes(r, [c EXCEPT !.at = "answered", !.how = "grant"]) /\ UNCHANGED queue
     ELSE Goes(r, [c EXCEPT !.at = "queued"]) /\ queue' = Append(queue, r)
  /\ UNCHANGED <<machine, vault, now, grants, asking, browser, begun, approved>>

\* The next of the queue is asked about when the one before is settled.  A slip: at once.
AskAtOnce(r) ==
  /\ queue # <<>> /\ Head(queue) = r
  /\ queue' = Tail(queue) /\ asking' = r
  /\ Goes(r, [req[r] EXCEPT !.at = "dialog"])
  /\ UNCHANGED <<machine, vault, now, grants, browser, begun, approved>>
Ask(r) ==
  /\ asking = 0 /\ queue # <<>> /\ Head(queue) = r
  /\ queue' = Tail(queue) /\ asking' = r
  /\ Goes(r, [req[r] EXCEPT !.at = "dialog"])
  /\ UNCHANGED <<machine, vault, now, grants, browser, begun, approved>>

\* get_secrets of the MCP server: who asks is what the agent says; no queue.
getSecrets(r, app, p, ttl) ==
  LET c == [Idle EXCEPT !.server = "mcp", !.app = app, !.project = p, !.ttl = ttl] IN
  /\ HasVar(p)
  /\ Begin(r, IF GrantTime(ttl) > 0 /\ findGrant("mcp", app, p)
              THEN [c EXCEPT !.at = "answered", !.how = "grant"] ELSE [c EXCEPT !.at = "dialog"])
  /\ UNCHANGED <<machine, vault, now, grants, queue, asking, browser, approved>>

(***************************************************************************)
(* The dash.  Its requests need a session; what they are to save is made    *)
(* of the vault they read before they ask.                                  *)
(***************************************************************************)
isAuthed == \E s \in sessions : s.until > now

Sets(v, ps, c) == {[v EXCEPT !.proj[p] = c] : p \in ps}
Holding(v, cs) == {p \in Project : v.proj[p] \in cs}
createProject(v)    == Sets(v, Holding(v, {0}), 1)
deleteProject(v)    == Sets(v, Holding(v, {1, 2}), 0)
createVar(v)        == Sets(v, Holding(v, {1}), 2)
updateVar(v)        == Sets(v, Holding(v, {2}), 2)
deleteVar(v)        == Sets(v, Holding(v, {2}), 1)
deleteConnection(v) == {[v EXCEPT !.connected = FALSE] : x \in {y \in {v} : y.connected}}
revokeApiKey(v)     == {[v EXCEPT !.keys = @ \ {k}] : k \in v.keys}

DashEdits(v) == createProject(v) \cup deleteProject(v) \cup createVar(v) \cup updateVar(v)
                  \cup deleteVar(v) \cup deleteConnection(v) \cup revokeApiKey(v)

DashEdit(r) ==
  /\ isAuthed
  /\ \E v \in DashEdits(vault) : Begin(r, [Idle EXCEPT !.at = "dialog", !.kind = "edit", !.new = v])
  /\ UNCHANGED <<machine, vault, now, grants, queue, asking, browser, approved>>

revealVar(r, p) ==
  /\ isAuthed /\ HasVar(p)
  /\ Begin(r, [Idle EXCEPT !.at = "dialog", !.kind = "reveal", !.project = p])
  /\ UNCHANGED <<machine, vault, now, grants, queue, asking, browser, approved>>

\* createApiKey() asks first and reads the vault then.  A slip: as the others do.
NewKey(v, p, until) ==
  LET fresh == {k \in 1..MaxKey : \A x \in v.keys : x.id # k}
      first == {k \in fresh : \A j \in fresh : k <= j}
  IN [v EXCEPT !.keys = @ \cup {[id |-> k, project |-> p, until |-> until] : k \in first}]
createApiKeyEarly(r, p, until) ==
  /\ isAuthed
  /\ Begin(r, [Idle EXCEPT !.at = "dialog", !.kind = "issue", !.project = p, !.ttl = until,
                 !.new = NewKey(vault, p, until)])
  /\ UNCHANGED <<machine, vault, now, grants, queue, asking, browser, approved>>
createApiKey(r, p, until) ==
  /\ isAuthed
  /\ Begin(r, [Idle EXCEPT !.at = "dialog", !.kind = "issue", !.project = p, !.ttl = until])
  /\ UNCHANGED <<machine, vault, now, grants, queue, asking, browser, approved>>

(***************************************************************************)
(* Passkeys.                                                                *)
(***************************************************************************)
\* The last one made is kept, whatever it was made for.
setChallenge ==
  /\ made < MaxChallenge /\ made' = made + 1
  /\ challenge' = [value |-> made + 1, until |-> now + CHALLENGE_TTL]

registerOptions(r) ==
  /\ Begin(r, [Idle EXCEPT !.at = "dialog", !.kind = "register"])
  /\ UNCHANGED <<machine, vault, now, grants, queue, asking, browser, approved>>

authOptions ==
  /\ vault.passkeys # {}
  /\ setChallenge
  /\ UNCHANGED <<machine, vault, now, grants, queue, asking, sessions, enrolling, opened, req, begun, approved>>

\* takeChallenge(): it is gone, whatever comes of the ceremony.  A slip: it stays.
KeepChallenge == challenge.until > now /\ UNCHANGED challenge
takeChallenge == challenge.until > now /\ challenge' = [value |-> 0, until |-> 0]

\* registerVerify() and authVerify(), up to where they read or save the vault: x is
\* the challenge a client has answered, by the ceremony of the one or of the other.
Verify(r, kind, x) ==
  /\ takeChallenge
  /\ Begin(r, CASE x # challenge.value -> Idle
                [] x = challenge.value /\ kind = "register" ->
                     [Idle EXCEPT !.at = "load", !.kind = "register", !.key = x]
                [] x = challenge.value /\ kind = "login" ->
                     [Idle EXCEPT !.at = "save", !.kind = "login", !.key = x, !.new = vault])
  /\ UNCHANGED <<machine, vault, now, grants, queue, asking, sessions, made, enrolling, opened, approved>>

(***************************************************************************)
(* The user's answer, or the dialog's end.  A helper's dialog has a time    *)
(* limit (30 seconds on macOS, 120 with polkit), a prompt for a passphrase  *)
(* or a password has none; without a terminal it fails at once, and a       *)
(* secret of the servers can still be had, under a passphrase, with a grant *)
(* of the agent for the calling process.  The MCP server's standard input   *)
(* is its client, never a terminal.                                         *)
(***************************************************************************)
CanAsk(c) == CASE backend = "passphrase" -> tty
               [] backend = "password"   -> tty /\ c.server = "serve"
               [] backend = "biometric"  -> TRUE
HasTimer(c) == backend = "biometric" \/ ~CanAsk(c)

Settled(r) == asking' = IF asking = r THEN 0 ELSE asking

\* An approved request: answered, to be saved, or to read the vault first.
Agreed(c) == [c EXCEPT !.stale = FALSE,
               !.at = IF c.kind \in {"secret", "reveal"} THEN "answered"
                      ELSE IF c.new # Empty THEN "save" ELSE "load",
               !.how = IF c.kind \in {"secret", "reveal"} THEN "dialog" ELSE @]

Approve(r) ==
  LET c == req[r] IN
  /\ At(r, "dialog") /\ CanAsk(c)
  /\ Settled(r)
  /\ approved' = IF c.kind = "secret"
                 THEN approved \cup {[server |-> c.server, app |-> c.app, project |-> c.project, at |-> now]}
                 ELSE approved
  /\ grants' = IF c.kind = "secret" /\ GrantTime(c.ttl) > 0
               THEN issueGrant(c.server, c.app, c.project, GrantTime(c.ttl)) ELSE grants
  /\ IF c.kind = "register"
     THEN setChallenge /\ enrolling' = enrolling \cup {made + 1} /\ Goes(r, Idle)
     ELSE Goes(r, Agreed(c)) /\ UNCHANGED <<made, challenge, enrolling>>
  /\ UNCHANGED <<machine, vault, now, queue, sessions, opened, begun>>

\* Refused, out of time, or the wrong passphrase.  A slip: the turn is never given up.
DenyAndForget(r) ==
  /\ At(r, "dialog")
  /\ Goes(r, Idle)
  /\ UNCHANGED <<machine, vault, now, grants, queue, asking, browser, begun, approved>>
Deny(r) ==
  /\ At(r, "dialog")
  /\ Settled(r) /\ Goes(r, Idle)
  /\ UNCHANGED <<machine, vault, now, grants, queue, browser, begun, approved>>

\* authorizeReveal(), without a terminal.  The agent is asked about the executable of
\* the calling process, the MCP server's parent or the connection's peer, whatever that
\* runs by now, never about the name it goes by.
ViaAgent(r) ==
  LET c == req[r] IN
  /\ At(r, "dialog") /\ backend = "passphrase" /\ ~CanAsk(c) /\ c.kind = "secret"
  /\ \E exe \in Exe : <<exe, c.project>> \in AgentGrants
  /\ Settled(r)
  /\ Goes(r, [c EXCEPT !.at = "answered", !.how = "agent"])
  /\ UNCHANGED <<machine, vault, now, grants, queue, browser, begun, approved>>

\* Reading the vault after the approval, or the ceremony.
Load(r) ==
  LET c == req[r] IN
  /\ At(r, "load")
  /\ IF c.kind = "issue" /\ c.project # All /\ vault.proj[c.project] = 0
     THEN Goes(r, Idle)
     ELSE Goes(r, [c EXCEPT !.at = "save", !.stale = FALSE,
                     !.new = IF c.kind = "issue" THEN NewKey(vault, c.project, c.ttl)
                             ELSE [vault EXCEPT !.passkeys = @ \cup {c.key}]])
  /\ UNCHANGED <<machine, vault, now, grants, queue, asking, browser, begun, approved>>

\* saveVault(), and what follows: after a ceremony, issueSession().
Save(r) ==
  LET c == req[r] IN
  /\ At(r, "save")
  /\ vault' = c.new
  /\ req' = [q \in Slot |-> IF q = r THEN Idle ELSE [req[q] EXCEPT !.stale = req[q].kind \in Adding]]
  /\ IF c.kind \in {"register", "login"}
     THEN /\ sessions' = {s \in sessions : s.until > now} \cup {[challenge |-> c.key, until |-> now + SESSION_TTL]}
          /\ opened' = [opened EXCEPT ![c.key] = @ + 1]
     ELSE UNCHANGED <<sessions, opened>>
  /\ UNCHANGED <<machine, now, grants, queue, asking, challenge, made, enrolling, begun, approved>>

(***************************************************************************)
(* A server is stopped and started: its grants, sessions, challenge and     *)
(* requests are gone.                                                       *)
(***************************************************************************)
Restart(s) ==
  /\ grants' = {g \in grants : g.server # s} /\ approved' = {a \in approved : a.server # s}
  /\ req' = [r \in Slot |-> IF req[r].server = s THEN Idle ELSE req[r]]
  /\ IF s = "serve"
     THEN queue' = <<>> /\ asking' = 0 /\ sessions' = {} /\ challenge' = [value |-> 0, until |-> 0]
     ELSE UNCHANGED <<queue, asking, sessions, challenge>>
  /\ UNCHANGED <<machine, vault, now, made, enrolling, opened, begun>>

Tick ==
  /\ now < MaxTime /\ now' = now + 1
  /\ UNCHANGED <<machine, vault, grants, queue, asking, browser, req, begun, approved>>

Handled(r) == Identified(r) \/ Ask(r) \/ AnswerKey(r) \/ Load(r) \/ Save(r) \/ Done(r)
Closed(r)  == Approve(r) \/ Deny(r) \/ ViaAgent(r)

Next ==
  \/ \E r \in Slot :
       \/ Handled(r) \/ Closed(r) \/ DashEdit(r) \/ registerOptions(r)
       \/ \E p \in Project : revealVar(r, p)
       \/ \E p \in Project, app \in App, ttl \in Ttl : Secret(r, app, p, ttl) \/ getSecrets(r, app, p, ttl)
       \/ \E p \in Project, id \in 1..MaxKey : SecretWithKey(r, p, id)
       \/ \E p \in Project \cup {All}, t \in KeyTime : createApiKey(r, p, IF t = 0 THEN 0 ELSE now + t)
       \/ \E kind \in {"register", "login"}, x \in 1..made : Verify(r, kind, x)
  \/ authOptions \/ revokeAll \/ Tick
  \/ \E s \in Server : Restart(s)

\* Handlers run on, and a dialog that has a time limit ends; a prompt need not.
Spec == Init /\ [][Next]_vars
  /\ \A r \in Slot : WF_vars(Handled(r)) /\ WF_vars(HasTimer(req[r]) /\ Closed(r))

(***************************************************************************)
(* Properties.                                                              *)
(***************************************************************************)
ApprovedBefore(c) ==
  \E a \in approved : a.server = c.server /\ a.app = c.app /\ a.project = c.project /\ now < a.at + MAX_TTL

\* Values go out without a dialog, for a session grant, only when the user has approved a
\* request of the same caller for the same project, at the same server, within the last
\* day and since its grants were last revoked or lost (api/grants.ts, mcp/grants.ts).
GrantsBacked == [][\A r \in Slot :
  ~At(r, "answered") /\ req'[r].at = "answered" /\ req'[r].how = "grant"
    => ApprovedBefore(req'[r])]_vars

\* POST /secret asks about one request at a time (server.ts: enqueueAuth).
OneDialog ==
  \A q, r \in Slot :
    (\A x \in {q, r} : At(x, "dialog") /\ req[x].kind = "secret" /\ req[x].server = "serve") => q = r

\* Every request in the queue gets its dialog in the end, whatever became of those before
\* it, where dialogs have a time limit or fail at once (server.ts: enqueueAuth).  A prompt
\* for a passphrase or a password has none (auth-passphrase.ts, auth-password.ts), and a
\* request behind one may wait for ever.
EveryoneAsked == \A r \in Slot : At(r, "queued") /\ HasTimer(req[r]) ~> ~At(r, "queued")

\* What docs/CROSS-PLATFORM.md says: a dialog ends, by its user or by a time-out.  TLC
\* refutes it (README.md): the prompts for a passphrase and a password have none.
PromptsEnd == \A r \in Slot : At(r, "dialog") ~> ~At(r, "dialog")

\* A challenge opens one session at most, however ceremonies overlap, repeat or come late
\* (passkeys.ts).
CeremoniesOnce ==
  /\ \A c \in 0..MaxChallenge : opened[c] <= 1
  /\ \A s \in sessions : opened[s.challenge] = 1

\* What passkeys.ts says: a passkey comes of a registration the user has approved.  TLC
\* refutes it (README.md): the challenges are not told apart, and one made for a login
\* enrols, too.
EnrolledWithApproval == vault.passkeys \subseteq enrolling

\* Issuing a key, enrolling a passkey and logging in undo nothing that was saved while
\* the user was asked: they read the vault after that (dash.ts: createApiKey;
\* passkeys.ts).  The dash's other edits read it before, and do.
AddedToLatest ==
  [][\A r \in Slot :
       At(r, "save") /\ req'[r].at = "idle" /\ req[r].kind \in Adding /\ ~req[r].stale
         => /\ vault'.proj = vault.proj /\ vault'.connected = vault.connected
            /\ vault.keys \subseteq vault'.keys /\ vault.passkeys \subseteq vault'.passkeys]_vars
=============================================================================
