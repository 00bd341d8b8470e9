------------------------------ MODULE LanSync ------------------------------
(***************************************************************************)
(* Sync over the local network: the host of src/usb/lan-host.ts and the     *)
(* clients of src/usb/lan-client.ts.                                        *)
(*                                                                         *)
(* The host's handlers are coroutines of one process: the session is        *)
(* checked when a request comes in, then the handler waits for the body,    *)
(* the vault, an approval and two writes, while other requests, the TTL     *)
(* timer, a restart of the host and other commands of the machine go on.    *)
(* A client may stop at any point, and gives up on a reply after 30 s.      *)
(*                                                                         *)
(* A session has its own PIN and certificate, so a request belongs to the   *)
(* session it was made for.  TLS, mDNS and the sealing of bundles are left  *)
(* out; requests over the size limit and malformed bodies are refused       *)
(* requests.  A client has one push at the host at a time.                  *)
(***************************************************************************)
EXTENDS ThreeWayMerge, ScopedMerge, Naturals

CONSTANTS
  Client,
  Host,
  Typed,        \* the entries users type on each machine
  Everything,   \* the scope of a session started without --project
  Scopes,       \* what hosts are started with
  MaxFailures,  \* PIN_MAX_FAILURES
  MaxSessions,  \* bound on hosts started
  MaxEdits      \* bound on user edits

Machine == Client \cup {Host}
Session == 1..MaxSessions

ASSUME LanAssumption ==
  /\ Host \notin Client
  /\ Typed \in [Machine -> SUBSET Entry]
  /\ \A scope \in SUBSET Project : Everything # scope
  /\ Scopes \subseteq SUBSET Project \cup {Everything}
  /\ MaxFailures \in Nat \ {0}
  /\ MaxSessions \in Nat
  /\ MaxEdits \in Nat

VARIABLES
  vault,     \* what each machine's vault.enc holds
  base,      \* each client's sync base for the host (lan:<deviceId>)
  hostBase,  \* the host's sync base for each client
  session,   \* scope and --allow-deletes of the sessions started so far
  active,    \* the one that listens, 0 for none
  failures,  \* the wrong PINs it has seen
  handler,   \* each client's push at the host, with what the handler has read
  pc,        \* where each client stands
  job,       \* what it has read and decided
  edits
hostVars == <<session, active, failures, handler, hostBase>>
vars == <<vault, base, hostBase, session, active, failures, handler, pc, job, edits>>

Sessions == [ scope : SUBSET Project \cup {Everything},
              allow : BOOLEAN ]
NotStarted == [scope |-> {}, allow |-> FALSE]

Handlers == [ at      : {"none", "entered", "asked", "saved"},
              session : Session \cup {0},
              pushed  : Vaults,
              current : Vaults ]
NoHandler == [at |-> "none", session |-> 0, pushed |-> EmptyVault, current |-> EmptyVault]

Steps == {"idle", "pulled", "approved", "push", "waiting", "acked", "scoped", "scoped merged"}

Jobs == [ session : Session \cup {0},
          theirs  : Vaults,              \* the host's vault, from a full bundle
          shares  : Shares,              \* its projects, from a scoped one
          ours    : Vaults,
          base    : Vaults,
          res     : Resolutions,
          allow   : BOOLEAN,
          merged  : Vaults ]             \* of a scoped merge
NoJob == [ session |-> 0, theirs |-> EmptyVault, shares |-> NoShares, ours |-> EmptyVault,
           base |-> EmptyVault, res |-> NoResolution, allow |-> FALSE, merged |-> EmptyVault ]

TypeOK ==
  /\ vault \in [Machine -> Vaults]
  /\ base \in [Client -> Vaults]
  /\ hostBase \in [Client -> Vaults]
  /\ session \in [Session -> Sessions]
  /\ active \in Session \cup {0}
  /\ failures \in 0..MaxFailures
  /\ handler \in [Client -> Handlers]
  /\ pc \in [Client -> Steps]
  /\ job \in [Client -> Jobs]
  /\ edits \in Nat

Init ==
  /\ vault = [m \in Machine |-> EmptyVault]
  /\ base = [c \in Client |-> EmptyVault]
  /\ hostBase = [c \in Client |-> EmptyVault]
  /\ session = [s \in Session |-> NotStarted]
  /\ active = 0
  /\ failures = 0
  /\ handler = [c \in Client |-> NoHandler]
  /\ pc = [c \in Client |-> "idle"]
  /\ job = [c \in Client |-> NoJob]
  /\ edits = 0

Goto(c, step) == pc' = [pc EXCEPT ![c] = step]
Finish(c)     == Goto(c, "idle") /\ job' = [job EXCEPT ![c] = NoJob]

\* Entries a user of machine m types into its vault, by any command.
Edit(m) ==
  /\ edits < MaxEdits
  /\ \E v \in Edits(vault[m]) :
       /\ \A s \in Scope, k \in Key :
            VarsOf(v, s)[k] \in Typed[m] \cup {Absent, VarsOf(vault[m], s)[k]}
       /\ vault' = [vault EXCEPT ![m] = v]
  /\ edits' = edits + 1
  /\ UNCHANGED <<base, hostVars, pc, job>>

(***************************************************************************)
(* The host's session.                                                      *)
(***************************************************************************)
\* The session that listens from now on, 0 for none.
Listen(s) == active' = s /\ failures' = 0

\* startLanHost replaces the session that listens; a session with a scope is
\* started only for projects the vault has, and takes no push, so that it does
\* not matter whether it allows deletions.
StartHost(scope, allow) ==
  /\ scope # Everything => ValidScope(vault[Host], scope) /\ ~allow
  /\ \E s \in Session :
       /\ \A t \in Session : t < s <=> session[t] # NotStarted
       /\ session' = [session EXCEPT ![s] = [scope |-> scope, allow |-> allow]]
       /\ Listen(s)
  /\ UNCHANGED <<vault, base, hostBase, handler, pc, job, edits>>

\* stopLanHost: by the user or, once the TTL has passed, by the timer or the next
\* request, which is refused.  A handler that has passed its checks goes on.
StopHost ==
  /\ active # 0
  /\ Listen(0)
  /\ UNCHANGED <<vault, base, hostBase, session, handler, pc, job, edits>>

\* What every request to session s meets first: 503 or 429 otherwise.
Accepts(s) == s # 0 /\ active = s /\ failures < MaxFailures

\* A request with a wrong PIN: 401, and the session locks at the limit.
WrongPin ==
  /\ Accepts(active)
  /\ failures' = failures + 1
  /\ UNCHANGED <<vault, base, hostBase, session, active, handler, pc, job, edits>>

(***************************************************************************)
(* A full sync: applyLanSync.                                               *)
(***************************************************************************)
MergedOf(j)    == Merge(j.ours, j.theirs, j.base, j.res)
DeletionsOf(j) == ProjectDeletions(j.ours, j.theirs, j.base)
QuietOf(j)     == Quiet(j.ours, j.theirs, j.base, j.res)

\* What it pushes; a slip: its vault as it was before the merge.
OursOut(j) == WithoutDeviceLocal(j.ours)
OutOf(j)   == WithoutDeviceLocal(IF QuietOf(j) THEN j.ours ELSE MergedOf(j))

\* /lan/pull of an unscoped session; a scoped one answers with a bundle that
\* this client refuses.
Pull(c) ==
  /\ pc[c] = "idle" /\ Accepts(active) /\ session[active].scope = Everything
  /\ job' = [job EXCEPT ![c] = [NoJob EXCEPT !.session = active,
                                             !.theirs = WithoutDeviceLocal(vault[Host])]]
  /\ Goto(c, "pulled")
  /\ UNCHANGED <<vault, base, hostVars, edits>>

\* What the client merges, with its own vault and base.
Loaded(c, allow) ==
  [job[c] EXCEPT !.ours = vault[c], !.base = base[c], !.allow = allow]

\* Merge, with one side for all conflicts if any was forced; refuse deletions
\* without --allow-deletes, which makes no difference otherwise; one approval.
MergePulled(c) ==
  /\ pc[c] = "pulled"
  /\ \E pick \in Forced, allow \in BOOLEAN :
       LET j == Loaded(c, allow)
       IN  /\ DeletionsOf(j) # {} <=> allow
           /\ job' = [job EXCEPT ![c] =
                        [j EXCEPT !.res = Resolve(j.ours, j.theirs, j.base, pick)]]
  /\ Goto(c, "approved")
  /\ UNCHANGED <<vault, base, hostVars, edits>>

\* Nothing to report: the base is written before the push.
SaveQuietBase(c) ==
  /\ pc[c] = "approved" /\ QuietOf(job[c])
  /\ base' = [base EXCEPT ![c] = WithoutDeviceLocal(job[c].ours)]
  /\ Goto(c, "push")
  /\ UNCHANGED <<vault, hostVars, job, edits>>

SaveMerged(c) ==
  /\ pc[c] = "approved" /\ ~QuietOf(job[c])
  /\ vault' = [vault EXCEPT ![c] = MergedOf(job[c])]
  /\ Goto(c, "push")
  /\ UNCHANGED <<base, hostVars, job, edits>>

\* After the host's 200: the base of a sync that changed something.
SaveMergedBase(c) ==
  /\ pc[c] = "acked"
  /\ base' = IF QuietOf(job[c]) THEN base
             ELSE [base EXCEPT ![c] = WithoutDeviceLocal(MergedOf(job[c]))]
  /\ Finish(c)
  /\ UNCHANGED <<vault, hostVars, edits>>

\* An error, a refusal, a timeout of the request, a kill.
Stop(c) ==
  /\ pc[c] # "idle"
  /\ Finish(c)
  /\ UNCHANGED <<vault, base, hostVars, edits>>

(***************************************************************************)
(* /lan/push at the host.                                                   *)
(***************************************************************************)
\* A slip of Removed: what the push adds instead of what it removes.
Added(h) == {p \in Project : ~Present(h.current, p) /\ Present(h.pushed, p)}

\* Projects the push would remove from the host.
Removed(h) == {p \in Project : Present(h.current, p) /\ ~Present(h.pushed, p)}

\* The request comes in and passes the checks of the session and the PIN.
TakePush(c) ==
  /\ pc[c] = "push" /\ handler[c] = NoHandler
  /\ Accepts(job[c].session) /\ session[job[c].session].scope = Everything
  /\ handler' = [handler EXCEPT ![c] = [NoHandler EXCEPT !.at = "entered",
                                          !.session = job[c].session,
                                          !.pushed = OutOf(job[c])]]
  /\ Goto(c, "waiting")
  /\ UNCHANGED <<vault, base, hostBase, session, active, failures, job, edits>>

\* The body is read, the vault loaded, the delete gate passed.
GatePush(c) ==
  LET h == [handler[c] EXCEPT !.at = "asked", !.current = vault[Host],
              !.pushed = KeepDeviceLocal(handler[c].pushed, vault[Host])]
  IN  /\ handler[c].at = "entered"
      /\ session[handler[c].session].allow \/ Removed(h) = {}
      /\ handler' = [handler EXCEPT ![c] = h]
      /\ UNCHANGED <<vault, base, hostBase, session, active, failures, pc, job, edits>>

\* The approval is given and the vault replaced.
ApplyPush(c) ==
  /\ handler[c].at = "asked"
  /\ vault' = [vault EXCEPT ![Host] = handler[c].pushed]
  /\ handler' = [handler EXCEPT ![c].at = "saved"]
  /\ UNCHANGED <<base, hostBase, session, active, failures, pc, job, edits>>

\* The base is saved, the client told, and whatever session listens stopped.
AnswerPush(c) ==
  /\ handler[c].at = "saved"
  /\ hostBase' = [hostBase EXCEPT ![c] = WithoutDeviceLocal(handler[c].pushed)]
  /\ handler' = [handler EXCEPT ![c] = NoHandler]
  /\ pc' = IF pc[c] = "waiting" THEN [pc EXCEPT ![c] = "acked"] ELSE pc
  /\ Listen(0)
  /\ UNCHANGED <<vault, base, session, job, edits>>

\* Refused by the gate, denied, failed, or the host's process is gone.
DropPush(c) ==
  /\ handler[c] # NoHandler
  /\ handler' = [handler EXCEPT ![c] = NoHandler]
  /\ IF pc[c] = "waiting" THEN Finish(c) ELSE UNCHANGED <<pc, job>>
  /\ UNCHANGED <<vault, base, hostBase, session, active, failures, edits>>

(***************************************************************************)
(* A scoped sync: scopedLanSync, one way.                                   *)
(***************************************************************************)
\* What a request for `names` gets: the projects themselves, which must be
\* within a scoped session's scope and still there.
ScopedPull(c, names) ==
  /\ pc[c] = "idle" /\ Accepts(active)
  /\ session[active].scope # Everything => names \subseteq session[active].scope
  /\ ValidScope(vault[Host], names)
  /\ job' = [job EXCEPT ![c] = [NoJob EXCEPT !.session = active,
                                             !.shares = Extract(vault[Host], names)]]
  /\ Goto(c, "scoped")
  /\ UNCHANGED <<vault, base, hostVars, edits>>

MergeShares(c) ==
  /\ pc[c] = "scoped"
  /\ \E theirs \in BOOLEAN :
       LET merged == MergeScoped(vault[c], job[c].shares, theirs)
       IN  merged # vault[c] /\ job' = [job EXCEPT ![c].merged = merged]
  /\ Goto(c, "scoped merged")
  /\ UNCHANGED <<vault, base, hostVars, edits>>

SaveShares(c) ==
  /\ pc[c] = "scoped merged"
  /\ vault' = [vault EXCEPT ![c] = job[c].merged]
  /\ Finish(c)
  /\ UNCHANGED <<base, hostVars, edits>>

Next ==
  \/ \E m \in Machine : Edit(m)
  \/ \E scope \in Scopes, allow \in BOOLEAN : StartHost(scope, allow)
  \/ StopHost \/ WrongPin
  \/ \E c \in Client :
       \/ Pull(c) \/ MergePulled(c) \/ SaveQuietBase(c) \/ SaveMerged(c)
       \/ SaveMergedBase(c) \/ Stop(c)
       \/ TakePush(c) \/ GatePush(c) \/ ApplyPush(c) \/ AnswerPush(c) \/ DropPush(c)
       \/ \E names \in SUBSET Project : ScopedPull(c, names)
       \/ MergeShares(c) \/ SaveShares(c)

Spec == Init /\ [][Next]_vars
-----------------------------------------------------------------------------
(***************************************************************************)
(* README: "In a scoped bundle: only the named projects' vars", "never      *)
(* treasury / __abra_*", "one-way: host vault is untouched".  As long as no *)
(* unscoped session was started, nothing typed on the host is in a client's *)
(* vault outside the projects shared so far, none of them reserved, and     *)
(* nothing typed on a client is in the host's vault (extractScopedProjects, *)
(* validateScope, the 403 of /lan/push).                                    *)
(***************************************************************************)
Unscoped == \E s \in Session : session[s].scope = Everything
Shared   == (UNION {session[s].scope : s \in Session}) \ Reserved

\* Nothing in scope s of vault v was typed on machine `from` only.
Untouched(v, s, from, own) ==
  \A k \in Key : VarsOf(v, s)[k] \notin Typed[from] \ Typed[own]

ScopedSharesOnlyScope ==
  ~Unscoped =>
    \A c \in Client :
      /\ \A s \in Scope \ Shared : Untouched(vault[c], s, Host, c)
      /\ \A s \in Scope : Untouched(vault[Host], s, c, Host)

(***************************************************************************)
(* README: "the host also refuses a push that would remove whole projects   *)
(* from it unless it was started with --allow-deletes".  It holds where     *)
(* nothing else wrote the host's vault while the push waited for approval   *)
(* (the handler of /lan/push).                                              *)
(***************************************************************************)
Drops(old, new) == {p \in Project : Present(old, p) /\ ~Present(new, p)}

HostDeletesGated ==
  [][\A c \in Client :
       (ApplyPush(c) /\ vault[Host] = handler[c].current) =>
          \/ Drops(vault[Host], vault'[Host]) = {}
          \/ session[handler[c].session].allow]_vars

(***************************************************************************)
(* What the host has and this client has not seen survives the sync: it     *)
(* reaches the client, and it is still on the host once the push is applied *)
(* if nobody wrote there in between, when the merge had something to        *)
(* report.  The exceptions are the user's: a forced side, an allowed        *)
(* deletion.                                                                *)
(***************************************************************************)
News(v, b) == {x \in Scope \X Key :
                 Present(v, x[1]) /\ v.scopes[x[1]][x[2]] # VarsOf(b, x[1])[x[2]]}

Chosen(j) == Conflicts(j.ours, j.theirs, j.base, NoResolution)
               \cup {x \in Scope \X Key : j.allow /\ x[1] \in DeletionsOf(j)}

Carries(v, from, j) ==
  \A x \in News(from, j.base) \ Chosen(j) : VarsOf(v, x[1])[x[2]] = from.scopes[x[1]][x[2]]

\* The push that is applied is the one this client still waits for, made of
\* what the host has now.
AppliesOver(c) ==
  ApplyPush(c) /\ pc[c] = "waiting" /\ vault[Host].scopes = job[c].theirs.scopes

HostNewsSurvives ==
  [][\A c \in Client :
       /\ SaveMerged(c) => Carries(vault'[c], job[c].theirs, job[c])
       /\ (AppliesOver(c) /\ ~QuietOf(job[c])) =>
            Carries(vault'[Host], job[c].theirs, job[c])]_vars
=============================================================================
