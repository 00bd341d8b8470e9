------------------------------- MODULE Agent -------------------------------
(***************************************************************************)
(* abra-agent, the process that keeps the master key in memory between      *)
(* commands: src/agent/state.ts, grants.ts and the handlers of server.ts.   *)
(*                                                                         *)
(* Handlers are coroutines: a request whose peer must be the abra CLI waits *)
(* for that check, and an unlock waits for the keystore as well; timers,    *)
(* the suspend signal and other requests run in between.  Deadlines are     *)
(* kept as the time that is left of them, so the clock needs no bound.  A   *)
(* timer never fires early but may be late, as after a suspend.             *)
(*                                                                         *)
(* The keystore backend is looked up anew for every request and can change  *)
(* in between (a migration), so a request may meet either.  The vault, the  *)
(* check of the peer and the frames are left out; grant ids do not collide. *)
(***************************************************************************)
EXTENDS Integers

CONSTANTS
  Request,      \* requests that can be in flight at a time
  Project,
  Caller,       \* binaries: path, device and inode
  GrantId,      \* bound on grants held at a time
  NoGrant,
  IdleSettings, \* values of ABRA_AGENT_IDLE_SECONDS, in half seconds
  AgeSettings,  \* values of ABRA_AGENT_MAX_AGE_SECONDS, in half seconds
  IdleDefault,  \* 15 minutes
  AgeDefault,   \* 8 hours
  TtlMin, TtlMax,
  Ttls          \* what callers ask for

Op == {"status", "lock", "unlock", "unlock.key", "vault", "grant.add",
       "grant.list", "grant.revoke", "grant.check"}

ASSUME AgentAssumption ==
  /\ IdleSettings \subseteq Int /\ AgeSettings \subseteq Int
  /\ IdleDefault \in Nat \ {0} /\ AgeDefault \in Nat \ {0}
  /\ TtlMin \in Nat \ {0} /\ TtlMax \in Nat
  /\ Ttls \subseteq Int

\* resolveIdleSeconds, resolveMaxAgeSeconds: no upper limit for the first; a
\* setting under a second gives 0, and 0 arms no timer.
IdleSeconds(setting) == IF setting <= 0 THEN IdleDefault ELSE setting \div 2
MaxAge(setting) ==
  IF setting <= 0 THEN AgeDefault
  ELSE IF setting \div 2 < AgeDefault THEN setting \div 2
  ELSE AgeDefault

VARIABLES
  up,      \* does the agent's process run
  limits,  \* how long its key may be idle and how old it may get; 0: for ever
  key,     \* does it hold the key; how long until it is idle, and too old
  grants,  \* reveal grants by id, with the time they have left
  req,     \* requests in flight
  since,   \* history: time since the key was unlocked afresh, if not locked since
  approved \* history: how long a user's approval still covers a project and a binary
history == <<since, approved>>
agentVars == <<up, limits, key, grants, req, since, approved>>

Limits   == [idle : Nat, age : 0..AgeDefault]
NoLimits == [idle |-> 0, age |-> 0]

KeyStates(l) == [held : BOOLEAN, idle : 0..l.idle, age : 0..l.age]
Locked  == [held |-> FALSE, idle |-> 0, age |-> 0]
Grants  == [project : Project, caller : Caller, left : 0..TtlMax]
NoGrants == [g \in GrantId |-> NoGrant]

\* at: no request, waiting for the peer check, waiting for the keystore.
\* overtaken: the agent was locked since the keystore was asked.
Requests == [at : {"none", "peer", "keystore"}, op : Op, overtaken : BOOLEAN]
NoRequest == [at |-> "none", op |-> "status", overtaken |-> FALSE]

\* The history of a locked agent: no unlock and no approval counts any more.
LongAgo     == AgeDefault
NotApproved == [x \in Project \X Caller |-> 0]

ASSUME NoGrantAssumption == NoGrant \notin Grants

Live(g) == grants[g] # NoGrant

AgentTypeOK ==
  /\ up \in BOOLEAN
  /\ limits \in Limits
  /\ key \in KeyStates(limits)
  /\ grants \in [GrantId -> Grants \cup {NoGrant}]
  /\ req \in [Request -> Requests]
  /\ since \in 0..AgeDefault
  /\ approved \in [Project \X Caller -> 0..TtlMax]

AgentInit ==
  /\ up = FALSE
  /\ limits = NoLimits
  /\ key = Locked
  /\ grants = NoGrants
  /\ req = [r \in Request |-> NoRequest]
  /\ since = LongAgo /\ approved = NotApproved

(***************************************************************************)
(* The state of the agent: AgentState and GrantStore.                       *)
(***************************************************************************)
\* touch(): activity puts off the idle lock only.  A slip: the ceiling too.
TouchRenews(k) == [k EXCEPT !.idle = limits.idle, !.age = limits.age]
Touched(k) == [k EXCEPT !.idle = limits.idle]

\* A fresh unlock, by the keystore or by a pushed key.
Unlocked == Touched([held |-> TRUE, idle |-> 0, age |-> limits.age])

\* enforceMaxAge(): every request that looks at the key locks first when it is
\* too old.  A slip: the timer is trusted to have done that.
TimerTrusted(k) == FALSE
TooOld(k) == k.held /\ limits.age > 0 /\ k.age = 0

\* lock(): the key is zeroed, its grants go with it (a slip: they stay), and an
\* unlock that waits for the keystore goes on.
GrantsKept(held)  == held
GrantsAfter(held) == NoGrants

Overtaken == [r \in Request |-> [req[r] EXCEPT !.overtaken = (req[r].at = "keystore")]]

LockAnd(rest) ==
  /\ key' = Locked
  /\ grants' = GrantsAfter(grants)
  /\ req' = rest
  /\ since' = LongAgo /\ approved' = NotApproved
  /\ UNCHANGED <<up, limits>>
Lock == LockAnd(Overtaken)

\* The request is answered.
Answer(r) == req' = [req EXCEPT ![r] = NoRequest]

(***************************************************************************)
(* Requests.                                                                *)
(***************************************************************************)
\* status and lock are served at once, the rest when the peer is accepted.
Arrive(r, op) ==
  /\ up /\ req[r] = NoRequest
  /\ op \notin {"status", "lock"}
  /\ req' = [req EXCEPT ![r] = [NoRequest EXCEPT !.at = "peer", !.op = op]]
  /\ UNCHANGED <<up, limits, key, grants, history>>

LockRequest == up /\ Lock

\* isLocked() and status() of a key that is too old.
StatusRequest == up /\ TooOld(key) /\ Lock

Accepted(r, op) == req[r].at = "peer" /\ req[r].op = op

\* The peer is refused, the request malformed, or for another vault.
Refuse(r) ==
  /\ req[r].at = "peer"
  /\ Answer(r)
  /\ UNCHANGED <<up, limits, key, grants, history>>

\* The agent turns out to be locked, or locks itself because the key is old.
\* `unlock` is answered so when the backend is passphrase-file, and goes on to
\* the keystore otherwise.
AnswerLocked(r) ==
  /\ req[r].at = "peer" /\ req[r].op # "unlock.key"
  /\ IF TooOld(key) THEN LockAnd([Overtaken EXCEPT ![r] = NoRequest])
     ELSE ~key.held /\ Answer(r) /\ UNCHANGED <<up, limits, key, grants, history>>

\* The key can be used.
Usable(r, op) == Accepted(r, op) /\ key.held /\ ~TooOld(key)

\* unlock() while unlocked.
UnlockAgain(r) ==
  /\ Usable(r, "unlock")
  /\ key' = Touched(key)
  /\ Answer(r)
  /\ UNCHANGED <<up, limits, grants, history>>

\* unlock() of a locked agent asks the keystore ...
AskKeystore(r) ==
  /\ Accepted(r, "unlock")
  /\ IF TooOld(key) THEN LockAnd([Overtaken EXCEPT ![r].at = "keystore"])
     ELSE ~key.held /\ req' = [req EXCEPT ![r].at = "keystore"] /\ UNCHANGED <<up, limits, key, grants, history>>

\* ... and takes whatever key comes back, or fails.
KeystoreAnswers(r) ==
  /\ req[r].at = "keystore"
  /\ key' = Unlocked /\ since' = 0
  /\ Answer(r)
  /\ UNCHANGED <<up, limits, grants, approved>>

KeystoreFails(r) ==
  /\ req[r].at = "keystore"
  /\ Answer(r)
  /\ UNCHANGED <<up, limits, key, grants, history>>

\* unlock.key: the CLI pushes a key that opens the vault.
UnlockKey(r) ==
  /\ Accepted(r, "unlock.key")
  /\ key' = Unlocked /\ since' = 0
  /\ Answer(r)
  /\ UNCHANGED <<up, limits, grants, approved>>

\* vault.load and vault.save.
UseVault(r) ==
  /\ Usable(r, "vault")
  /\ key' = Touched(key)
  /\ Answer(r)
  /\ UNCHANGED <<up, limits, grants, history>>

ValidTtl(ttl) == TtlMin <= ttl /\ ttl <= TtlMax

\* grant.add by the CLI, after its user's approval.
AddGrant(r) ==
  /\ Usable(r, "grant.add")
  /\ \E g \in GrantId, p \in Project, c \in Caller, ttl \in Ttls :
       /\ ~Live(g) /\ ValidTtl(ttl)
       /\ grants' = [grants EXCEPT ![g] = [project |-> p, caller |-> c, left |-> ttl]]
       /\ approved' = [approved EXCEPT ![<<p, c>>] = IF approved[<<p, c>>] < ttl THEN ttl ELSE approved[<<p, c>>]]
  /\ Answer(r)
  /\ UNCHANGED <<up, limits, key, since>>

Expired(g) == Live(g) /\ grants[g].left = 0
Pruned == [g \in GrantId |-> IF Expired(g) THEN NoGrant ELSE grants[g]]

\* grant.list and grant.check drop what has expired first.
ListGrants(r) ==
  /\ Usable(r, "grant.list")
  /\ grants' = Pruned
  /\ Answer(r)
  /\ UNCHANGED <<up, limits, key, history>>

Matches(g, p, c) ==
  Live(g) /\ ~Expired(g) /\ grants[g].project = p /\ grants[g].caller = c

\* A slip: asking about a grant counts as activity.
CheckTouches(r, p, c) ==
  /\ Usable(r, "grant.check")
  /\ grants' = Pruned
  /\ key' = Touched(key)
  /\ Answer(r)
  /\ UNCHANGED <<up, limits, history>>

CheckGrant(r, p, c) ==
  /\ Usable(r, "grant.check")
  /\ grants' = Pruned
  /\ Answer(r)
  /\ UNCHANGED <<up, limits, key, history>>

\* What grant.check answers.
Granted(p, c) == \E g \in GrantId : Matches(g, p, c)

RevokeGrants(r) ==
  /\ Usable(r, "grant.revoke")
  /\ \/ grants' = NoGrants /\ approved' = NotApproved
     \/ (\E g \in GrantId : grants' = [grants EXCEPT ![g] = NoGrant]) /\ UNCHANGED approved
  /\ Answer(r)
  /\ UNCHANGED <<up, limits, key, since>>

(***************************************************************************)
(* Time, timers, the suspend signal, the process.                           *)
(***************************************************************************)
Less(n) == IF n = 0 THEN 0 ELSE n - 1

Tick ==
  /\ up
  /\ key' = [key EXCEPT !.idle = Less(key.idle), !.age = Less(key.age)]
  /\ grants' = [g \in GrantId |->
                  IF Live(g) THEN [grants[g] EXCEPT !.left = Less(grants[g].left)]
                  ELSE NoGrant]
  /\ since' = IF since < AgeDefault THEN since + 1 ELSE AgeDefault
  /\ approved' = [x \in Project \X Caller |-> Less(approved[x])]
  /\ UNCHANGED <<up, limits, req>>

IdleFires   == key.held /\ limits.idle > 0 /\ key.idle = 0 /\ Lock
MaxAgeFires == TooOld(key) /\ Lock
PruneFires  == Pruned # grants /\ grants' = Pruned /\ UNCHANGED <<up, limits, key, req, history>>

\* PrepareForSleep(true), if the watcher sees it.
Suspend == up /\ Lock

\* startAgent reads the settings once; a fresh process starts locked and
\* without grants.
StartAgent ==
  /\ ~up /\ up' = TRUE
  /\ \E i \in IdleSettings, a \in AgeSettings :
       limits' = [idle |-> IdleSeconds(i), age |-> MaxAge(a)]
  /\ key' = Locked /\ grants' = NoGrants
  /\ since' = LongAgo /\ approved' = NotApproved
  /\ UNCHANGED req

\* A kill, or the end of stopAgent: that locks like a LockRequest and then waits
\* for its connections, which are still served.
Exit ==
  /\ up
  /\ up' = FALSE
  /\ limits' = NoLimits
  /\ key' = Locked
  /\ grants' = NoGrants
  /\ req' = [r \in Request |-> NoRequest]
  /\ since' = LongAgo /\ approved' = NotApproved

AgentNext ==
  \/ \E r \in Request :
       \/ \E op \in Op : Arrive(r, op)
       \/ Refuse(r) \/ AnswerLocked(r)
       \/ UnlockAgain(r) \/ AskKeystore(r) \/ KeystoreAnswers(r) \/ KeystoreFails(r)
       \/ UnlockKey(r) \/ UseVault(r)
       \/ AddGrant(r) \/ ListGrants(r) \/ RevokeGrants(r)
       \/ \E p \in Project, c \in Caller : CheckGrant(r, p, c)
  \/ LockRequest \/ StatusRequest
  \/ Tick \/ IdleFires \/ MaxAgeFires \/ PruneFires \/ Suspend
  \/ StartAgent \/ Exit

AgentSpec == AgentInit /\ [][AgentNext]_agentVars

\* Time passes and the event loop runs the timers that are due.
FairAgentSpec ==
  /\ AgentSpec
  /\ WF_agentVars(Tick) /\ WF_agentVars(IdleFires) /\ WF_agentVars(MaxAgeFires) /\ WF_agentVars(PruneFires)
-----------------------------------------------------------------------------
(***************************************************************************)
(* Grants "are cleared on every lock: abra lock, idle, max age (8h), sleep, *)
(* and agent stop" (docs/CROSS-PLATFORM.md): a grant never outlives the     *)
(* unlocked period it was given in, whatever locks the agent and whatever   *)
(* requests are under way.                                                  *)
(***************************************************************************)
GrantsUnderKey == \A g \in GrantId : Live(g) => key.held

(***************************************************************************)
(* The key is used, and a grant honoured, only while the act of a user that *)
(* allowed it counts: the fresh unlock of a key is younger than the maximum *)
(* age, whatever touched or asked the agent since, and a user approved the  *)
(* project for that binary, for a time that is not over, after the last     *)
(* lock and the last `revoke --all`.  The history says so, whose clock is   *)
(* not the agent's: its deadlines are set anew by several handlers, and its *)
(* timers, which may be late, are not what the property looks at.           *)
(***************************************************************************)
Young == limits.age = 0 \/ since < limits.age

Covered(r) ==
  /\ UseVault(r) => Young
  /\ \A p \in Project, c \in Caller :
       (CheckGrant(r, p, c) /\ Granted(p, c)) => Young /\ approved[<<p, c>>] > 0

UseIsCovered == [][\A r \in Request : Covered(r)]_agentVars

FreshUnlock == \E r \in Request : KeystoreAnswers(r) \/ UnlockKey(r)
Activity    == FreshUnlock \/ \E r \in Request : UnlockAgain(r) \/ UseVault(r)

(***************************************************************************)
(* "Absolute 8 h ceiling; activity never extends it": however busy the      *)
(* agent is, it locks, unless it is unlocked afresh for ever or its setting *)
(* switches the ceiling off.                                                *)
(***************************************************************************)
Ceiling == []<>~key.held \/ []<><<FreshUnlock>>_agentVars \/ <>[](limits.age = 0)

(***************************************************************************)
(* "activity = vault ops": once nobody uses the vault any more the agent    *)
(* locks and stays locked, whatever grants are added, listed and checked,   *)
(* unless both limits are switched off.                                     *)
(***************************************************************************)
LeftAloneLocks == []<><<Activity>>_agentVars \/ <>[]~key.held \/ <>[](limits = NoLimits)

(***************************************************************************)
(* The agent "actually locks": it is not unlocked again by an unlock that   *)
(* was already waiting for the keystore when it was locked.                 *)
(***************************************************************************)
LockHolds == [][\A r \in Request : KeystoreAnswers(r) => ~req[r].overtaken]_agentVars
=============================================================================
