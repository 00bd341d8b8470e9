---------------------------- MODULE VaultAccess ----------------------------
(***************************************************************************)
(* How a command reaches vault.enc: loadVault and saveVault ask abra-agent  *)
(* first and fall back to the file itself when the agent does not serve     *)
(* them.  Composes the client's calls (agent/client.ts), the agent's check  *)
(* of who called (agent/peer.ts) and what it then does (agent/server.ts)    *)
(* with the way the file is replaced (AtomicFile): the agent and the        *)
(* commands are its processes.                                              *)
(*                                                                         *)
(* A client makes a connection for every call and drops it when its timer   *)
(* fires; the agent is not told and carries on.  Times are in tenths of a   *)
(* second since the connection was made.  The peer check runs ss and waits; *)
(* every other delay, of a keystore that asks its user, of a busy agent, is *)
(* one that may outlast the client's timer.                                 *)
(***************************************************************************)
EXTENDS AtomicFile

CONSTANTS
  Client,     \* processes that run one abra command each
  Agent,      \* the agent's process
  Own,        \* the vault each client saves
  Caller,     \* what the agent may find when it looks at each client
  Call,       \* a client's calls: of each of its jobs, in order
  Loaded,     \* clients that call while the machine is loaded and ss is slow
  MayStall    \* can the agent be later than a client waits

\* File identities are equal, different or not to be had; then the paths decide.
Callers == [exe : {"same", "other", "unread"}, exePath : BOOLEAN,
            options : {"clean", "inject"}, argv : {"script", "flags", "short"},
            cwd : {"absolute", "read", "unread"},
            script : {"same", "other", "unread"}, scriptPath : BOOLEAN,
            bound : BOOLEAN]

ASSUME AccessAssumption ==
  /\ Process = Client \cup {Agent} /\ Agent \notin Client
  /\ Own \in [Client -> Content] /\ Caller \in [Client -> SUBSET Callers]
  /\ \A p, q \in Client : Own[p] = Own[q] => p = q
  /\ Call = {"load", "save", "key"} \X {"try", "unlock", "again"}
  /\ Loaded \subseteq Client /\ MayStall \in BOOLEAN

VARIABLES
  machine,    \* is the master key in a passphrase file; who each client is
  agent,      \* not running, locked or open
  req,        \* what the agent does with each call of each client
  cmd,        \* how far each client's command is
  landed,     \* how often each client's vault became the file
  unsure      \* clients that got no answer to a save
access == <<machine, agent, req, cmd, landed, unsure>>

SameFile(id, path) == id = "same" \/ (id = "unread" /\ path)

\* No flags before the script, nothing in NODE_OPTIONS that runs other code.
CleanArgv(c) == c.options = "clean" /\ c.argv = "script"

IsAbraCli(c) ==
  /\ SameFile(c.exe, c.exePath)
  /\ CleanArgv(c) /\ c.cwd # "unread"
  /\ SameFile(c.script, c.scriptPath)

SS_TIMEOUT == 50
SS_MAX_ATTEMPTS == 3
SS_RETRY_BACKOFF == <<1, 3>>
PEER_CHECK_BUDGET == 120
READ_TIMEOUT == 150

Op(call) == IF call[2] = "unlock" THEN "unlock" ELSE call[1]

Replies == {"ok", "locked", "forbidden", "mismatch", "unavailable", "internal"}
Requests == [at : {"none", "check", "keystore", "write", "closed"} \cup Replies,
             tries : 0..SS_MAX_ATTEMPTS, clock : Nat]
NoRequest == [at |-> "none", tries |-> 0, clock |-> 0]

\* at: not begun, about to call, waiting for the answer, on its own, ended.
Commands == [at : {"idle", "call", "wait", "direct", "write", "saved", "failed",
                   "shared", "alone", "refused", "dead"},
             call : Call]

AccessTypeOK ==
  /\ machine \in [passphrase : BOOLEAN, caller : [Client -> Callers]]
  /\ agent \in {"down", "locked", "open"}
  /\ req \in [Client \X Call -> Requests]
  /\ cmd \in [Client -> Commands]
  /\ landed \in [Client -> Nat]
  /\ unsure \in [Client -> BOOLEAN]

AccessInit ==
  /\ Init
  /\ machine \in [passphrase : BOOLEAN, caller : [Client -> Callers]]
  /\ \A p \in Client : machine.caller[p] \in Caller[p]
  /\ agent = "locked"
  /\ req = [r \in Client \X Call |-> NoRequest]
  /\ cmd = [p \in Client |-> [at |-> "idle", call |-> <<"load", "try">>]]
  /\ landed = [p \in Client |-> 0]
  /\ unsure = [p \in Client |-> FALSE]
-----------------------------------------------------------------------------
Goes(p, at) == cmd' = [cmd EXCEPT ![p].at = at]
Calls(p, call) == cmd' = [cmd EXCEPT ![p] = [at |-> "call", call |-> call]]
Job(p) == cmd[p].call[1]
Asked(p) == <<p, cmd[p].call>>

\* A slip: an agent that did not answer is thought to have saved.
TakenAsDone(p) ==
  Goes(p, CASE Job(p) = "key" -> "refused" [] Job(p) = "load" -> "direct" [] OTHER -> "saved")

\* isAgentUnavailable: loadVault and saveVault go on without the agent; what
\* abra unlock pushed was not taken.
Unserved(p) == Goes(p, IF Job(p) = "key" THEN "refused" ELSE "direct")

\* A command that changes the vault; or abra unlock, of a passphrase file, with
\* the right passphrase.
Start(p) ==
  /\ cmd[p].at = "idle"
  /\ \/ Calls(p, <<"load", "try">>)
     \/ machine.passphrase /\ Calls(p, <<"key", "try">>)
  /\ UNCHANGED <<vars, machine, agent, req, landed, unsure>>

Connect(p) ==
  /\ cmd[p].at = "call" /\ agent # "down"
  /\ Goes(p, "wait")
  /\ req' = [req EXCEPT ![Asked(p)] = [NoRequest EXCEPT !.at = "check"]]
  /\ UNCHANGED <<vars, machine, agent, landed, unsure>>

\* Nothing listens, or the connection is not made within half a second; abra
\* unlock does not try without a socket.
NoAgent(p) ==
  /\ cmd[p].at = "call"
  /\ \/ Unserved(p)
     \/ agent = "down" /\ Job(p) = "key" /\ Goes(p, "alone")
  /\ UNCHANGED <<vars, machine, agent, req, landed, unsure>>

Answer(p) == req[Asked(p)].at

\* The socket is destroyed.
Done(p) == req' = [req EXCEPT ![Asked(p)] = NoRequest]

AnswerOk(p) ==
  /\ cmd[p].at = "wait" /\ Answer(p) = "ok"
  /\ CASE Op(cmd[p].call) = "unlock" -> Calls(p, <<Job(p), "again">>)
       [] Op(cmd[p].call) = "load"   -> Calls(p, <<"save", "try">>)
       [] Op(cmd[p].call) = "save"   -> Goes(p, "saved")
       [] OTHER                      -> Goes(p, "shared")
  /\ Done(p) /\ UNCHANGED <<vars, machine, agent, landed, unsure>>

\* loadVaultViaAgent and saveVaultViaAgent unlock the agent once and ask again.
AnswerLocked(p) ==
  /\ cmd[p].at = "wait" /\ Answer(p) = "locked"
  /\ IF cmd[p].call[2] = "try" THEN Calls(p, <<Job(p), "unlock">>) ELSE Unserved(p)
  /\ Done(p) /\ UNCHANGED <<vars, machine, agent, landed, unsure>>

AnswerError(p) ==
  /\ cmd[p].at = "wait"
  /\ \/ Answer(p) \in {"forbidden", "mismatch", "unavailable"} /\ Unserved(p)
     \/ Answer(p) = "internal" /\ Goes(p, IF Job(p) = "key" THEN "refused" ELSE "failed")
  /\ Done(p) /\ UNCHANGED <<vars, machine, agent, landed, unsure>>

\* A slip: a client that is connected waits.
NoTimer(p) == Answer(p) = "closed"

\* The agent closes the connection; or the timer fires: after the peer check the
\* agent may be as late as it likes.
Late(p) ==
  IF Answer(p) = "check" THEN req[Asked(p)].clock >= READ_TIMEOUT
  ELSE MayStall \/ Answer(p) = "closed"

\* Requests that the agent carries out although nobody waits for the answer.
CarriedOn(p) == Answer(p) \in {"keystore", "write"}

GiveUp(p) ==
  /\ cmd[p].at = "wait" /\ Late(p)
  /\ unsure' = [unsure EXCEPT ![p] = @ \/ Op(cmd[p].call) = "save"]
  /\ Unserved(p)
  /\ IF CarriedOn(p) THEN UNCHANGED req ELSE Done(p)
  /\ UNCHANGED <<vars, machine, agent, landed>>
-----------------------------------------------------------------------------
\* Node runs a handler up to its next await; a save has none.
Free == agent # "down" /\ save[Agent] = NoSave

\* Is the client still there for the answer.
Awaited(r) == cmd[r[1]].at = "wait" /\ Asked(r[1]) = r

Moves(r, at) == req' = [req EXCEPT ![r] = [NoRequest EXCEPT !.at = at]]
Reply(r, answer) == IF Awaited(r) THEN Moves(r, answer) ELSE req' = [req EXCEPT ![r] = NoRequest]

\* How long one run of ss may take: what is left of the budget counts too.
Backoff(r) == IF req[r].tries = 0 THEN 0 ELSE SS_RETRY_BACKOFF[req[r].tries]
Left(r) == PEER_CHECK_BUDGET - req[r].clock - Backoff(r)
\* A slip: every run has the whole timeout.
Unbudgeted(r) == SS_TIMEOUT
Timeout(r) == IF Left(r) < SS_TIMEOUT THEN Left(r) ELSE SS_TIMEOUT

\* At once, or as long as it is let.
Durations(r) == IF r[1] \in Loaded THEN {0, Timeout(r)} ELSE {0}

MayTry(r) == req[r].tries < SS_MAX_ATTEMPTS /\ Left(r) > 0

\* One run of ss does not find the peer's process, in no time or until it is
\* stopped: not listed yet, or ss failed.
Unseen(r) ==
  /\ Free /\ req[r].at = "check" /\ MayTry(r)
  /\ \E took \in Durations(r) :
       req' = [req EXCEPT ![r].tries = @ + 1, ![r].clock = @ + Backoff(r) + took]
  /\ UNCHANGED <<vars, machine, agent, cmd, landed, unsure>>

\* ss is missing, may not use netlink or lists two such processes; the process is
\* gone or something else; or the tries or the time are used up.
Refuse(r) ==
  /\ Free /\ req[r].at = "check"
  /\ Reply(r, "forbidden")
  /\ UNCHANGED <<vars, machine, agent, cmd, landed, unsure>>

\* It does find it, abra's CLI, and the handler goes on from there.
Runs(r, op) ==
  /\ Free /\ req[r].at = "check" /\ MayTry(r)
  /\ Awaited(r) /\ IsAbraCli(machine.caller[r[1]])
  /\ Op(r[2]) = op
Bound(r) == machine.caller[r[1]].bound

Mismatch(r) ==
  /\ \E op \in {"load", "save", "key"} : Runs(r, op)
  /\ ~Bound(r)
  /\ Reply(r, "mismatch")
  /\ UNCHANGED <<vars, machine, agent, cmd, landed, unsure>>

Locked(r) ==
  /\ agent = "locked"
  /\ \/ (Runs(r, "load") \/ Runs(r, "save")) /\ Bound(r)
     \/ Runs(r, "unlock") /\ machine.passphrase
  /\ Reply(r, "locked")
  /\ UNCHANGED <<vars, machine, agent, cmd, landed, unsure>>

Load(r) ==
  /\ Runs(r, "load") /\ Bound(r) /\ agent = "open"
  /\ Reply(r, IF Value = Torn THEN "internal" ELSE "ok")
  /\ UNCHANGED <<vars, machine, agent, cmd, landed, unsure>>

BeginSave(r) ==
  /\ Runs(r, "save") /\ Bound(r) /\ agent = "open"
  /\ Begin(Agent, Own[r[1]])
  /\ Moves(r, "write")
  /\ UNCHANGED <<machine, agent, cmd, landed, unsure>>

Unlock(r) ==
  /\ Runs(r, "unlock")
  /\ \/ agent = "open" /\ Reply(r, "ok")
     \/ agent = "locked" /\ ~machine.passphrase /\ Moves(r, "keystore")
  /\ UNCHANGED <<vars, machine, agent, cmd, landed, unsure>>

KeystoreAnswers(r) ==
  /\ Free /\ req[r].at = "keystore"
  /\ \/ agent' = "open" /\ Reply(r, "ok")
     \/ UNCHANGED agent /\ Reply(r, "unavailable")
  /\ UNCHANGED <<vars, machine, cmd, landed, unsure>>

\* unlock.key, with a key that decrypts the vault.
TakeKey(r) ==
  /\ Runs(r, "key") /\ Bound(r)
  /\ agent' = "open"
  /\ Reply(r, "ok")
  /\ UNCHANGED <<vars, machine, cmd, landed, unsure>>

Lands(p) == landed' = [landed EXCEPT ![p] = @ + 1]

AgentWrites(r) ==
  /\ req[r].at = "write"
  /\ \/ (OpenTmp(Agent) \/ WriteChunk(Agent)) /\ UNCHANGED <<req, landed>>
     \/ Rename(Agent) /\ Reply(r, "ok") /\ Lands(r[1])
     \/ Fail(Agent) /\ Reply(r, "internal") /\ UNCHANGED landed
  /\ UNCHANGED <<machine, agent, cmd, unsure>>

\* Idle, too old, asked to, or suspended.
LockAgent ==
  /\ Free /\ agent = "open"
  /\ agent' = "locked"
  /\ UNCHANGED <<vars, machine, req, cmd, landed, unsure>>

StartAgent ==
  /\ agent = "down" /\ agent' = "locked"
  /\ UNCHANGED <<vars, machine, req, cmd, landed, unsure>>

\* The agent stops, or dies, in the middle of a save too: connections close.
StopAgent ==
  /\ agent # "down" /\ agent' = "down"
  /\ MayDie \/ save[Agent] = NoSave
  /\ req' = [r \in Client \X Call |->
               IF Awaited(r) THEN [NoRequest EXCEPT !.at = "closed"] ELSE NoRequest]
  /\ save' = [save EXCEPT ![Agent] = NoSave]
  /\ UNCHANGED <<file, tmp, data, machine, cmd, landed, unsure>>
-----------------------------------------------------------------------------
\* loadVaultDirect and saveVaultDirect: a passphrase file is locked to a command
\* that has not asked for the passphrase; a keystore may fail.
Direct(p) ==
  /\ cmd[p].at = "direct"
  /\ \/ Goes(p, "failed") /\ UNCHANGED save
     \/ /\ Job(p) = "load" /\ ~machine.passphrase /\ Value # Torn
        /\ Calls(p, <<"save", "try">>) /\ UNCHANGED save
     \/ /\ Job(p) = "save" /\ ~machine.passphrase
        /\ Begin(p, Own[p]) /\ Goes(p, "write")
  /\ UNCHANGED <<file, tmp, data, machine, agent, req, landed, unsure>>

Writes(p) ==
  /\ cmd[p].at = "write"
  /\ \/ (OpenTmp(p) \/ WriteChunk(p)) /\ UNCHANGED <<cmd, landed>>
     \/ Rename(p) /\ Goes(p, "saved") /\ Lands(p)
     \/ Fail(p) /\ Goes(p, "failed") /\ UNCHANGED landed
  /\ UNCHANGED <<machine, agent, req, unsure>>

Ends == {"saved", "failed", "shared", "alone", "refused", "dead"}

Die(p) ==
  /\ MayDie /\ cmd[p].at \notin Ends \cup {"idle"}
  /\ Goes(p, "dead")
  /\ Quit(p)
  /\ IF cmd[p].at # "wait" \/ CarriedOn(p) THEN UNCHANGED req ELSE Done(p)
  /\ UNCHANGED <<file, tmp, data, machine, agent, landed, unsure>>

ClientStep(p) ==
  \/ Connect(p) \/ NoAgent(p) \/ AnswerOk(p) \/ AnswerLocked(p) \/ AnswerError(p)
  \/ GiveUp(p) \/ Direct(p) \/ Writes(p)

CheckStep(r) == Unseen(r) \/ Refuse(r)

AccessNext ==
  \/ \E p \in Client : Start(p) \/ ClientStep(p) \/ Die(p)
  \/ \E r \in Client \X Call :
       \/ CheckStep(r)
       \/ Mismatch(r) \/ Locked(r) \/ Load(r) \/ BeginSave(r) \/ Unlock(r)
       \/ KeystoreAnswers(r) \/ TakeKey(r) \/ AgentWrites(r)
  \/ LockAgent \/ StartAgent \/ StopAgent

(***************************************************************************)
(* A client goes on, the peer check and a save of the agent do, and time    *)
(* passes; the rest of the agent and the keystore need not.                 *)
(***************************************************************************)
Fairness ==
  /\ \A p \in Client : WF_<<vars, access>>(ClientStep(p))
  /\ WF_<<vars, access>>(\E r \in Client \X Call : CheckStep(r))
  /\ WF_<<vars, access>>(\E r \in Client \X Call : AgentWrites(r))

AccessSpec == AccessInit /\ [][AccessNext]_<<vars, access>> /\ Fairness
-----------------------------------------------------------------------------
(***************************************************************************)
(* saveVault: whatever way a save went, a command that says it saved had    *)
(* its vault in the file; and unless the answer of the agent was lost, once *)
(* exactly, and not at all if it says that it failed.  With the answer lost *)
(* a save may be done twice, the second over what was saved in between.     *)
(***************************************************************************)
SaveOnce ==
  \A p \in Client :
    /\ cmd[p].at = "saved" => landed[p] > 0
    /\ ~unsure[p] /\ cmd[p].at \in Ends \ {"dead"} =>
         landed[p] = IF cmd[p].at = "saved" THEN 1 ELSE 0

(***************************************************************************)
(* "the agent may retry ss for up to PEER_CHECK_BUDGET_MS (12s) under load  *)
(* before answering" (client.ts): no client gives up while the agent still  *)
(* finds out who it is, however the runs of ss turn out.                    *)
(***************************************************************************)
CheckInTime ==
  \A r \in Client \X Call : req[r].at = "check" => req[r].clock < READ_TIMEOUT

(***************************************************************************)
(* No command waits for ever on an agent that is locked, hangs, refuses it  *)
(* or comes and goes.                                                       *)
(***************************************************************************)
EveryCommandEnds == \A p \in Client : cmd[p].at # "idle" ~> cmd[p].at \in Ends
=============================================================================
