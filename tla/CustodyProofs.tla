---------------------------- MODULE CustodyProofs ----------------------------
(***************************************************************************)
(* Proofs about the master key, for any commands, keys and machines; and,   *)
(* at the end, about the agent that holds it (Agent), for any requests,     *)
(* limits and grants: its key and its grants are used only while a user's   *)
(* unlock and approval cover it, and a grant never outlives the unlocked    *)
(* period it was given in.                                                  *)
(*                                                                         *)
(* On a machine where nobody restores and nobody overrides the keystore     *)
(* (Plain) there is one key at most, the default one, and everybody's key   *)
(* is that.  On the others commands run one at a time, and only the agent   *)
(* runs beside them (Careful).                                              *)
(***************************************************************************)
EXTENDS Custody, Agent, TLAPS

Places == {"idle", "start", "find", "open", "loaded", "write", "mint", "store", "verify",
           "prompt", "push", "restored", "compare", "wrap", "check", "migrated"}
Uses   == {"load", "save", "restore", "hold", "migrate"}
Jobs   == [at : Places, for : Uses, key : Keys, env : BOOLEAN,
           keystore : {"none", "keytar", "keychain", "passphrase-file"}]

TypeOK ==
  /\ machine \in Machine
  /\ ring \in Keys /\ file \in Keys /\ vault \in Keys /\ agent \in Keys
  /\ job \in [Actor -> Jobs]

(***************************************************************************)
(* What holds on every machine.  Until there is a vault, one actor at most  *)
(* looks for a key; those with the agent's, or pushing one, do not look.    *)
(***************************************************************************)
Looks(a) == ~(job[a].at \in {"idle", "start", "push"} \/ (job[a].at = "loaded" /\ job[a].keystore = "none"))
Sole == vault = NoKey => \A a, b \in Actor : Looks(a) /\ Looks(b) => a = b

Migrating == {"compare", "wrap", "check", "migrated"}

\* What a job's place says of it.
JobIs(a, at, for, k, env, keystore) ==
  /\ at \in {"idle", "start"} => k = NoKey /\ keystore = "none"
  /\ at \in {"loaded", "push", "open", "write", "restored", "start"} \cup Migrating => a # Agent
  /\ at \in {"push", "open", "write", "store", "verify", "restored"} \cup Migrating => k # NoKey
  /\ at \in Migrating => machine.platform = "linux" /\ keystore = "none"
  /\ at = "mint" => keystore = "keytar"
  /\ at = "push" => keystore = "passphrase-file"
  /\ at = "prompt" => keystore = "passphrase-file"
  /\ at = "store" => keystore # "passphrase-file" /\ (keystore = "none" => for = "restore")
  /\ keystore = "keychain" => machine.platform = "macos"
  /\ keystore = "keytar" => machine.platform = "linux"
  /\ keystore = "passphrase-file" => machine.platform = "linux" \/ machine.override
  /\ at = "restored" => for = "restore"
  /\ for = "restore" => a # Agent /\ machine.restores /\ at \in {"store", "verify", "restored"}
  /\ for = "hold" => a = Agent
  /\ env => a # Agent /\ machine.override

JobOK(a) == JobIs(a, job[a].at, job[a].for, job[a].key, job[a].env, job[a].keystore)

\* The agent asks keytar only, and makes a key only for a vault that is not there.
AgentOK ==
  LET j == job[Agent] IN
  /\ j.for = "hold" <=> j.at # "idle"
  /\ j.at # "idle" => machine.platform = "linux" /\ (machine.keytar \/ vault # NoKey)
  /\ j.keystore \in {"none", "keytar"} /\ j.at # "prompt"
  /\ j.at = "find" =>
       /\ j.keystore = "none" /\ j.key = NoKey
       /\ vault = NoKey => agent = NoKey \/ file # NoKey
  /\ j.at \in {"mint", "store"} =>
       /\ machine.keytar /\ vault = NoKey /\ ring = NoKey /\ file = NoKey /\ agent = NoKey

Common == TypeOK /\ Sole /\ AgentOK /\ \A a \in Actor : JobOK(a)

(***************************************************************************)
(* Plain machines.                                                          *)
(***************************************************************************)
Plain == ~machine.restores /\ ~machine.override

Is(k) == k \in {NoKey, DefaultKey}

PlainJob(a) ==
  LET j == job[a] IN
  /\ j.at \in {"mint", "store", "prompt"} => DefaultKey = NoKey
  /\ j.at # "store" => Is(j.key)
  /\ j.keystore # "none" /\ j.at \notin {"mint", "prompt"} => j.key # NoKey
  /\ j.at = "loaded" => DefaultKey # NoKey
  /\ j.at \in {"compare", "check", "migrated"} => file # NoKey
  /\ j.keystore = "keytar" /\ vault = NoKey => file = NoKey /\ machine.keytar

OneKey ==
  /\ Is(ring) /\ Is(file) /\ Is(vault) /\ Is(agent)
  /\ ring # NoKey => machine.platform = "macos" \/ machine.keytar
  /\ \A a \in Actor : PlainJob(a)

(***************************************************************************)
(* The others: commands run one at a time.                                  *)
(***************************************************************************)
OneCommand == \A p, q \in Process : job[p].at # "idle" /\ job[q].at # "idle" => p = q

\* A key that was restored is where the default is looked for, when there is a vault.
Restored(p) ==
  LET j == job[p] IN
  ~machine.override /\ j.for = "restore" =>
    /\ j.at \in {"store", "verify"} => machine.platform = "macos" \/ file = NoKey
    /\ j.at = "restored" =>
         IF machine.platform = "macos" \/ file = NoKey THEN ring = j.key ELSE file = j.key

CarefulJob(p) ==
  LET j == job[p] IN
  /\ j.at \in {"mint", "store"} /\ j.for # "restore" => ring = NoKey
  /\ j.at = "prompt" => file = NoKey
  /\ j.at \in Migrating => ring = j.key
  /\ j.at \in {"check", "migrated"} => file = j.key
  /\ Restored(p)

Careful == OneCommand /\ \A p \in Process : CarefulJob(p)

IInv == Common /\ (Plain => OneKey) /\ (~Plain => Careful)

(***************************************************************************)
(* What a step does to the jobs: that of one actor gets a new value.        *)
(***************************************************************************)
Keystores == {"none", "keytar", "keychain", "passphrase-file"}

Becomes(a, at, for, k, env, keystore) ==
  /\ job' \in [Actor -> Jobs]
  /\ \A b \in Actor : b # a => job'[b] = job[b]
  /\ job'[a].at = at /\ job'[a].for = for /\ job'[a].key = k
  /\ job'[a].env = env /\ job'[a].keystore = keystore

LEMMA JobTypes ==
  ASSUME TypeOK, NEW a \in Actor
  PROVE  /\ job[a] \in Jobs
         /\ job[a].at \in Places /\ job[a].for \in Uses /\ job[a].key \in Keys
         /\ job[a].env \in BOOLEAN /\ job[a].keystore \in Keystores
BY DEF TypeOK, Jobs, Keystores

LEMMA ActorTypes == Agent \in Actor /\ Agent \notin Process /\ NoKey \notin Key /\ \A p \in Process : p \in Actor /\ p # Agent
BY CustodyAssumption DEF Actor

LEMMA LeaveBecomes ==
  ASSUME TypeOK, NEW a \in Actor, Leave(a)
  PROVE  Becomes(a, "idle", "load", NoKey, FALSE, "none")
BY DEF TypeOK, Leave, Idle, Becomes, Jobs, Places, Uses, Keys

LEMMA GotoBecomes ==
  ASSUME TypeOK, NEW a \in Actor, NEW at \in Places, Goto(a, at)
  PROVE  Becomes(a, at, job[a].for, job[a].key, job[a].env, job[a].keystore)
<1> DEFINE r == [job[a] EXCEPT !.at = at]
<1>1. job' = [job EXCEPT ![a] = r]
  BY DEF Goto
<1>2. r \in Jobs /\ r.at = at /\ r.for = job[a].for /\ r.key = job[a].key /\ r.env = job[a].env
        /\ r.keystore = job[a].keystore
  BY JobTypes DEF Jobs, Keystores
<1> QED
  BY <1>1, <1>2 DEF TypeOK, Becomes

LEMMA PickedType ==
  ASSUME TypeOK, NEW a \in Actor
  PROVE  Picked(a) \in {"keytar", "keychain", "passphrase-file"}
BY JobTypes DEF Picked, Backend, Keystores

LEMMA GotoWithBecomes ==
  ASSUME TypeOK, NEW a \in Actor, NEW at \in Places, NEW k \in Keys, GotoWith(a, at, k)
  PROVE  Becomes(a, at, job[a].for, k, job[a].env, Picked(a))
<1> DEFINE r == [job[a] EXCEPT !.at = at, !.key = k, !.keystore = Picked(a)]
<1>1. job' = [job EXCEPT ![a] = r]
  BY DEF GotoWith
<1>2. r \in Jobs /\ r.at = at /\ r.for = job[a].for /\ r.key = k /\ r.env = job[a].env
        /\ r.keystore = Picked(a)
  BY JobTypes, PickedType DEF Jobs, Keystores
<1> HIDE DEF r
<1> QED
  BY <1>1, <1>2 DEF TypeOK, Becomes

LEMMA StartBecomes ==
  ASSUME TypeOK, NEW p \in Process, NEW env \in BOOLEAN, Start(p, env)
  PROVE  Becomes(p, "start", job[p].for, job[p].key, env, job[p].keystore)
<1> DEFINE r == [job[p] EXCEPT !.at = "start", !.env = env]
<1>1. job' = [job EXCEPT ![p] = r]
  BY DEF Start
<1>2. r \in Jobs /\ r.at = "start" /\ r.for = job[p].for /\ r.key = job[p].key /\ r.env = env /\ r.keystore = job[p].keystore
  BY JobTypes, ActorTypes DEF TypeOK, Jobs, Keystores, Places, Uses, Keys
<1> HIDE DEF r
<1> QED
  BY <1>1, <1>2, ActorTypes DEF TypeOK, Becomes

LEMMA ResolveLoadBecomes ==
  ASSUME TypeOK, NEW p \in Process, job' = [job EXCEPT ![p].at = "find", ![p].for = "load"]
  PROVE  Becomes(p, "find", "load", job[p].key, job[p].env, job[p].keystore)
<1> DEFINE r == [job[p] EXCEPT !.at = "find", !.for = "load"]
<1>1. job' = [job EXCEPT ![p] = r]
  OBVIOUS
<1>2. r \in Jobs /\ r.at = "find" /\ r.for = "load" /\ r.key = job[p].key /\ r.env = job[p].env /\ r.keystore = job[p].keystore
  BY JobTypes, ActorTypes DEF TypeOK, Jobs, Keystores, Places, Uses, Keys
<1> HIDE DEF r
<1> QED
  BY <1>1, <1>2, ActorTypes DEF TypeOK, Becomes

LEMMA ResolveSaveBecomes ==
  ASSUME TypeOK, NEW p \in Process, job' = [job EXCEPT ![p].at = "find", ![p].for = "save"]
  PROVE  Becomes(p, "find", "save", job[p].key, job[p].env, job[p].keystore)
<1> DEFINE r == [job[p] EXCEPT !.at = "find", !.for = "save"]
<1>1. job' = [job EXCEPT ![p] = r]
  OBVIOUS
<1>2. r \in Jobs /\ r.at = "find" /\ r.for = "save" /\ r.key = job[p].key /\ r.env = job[p].env /\ r.keystore = job[p].keystore
  BY JobTypes, ActorTypes DEF TypeOK, Jobs, Keystores, Places, Uses, Keys
<1> HIDE DEF r
<1> QED
  BY <1>1, <1>2, ActorTypes DEF TypeOK, Becomes

LEMMA MissKeytarBecomes ==
  ASSUME TypeOK, NEW a \in Actor, MissKeytar(a)
  PROVE  Becomes(a, "mint", job[a].for, job[a].key, job[a].env, "keytar")
<1> DEFINE r == [job[a] EXCEPT !.at = "mint", !.keystore = "keytar"]
<1>1. job' = [job EXCEPT ![a] = r]
  BY DEF MissKeytar
<1>2. r \in Jobs /\ r.at = "mint" /\ r.for = job[a].for /\ r.key = job[a].key /\ r.env = job[a].env /\ r.keystore = "keytar"
  BY JobTypes, ActorTypes DEF TypeOK, Jobs, Keystores, Places, Uses, Keys
<1> HIDE DEF r
<1> QED
  BY <1>1, <1>2, ActorTypes DEF TypeOK, Becomes

LEMMA MissFileBecomes ==
  ASSUME TypeOK, NEW a \in Actor, MissFile(a)
  PROVE  Becomes(a, "prompt", job[a].for, job[a].key, job[a].env, "passphrase-file")
<1> DEFINE r == [job[a] EXCEPT !.at = "prompt", !.keystore = "passphrase-file"]
<1>1. job' = [job EXCEPT ![a] = r]
  BY DEF MissFile
<1>2. r \in Jobs /\ r.at = "prompt" /\ r.for = job[a].for /\ r.key = job[a].key /\ r.env = job[a].env /\ r.keystore = "passphrase-file"
  BY JobTypes, ActorTypes DEF TypeOK, Jobs, Keystores, Places, Uses, Keys
<1> HIDE DEF r
<1> QED
  BY <1>1, <1>2, ActorTypes DEF TypeOK, Becomes

LEMMA HoldBecomes ==
  ASSUME TypeOK, Hold
  PROVE  Becomes(Agent, "find", "hold", job[Agent].key, job[Agent].env, job[Agent].keystore)
<1> DEFINE r == [job[Agent] EXCEPT !.at = "find", !.for = "hold"]
<1>1. job' = [job EXCEPT ![Agent] = r]
  BY DEF Hold
<1>2. r \in Jobs /\ r.at = "find" /\ r.for = "hold" /\ r.key = job[Agent].key /\ r.env = job[Agent].env /\ r.keystore = job[Agent].keystore
  BY JobTypes, ActorTypes DEF TypeOK, Jobs, Keystores, Places, Uses, Keys
<1> HIDE DEF r
<1> QED
  BY <1>1, <1>2, ActorTypes DEF TypeOK, Becomes

LEMMA RestoreBecomes ==
  ASSUME TypeOK, NEW p \in Process, NEW k \in Key, Restore(p, k)
  PROVE  Becomes(p, IF IntoKeyFile(p) THEN "restored" ELSE "store", "restore", k, job[p].env, job[p].keystore)
<1> DEFINE at == IF IntoKeyFile(p) THEN "restored" ELSE "store"
           r == [job[p] EXCEPT !.at = at, !.for = "restore", !.key = k]
<1>1. job' = [job EXCEPT ![p] = r]
  BY DEF Restore
<1>2. r \in Jobs /\ r.at = at /\ r.for = "restore" /\ r.key = k /\ r.env = job[p].env /\ r.keystore = job[p].keystore
  BY JobTypes, ActorTypes DEF TypeOK, Jobs, Keystores, Places, Uses, Keys
<1> HIDE DEF r
<1> QED
  BY <1>1, <1>2, ActorTypes DEF TypeOK, Becomes

LEMMA ReadRingBecomes ==
  ASSUME TypeOK, NEW p \in Process, ReadRing(p)
  PROVE  Becomes(p, IF file # NoKey THEN "compare" ELSE "wrap", "migrate", ring, job[p].env, job[p].keystore)
<1> DEFINE at == IF file # NoKey THEN "compare" ELSE "wrap"
           r == [job[p] EXCEPT !.at = at, !.for = "migrate", !.key = ring]
<1>1. job' = [job EXCEPT ![p] = r]
  BY DEF ReadRing
<1>2. r \in Jobs /\ r.at = at /\ r.for = "migrate" /\ r.key = ring /\ r.env = job[p].env /\ r.keystore = job[p].keystore
  BY JobTypes, ActorTypes DEF TypeOK, Jobs, Keystores, Places, Uses, Keys
<1> HIDE DEF r
<1> QED
  BY <1>1, <1>2, ActorTypes DEF TypeOK, Becomes

LEMMA GotBecomes ==
  ASSUME TypeOK, NEW a \in Actor, NEW k \in Keys, Got(a, k)
  PROVE  \/ /\ job[a].for = "load" /\ UNCHANGED agent
            /\ Becomes(a, "open", job[a].for, k, job[a].env, Picked(a))
         \/ /\ job[a].for = "save" /\ UNCHANGED agent
            /\ Becomes(a, "write", job[a].for, k, job[a].env, Picked(a))
         \/ /\ job[a].for = "restore" /\ UNCHANGED agent
            /\ Becomes(a, "restored", job[a].for, k, job[a].env, Picked(a))
         \/ /\ job[a].for = "hold" /\ agent' = k
            /\ Becomes(a, "idle", "load", NoKey, FALSE, "none")
<1>1. CASE job[a].for = "load"
  BY <1>1, GotoWithBecomes DEF Got, Places
<1>2. CASE job[a].for = "save"
  BY <1>2, GotoWithBecomes DEF Got, Places
<1>3. CASE job[a].for = "restore"
  BY <1>3, GotoWithBecomes DEF Got, Places
<1>4. CASE job[a].for = "hold"
  BY <1>4, LeaveBecomes DEF Got
<1>5. CASE job[a].for \notin {"load", "save", "restore", "hold"}
  BY <1>5 DEF Got
<1> QED
  BY <1>1, <1>2, <1>3, <1>4, <1>5

(***************************************************************************)
(* Jobs say what their places say, on every machine.                        *)
(***************************************************************************)
JobsOK == \A a \in Actor : JobOK(a)

LEMMA PickedOK ==
  ASSUME TypeOK, NEW a \in Actor, JobOK(a)
  PROVE  /\ Picked(a) \in {"keytar", "keychain", "passphrase-file"}
         /\ Picked(a) = "keychain" => machine.platform = "macos"
         /\ Picked(a) = "keytar" => machine.platform = "linux"
         /\ Picked(a) = "passphrase-file" => machine.platform = "linux" \/ machine.override
BY JobTypes DEF Picked, Backend, Keystores, JobOK, JobIs, TypeOK, Machine

LEMMA JobStep ==
  ASSUME JobsOK, UNCHANGED machine,
         NEW a \in Actor, NEW at, NEW for, NEW k, NEW env, NEW keystore,
         Becomes(a, at, for, k, env, keystore), JobIs(a, at, for, k, env, keystore)
  PROVE  JobsOK'
BY DEF JobsOK, JobOK, JobIs, Becomes

LEMMA LeaveJobs ==
  ASSUME TypeOK, JobsOK, UNCHANGED machine, NEW a \in Actor, Leave(a)
  PROVE  JobsOK'
<1>1. JobIs(a, "idle", "load", NoKey, FALSE, "none")
  BY DEF JobIs, Migrating
<1> QED
  BY <1>1, LeaveBecomes, JobStep

LEMMA GotoJobs ==
  ASSUME TypeOK, JobsOK, UNCHANGED machine, NEW a \in Actor, NEW at \in Places, Goto(a, at),
         JobIs(a, at, job[a].for, job[a].key, job[a].env, job[a].keystore)
  PROVE  JobsOK'
BY GotoBecomes, JobStep

LEMMA GotoWithJobs ==
  ASSUME TypeOK, JobsOK, UNCHANGED machine, NEW a \in Actor, NEW at \in Places, NEW k \in Keys,
         GotoWith(a, at, k), JobIs(a, at, job[a].for, k, job[a].env, Picked(a))
  PROVE  JobsOK'
BY GotoWithBecomes, JobStep

LEMMA GotJobs ==
  ASSUME TypeOK, JobsOK, AgentOK, UNCHANGED machine, NEW a \in Actor, job[a].at # "idle",
         NEW k \in Keys, k # NoKey, Got(a, k)
  PROVE  JobsOK'
<1>1. a = Agent => job[a].for = "hold"
  BY DEF AgentOK
<1>2. JobOK(a)
  BY DEF JobsOK
<1>3. CASE job[a].for = "load"
  <2>1. JobIs(a, "open", job[a].for, k, job[a].env, Picked(a))
    BY <1>1, <1>2, <1>3, PickedOK DEF JobOK, JobIs, Migrating
  <2> QED
    BY <1>3, <2>1, GotoWithJobs DEF Got, Places
<1>4. CASE job[a].for = "save"
  <2>1. JobIs(a, "write", job[a].for, k, job[a].env, Picked(a))
    BY <1>1, <1>2, <1>4, PickedOK DEF JobOK, JobIs, Migrating
  <2> QED
    BY <1>4, <2>1, GotoWithJobs DEF Got, Places
<1>5. CASE job[a].for = "restore"
  <2>1. JobIs(a, "restored", job[a].for, k, job[a].env, Picked(a))
    BY <1>1, <1>2, <1>5, PickedOK DEF JobOK, JobIs, Migrating
  <2> QED
    BY <1>5, <2>1, GotoWithJobs DEF Got, Places
<1>6. CASE job[a].for = "hold"
  BY <1>6, LeaveJobs DEF Got
<1>7. CASE job[a].for \notin {"load", "save", "restore", "hold"}
  BY <1>7 DEF Got
<1> QED
  BY <1>3, <1>4, <1>5, <1>6, <1>7

LEMMA NextJobs ==
  ASSUME TypeOK, JobsOK, AgentOK, [Next]_vars
  PROVE  JobsOK'
<1> USE DEF At
<1>A. ASSUME NEW a \in Actor PROVE JobIs(a, job[a].at, job[a].for, job[a].key, job[a].env, job[a].keystore)
  BY DEF JobsOK, JobOK
<1>P. ASSUME NEW p \in Process PROVE p \in Actor /\ p # Agent /\ p \in Process
  BY ActorTypes
<1>T. /\ machine.platform \in {"linux", "macos"} /\ machine.override \in BOOLEAN /\ machine.restores \in BOOLEAN
      /\ ring \in Keys /\ file \in Keys /\ agent \in Keys /\ NoKey \in Keys /\ Key \subseteq Keys /\ NoKey \notin Key
  BY ActorTypes DEF TypeOK, Machine, Keys
<1>1. ASSUME NEW p \in Process, NEW env \in BOOLEAN, Start(p, env) PROVE JobsOK'
  <2>1. JobIs(p, "start", job[p].for, job[p].key, env, job[p].keystore)
    BY <1>1, <1>A, <1>P DEF Start, JobIs, Migrating
  <2> QED
    BY <1>1, <1>P, <2>1, StartBecomes, JobStep DEF Start
<1>2. ASSUME NEW p \in Process, AgentLoad(p) PROVE JobsOK'
  <2>1. JobIs(p, "loaded", job[p].for, job[p].key, job[p].env, job[p].keystore)
    BY <1>2, <1>A, <1>P DEF AgentLoad, JobIs, Migrating
  <2> QED
    BY <1>2, <1>P, <2>1, GotoJobs, LeaveJobs DEF AgentLoad, Places
<1>3. ASSUME NEW p \in Process, AgentSave(p) PROVE JobsOK'
  BY <1>3, <1>P, LeaveJobs DEF AgentSave
<1>4. ASSUME NEW p \in Process, Resolve(p) PROVE JobsOK'
  <2>1. JobIs(p, "find", "load", job[p].key, job[p].env, job[p].keystore)
    BY <1>4, <1>A, <1>P DEF Resolve, JobIs, Migrating
  <2>2. JobIs(p, "find", "save", job[p].key, job[p].env, job[p].keystore)
    BY <1>4, <1>A, <1>P DEF Resolve, JobIs, Migrating
  <2> QED
    BY <1>4, <1>P, <2>1, <2>2, ResolveLoadBecomes, ResolveSaveBecomes, JobStep DEF Resolve
<1>5. ASSUME NEW p \in Process, Open(p) PROVE JobsOK'
  <2>1. JobIs(p, "loaded", job[p].for, job[p].key, job[p].env, job[p].keystore)
    BY <1>5, <1>A, <1>P DEF Open, JobIs, Migrating
  <2> QED
    BY <1>5, <1>P, <2>1, GotoJobs, LeaveJobs DEF Open, Places
<1>6. ASSUME NEW p \in Process, Write(p) PROVE JobsOK'
  BY <1>6, <1>P, LeaveJobs DEF Write
<1>7. ASSUME NEW p \in Process, Unlock(p) PROVE JobsOK'
  <2>1. JobIs(p, "push", job[p].for, file, job[p].env, Picked(p))
    BY <1>7, <1>A, <1>P, PickedOK DEF Unlock, JobIs, Migrating, JobOK
  <2> QED
    BY <1>7, <1>P, <1>T, <2>1, GotoWithJobs DEF Unlock, Places
<1>8. ASSUME NEW p \in Process, PushKey(p) PROVE JobsOK'
  BY <1>8, <1>P, LeaveJobs DEF PushKey
<1>9. ASSUME NEW p \in Process, NEW k \in Key, Restore(p, k) PROVE JobsOK'
  <2> DEFINE at == IF IntoKeyFile(p) THEN "restored" ELSE "store"
  <2>1. JobIs(p, at, "restore", k, job[p].env, job[p].keystore)
    BY <1>9, <1>A, <1>P, <1>T DEF Restore, JobIs, Migrating
  <2> QED
    BY <1>9, <1>P, <2>1, RestoreBecomes, JobStep DEF Restore
<1>10. ASSUME NEW p \in Process, WriteRestored(p) PROVE JobsOK'
  BY <1>10, <1>P, LeaveJobs DEF WriteRestored
<1>11. ASSUME NEW p \in Process, ReadRing(p) PROVE JobsOK'
  <2> DEFINE at == IF file # NoKey THEN "compare" ELSE "wrap"
  <2>1. JobIs(p, at, "migrate", ring, job[p].env, job[p].keystore)
    BY <1>11, <1>A, <1>P DEF ReadRing, HasOldKey, JobIs, Migrating
  <2> QED
    BY <1>11, <1>P, <2>1, ReadRingBecomes, JobStep DEF ReadRing
<1>12. ASSUME NEW p \in Process, Compare(p) PROVE JobsOK'
  <2>1. JobIs(p, "migrated", job[p].for, job[p].key, job[p].env, job[p].keystore)
    BY <1>12, <1>A, <1>P DEF Compare, JobIs, Migrating
  <2> QED
    BY <1>12, <1>P, <2>1, GotoJobs DEF Compare, Places
<1>13. ASSUME NEW p \in Process, Wrap(p) PROVE JobsOK'
  <2>1. JobIs(p, "check", job[p].for, job[p].key, job[p].env, job[p].keystore)
    BY <1>13, <1>A, <1>P DEF Wrap, JobIs, Migrating
  <2> QED
    BY <1>13, <1>P, <2>1, GotoJobs DEF Wrap, Places
<1>14. ASSUME NEW p \in Process, CheckWrapped(p) PROVE JobsOK'
  <2>1. JobIs(p, "migrated", job[p].for, job[p].key, job[p].env, job[p].keystore)
    BY <1>14, <1>A, <1>P DEF CheckWrapped, JobIs, Migrating
  <2> QED
    BY <1>14, <1>P, <2>1, GotoJobs, LeaveJobs DEF CheckWrapped, Places
<1>15. ASSUME NEW p \in Process, RemoveOld(p) PROVE JobsOK'
  BY <1>15, <1>P, LeaveJobs DEF RemoveOld
<1>16. ASSUME NEW a \in Actor, FindKey(a) PROVE JobsOK'
  BY <1>16, <1>T, GotJobs, JobTypes DEF FindKey
<1>17. ASSUME NEW a \in Actor, MissKeytar(a) PROVE JobsOK'
  <2>1. JobIs(a, "mint", job[a].for, job[a].key, job[a].env, "keytar")
    BY <1>17, <1>A, PickedOK DEF MissKeytar, JobIs, Migrating, JobOK
  <2> QED
    BY <1>17, <2>1, MissKeytarBecomes, JobStep DEF MissKeytar
<1>18. ASSUME NEW a \in Actor, MissKeychain(a) PROVE JobsOK'
  <2>1. PICK k \in Key : GotoWith(a, "store", k)
    BY <1>18 DEF MissKeychain
  <2>2. JobIs(a, "store", job[a].for, k, job[a].env, Picked(a))
    BY <1>18, <1>A, <1>T, PickedOK DEF MissKeychain, JobIs, Migrating, JobOK
  <2> QED
    BY <1>18, <1>T, <2>1, <2>2, GotoWithJobs DEF MissKeychain, Places
<1>19. ASSUME NEW a \in Actor, Mint(a) PROVE JobsOK'
  <2>1. PICK k \in Key : GotoWith(a, "store", k)
    BY <1>19 DEF Mint
  <2>2. Picked(a) = "keytar"
    BY <1>19, <1>A DEF Mint, JobIs, Picked
  <2>3. JobIs(a, "store", job[a].for, k, job[a].env, Picked(a))
    BY <1>19, <1>A, <1>T, <2>2, PickedOK DEF Mint, JobIs, Migrating, JobOK
  <2> QED
    BY <1>19, <1>T, <2>1, <2>3, GotoWithJobs DEF Mint, Places
<1>20. ASSUME NEW a \in Actor, Store(a) PROVE JobsOK'
  <2>1. JobIs(a, "verify", job[a].for, job[a].key, job[a].env, job[a].keystore)
    BY <1>20, <1>A DEF Store, JobIs, Migrating
  <2> QED
    BY <1>20, <2>1, GotoJobs DEF Store, Places
<1>21. ASSUME NEW a \in Actor, Verify(a) PROVE JobsOK'
  <2>1. ring # NoKey
    BY <1>21, <1>A DEF Verify, JobIs
  <2> QED
    BY <1>21, <1>T, <2>1, GotJobs DEF Verify
<1>22. ASSUME NEW a \in Actor, MissFile(a) PROVE JobsOK'
  <2>1. JobIs(a, "prompt", job[a].for, job[a].key, job[a].env, "passphrase-file")
    BY <1>22, <1>A, PickedOK DEF MissFile, JobIs, Migrating, JobOK
  <2> QED
    BY <1>22, <2>1, MissFileBecomes, JobStep DEF MissFile
<1>23. ASSUME NEW a \in Actor, MakeFile(a) PROVE JobsOK'
  BY <1>23, <1>T, GotJobs DEF MakeFile
<1>24. ASSUME NEW a \in Actor, Quit(a) PROVE JobsOK'
  BY <1>24, LeaveJobs DEF Quit
<1>25. CASE Hold
  <2>1. JobIs(Agent, "find", "hold", job[Agent].key, job[Agent].env, job[Agent].keystore)
    BY <1>25, <1>A, ActorTypes DEF Hold, JobIs, Migrating
  <2> QED
    BY <1>25, ActorTypes, <2>1, HoldBecomes, JobStep DEF Hold
<1>26. CASE AgentLock \/ UNCHANGED vars
  BY <1>26 DEF AgentLock, vars, JobsOK, JobOK, JobIs
<1> QED
  BY <1>1, <1>2, <1>3, <1>4, <1>5, <1>6, <1>7, <1>8, <1>9, <1>10, <1>11, <1>12, <1>13, <1>14, <1>15,
     <1>16, <1>17, <1>18, <1>19, <1>20, <1>21, <1>22, <1>23, <1>24, <1>25, <1>26 DEF Next, Command, ResolveKey

LEMMA NextType ==
  ASSUME TypeOK, JobsOK, [Next]_vars
  PROVE  TypeOK'
<1> DEFINE OtherTypes == machine \in Machine /\ ring \in Keys /\ file \in Keys /\ vault \in Keys /\ agent \in Keys
           JobType == job \in [Actor -> Jobs]
<1>T. OtherTypes /\ JobType /\ NoKey \in Keys /\ Key \subseteq Keys
  BY DEF TypeOK, Keys
<1>P. ASSUME NEW p \in Process PROVE p \in Actor /\ job[p].key \in Keys
  BY ActorTypes, JobTypes
<1>S. OtherTypes' /\ JobType' => TypeOK'
  BY DEF TypeOK
<1>L. ASSUME NEW a \in Actor, Leave(a) PROVE JobType'
  BY <1>L, LeaveBecomes DEF Becomes
<1>G. ASSUME NEW a \in Actor, NEW at \in Places, Goto(a, at) PROVE JobType'
  BY <1>G, GotoBecomes DEF Becomes
<1>W. ASSUME NEW a \in Actor, NEW at \in Places, NEW k \in Keys, GotoWith(a, at, k) PROVE JobType'
  BY <1>W, GotoWithBecomes DEF Becomes
<1>R. ASSUME NEW a \in Actor, NEW k \in Keys, Got(a, k) PROVE JobType' /\ agent' \in Keys
  <2>1. JobType'
    BY <1>R, GotBecomes DEF Becomes
  <2>2. agent' \in Keys
    BY <1>R, <1>T, GotBecomes
  <2> QED
    BY <2>1, <2>2
<1> HIDE DEF JobType
<1>1. ASSUME NEW p \in Process, NEW env \in BOOLEAN, Start(p, env) PROVE OtherTypes' /\ JobType'
  BY <1>1, <1>P, <1>T, StartBecomes DEF Start, Becomes, JobType
<1>2. ASSUME NEW p \in Process, AgentLoad(p) PROVE OtherTypes' /\ JobType'
  BY <1>2, <1>P, <1>T, <1>G, <1>L DEF AgentLoad, Places
<1>3. ASSUME NEW p \in Process, AgentSave(p) PROVE OtherTypes' /\ JobType'
  BY <1>3, <1>P, <1>T, <1>L DEF AgentSave
<1>4. ASSUME NEW p \in Process, Resolve(p) PROVE OtherTypes' /\ JobType'
  BY <1>4, <1>P, <1>T, ResolveLoadBecomes, ResolveSaveBecomes DEF Resolve, Becomes, JobType
<1>5. ASSUME NEW p \in Process, Open(p) PROVE OtherTypes' /\ JobType'
  BY <1>5, <1>P, <1>T, <1>G, <1>L DEF Open, Places
<1>6. ASSUME NEW p \in Process, Write(p) PROVE OtherTypes' /\ JobType'
  BY <1>6, <1>P, <1>T, <1>L DEF Write
<1>7. ASSUME NEW p \in Process, Unlock(p) PROVE OtherTypes' /\ JobType'
  BY <1>7, <1>P, <1>T, <1>W DEF Unlock, Places
<1>8. ASSUME NEW p \in Process, PushKey(p) PROVE OtherTypes' /\ JobType'
  BY <1>8, <1>P, <1>T, <1>L DEF PushKey
<1>9. ASSUME NEW p \in Process, NEW k \in Key, Restore(p, k) PROVE OtherTypes' /\ JobType'
  <2>1. JobType'
    BY <1>9, <1>P, RestoreBecomes DEF Becomes, JobType
  <2> QED
    BY <1>9, <2>1, <1>T DEF Restore
<1>10. ASSUME NEW p \in Process, WriteRestored(p) PROVE OtherTypes' /\ JobType'
  BY <1>10, <1>P, <1>T, <1>L DEF WriteRestored
<1>11. ASSUME NEW p \in Process, ReadRing(p) PROVE OtherTypes' /\ JobType'
  BY <1>11, <1>P, <1>T, ReadRingBecomes DEF ReadRing, Becomes, JobType
<1>12. ASSUME NEW p \in Process, Compare(p) PROVE OtherTypes' /\ JobType'
  BY <1>12, <1>P, <1>T, <1>G DEF Compare, Places
<1>13. ASSUME NEW p \in Process, Wrap(p) PROVE OtherTypes' /\ JobType'
  BY <1>13, <1>P, <1>T, <1>G DEF Wrap, Places
<1>14. ASSUME NEW p \in Process, CheckWrapped(p) PROVE OtherTypes' /\ JobType'
  BY <1>14, <1>P, <1>T, <1>G, <1>L DEF CheckWrapped, Places
<1>15. ASSUME NEW p \in Process, RemoveOld(p) PROVE OtherTypes' /\ JobType'
  BY <1>15, <1>P, <1>T, <1>L DEF RemoveOld
<1>16. ASSUME NEW a \in Actor, FindKey(a) PROVE OtherTypes' /\ JobType'
  BY <1>16, <1>T, <1>R, JobTypes DEF FindKey
<1>17. ASSUME NEW a \in Actor, MissKeytar(a) PROVE OtherTypes' /\ JobType'
  BY <1>17, <1>T, MissKeytarBecomes DEF MissKeytar, Becomes, JobType
<1>18. ASSUME NEW a \in Actor, MissKeychain(a) PROVE OtherTypes' /\ JobType'
  BY <1>18, <1>T, <1>W DEF MissKeychain, Places
<1>19. ASSUME NEW a \in Actor, Mint(a) PROVE OtherTypes' /\ JobType'
  BY <1>19, <1>T, <1>W DEF Mint, Places
<1>20. ASSUME NEW a \in Actor, Store(a) PROVE OtherTypes' /\ JobType'
  BY <1>20, <1>T, <1>G, JobTypes DEF Store, Places
<1>21. ASSUME NEW a \in Actor, Verify(a) PROVE OtherTypes' /\ JobType'
  BY <1>21, <1>T, <1>R DEF Verify
<1>22. ASSUME NEW a \in Actor, MissFile(a) PROVE OtherTypes' /\ JobType'
  BY <1>22, <1>T, MissFileBecomes DEF MissFile, Becomes, JobType
<1>23. ASSUME NEW a \in Actor, MakeFile(a) PROVE OtherTypes' /\ JobType'
  BY <1>23, <1>T, <1>R DEF MakeFile
<1>24. ASSUME NEW a \in Actor, Quit(a) PROVE OtherTypes' /\ JobType'
  BY <1>24, <1>T, <1>L DEF Quit
<1>25. ASSUME Hold PROVE OtherTypes' /\ JobType'
  <2>1. JobType'
    BY <1>25, HoldBecomes DEF Becomes, JobType
  <2> QED
    BY <1>25, <2>1, <1>T DEF Hold
<1>26. ASSUME AgentLock \/ UNCHANGED vars PROVE OtherTypes' /\ JobType'
  <2>1. job' = job
    BY <1>26 DEF AgentLock, vars
  <2>2. JobType'
    BY <2>1, <1>T DEF JobType
  <2> QED
    BY <1>26, <2>2, <1>T DEF AgentLock, vars
<1> QED
  BY <1>S, <1>1, <1>2, <1>3, <1>4, <1>5, <1>6, <1>7, <1>8, <1>9, <1>10, <1>11, <1>12, <1>13, <1>14, <1>15,
     <1>16, <1>17, <1>18, <1>19, <1>20, <1>21, <1>22, <1>23, <1>24, <1>25, <1>26 DEF Next, Command, ResolveKey

(***************************************************************************)
(* Until there is a vault, one at most looks for a key.                     *)
(***************************************************************************)
Kept(a) == \A b \in Actor : b # a => job'[b] = job[b]

LEMMA NoMoreLook ==
  ASSUME Sole, NEW a \in Actor, Kept(a), vault' = NoKey => vault = NoKey, Looks(a)' => Looks(a)
  PROVE  Sole'
BY DEF Sole, Looks, Kept

LEMMA MayLookAlone ==
  ASSUME FirstRunAlone, NEW a \in Actor, MayLook(a), Kept(a), vault' = vault
  PROVE  Sole'
BY DEF MayLook, Sole, Looks, Kept

LEMMA KeptBecomes ==
  ASSUME NEW a \in Actor, NEW at, NEW for, NEW k, NEW env, NEW keystore,
         Becomes(a, at, for, k, env, keystore)
  PROVE  /\ Kept(a)
         /\ at \in {"idle", "start", "push"} => ~Looks(a)'
         /\ at = "loaded" /\ keystore = "none" => ~Looks(a)'
BY DEF Becomes, Kept, Looks

LEMMA LeaveKept ==
  ASSUME TypeOK, NEW a \in Actor, Leave(a)
  PROVE  Kept(a) /\ ~Looks(a)'
BY LeaveBecomes, KeptBecomes

LEMMA GotoKept ==
  ASSUME TypeOK, NEW a \in Actor, NEW at \in Places, Goto(a, at)
  PROVE  Kept(a) /\ (at = "loaded" /\ job[a].keystore = "none" => ~Looks(a)')
BY GotoBecomes, KeptBecomes

LEMMA GotoWithKept ==
  ASSUME TypeOK, NEW a \in Actor, NEW at \in Places, NEW k \in Keys, GotoWith(a, at, k)
  PROVE  Kept(a) /\ (at = "push" => ~Looks(a)')
BY GotoWithBecomes, KeptBecomes

LEMMA GotKept ==
  ASSUME TypeOK, NEW a \in Actor, NEW k \in Keys, Got(a, k)
  PROVE  Kept(a)
BY GotBecomes, KeptBecomes

LEMMA NextSole ==
  ASSUME FirstRunAlone, TypeOK, JobsOK, Sole, [Next]_vars
  PROVE  Sole'
<1> USE DEF At
<1>T. /\ NoKey \notin Key /\ Key \subseteq Keys /\ ring \in Keys /\ file \in Keys
      /\ \A p \in Process : p \in Actor
      /\ \A a \in Actor : JobOK(a) /\ job[a].key \in Keys
  BY ActorTypes, JobTypes DEF TypeOK, JobsOK, Keys
<1>L. ASSUME NEW a \in Actor, Leave(a), vault' = NoKey => vault = NoKey PROVE Sole'
  BY <1>L, LeaveKept, NoMoreLook
<1>K. ASSUME NEW a \in Actor, Kept(a), vault' = vault, Looks(a) PROVE Sole'
  BY <1>K, NoMoreLook
<1>1. ASSUME NEW p \in Process, NEW env \in BOOLEAN, Start(p, env) PROVE Sole'
  BY <1>1, <1>T, StartBecomes, KeptBecomes, NoMoreLook DEF Start
<1>2. ASSUME NEW p \in Process, AgentLoad(p) PROVE Sole'
  <2>1. job[p].keystore = "none"
    BY <1>2, <1>T DEF AgentLoad, JobOK, JobIs
  <2> QED
    BY <1>2, <2>1, <1>T, <1>L, GotoKept, NoMoreLook DEF AgentLoad, Places
<1>3. ASSUME NEW p \in Process, AgentSave(p) PROVE Sole'
  BY <1>3, <1>T, <1>L DEF AgentSave, Bound
<1>4. ASSUME NEW p \in Process, Resolve(p) PROVE Sole'
  BY <1>4, <1>T, ResolveLoadBecomes, ResolveSaveBecomes, KeptBecomes, MayLookAlone DEF Resolve
<1>5. ASSUME NEW p \in Process, Open(p) PROVE Sole'
  BY <1>5, <1>T, <1>L, <1>K, GotoKept DEF Open, Places, Looks
<1>6. ASSUME NEW p \in Process, Write(p) PROVE Sole'
  BY <1>6, <1>T, <1>L DEF Write, JobOK, JobIs
<1>7. ASSUME NEW p \in Process, Unlock(p) PROVE Sole'
  BY <1>7, <1>T, GotoWithKept, NoMoreLook DEF Unlock, Places
<1>8. ASSUME NEW p \in Process, PushKey(p) PROVE Sole'
  BY <1>8, <1>T, <1>L DEF PushKey
<1>9. ASSUME NEW p \in Process, NEW k \in Key, Restore(p, k) PROVE Sole'
  <2>1. Kept(p)
    BY <1>9, <1>T, RestoreBecomes, KeptBecomes
  <2> QED
    BY <1>9, <2>1, <1>T, MayLookAlone DEF Restore
<1>10. ASSUME NEW p \in Process, WriteRestored(p) PROVE Sole'
  BY <1>10, <1>T, <1>L DEF WriteRestored, JobOK, JobIs
<1>11. ASSUME NEW p \in Process, ReadRing(p) PROVE Sole'
  <2>1. Kept(p)
    BY <1>11, <1>T, ReadRingBecomes, KeptBecomes
  <2> QED
    BY <1>11, <2>1, <1>T, MayLookAlone DEF ReadRing
<1>12. ASSUME NEW p \in Process, Compare(p) PROVE Sole'
  BY <1>12, <1>T, <1>K, GotoKept DEF Compare, Places, Looks
<1>13. ASSUME NEW p \in Process, Wrap(p) PROVE Sole'
  BY <1>13, <1>T, <1>K, GotoKept DEF Wrap, Places, Looks
<1>14. ASSUME NEW p \in Process, CheckWrapped(p) PROVE Sole'
  BY <1>14, <1>T, <1>L, <1>K, GotoKept DEF CheckWrapped, Places, Looks
<1>15. ASSUME NEW p \in Process, RemoveOld(p) PROVE Sole'
  BY <1>15, <1>T, <1>L DEF RemoveOld
<1>16. ASSUME NEW a \in Actor, FindKey(a) PROVE Sole'
  BY <1>16, <1>T, <1>K, GotKept DEF FindKey, Looks
<1>17. ASSUME NEW a \in Actor, MissKeytar(a) PROVE Sole'
  <2>1. Kept(a)
    BY <1>17, MissKeytarBecomes, KeptBecomes
  <2> QED
    BY <1>17, <2>1, <1>K DEF MissKeytar, Looks
<1>18. ASSUME NEW a \in Actor, MissKeychain(a) PROVE Sole'
  BY <1>18, <1>T, <1>K, GotoWithKept DEF MissKeychain, Places, Looks
<1>19. ASSUME NEW a \in Actor, Mint(a) PROVE Sole'
  BY <1>19, <1>T, <1>K, GotoWithKept DEF Mint, Places, Looks
<1>20. ASSUME NEW a \in Actor, Store(a) PROVE Sole'
  BY <1>20, <1>K, GotoKept DEF Store, Places, Looks
<1>21. ASSUME NEW a \in Actor, Verify(a) PROVE Sole'
  BY <1>21, <1>T, <1>K, GotKept DEF Verify, Looks
<1>22. ASSUME NEW a \in Actor, MissFile(a) PROVE Sole'
  <2>1. Kept(a)
    BY <1>22, MissFileBecomes, KeptBecomes
  <2> QED
    BY <1>22, <2>1, <1>K DEF MissFile, Looks
<1>23. ASSUME NEW a \in Actor, MakeFile(a) PROVE Sole'
  BY <1>23, <1>T, <1>K, GotKept DEF MakeFile, Looks
<1>24. ASSUME NEW a \in Actor, Quit(a) PROVE Sole'
  BY <1>24, <1>L DEF Quit
<1>25. CASE Hold
  <2>1. Kept(Agent)
    BY <1>25, HoldBecomes, KeptBecomes, ActorTypes
  <2> QED
    BY <1>25, <2>1, ActorTypes, MayLookAlone DEF Hold
<1>26. CASE AgentLock \/ UNCHANGED vars
  BY <1>26 DEF AgentLock, vars, Sole, Looks
<1> QED
  BY <1>1, <1>2, <1>3, <1>4, <1>5, <1>6, <1>7, <1>8, <1>9, <1>10, <1>11, <1>12, <1>13, <1>14, <1>15,
     <1>16, <1>17, <1>18, <1>19, <1>20, <1>21, <1>22, <1>23, <1>24, <1>25, <1>26 DEF Next, Command, ResolveKey

(***************************************************************************)
(* The agent's own asking.                                                  *)
(***************************************************************************)
\* Steps of others leave what the agent goes by while it looks.
LEMMA AgentKept ==
  ASSUME AgentOK, NEW p \in Process, Kept(p), UNCHANGED machine, vault # NoKey => vault' # NoKey,
         vault = NoKey /\ job[Agent].at \in {"mint", "store"} => UNCHANGED <<ring, file, vault, agent>>,
         vault = NoKey /\ job[Agent].at = "find" =>
           (agent = NoKey \/ file # NoKey => agent' = NoKey \/ file' # NoKey)
  PROVE  AgentOK'
<1>1. job'[Agent] = job[Agent]
  BY ActorTypes DEF Kept
<1> QED
  BY <1>1 DEF AgentOK

\* Those who look do not, while it does.
LEMMA AgentSole ==
  ASSUME AgentOK, Sole, NEW p \in Process, Looks(p), vault = NoKey
  PROVE  job[Agent].at \notin {"find", "mint", "store"}
BY ActorTypes DEF Sole, Looks

LEMMA AgentQuiet ==
  ASSUME AgentOK, NEW p \in Process, Kept(p), UNCHANGED <<machine, ring, file, vault, agent>>
  PROVE  AgentOK'
BY AgentKept

LEMMA AgentLooker ==
  ASSUME AgentOK, Sole, NEW p \in Process, Looks(p), Kept(p), UNCHANGED machine,
         vault # NoKey => vault' # NoKey
  PROVE  AgentOK'
BY AgentKept, AgentSole

LEMMA AgentLeaves ==
  ASSUME TypeOK, AgentOK, Leave(Agent), UNCHANGED <<machine, ring, file, vault>>
  PROVE  AgentOK'
<1>1. Becomes(Agent, "idle", "load", NoKey, FALSE, "none")
  BY ActorTypes, LeaveBecomes
<1> QED
  BY <1>1 DEF AgentOK, Becomes

LEMMA NextAgent ==
  ASSUME FirstRunAlone, TypeOK, JobsOK, Sole, AgentOK, [Next]_vars
  PROVE  AgentOK'
<1> USE DEF At
<1>T. /\ NoKey \notin Key /\ NoKey \in Keys /\ Key \subseteq Keys /\ ring \in Keys /\ file \in Keys /\ agent \in Keys
      /\ \A p \in Process : p \in Actor
      /\ \A a \in Actor : JobOK(a) /\ job[a].key \in Keys
      /\ machine.platform \in {"linux", "macos"} /\ machine.keytar \in BOOLEAN
  BY ActorTypes, JobTypes DEF TypeOK, JobsOK, Keys, Machine
<1>1. ASSUME NEW p \in Process, NEW env \in BOOLEAN, Start(p, env) PROVE AgentOK'
  BY <1>1, <1>T, StartBecomes, KeptBecomes, AgentQuiet DEF Start
<1>2. ASSUME NEW p \in Process, AgentLoad(p) PROVE AgentOK'
  BY <1>2, <1>T, GotoKept, LeaveKept, AgentQuiet DEF AgentLoad, Places
<1>3. ASSUME NEW p \in Process, AgentSave(p) PROVE AgentOK'
  <2>1. agent # NoKey /\ vault' = agent /\ UNCHANGED <<machine, ring, file, agent>> /\ Kept(p)
    BY <1>3, <1>T, LeaveKept DEF AgentSave, Bound
  <2>2. job[Agent].at \notin {"mint", "store"}
    BY <2>1 DEF AgentOK
  <2> QED
    BY <2>1, <2>2, AgentKept
<1>4. ASSUME NEW p \in Process, Resolve(p) PROVE AgentOK'
  BY <1>4, <1>T, ResolveLoadBecomes, ResolveSaveBecomes, KeptBecomes, AgentQuiet DEF Resolve
<1>5. ASSUME NEW p \in Process, Open(p) PROVE AgentOK'
  BY <1>5, <1>T, GotoKept, LeaveKept, AgentQuiet DEF Open, Places
<1>6. ASSUME NEW p \in Process, Write(p) PROVE AgentOK'
  BY <1>6, <1>T, LeaveKept, AgentLooker DEF Write, Looks, JobOK, JobIs
<1>7. ASSUME NEW p \in Process, Unlock(p) PROVE AgentOK'
  BY <1>7, <1>T, GotoWithKept, AgentQuiet DEF Unlock, Places
<1>8. ASSUME NEW p \in Process, PushKey(p) PROVE AgentOK'
  <2>1. Backend(FALSE) = "passphrase-file" /\ UNCHANGED <<machine, ring, file, vault>> /\ Kept(p)
    BY <1>8, <1>T, LeaveKept DEF PushKey
  <2>2. file # NoKey \/ (~machine.keytar /\ vault = NoKey)
    BY <2>1 DEF Backend
  <2>3. vault = NoKey => job[Agent].at \notin {"mint", "store"} /\ (job[Agent].at = "find" => file # NoKey)
    BY <2>2 DEF AgentOK
  <2> QED
    BY <2>1, <2>3, AgentKept
<1>9. ASSUME NEW p \in Process, NEW k \in Key, Restore(p, k) PROVE AgentOK'
  <2>1. Kept(p) /\ UNCHANGED <<machine, vault, ring, agent>>
    BY <1>9, <1>T, RestoreBecomes, KeptBecomes DEF Restore
  <2>2. vault = NoKey => job[Agent].at \in {"idle", "start"}
    BY <1>9, ActorTypes DEF Restore, MayLook
  <2> QED
    BY <2>1, <2>2, AgentKept
<1>10. ASSUME NEW p \in Process, WriteRestored(p) PROVE AgentOK'
  BY <1>10, <1>T, LeaveKept, AgentLooker DEF WriteRestored, Looks, JobOK, JobIs
<1>11. ASSUME NEW p \in Process, ReadRing(p) PROVE AgentOK'
  <2>1. Kept(p)
    BY <1>11, <1>T, ReadRingBecomes, KeptBecomes
  <2> QED
    BY <1>11, <2>1, <1>T, AgentQuiet DEF ReadRing
<1>12. ASSUME NEW p \in Process, Compare(p) PROVE AgentOK'
  BY <1>12, <1>T, GotoKept, AgentQuiet DEF Compare, Places
<1>13. ASSUME NEW p \in Process, Wrap(p) PROVE AgentOK'
  BY <1>13, <1>T, GotoKept, AgentLooker DEF Wrap, Places, Looks
<1>14. ASSUME NEW p \in Process, CheckWrapped(p) PROVE AgentOK'
  BY <1>14, <1>T, GotoKept, LeaveKept, AgentLooker DEF CheckWrapped, Places, Looks
<1>15. ASSUME NEW p \in Process, RemoveOld(p) PROVE AgentOK'
  BY <1>15, <1>T, LeaveKept, AgentLooker DEF RemoveOld, Migrated, Looks
\* What resolves a key is a command's, or the agent's own.
<1>O. ASSUME NEW a \in Actor PROVE a \in Process \/ a = Agent
  BY DEF Actor
<1>F. job[Agent].at = "find" => Picked(Agent) = Backend(FALSE) /\ machine.platform = "linux"
  <2>1. job[Agent].env = FALSE
    BY <1>T, ActorTypes, JobTypes DEF JobOK, JobIs
  <2> QED
    BY <2>1 DEF AgentOK, Picked
<1>16. ASSUME NEW a \in Actor, FindKey(a) PROVE AgentOK'
  <2>1. CASE a \in Process
    <3>1. Kept(a) /\ UNCHANGED <<machine, ring, file, vault>> /\ Looks(a)
      BY <1>16, <1>T, GotKept DEF FindKey, Looks
    <3> QED
      BY <2>1, <3>1, AgentLooker
  <2>2. CASE a = Agent
    <3>1. job[Agent].for = "hold"
      BY <1>16, <2>2 DEF FindKey, AgentOK
    <3>2. Leave(Agent) /\ UNCHANGED <<machine, ring, file, vault>>
      BY <1>16, <2>2, <3>1 DEF FindKey, Got
    <3> QED
      BY <3>2, AgentLeaves
  <2> QED
    BY <2>1, <2>2, <1>O
<1>17. ASSUME NEW a \in Actor, MissKeytar(a) PROVE AgentOK'
  <2>1. Becomes(a, "mint", job[a].for, job[a].key, job[a].env, "keytar")
    BY <1>17, MissKeytarBecomes
  <2>2. CASE a \in Process
    BY <1>17, <2>1, <2>2, KeptBecomes, AgentQuiet DEF MissKeytar
  <2>3. CASE a = Agent
    <3>1. Backend(FALSE) = "keytar" /\ machine.keytar /\ ring = NoKey /\ vault = NoKey
      BY <1>17, <1>F, <2>3 DEF MissKeytar, NotFound
    <3>2. file = NoKey
      BY <3>1 DEF Backend
    <3> QED
      BY <1>17, <2>1, <2>3, <3>1, <3>2 DEF MissKeytar, AgentOK, Becomes
  <2> QED
    BY <2>2, <2>3, <1>O
<1>18. ASSUME NEW a \in Actor, MissKeychain(a) PROVE AgentOK'
  <2>1. a # Agent
    BY <1>18, <1>F, <1>T, PickedOK DEF MissKeychain
  <2> QED
    BY <1>18, <2>1, <1>O, <1>T, GotoWithKept, AgentQuiet DEF MissKeychain, Places
<1>19. ASSUME NEW a \in Actor, Mint(a) PROVE AgentOK'
  <2>1. PICK k \in Key : GotoWith(a, "store", k)
    BY <1>19 DEF Mint
  <2>2. Becomes(a, "store", job[a].for, k, job[a].env, Picked(a))
    BY <2>1, <1>T, GotoWithBecomes DEF Places
  <2>3. CASE a \in Process
    BY <1>19, <2>2, <2>3, KeptBecomes, AgentQuiet DEF Mint
  <2>4. CASE a = Agent
    <3>1. Picked(a) = "keytar"
      BY <1>19, <1>T DEF Mint, JobOK, JobIs, Picked
    <3> QED
      BY <1>19, <2>2, <2>4, <3>1 DEF Mint, AgentOK, Becomes
  <2> QED
    BY <2>3, <2>4, <1>O
<1>20. ASSUME NEW a \in Actor, Store(a) PROVE AgentOK'
  <2>1. Becomes(a, "verify", job[a].for, job[a].key, job[a].env, job[a].keystore)
    BY <1>20, GotoBecomes DEF Store, Places
  <2>2. CASE a \in Process
    BY <1>20, <2>1, <2>2, KeptBecomes, AgentLooker DEF Store, Looks
  <2>3. CASE a = Agent
    BY <1>20, <2>1, <2>3 DEF Store, AgentOK, Becomes
  <2> QED
    BY <2>2, <2>3, <1>O
<1>21. ASSUME NEW a \in Actor, Verify(a) PROVE AgentOK'
  <2>1. CASE a \in Process
    <3>1. Kept(a) /\ UNCHANGED <<machine, ring, file, vault>> /\ Looks(a)
      BY <1>21, <1>T, GotKept DEF Verify, Looks
    <3> QED
      BY <2>1, <3>1, AgentLooker
  <2>2. CASE a = Agent
    <3>1. job[Agent].for = "hold"
      BY <1>21, <2>2 DEF Verify, AgentOK
    <3>2. Leave(Agent) /\ UNCHANGED <<machine, ring, file, vault>>
      BY <1>21, <2>2, <3>1 DEF Verify, Got
    <3> QED
      BY <3>2, AgentLeaves
  <2> QED
    BY <2>1, <2>2, <1>O
<1>22. ASSUME NEW a \in Actor, MissFile(a) PROVE AgentOK'
  <2>1. Becomes(a, "prompt", job[a].for, job[a].key, job[a].env, "passphrase-file")
    BY <1>22, MissFileBecomes
  <2>2. a # Agent
    BY <1>22, <1>F, <1>T DEF MissFile, NoFile, Backend, AgentOK
  <2> QED
    BY <1>22, <2>1, <2>2, <1>O, KeptBecomes, AgentQuiet DEF MissFile
<1>23. ASSUME NEW a \in Actor, MakeFile(a) PROVE AgentOK'
  <2>1. a \in Process
    BY <1>23, <1>O DEF MakeFile, AgentOK
  <2>2. Kept(a) /\ UNCHANGED <<machine, ring, vault>> /\ Looks(a)
    BY <1>23, <1>T, GotKept DEF MakeFile, Looks
  <2> QED
    BY <2>1, <2>2, AgentLooker
<1>24. ASSUME NEW a \in Actor, Quit(a) PROVE AgentOK'
  BY <1>24, <1>O, LeaveKept, AgentQuiet, AgentLeaves DEF Quit
<1>25. CASE Hold
  <2>1. Becomes(Agent, "find", "hold", job[Agent].key, job[Agent].env, job[Agent].keystore)
    BY <1>25, HoldBecomes
  <2>2. job[Agent].key = NoKey /\ job[Agent].keystore = "none"
    BY <1>25, <1>T, ActorTypes DEF Hold, JobOK, JobIs
  <2>3. machine.platform = "linux" /\ (machine.keytar \/ vault # NoKey) /\ agent = NoKey
    BY <1>25, <1>T DEF Hold, Backend
  <2> QED
    BY <1>25, <2>1, <2>2, <2>3 DEF Hold, AgentOK, Becomes
<1>26. ASSUME AgentLock \/ UNCHANGED vars PROVE AgentOK'
  <2>1. UNCHANGED <<machine, ring, file, vault, job>> /\ (agent' = NoKey \/ agent' = agent)
    BY <1>26 DEF AgentLock, vars
  <2> QED
    BY <2>1 DEF AgentOK
<1> QED
  BY <1>1, <1>2, <1>3, <1>4, <1>5, <1>6, <1>7, <1>8, <1>9, <1>10, <1>11, <1>12, <1>13, <1>14, <1>15,
     <1>16, <1>17, <1>18, <1>19, <1>20, <1>21, <1>22, <1>23, <1>24, <1>25, <1>26 DEF Next, Command, ResolveKey

(***************************************************************************)
(* Plain machines: the default key, once there, is everybody's for ever.    *)
(***************************************************************************)
LEMMA PlainTypes ==
  ASSUME Plain, Common, NEW a \in Actor
  PROVE  /\ job[a].env = FALSE /\ job[a].for # "restore" /\ job[a].at # "restored"
         /\ job[a].keystore = "none" => Picked(a) = Backend(FALSE)
         /\ Picked(a) = "passphrase-file" => machine.platform = "linux"
         /\ Picked(a) = "keychain" => machine.platform = "macos"
         /\ Picked(a) = "keytar" => machine.platform = "linux"
<1>1. JobOK(a) /\ job[a].env \in BOOLEAN
  BY JobTypes DEF Common, JobsOK
<1>2. job[a].env = FALSE /\ job[a].for # "restore" /\ job[a].at # "restored"
  BY <1>1 DEF Plain, JobOK, JobIs
<1>3. job[a].keystore = "none" => Picked(a) = Backend(FALSE)
  BY <1>2 DEF Picked
<1> QED
  BY <1>1, <1>2, <1>3, PickedOK DEF Plain, Common

\* What the choice of keytar says where there is no vault.
LEMMA PlainPicked ==
  ASSUME Plain, Common, OneKey, NEW a \in Actor, Picked(a) = "keytar", vault = NoKey
  PROVE  file = NoKey /\ machine.keytar /\ DefaultKey = ring
<1>1. CASE job[a].keystore = "none"
  BY <1>1, PlainTypes DEF Backend, DefaultKey
<1>2. CASE job[a].keystore # "none"
  BY <1>2, PlainTypes DEF Picked, OneKey, PlainJob, Backend, DefaultKey
<1> QED
  BY <1>1, <1>2

LEMMA PlainJobs ==
  ASSUME OneKey, NEW a \in Actor, Kept(a), UNCHANGED machine, PlainJob(a)',
         DefaultKey # NoKey => DefaultKey' = DefaultKey,
         file # NoKey => file' # NoKey, vault # NoKey => vault' # NoKey,
         \A b \in Actor : b # a =>
           /\ job[b].at \in {"mint", "store", "prompt"} => DefaultKey' = DefaultKey
           /\ job[b].keystore = "keytar" /\ vault = NoKey => file' = file
  PROVE  \A b \in Actor : PlainJob(b)'
<1> SUFFICES ASSUME NEW b \in Actor, b # a PROVE PlainJob(b)'
  OBVIOUS
<1>1. job'[b] = job[b] /\ PlainJob(b)
  BY DEF Kept, OneKey
<1> QED
  BY <1>1 DEF PlainJob, Is

LEMMA PlainQuiet ==
  ASSUME OneKey, NEW a \in Actor, Kept(a), UNCHANGED <<machine, ring, file, vault>>,
         PlainJob(a)', Is(agent')
  PROVE  OneKey'
<1>1. DefaultKey' = DefaultKey
  BY DEF DefaultKey, Backend
<1>2. \A b \in Actor : PlainJob(b)'
  BY <1>1, PlainJobs
<1> QED
  BY <1>1, <1>2 DEF OneKey, Is

LEMMA IdlePlain ==
  ASSUME TypeOK, NEW a \in Actor, Leave(a)
  PROVE  Kept(a) /\ PlainJob(a)'
<1>1. Becomes(a, "idle", "load", NoKey, FALSE, "none")
  BY LeaveBecomes
<1> QED
  BY <1>1, KeptBecomes DEF PlainJob, Becomes, Is

LEMMA GotPlain ==
  ASSUME TypeOK, NEW a \in Actor, NEW k \in Keys, Got(a, k), k # NoKey, k = DefaultKey',
         job[a].for # "restore",
         Picked(a) = "keytar" /\ vault' = NoKey => file' = NoKey /\ machine'.keytar
  PROVE  Kept(a) /\ PlainJob(a)' /\ agent' \in {agent, k}
<1>1. Kept(a) /\ agent' \in {agent, k}
  BY GotKept, GotBecomes
<1>2. PlainJob(a)'
  BY GotBecomes DEF PlainJob, Becomes, Is
<1> QED
  BY <1>1, <1>2

\* Where a vault is first written, the default key is where it was.
LEMMA VaultWritten ==
  ASSUME OneKey, UNCHANGED <<machine, ring, file>>, vault' = DefaultKey, DefaultKey # NoKey
  PROVE  DefaultKey' = DefaultKey
BY DEF OneKey, Is, DefaultKey, Backend

LEMMA SoleMaker ==
  ASSUME Common, OneKey, NEW a \in Actor, Looks(a), vault = NoKey, NEW b \in Actor, b # a
  PROVE  job[b].at \notin {"mint", "store", "prompt"} /\ job[b].keystore # "keytar"
BY DEF Common, Sole, Looks, JobsOK, JobOK, JobIs

LEMMA NextOneKey ==
  ASSUME Plain, Common, OneKey, [Next]_vars
  PROVE  OneKey'
<1> USE DEF At
<1>T. /\ NoKey \notin Key /\ NoKey \in Keys /\ Key \subseteq Keys
      /\ ring \in Keys /\ file \in Keys /\ agent \in Keys /\ vault \in Keys
      /\ \A p \in Process : p \in Actor
      /\ \A a \in Actor : JobOK(a) /\ PlainJob(a) /\ job[a].key \in Keys /\ job[a].for # "restore"
      /\ machine.platform \in {"linux", "macos"}
      /\ TypeOK
  BY ActorTypes, JobTypes, PlainTypes DEF Common, TypeOK, JobsOK, Keys, Machine, OneKey
<1>I. Is(ring) /\ Is(file) /\ Is(vault) /\ Is(agent)
  BY DEF OneKey
<1>L. ASSUME NEW a \in Actor, Leave(a), UNCHANGED <<machine, ring, file, vault>>, Is(agent') PROVE OneKey'
  BY <1>L, <1>T, IdlePlain, PlainQuiet
<1>V. ASSUME NEW p \in Process, Leave(p), UNCHANGED <<machine, ring, file, agent>>,
             vault' = DefaultKey, DefaultKey # NoKey
      PROVE OneKey'
  <2>1. DefaultKey' = DefaultKey
    BY <1>V, VaultWritten
  <2>2. \A b \in Actor : PlainJob(b)'
    BY <1>V, <2>1, <1>T, IdlePlain, PlainJobs
  <2> QED
    BY <1>V, <2>1, <2>2 DEF OneKey, Is
<1>1. ASSUME NEW p \in Process, NEW env \in BOOLEAN, Start(p, env) PROVE OneKey'
  <2>1. Becomes(p, "start", job[p].for, job[p].key, env, job[p].keystore)
    BY <1>1, <1>T, StartBecomes
  <2>2. PlainJob(p)'
    BY <1>1, <2>1, <1>T DEF Start, Becomes, PlainJob, Is, DefaultKey, Backend, JobOK, JobIs
  <2> QED
    BY <1>1, <2>1, <2>2, <1>T, <1>I, KeptBecomes, PlainQuiet DEF Start
<1>2. ASSUME NEW p \in Process, AgentLoad(p) PROVE OneKey'
  <2>1. CASE Goto(p, "loaded")
    <3>1. Becomes(p, "loaded", job[p].for, job[p].key, job[p].env, job[p].keystore)
      BY <2>1, <1>T, GotoBecomes DEF Places
    <3>2. DefaultKey # NoKey /\ DefaultKey' = DefaultKey
      BY <1>2, <1>I DEF AgentLoad, Bound, Is, DefaultKey, Backend
    <3>3. PlainJob(p)'
      BY <1>2, <3>1, <3>2, <1>T DEF AgentLoad, Becomes, PlainJob, Is, JobOK, JobIs
    <3> QED
      BY <1>2, <3>1, <3>3, <1>T, <1>I, KeptBecomes, PlainQuiet DEF AgentLoad
  <2> QED
    BY <1>2, <2>1, <1>L, <1>T, <1>I DEF AgentLoad
<1>3. ASSUME NEW p \in Process, AgentSave(p) PROVE OneKey'
  BY <1>3, <1>V, <1>T, <1>I DEF AgentSave, Bound, Is
<1>4. ASSUME NEW p \in Process, Resolve(p) PROVE OneKey'
  <2>1. \E for \in Uses : Becomes(p, "find", for, job[p].key, job[p].env, job[p].keystore)
    BY <1>4, <1>T, ResolveLoadBecomes, ResolveSaveBecomes DEF Resolve, Uses
  <2>2. DefaultKey' = DefaultKey
    BY <1>4 DEF Resolve, DefaultKey, Backend
  <2>3. PlainJob(p)'
    BY <1>4, <2>1, <2>2, <1>T DEF Resolve, Becomes, PlainJob, Is, JobOK, JobIs
  <2> QED
    BY <1>4, <2>1, <2>3, <1>T, <1>I, KeptBecomes, PlainQuiet DEF Resolve
<1>5. ASSUME NEW p \in Process, Open(p) PROVE OneKey'
  <2>1. CASE Goto(p, "loaded")
    <3>1. Becomes(p, "loaded", job[p].for, job[p].key, job[p].env, job[p].keystore)
      BY <2>1, <1>T, GotoBecomes DEF Places
    <3>2. DefaultKey # NoKey /\ DefaultKey' = DefaultKey
      BY <1>5, <1>T DEF Open, Is, DefaultKey, Backend, PlainJob, JobOK, JobIs
    <3>3. PlainJob(p)'
      BY <1>5, <3>1, <3>2, <1>T DEF Open, Becomes, PlainJob, Is
    <3> QED
      BY <1>5, <3>1, <3>3, <1>T, <1>I, KeptBecomes, PlainQuiet DEF Open
  <2> QED
    BY <1>5, <2>1, <1>L, <1>T, <1>I DEF Open
<1>6. ASSUME NEW p \in Process, Write(p) PROVE OneKey'
  BY <1>6, <1>V, <1>T DEF Write, Is, PlainJob, JobOK, JobIs
<1>7. ASSUME NEW p \in Process, Unlock(p) PROVE OneKey'
  <2>1. Becomes(p, "push", job[p].for, file, job[p].env, Picked(p))
    BY <1>7, <1>T, GotoWithBecomes DEF Unlock, Places
  <2>2. PlainJob(p)'
    BY <1>7, <2>1, <1>I DEF Unlock, Becomes, PlainJob, Is, DefaultKey, Backend
  <2> QED
    BY <1>7, <2>1, <2>2, <1>T, <1>I, KeptBecomes, PlainQuiet DEF Unlock
<1>8. ASSUME NEW p \in Process, PushKey(p) PROVE OneKey'
  BY <1>8, <1>L, <1>T DEF PushKey, PlainJob
<1>9. ASSUME NEW p \in Process, NEW k \in Key, Restore(p, k) PROVE OneKey'
  BY <1>9 DEF Restore, Plain
<1>10. ASSUME NEW p \in Process, WriteRestored(p) PROVE OneKey'
  BY <1>10, <1>T, PlainTypes DEF WriteRestored
<1>11. ASSUME NEW p \in Process, ReadRing(p) PROVE OneKey'
  <2> DEFINE at == IF file # NoKey THEN "compare" ELSE "wrap"
  <2>1. Becomes(p, at, "migrate", ring, job[p].env, job[p].keystore)
    BY <1>11, <1>T, ReadRingBecomes
  <2>2. PlainJob(p)'
    BY <1>11, <2>1, <1>T, <1>I DEF ReadRing, Becomes, PlainJob, Is, DefaultKey, Backend, JobOK, JobIs, HasOldKey
  <2>3. Kept(p)
    BY <2>1, <1>T, KeptBecomes
  <2> QED
    BY <1>11, <2>2, <2>3, <1>T, <1>I, PlainQuiet DEF ReadRing
<1>12. ASSUME NEW p \in Process, Compare(p) PROVE OneKey'
  <2>1. Becomes(p, "migrated", job[p].for, job[p].key, job[p].env, job[p].keystore)
    BY <1>12, <1>T, GotoBecomes DEF Compare, Places
  <2>2. PlainJob(p)'
    BY <1>12, <2>1, <1>T DEF Compare, Becomes, PlainJob, Is, DefaultKey, Backend
  <2> QED
    BY <1>12, <2>1, <2>2, <1>T, <1>I, KeptBecomes, PlainQuiet DEF Compare
<1>13. ASSUME NEW p \in Process, Wrap(p) PROVE OneKey'
  <2>1. Becomes(p, "check", job[p].for, job[p].key, job[p].env, job[p].keystore)
    BY <1>13, <1>T, GotoBecomes DEF Wrap, Places
  <2>2. /\ file = NoKey /\ file' = job[p].key /\ UNCHANGED <<machine, ring, vault, agent>> /\ Looks(p)
        /\ machine.platform = "linux" /\ job[p].key # NoKey /\ job[p].key = DefaultKey /\ job[p].keystore = "none"
    BY <1>13, <1>T DEF Wrap, PlainJob, Is, JobOK, JobIs, Migrating, Looks
  <2>3. DefaultKey' = DefaultKey
    BY <2>2 DEF DefaultKey, Backend
  <2>4. PlainJob(p)'
    BY <2>1, <2>2, <2>3 DEF Becomes, PlainJob, Is
  <2>5. \A b \in Actor : PlainJob(b)'
    BY <2>1, <2>2, <2>3, <2>4, <1>T, KeptBecomes, SoleMaker, PlainJobs
  <2> QED
    BY <2>2, <2>3, <2>5, <1>I DEF OneKey, Is
<1>14. ASSUME NEW p \in Process, CheckWrapped(p) PROVE OneKey'
  <2>1. Verified(p)
    BY <1>14, <1>T, <1>I DEF CheckWrapped, PlainJob, Is, JobOK, JobIs, Migrating, Verified, Decrypts
  <2>2. Becomes(p, "migrated", job[p].for, job[p].key, job[p].env, job[p].keystore)
    BY <1>14, <2>1, <1>T, GotoBecomes DEF CheckWrapped, Places
  <2>3. UNCHANGED <<machine, ring, file, vault, agent>> /\ DefaultKey' = DefaultKey /\ job[p].at = "check"
    BY <1>14, <2>1 DEF CheckWrapped, DefaultKey, Backend
  <2>4. PlainJob(p)'
    BY <2>2, <2>3, <1>T DEF Becomes, PlainJob, Is
  <2> QED
    BY <2>2, <2>3, <2>4, <1>T, <1>I, KeptBecomes, PlainQuiet
<1>15. ASSUME NEW p \in Process, RemoveOld(p) PROVE OneKey'
  <2>1. /\ ring' = NoKey /\ UNCHANGED <<machine, file, vault, agent>> /\ Leave(p)
        /\ file # NoKey /\ machine.platform = "linux"
    BY <1>15, <1>T DEF RemoveOld, Migrated, PlainJob, JobOK, JobIs, Migrating
  <2>2. DefaultKey' = DefaultKey
    BY <2>1 DEF DefaultKey, Backend
  <2>3. \A b \in Actor : PlainJob(b)'
    BY <2>1, <2>2, <1>T, IdlePlain, PlainJobs
  <2> QED
    BY <2>1, <2>2, <2>3 DEF OneKey, Is
<1>16. ASSUME NEW a \in Actor, FindKey(a) PROVE OneKey'
  <2>1. UNCHANGED <<machine, ring, file, vault>> /\ DefaultKey' = DefaultKey /\ job[a].at = "find"
    BY <1>16 DEF FindKey, DefaultKey, Backend
  <2>2. PICK k \in Keys : k # NoKey /\ k = DefaultKey /\ Got(a, k)
    BY <1>16, <1>T, <1>I DEF FindKey, Is, PlainJob
  <2>3. Picked(a) = "keytar" /\ vault' = NoKey => file' = NoKey /\ machine'.keytar
    BY <2>1, PlainPicked
  <2>4. Kept(a) /\ PlainJob(a)' /\ agent' \in {agent, k}
    BY <2>1, <2>2, <2>3, <1>T, GotPlain
  <2> QED
    BY <2>1, <2>2, <2>4, <1>I, PlainQuiet DEF Is
<1>17. ASSUME NEW a \in Actor, MissKeytar(a) PROVE OneKey'
  <2>1. Becomes(a, "mint", job[a].for, job[a].key, job[a].env, "keytar")
    BY <1>17, <1>T, MissKeytarBecomes
  <2>2. DefaultKey = NoKey /\ file = NoKey /\ machine.keytar /\ DefaultKey' = DefaultKey
    BY <1>17, PlainPicked DEF MissKeytar, NotFound, DefaultKey, Backend
  <2>3. PlainJob(a)'
    BY <1>17, <2>1, <2>2, <1>T DEF MissKeytar, Becomes, PlainJob, Is
  <2> QED
    BY <1>17, <2>1, <2>3, <1>I, KeptBecomes, PlainQuiet DEF MissKeytar
<1>18. ASSUME NEW a \in Actor, MissKeychain(a) PROVE OneKey'
  <2>1. PICK k \in Key : GotoWith(a, "store", k)
    BY <1>18 DEF MissKeychain
  <2>2. Becomes(a, "store", job[a].for, k, job[a].env, Picked(a))
    BY <2>1, <1>T, GotoWithBecomes DEF Places
  <2>3. DefaultKey = NoKey /\ DefaultKey' = DefaultKey /\ Picked(a) = "keychain"
    BY <1>18, PlainTypes DEF MissKeychain, NotFound, DefaultKey, Backend
  <2>4. PlainJob(a)'
    BY <2>2, <2>3, <1>T DEF Becomes, PlainJob, Is
  <2> QED
    BY <1>18, <2>2, <2>4, <1>I, KeptBecomes, PlainQuiet DEF MissKeychain
<1>19. ASSUME NEW a \in Actor, Mint(a) PROVE OneKey'
  <2>1. PICK k \in Key : GotoWith(a, "store", k)
    BY <1>19 DEF Mint
  <2>2. Becomes(a, "store", job[a].for, k, job[a].env, Picked(a))
    BY <2>1, <1>T, GotoWithBecomes DEF Places
  <2>3. job[a].at = "mint" /\ Picked(a) = job[a].keystore /\ DefaultKey' = DefaultKey
        /\ UNCHANGED <<machine, ring, file, vault, agent>>
    BY <1>19, <1>T DEF Mint, JobOK, JobIs, Picked, DefaultKey, Backend
  <2>4. PlainJob(a)'
    BY <2>2, <2>3, <1>T DEF Becomes, PlainJob, Is
  <2> QED
    BY <2>2, <2>3, <2>4, <1>I, KeptBecomes, PlainQuiet
<1>20. ASSUME NEW a \in Actor, Store(a) PROVE OneKey'
  <2>1. Becomes(a, "verify", job[a].for, job[a].key, job[a].env, job[a].keystore)
    BY <1>20, <1>T, GotoBecomes DEF Store, Places
  <2>2. /\ ring' = job[a].key /\ UNCHANGED <<machine, file, vault, agent>> /\ Looks(a) /\ job[a].key # NoKey
        /\ DefaultKey = NoKey /\ job[a].keystore \in {"keytar", "keychain"}
    BY <1>20, <1>T, JobTypes DEF Store, Looks, JobOK, JobIs, PlainJob, Keystores
  <2>3. ring = NoKey /\ file = NoKey /\ vault = NoKey /\ agent = NoKey
    BY <2>2, <1>I DEF Is
  <2>4. machine.platform = "macos" \/ machine.keytar
    BY <2>2, <2>3, <1>T DEF JobOK, JobIs, PlainJob
  <2>5. DefaultKey' = job[a].key
    BY <2>2, <2>3, <2>4, <1>T DEF DefaultKey, Backend
  <2>6. PlainJob(a)'
    BY <2>1, <2>2, <2>3, <2>4, <2>5, <1>T DEF Becomes, PlainJob, Is, JobOK, JobIs
  <2>7. \A b \in Actor : PlainJob(b)'
    BY <2>1, <2>2, <2>3, <2>6, KeptBecomes, SoleMaker, PlainJobs
  <2> QED
    BY <2>2, <2>3, <2>4, <2>5, <2>7 DEF OneKey, Is
<1>21. ASSUME NEW a \in Actor, Verify(a) PROVE OneKey'
  <2>1. UNCHANGED <<machine, ring, file, vault>> /\ DefaultKey' = DefaultKey /\ job[a].at = "verify" /\ Got(a, ring)
    BY <1>21 DEF Verify, DefaultKey, Backend
  <2>2. ring # NoKey /\ ring = DefaultKey
    BY <1>21, <1>T, <1>I DEF Verify, Is, JobOK, JobIs
  <2>3. Picked(a) = "keytar" /\ vault' = NoKey => file' = NoKey /\ machine'.keytar
    BY <2>1, PlainPicked
  <2>4. Kept(a) /\ PlainJob(a)' /\ agent' \in {agent, ring}
    BY <2>1, <2>2, <2>3, <1>T, GotPlain
  <2> QED
    BY <2>1, <2>2, <2>4, <1>I, PlainQuiet DEF Is
<1>22. ASSUME NEW a \in Actor, MissFile(a) PROVE OneKey'
  <2>1. Becomes(a, "prompt", job[a].for, job[a].key, job[a].env, "passphrase-file")
    BY <1>22, <1>T, MissFileBecomes
  <2>2. Picked(a) = Backend(FALSE) /\ file = NoKey /\ Picked(a) = "passphrase-file"
    BY <1>22, <1>T, PlainTypes DEF MissFile, NoFile, PlainJob
  <2>3. DefaultKey = NoKey /\ DefaultKey' = DefaultKey
    BY <1>22, <2>2 DEF MissFile, DefaultKey, Backend
  <2>4. PlainJob(a)'
    BY <1>22, <2>1, <2>3 DEF MissFile, Becomes, PlainJob, Is
  <2> QED
    BY <1>22, <2>1, <2>4, <1>I, KeptBecomes, PlainQuiet DEF MissFile
<1>23. ASSUME NEW a \in Actor, MakeFile(a) PROVE OneKey'
  <2>1. PICK k \in Key : file' = k /\ Got(a, k)
    BY <1>23 DEF MakeFile
  <2>2. /\ UNCHANGED <<machine, ring, vault>> /\ Looks(a) /\ DefaultKey = NoKey
        /\ job[a].keystore = "passphrase-file" /\ machine.platform = "linux" /\ Picked(a) = "passphrase-file"
    BY <1>23, <1>T DEF MakeFile, Looks, PlainJob, JobOK, JobIs, Plain, Picked
  <2>3. ring = NoKey /\ file = NoKey /\ vault = NoKey /\ agent = NoKey
    BY <2>2, <1>I DEF Is
  <2>4. DefaultKey' = k
    BY <2>1, <2>2, <1>T DEF DefaultKey, Backend
  <2>5. Kept(a) /\ PlainJob(a)' /\ agent' \in {agent, k}
    BY <2>1, <2>2, <2>4, <1>T, GotPlain
  <2>6. \A b \in Actor : PlainJob(b)'
    BY <2>2, <2>3, <2>4, <2>5, SoleMaker, PlainJobs
  <2> QED
    BY <2>1, <2>2, <2>3, <2>4, <2>5, <2>6 DEF OneKey, Is
<1>24. ASSUME NEW a \in Actor, Quit(a) PROVE OneKey'
  BY <1>24, <1>L, <1>I DEF Quit
<1>25. ASSUME Hold PROVE OneKey'
  <2>1. Becomes(Agent, "find", "hold", job[Agent].key, job[Agent].env, job[Agent].keystore)
    BY <1>25, <1>T, HoldBecomes
  <2>2. DefaultKey' = DefaultKey /\ UNCHANGED <<machine, ring, file, vault, agent>> /\ job[Agent].at = "idle"
    BY <1>25 DEF Hold, DefaultKey, Backend
  <2>3. PlainJob(Agent)'
    BY <2>1, <2>2, <1>T, ActorTypes DEF Becomes, PlainJob, Is, JobOK, JobIs
  <2> QED
    BY <2>1, <2>2, <2>3, <1>I, ActorTypes, KeptBecomes, PlainQuiet
<1>26. ASSUME AgentLock \/ UNCHANGED vars PROVE OneKey'
  <2>1. UNCHANGED <<machine, ring, file, vault, job>> /\ (agent' = NoKey \/ agent' = agent)
    BY <1>26 DEF AgentLock, vars
  <2>2. DefaultKey' = DefaultKey
    BY <2>1 DEF DefaultKey, Backend
  <2> QED
    BY <2>1, <2>2 DEF OneKey, Is, PlainJob
<1> QED
  BY <1>1, <1>2, <1>3, <1>4, <1>5, <1>6, <1>7, <1>8, <1>9, <1>10, <1>11, <1>12, <1>13, <1>14, <1>15,
     <1>16, <1>17, <1>18, <1>19, <1>20, <1>21, <1>22, <1>23, <1>24, <1>25, <1>26 DEF Next, Command, ResolveKey

(***************************************************************************)
(* The other machines: one command at a time, beside the agent.             *)
(***************************************************************************)
LEMMA CarefulStep ==
  ASSUME Careful, NEW p \in Process, Kept(p), CarefulJob(p)',
         job[p].at = "idle" => \A q \in Process : job[q].at = "idle"
  PROVE  Careful'
<1>1. \A q \in Process : q # p => job'[q] = job[q] /\ job'[q].at = "idle"
  BY ActorTypes DEF Careful, OneCommand, Kept
<1>2. OneCommand'
  BY <1>1 DEF OneCommand
<1>3. \A q \in Process : q # p => CarefulJob(q)'
  BY <1>1 DEF CarefulJob, Restored, Migrating
<1> QED
  BY <1>2, <1>3 DEF Careful

LEMMA CarefulBusy ==
  ASSUME Careful, NEW p \in Process, Kept(p), CarefulJob(p)', job[p].at # "idle"
  PROVE  Careful'
BY CarefulStep

\* Nothing is said of most places.
LEMMA CarefulElsewhere ==
  ASSUME NEW p \in Process, NEW at, NEW for, NEW k, NEW env, NEW keystore,
         Becomes(p, at, for, k, env, keystore),
         at \notin {"mint", "store", "verify", "prompt", "restored"} \cup Migrating
  PROVE  Kept(p) /\ CarefulJob(p)'
<1>1. Kept(p)
  BY ActorTypes, KeptBecomes
<1>2. CarefulJob(p)'
  BY DEF Becomes, CarefulJob, Restored, Migrating
<1> QED
  BY <1>1, <1>2

LEMMA CarefulLeaves ==
  ASSUME TypeOK, Careful, NEW p \in Process, Leave(p), job[p].at # "idle"
  PROVE  Careful'
<1>1. Becomes(p, "idle", "load", NoKey, FALSE, "none")
  BY ActorTypes, LeaveBecomes
<1>2. Kept(p) /\ CarefulJob(p)'
  BY <1>1, CarefulElsewhere DEF Migrating
<1> QED
  BY <1>2, CarefulBusy

LEMMA CarefulAgent ==
  ASSUME Careful, Kept(Agent), UNCHANGED <<machine, file>>,
         ring' = ring \/ \A p \in Process : ~Looks(p)
  PROVE  Careful'
<1>1. \A p \in Process : job'[p] = job[p]
  BY ActorTypes DEF Kept
<1>2. OneCommand'
  BY <1>1 DEF OneCommand, Careful
<1>3. \A p \in Process : CarefulJob(p)'
  BY <1>1 DEF Careful, CarefulJob, Restored, Looks, Migrating
<1> QED
  BY <1>2, <1>3 DEF Careful

LEMMA GotCareful ==
  ASSUME TypeOK, Careful, NEW p \in Process, job[p].at # "idle", NEW k \in Keys, Got(p, k),
         job[p].for = "restore" /\ ~machine'.override =>
           IF machine'.platform = "macos" \/ file' = NoKey THEN ring' = k ELSE file' = k
  PROVE  Careful'
<1>1. Kept(p)
  BY ActorTypes, GotKept
<1>2. CarefulJob(p)'
  BY ActorTypes, GotBecomes DEF Becomes, CarefulJob, Restored, Migrating
<1> QED
  BY <1>1, <1>2, CarefulBusy

LEMMA NextCareful ==
  ASSUME ~Plain, Common, Careful, [Next]_vars
  PROVE  Careful'
<1> USE DEF At
<1>T. /\ NoKey \notin Key /\ NoKey \in Keys /\ Key \subseteq Keys
      /\ ring \in Keys /\ file \in Keys
      /\ \A p \in Process : p \in Actor /\ CarefulJob(p)
      /\ \A a \in Actor : JobOK(a) /\ job[a].key \in Keys
      /\ machine.platform \in {"linux", "macos"}
      /\ TypeOK /\ AgentOK
  BY ActorTypes, JobTypes DEF Common, TypeOK, JobsOK, Keys, Machine, Careful
<1>M. machine.restores \/ machine.override
  BY DEF Plain
<1>1. ASSUME NEW p \in Process, NEW env \in BOOLEAN, Start(p, env) PROVE Careful'
  <2>1. Becomes(p, "start", job[p].for, job[p].key, env, job[p].keystore)
    BY <1>1, <1>T, StartBecomes
  <2>2. Kept(p) /\ CarefulJob(p)'
    BY <2>1, CarefulElsewhere DEF Migrating
  <2> QED
    BY <1>1, <1>M, <2>2, CarefulStep DEF Start
<1>2. ASSUME NEW p \in Process, AgentLoad(p) PROVE Careful'
  <2>1. CASE Goto(p, "loaded")
    <3>1. Becomes(p, "loaded", job[p].for, job[p].key, job[p].env, job[p].keystore)
      BY <2>1, <1>T, GotoBecomes DEF Places
    <3> QED
      BY <1>2, <3>1, CarefulElsewhere, CarefulBusy DEF AgentLoad, Migrating
  <2> QED
    BY <1>2, <2>1, <1>T, CarefulLeaves DEF AgentLoad
<1>3. ASSUME NEW p \in Process, AgentSave(p) PROVE Careful'
  BY <1>3, <1>T, CarefulLeaves DEF AgentSave
<1>4. ASSUME NEW p \in Process, Resolve(p) PROVE Careful'
  <2>1. PICK for \in Uses : Becomes(p, "find", for, job[p].key, job[p].env, job[p].keystore)
    BY <1>4, <1>T, ResolveLoadBecomes, ResolveSaveBecomes DEF Resolve, Uses
  <2> QED
    BY <1>4, <2>1, CarefulElsewhere, CarefulBusy DEF Resolve, Migrating
<1>5. ASSUME NEW p \in Process, Open(p) PROVE Careful'
  <2>1. CASE Goto(p, "loaded")
    <3>1. Becomes(p, "loaded", job[p].for, job[p].key, job[p].env, job[p].keystore)
      BY <2>1, <1>T, GotoBecomes DEF Places
    <3> QED
      BY <1>5, <3>1, CarefulElsewhere, CarefulBusy DEF Open, Migrating
  <2> QED
    BY <1>5, <2>1, <1>T, CarefulLeaves DEF Open
<1>6. ASSUME NEW p \in Process, Write(p) PROVE Careful'
  BY <1>6, <1>T, CarefulLeaves DEF Write
<1>7. ASSUME NEW p \in Process, Unlock(p) PROVE Careful'
  <2>1. Becomes(p, "push", job[p].for, file, job[p].env, Picked(p))
    BY <1>7, <1>T, GotoWithBecomes DEF Unlock, Places
  <2> QED
    BY <1>7, <2>1, CarefulElsewhere, CarefulBusy DEF Unlock, Migrating
<1>8. ASSUME NEW p \in Process, PushKey(p) PROVE Careful'
  BY <1>8, <1>T, CarefulLeaves DEF PushKey
<1>9. ASSUME NEW p \in Process, NEW k \in Key, Restore(p, k) PROVE Careful'
  <2> DEFINE at == IF IntoKeyFile(p) THEN "restored" ELSE "store"
  <2>1. Becomes(p, at, "restore", k, job[p].env, job[p].keystore)
    BY <1>9, <1>T, RestoreBecomes
  <2>2. Kept(p)
    BY <2>1, <1>T, KeptBecomes
  <2>3. ~machine.override => Picked(p) = Backend(FALSE)
    <3>1. job[p].keystore = "none" /\ (~machine.override => job[p].env = FALSE)
      BY <1>9, <1>T, JobTypes DEF Restore, JobOK, JobIs
    <3> QED
      BY <3>1 DEF Picked
  <2>4. CarefulJob(p)'
    <3>1. CASE IntoKeyFile(p)
      <4>1. file' = k /\ UNCHANGED machine
        BY <1>9, <3>1 DEF Restore
      <4>2. ~machine.override => machine.platform = "linux"
        BY <2>3, <3>1, <1>T DEF IntoKeyFile, Backend
      <4> QED
        BY <2>1, <3>1, <4>1, <4>2, <1>T DEF Becomes, CarefulJob, Restored, Migrating
    <3>2. CASE ~IntoKeyFile(p)
      <4>1. UNCHANGED <<file, machine>>
        BY <1>9, <3>2 DEF Restore
      <4>2. ~machine.override => machine.platform = "macos" \/ file = NoKey
        BY <2>3, <3>2, <1>T DEF IntoKeyFile, Backend
      <4> QED
        BY <2>1, <3>2, <4>1, <4>2 DEF Becomes, CarefulJob, Restored, Migrating
    <3> QED
      BY <3>1, <3>2
  <2> QED
    BY <1>9, <2>2, <2>4, CarefulBusy DEF Restore
<1>10. ASSUME NEW p \in Process, WriteRestored(p) PROVE Careful'
  BY <1>10, <1>T, CarefulLeaves DEF WriteRestored
<1>11. ASSUME NEW p \in Process, ReadRing(p) PROVE Careful'
  <2> DEFINE at == IF file # NoKey THEN "compare" ELSE "wrap"
  <2>1. Becomes(p, at, "migrate", ring, job[p].env, job[p].keystore)
    BY <1>11, <1>T, ReadRingBecomes
  <2>2. Kept(p)
    BY <2>1, <1>T, KeptBecomes
  <2>3. CarefulJob(p)'
    BY <1>11, <2>1 DEF ReadRing, Becomes, CarefulJob, Restored, Migrating
  <2> QED
    BY <1>11, <2>2, <2>3, CarefulBusy DEF ReadRing
<1>12. ASSUME NEW p \in Process, Compare(p) PROVE Careful'
  <2>1. Becomes(p, "migrated", job[p].for, job[p].key, job[p].env, job[p].keystore)
    BY <1>12, <1>T, GotoBecomes DEF Compare, Places
  <2>2. CarefulJob(p)'
    BY <1>12, <2>1, <1>T DEF Compare, Verified, Becomes, CarefulJob, Restored, Migrating
  <2> QED
    BY <1>12, <2>1, <2>2, <1>T, KeptBecomes, CarefulBusy DEF Compare
<1>13. ASSUME NEW p \in Process, Wrap(p) PROVE Careful'
  <2>1. Becomes(p, "check", job[p].for, job[p].key, job[p].env, job[p].keystore)
    BY <1>13, <1>T, GotoBecomes DEF Wrap, Places
  <2>2. CarefulJob(p)'
    BY <1>13, <2>1, <1>T DEF Wrap, Becomes, CarefulJob, Restored, Migrating
  <2> QED
    BY <1>13, <2>1, <2>2, <1>T, KeptBecomes, CarefulBusy DEF Wrap
<1>14. ASSUME NEW p \in Process, CheckWrapped(p) PROVE Careful'
  <2>1. CASE Verified(p)
    <3>1. Becomes(p, "migrated", job[p].for, job[p].key, job[p].env, job[p].keystore)
      BY <1>14, <2>1, <1>T, GotoBecomes DEF CheckWrapped, Places
    <3>2. CarefulJob(p)'
      BY <1>14, <2>1, <3>1, <1>T DEF CheckWrapped, Becomes, CarefulJob, Restored, Migrating
    <3> QED
      BY <1>14, <3>1, <3>2, <1>T, KeptBecomes, CarefulBusy DEF CheckWrapped
  <2> QED
    BY <1>14, <2>1, <1>T, CarefulLeaves DEF CheckWrapped
<1>15. ASSUME NEW p \in Process, RemoveOld(p) PROVE Careful'
  BY <1>15, <1>T, CarefulLeaves DEF RemoveOld, Migrated
<1>O. ASSUME NEW a \in Actor PROVE a \in Process \/ a = Agent
  BY DEF Actor
<1>16. ASSUME NEW a \in Actor, FindKey(a) PROVE Careful'
  <2>1. PICK k \in Keys : Got(a, k)
    BY <1>16, <1>T DEF FindKey
  <2>2. job[a].at = "find" /\ UNCHANGED <<machine, ring, file>> /\ Kept(a)
    BY <1>16, <2>1, <1>T, GotKept DEF FindKey
  <2>3. job[a].for # "restore"
    BY <2>2, <1>T DEF JobOK, JobIs
  <2> QED
    BY <2>1, <2>2, <2>3, <1>O, <1>T, GotCareful, CarefulAgent
<1>17. ASSUME NEW a \in Actor, MissKeytar(a) PROVE Careful'
  <2>1. Becomes(a, "mint", job[a].for, job[a].key, job[a].env, "keytar")
    BY <1>17, <1>T, MissKeytarBecomes
  <2>2. UNCHANGED <<machine, ring, file>> /\ ring = NoKey /\ job[a].at = "find" /\ Kept(a)
    BY <1>17, <2>1, KeptBecomes DEF MissKeytar, NotFound
  <2>3. a \in Process => CarefulJob(a)'
    BY <2>1, <2>2 DEF Becomes, CarefulJob, Restored, Migrating
  <2> QED
    BY <2>2, <2>3, <1>O, CarefulBusy, CarefulAgent
<1>18. ASSUME NEW a \in Actor, MissKeychain(a) PROVE Careful'
  <2>1. PICK k \in Key : GotoWith(a, "store", k)
    BY <1>18 DEF MissKeychain
  <2>2. Becomes(a, "store", job[a].for, k, job[a].env, Picked(a))
    BY <2>1, <1>T, GotoWithBecomes DEF Places
  <2>3. /\ UNCHANGED <<machine, ring, file>> /\ ring = NoKey /\ job[a].at = "find" /\ Kept(a)
        /\ job[a].for # "restore"
    BY <1>18, <2>2, <1>T, KeptBecomes DEF MissKeychain, NotFound, JobOK, JobIs
  <2>4. a \in Process => CarefulJob(a)'
    BY <2>2, <2>3 DEF Becomes, CarefulJob, Restored, Migrating
  <2> QED
    BY <2>3, <2>4, <1>O, CarefulBusy, CarefulAgent
<1>19. ASSUME NEW a \in Actor, Mint(a) PROVE Careful'
  <2>1. PICK k \in Key : GotoWith(a, "store", k)
    BY <1>19 DEF Mint
  <2>2. Becomes(a, "store", job[a].for, k, job[a].env, Picked(a))
    BY <2>1, <1>T, GotoWithBecomes DEF Places
  <2>3. /\ UNCHANGED <<machine, ring, file>> /\ ring = NoKey /\ job[a].at = "mint" /\ Kept(a)
        /\ job[a].for # "restore"
    BY <1>19, <2>2, <1>T, KeptBecomes DEF Mint, JobOK, JobIs
  <2>4. a \in Process => CarefulJob(a)'
    BY <2>2, <2>3 DEF Becomes, CarefulJob, Restored, Migrating
  <2> QED
    BY <2>3, <2>4, <1>O, CarefulBusy, CarefulAgent
<1>20. ASSUME NEW a \in Actor, Store(a) PROVE Careful'
  <2>1. Becomes(a, "verify", job[a].for, job[a].key, job[a].env, job[a].keystore)
    BY <1>20, <1>T, GotoBecomes DEF Store, Places
  <2>2. UNCHANGED <<machine, file>> /\ job[a].at = "store" /\ Kept(a)
    BY <1>20, <2>1, KeptBecomes DEF Store
  <2>3. CASE a \in Process
    <3>1. CarefulJob(a)'
      BY <2>1, <2>2, <2>3, <1>T DEF Becomes, CarefulJob, Restored, Migrating
    <3> QED
      BY <2>2, <2>3, <3>1, CarefulBusy
  <2>4. CASE a = Agent
    <3>1. vault = NoKey /\ Looks(Agent)
      BY <2>2, <2>4, <1>T DEF AgentOK, Looks
    <3>2. \A p \in Process : ~Looks(p)
      BY <3>1, ActorTypes DEF Common, Sole
    <3> QED
      BY <2>2, <2>4, <3>2, CarefulAgent
  <2> QED
    BY <2>3, <2>4, <1>O
<1>21. ASSUME NEW a \in Actor, Verify(a) PROVE Careful'
  <2>1. Got(a, ring) /\ job[a].at = "verify" /\ UNCHANGED <<machine, ring, file>> /\ Kept(a)
    BY <1>21, <1>T, GotKept DEF Verify
  <2>2. a \in Process /\ job[a].for = "restore" /\ ~machine.override => machine.platform = "macos" \/ file = NoKey
    BY <2>1, <1>T DEF CarefulJob, Restored
  <2> QED
    BY <2>1, <2>2, <1>O, <1>T, GotCareful, CarefulAgent
<1>22. ASSUME NEW a \in Actor, MissFile(a) PROVE Careful'
  <2>1. Becomes(a, "prompt", job[a].for, job[a].key, job[a].env, "passphrase-file")
    BY <1>22, <1>T, MissFileBecomes
  <2>2. UNCHANGED <<machine, ring, file>> /\ file = NoKey /\ job[a].at = "find" /\ Kept(a)
    BY <1>22, <2>1, KeptBecomes DEF MissFile, NoFile
  <2>3. a \in Process => CarefulJob(a)'
    BY <2>1, <2>2 DEF Becomes, CarefulJob, Restored, Migrating
  <2> QED
    BY <2>2, <2>3, <1>O, CarefulBusy, CarefulAgent
<1>23. ASSUME NEW a \in Actor, MakeFile(a) PROVE Careful'
  <2>1. PICK k \in Key : Got(a, k)
    BY <1>23 DEF MakeFile
  <2>2. a \in Process /\ job[a].at = "prompt"
    BY <1>23, <1>O, <1>T DEF MakeFile, AgentOK
  <2>3. job[a].for # "restore"
    BY <2>2, <1>T DEF JobOK, JobIs
  <2> QED
    BY <2>1, <2>2, <2>3, <1>T, GotCareful
<1>24. ASSUME NEW a \in Actor, Quit(a) PROVE Careful'
  BY <1>24, <1>O, <1>T, CarefulLeaves, CarefulAgent, LeaveKept DEF Quit
<1>25. ASSUME Hold PROVE Careful'
  <2>1. Kept(Agent)
    BY <1>25, <1>T, HoldBecomes, KeptBecomes, ActorTypes
  <2> QED
    BY <1>25, <2>1, CarefulAgent DEF Hold
<1>26. ASSUME AgentLock \/ UNCHANGED vars PROVE Careful'
  <2>1. UNCHANGED <<machine, ring, file, job>>
    BY <1>26 DEF AgentLock, vars
  <2> QED
    BY <2>1, CarefulAgent DEF Kept
<1> QED
  BY <1>1, <1>2, <1>3, <1>4, <1>5, <1>6, <1>7, <1>8, <1>9, <1>10, <1>11, <1>12, <1>13, <1>14, <1>15,
     <1>16, <1>17, <1>18, <1>19, <1>20, <1>21, <1>22, <1>23, <1>24, <1>25, <1>26 DEF Next, Command, ResolveKey

(***************************************************************************)
(* All of it together.                                                      *)
(***************************************************************************)
LEMMA InitIInv == Init => IInv
<1> SUFFICES ASSUME Init PROVE IInv
  OBVIOUS
<1>1. /\ machine \in Machine
      /\ ring = NoKey /\ file = NoKey /\ vault = NoKey /\ agent = NoKey /\ NoKey \in Keys
      /\ \A a \in Actor : job[a] = Idle
  BY DEF Init, Keys
<1>2. Idle \in Jobs /\ Idle.at = "idle" /\ Idle.for = "load" /\ Idle.key = NoKey /\ Idle.env = FALSE
      /\ Idle.keystore = "none"
  BY DEF Idle, Jobs, Places, Uses, Keys
<1>3. TypeOK
  BY <1>1, <1>2 DEF Init, TypeOK
<1>4. Sole
  BY <1>1, <1>2 DEF Sole, Looks
<1>5. AgentOK
  BY <1>1, <1>2, ActorTypes DEF AgentOK
<1>6. \A a \in Actor : JobOK(a)
  BY <1>1, <1>2 DEF JobOK, JobIs, Migrating
<1>7. OneKey
  BY <1>1, <1>2 DEF OneKey, PlainJob, Is
<1>8. Careful
  BY <1>1, <1>2, ActorTypes DEF Careful, OneCommand, CarefulJob, Restored, Migrating
<1> QED
  BY <1>3, <1>4, <1>5, <1>6, <1>7, <1>8 DEF IInv, Common

LEMMA MachineStays ==
  ASSUME [Next]_vars
  PROVE  machine' = machine
<1>1. ASSUME NEW p \in Process, Command(p) PROVE machine' = machine
  BY <1>1 DEF Command, Start, AgentLoad, AgentSave, Resolve, Open, Write, Unlock, PushKey, Restore,
              WriteRestored, ReadRing, Compare, Wrap, CheckWrapped, RemoveOld
<1>2. ASSUME NEW a \in Actor, ResolveKey(a) \/ Quit(a) PROVE machine' = machine
  BY <1>2 DEF ResolveKey, FindKey, MissKeytar, MissKeychain, Mint, Store, Verify, MissFile, MakeFile, Quit
<1> QED
  BY <1>1, <1>2 DEF Next, Hold, AgentLock, vars

LEMMA NextIInv ==
  ASSUME FirstRunAlone, IInv, [Next]_vars
  PROVE  IInv'
<1>1. TypeOK /\ JobsOK /\ Sole /\ AgentOK /\ Common
  BY DEF IInv, Common, JobsOK
<1>2. TypeOK' /\ JobsOK' /\ Sole' /\ AgentOK'
  BY <1>1, NextType, NextJobs, NextSole, NextAgent
<1>3. Common'
  BY <1>2 DEF Common, JobsOK
<1>4. Plain' = Plain
  BY MachineStays DEF Plain
<1>5. Plain => OneKey'
  BY <1>1, NextOneKey DEF IInv
<1>6. ~Plain => Careful'
  BY <1>1, NextCareful DEF IInv
<1> QED
  BY <1>3, <1>4, <1>5, <1>6 DEF IInv

(***************************************************************************)
(* abra, as it is run by default, opens its vault at every moment, whoever  *)
(* makes, migrates, pushes or removes keys and wherever they stop           *)
(* (core/masterKey.ts): as long as one process at a time makes the first    *)
(* vault, which nothing in the code sees to.                                *)
(***************************************************************************)
THEOREM VaultStaysOpenable == FirstRunAlone => (Spec => []Openable)
<1> SUFFICES ASSUME FirstRunAlone PROVE Spec => []Openable
  OBVIOUS
<1>1. IInv /\ [Next]_vars => IInv'
  BY NextIInv
<1>2. IInv => Openable
  BY DEF IInv, OneKey, Is, Plain, Openable, Opens
<1> QED
  BY <1>1, <1>2, InitIInv, PTL DEF Spec

(***************************************************************************)
(* No step overwrites or removes a key but a restore's, or one that leaves  *)
(* it in the other store: storeMasterKey, wrapping into master.key.enc, a   *)
(* wrapped copy that does not verify, and migrate --remove-old.             *)
(***************************************************************************)
LEMMA StoreKeeps ==
  ASSUME IInv, NEW a \in Actor, Store(a), NEW k \in Key, Lost(k)
  PROVE  Restoring
<1>1. job[a].at = "store" /\ ring = k /\ file # k /\ NoKey # k
  BY ActorTypes DEF Store, At, Lost
<1>2. CASE Plain
  <2>1. PlainJob(a) /\ JobOK(a) /\ OneKey
    BY <1>2 DEF IInv, OneKey, Common
  <2>2. DefaultKey = NoKey
    BY <1>1, <2>1 DEF PlainJob
  <2> QED
    BY <1>1, <2>1, <2>2 DEF OneKey, Is
<1>3. CASE ~Plain /\ a = Agent
  BY <1>1, <1>3 DEF IInv, Common, AgentOK
<1>4. CASE ~Plain /\ a \in Process
  BY <1>1, <1>4 DEF IInv, Careful, CarefulJob, Restoring
<1> QED
  BY <1>2, <1>3, <1>4 DEF Actor

LEMMA CheckKeeps ==
  ASSUME IInv, NEW p \in Process, CheckWrapped(p), NEW k \in Key, Lost(k)
  PROVE  FALSE
<1>1. job[p].at = "check" /\ file = k /\ ~Verified(p) /\ ring' = ring /\ ring # k /\ NoKey # k
  BY ActorTypes DEF CheckWrapped, At, Lost
<1>2. CASE Plain
  <2>1. PlainJob(p) /\ JobOK(p) /\ OneKey
    BY <1>2, ActorTypes DEF IInv, OneKey, Common
  <2>2. job[p].key = DefaultKey /\ file = DefaultKey /\ vault \in {NoKey, DefaultKey}
    BY <1>1, <2>1 DEF PlainJob, Is, OneKey, JobOK, JobIs, Migrating
  <2> QED
    BY <1>1, <2>2 DEF Verified, Decrypts
<1>3. CASE ~Plain
  <2>1. CarefulJob(p)
    BY <1>3 DEF IInv, Careful
  <2> QED
    BY <1>1, <2>1 DEF CarefulJob, Migrating
<1> QED
  BY <1>2, <1>3

LEMMA RemoveKeeps ==
  ASSUME IInv, NEW p \in Process, RemoveOld(p), NEW k \in Key, Lost(k)
  PROVE  FALSE
<1>1. job[p].at = "migrated" /\ file' = file /\ ring = k /\ file # k /\ NoKey # k
  BY ActorTypes DEF RemoveOld, Migrated, At, Lost
<1>2. CASE Plain
  <2>1. PlainJob(p) /\ OneKey
    BY <1>2, ActorTypes DEF IInv, OneKey
  <2> QED
    BY <1>1, <2>1 DEF PlainJob, Is, OneKey
<1>3. CASE ~Plain
  <2>1. CarefulJob(p)
    BY <1>3 DEF IInv, Careful
  <2> QED
    BY <1>1, <2>1 DEF CarefulJob, Migrating
<1> QED
  BY <1>2, <1>3

LEMMA StepKeeps ==
  ASSUME IInv, [Next]_vars, NEW k \in Key, Lost(k)
  PROVE  Restoring \/ Restoring'
<1>1. ~UNCHANGED <<ring, file>>
  BY DEF Lost
<1>2. ASSUME NEW p \in Process, Command(p) PROVE Restoring \/ Restoring'
  <2>1. ASSUME NEW r \in Key, Restore(p, r) PROVE Restoring'
    <3>1. job'[p].for = "restore"
      BY <2>1, ActorTypes, RestoreBecomes DEF IInv, Common, Becomes
    <3> QED
      BY <3>1 DEF Restoring
  <2>2. CASE Wrap(p)
    BY <2>2, ActorTypes DEF Wrap, Lost
  <2> QED
    BY <1>1, <1>2, <2>1, <2>2, CheckKeeps, RemoveKeeps
    DEF Command, Start, AgentLoad, AgentSave, Resolve, Open, Write, Unlock, PushKey,
        WriteRestored, ReadRing, Compare
<1>3. ASSUME NEW a \in Actor, ResolveKey(a) \/ Quit(a) PROVE Restoring
  <2>1. CASE MakeFile(a)
    <3>1. job[a].at = "prompt" /\ ring' = ring /\ file = k /\ ring # k /\ NoKey # k
      BY <2>1, ActorTypes DEF MakeFile, At, Lost
    <3>2. CASE Plain
      BY <3>1, <3>2 DEF IInv, OneKey, PlainJob, Is
    <3>3. CASE ~Plain
      BY <3>1, <3>3 DEF IInv, Common, AgentOK, Careful, CarefulJob, Actor
    <3> QED
      BY <3>2, <3>3
  <2> QED
    BY <1>1, <1>3, <2>1, StoreKeeps
    DEF ResolveKey, Quit, FindKey, MissKeytar, MissKeychain, Mint, Verify, MissFile
<1> QED
  BY <1>1, <1>2, <1>3 DEF Next, Hold, AgentLock, vars

THEOREM NoKeyIsLost == FirstRunAlone => (Spec => KeysKept)
<1> SUFFICES ASSUME FirstRunAlone PROVE Spec => KeysKept
  OBVIOUS
<1>1. IInv /\ [Next]_vars => IInv'
  BY NextIInv
<1>2. IInv /\ [Next]_vars => [\A k \in Key : Lost(k) => Restoring \/ Restoring']_vars
  BY StepKeeps
<1> QED
  BY <1>1, <1>2, InitIInv, PTL DEF Spec, KeysKept

(***************************************************************************)
(* A restore that gets to its end, where the keystore is not overridden,    *)
(* leaves a vault that opens (commands/usb.ts, platform/): the key it wrote *)
(* is still where the default is looked for.                                *)
(***************************************************************************)
LEMMA RestoredOpens ==
  ASSUME IInv, NEW p \in Process, WriteRestored(p), ~machine.override
  PROVE  Opens'
<1>1. /\ job[p].at = "restored" /\ vault' = job[p].key /\ UNCHANGED <<machine, ring, file>>
      /\ job[p].for = "restore" /\ job[p].key # NoKey /\ machine.restores
      /\ machine.platform \in {"linux", "macos"}
  BY ActorTypes DEF WriteRestored, At, IInv, Common, JobOK, JobIs, TypeOK, Machine
<1>2. IF machine.platform = "macos" \/ file = NoKey THEN ring = job[p].key ELSE file = job[p].key
  BY <1>1 DEF IInv, Plain, Careful, CarefulJob, Restored
<1> QED
  BY <1>1, <1>2 DEF Opens, DefaultKey, Backend

THEOREM RestoresOpen == FirstRunAlone => (Spec => RestoreOpens)
<1> SUFFICES ASSUME FirstRunAlone PROVE Spec => RestoreOpens
  OBVIOUS
<1>1. IInv /\ [Next]_vars => IInv'
  BY NextIInv
<1>2. IInv /\ [Next]_vars => [\A p \in Process : (WriteRestored(p) /\ ~machine.override) => Opens']_vars
  BY RestoredOpens
<1> QED
  BY <1>1, <1>2, InitIInv, PTL DEF Spec, RestoreOpens

(***************************************************************************)
(* abra-agent (Agent).                                                      *)
(***************************************************************************)

(***************************************************************************)
(* The limits an agent starts with are numbers; one that is off is 0.       *)
(***************************************************************************)
LEMMA SettingsGiveLimits ==
  ASSUME NEW i \in IdleSettings, NEW a \in AgeSettings
  PROVE  [idle |-> IdleSeconds(i), age |-> MaxAge(a)] \in Limits
BY AgentAssumption DEF AgentAssumption, IdleSeconds, MaxAge, Limits

\* The history of a locked agent is well formed, and a fresh unlock's.
LEMMA HistoryType ==
  /\ LongAgo \in 0..AgeDefault /\ 0 \in 0..AgeDefault
  /\ NotApproved \in [Project \X Caller -> 0..TtlMax]
BY AgentAssumption DEF AgentAssumption, LongAgo, NotApproved

LEMMA LockedType == ASSUME NEW l \in Limits PROVE Locked \in KeyStates(l)
BY AgentAssumption DEF AgentAssumption, Locked, KeyStates, Limits

LEMMA NoLimitsType == NoLimits \in Limits
BY AgentAssumption DEF AgentAssumption, NoLimits, Limits

LEMMA TouchedType ==
  ASSUME limits \in Limits, NEW k \in KeyStates(limits) PROVE Touched(k) \in KeyStates(limits)
BY DEF Touched, KeyStates, Limits

LEMMA UnlockedType == ASSUME limits \in Limits PROVE Unlocked \in KeyStates(limits)
<1>1. [held |-> TRUE, idle |-> 0, age |-> limits.age] \in KeyStates(limits)
  BY AgentAssumption DEF AgentAssumption, KeyStates, Limits
<1> QED
  BY <1>1, TouchedType DEF Unlocked

(***************************************************************************)
(* What a lock does, with whatever requests stay behind.                    *)
(***************************************************************************)
LEMMA LockType ==
  ASSUME AgentTypeOK, NEW rest, rest \in [Request -> Requests], LockAnd(rest)
  PROVE  AgentTypeOK' /\ grants' = NoGrants
BY LockedType, HistoryType DEF LockAnd, AgentTypeOK, GrantsAfter, NoGrants

LEMMA OvertakenType == ASSUME AgentTypeOK PROVE Overtaken \in [Request -> Requests]
BY DEF Overtaken, AgentTypeOK, Requests

LEMMA NoRequestType == NoRequest \in Requests
BY DEF NoRequest, Requests, Op

LEMMA PrunedType == ASSUME AgentTypeOK PROVE Pruned \in [GrantId -> Grants \cup {NoGrant}]
BY DEF Pruned, AgentTypeOK

(***************************************************************************)
(* Every step of the agent is one of these.                                 *)
(***************************************************************************)
Serves(r) ==
  \/ UnlockAgain(r) \/ AskKeystore(r) \/ KeystoreAnswers(r) \/ KeystoreFails(r)
  \/ UnlockKey(r) \/ UseVault(r) \/ Refuse(r) \/ AnswerLocked(r)
  \/ \E op \in Op : Arrive(r, op)

AsksGrants(r) ==
  \/ AddGrant(r) \/ ListGrants(r) \/ RevokeGrants(r)
  \/ \E p \in Project, c \in Caller : CheckGrant(r, p, c)

LockStep ==
  \/ LockRequest \/ StatusRequest \/ IdleFires \/ MaxAgeFires \/ Suspend

LEMMA Steps ==
  AgentNext <=> \/ \E r \in Request : Serves(r) \/ AsksGrants(r)
           \/ LockStep \/ Tick \/ PruneFires \/ StartAgent \/ Exit
BY DEF AgentNext, Serves, AsksGrants, LockStep

(***************************************************************************)
(* Every reachable state of the agent is well formed.                       *)
(***************************************************************************)
THEOREM AgentTypes == AgentSpec => []AgentTypeOK
<1>1. AgentInit => AgentTypeOK
  BY LockedType, NoLimitsType, NoRequestType, HistoryType DEF AgentInit, AgentTypeOK, NoGrants
<1>2. AgentTypeOK /\ [AgentNext]_agentVars => AgentTypeOK'
  <2> SUFFICES ASSUME AgentTypeOK, [AgentNext]_agentVars PROVE AgentTypeOK'
    OBVIOUS
  <2>1. ASSUME NEW r \in Request, Serves(r) PROVE AgentTypeOK'
    <3>1. CASE UnlockAgain(r)
      BY <3>1, TouchedType, NoRequestType DEF UnlockAgain, Answer, AgentTypeOK, history
    <3>2. CASE AskKeystore(r)
      <4> DEFINE rest == [Overtaken EXCEPT ![r].at = "keystore"]
      <4>1. rest \in [Request -> Requests]
        BY OvertakenType DEF Requests
      <4>2. CASE TooOld(key)
        BY <3>2, <4>1, <4>2, LockType DEF AskKeystore
      <4>3. CASE ~TooOld(key)
        BY <3>2, <4>3 DEF AskKeystore, AgentTypeOK, Requests, history
      <4> QED
        BY <4>2, <4>3
    <3>3. CASE KeystoreAnswers(r)
      BY <3>3, UnlockedType, NoRequestType, HistoryType DEF KeystoreAnswers, Answer, AgentTypeOK
    <3>4. CASE KeystoreFails(r)
      BY <3>4, NoRequestType DEF KeystoreFails, Answer, AgentTypeOK, history
    <3>5. CASE UnlockKey(r)
      BY <3>5, UnlockedType, NoRequestType, HistoryType DEF UnlockKey, Answer, AgentTypeOK
    <3>6. CASE UseVault(r)
      BY <3>6, TouchedType, NoRequestType DEF UseVault, Answer, AgentTypeOK, history
    <3>7. CASE Refuse(r)
      BY <3>7, NoRequestType DEF Refuse, Answer, AgentTypeOK, history
    <3>8. CASE AnswerLocked(r)
      <4> DEFINE rest == [Overtaken EXCEPT ![r] = NoRequest]
      <4>1. rest \in [Request -> Requests]
        BY OvertakenType, NoRequestType
      <4>2. CASE TooOld(key)
        BY <3>8, <4>1, <4>2, LockType DEF AnswerLocked
      <4>3. CASE ~TooOld(key)
        BY <3>8, <4>3, NoRequestType DEF AnswerLocked, Answer, AgentTypeOK, history
      <4> QED
        BY <4>2, <4>3
    <3>9. ASSUME NEW op \in Op, Arrive(r, op) PROVE AgentTypeOK'
      BY <3>9, NoRequestType DEF Arrive, AgentTypeOK, Requests, history
    <3> QED
      BY <2>1, <3>1, <3>2, <3>3, <3>4, <3>5, <3>6, <3>7, <3>8, <3>9 DEF Serves
  <2>2. ASSUME NEW r \in Request, AsksGrants(r) PROVE AgentTypeOK'
    <3>1. CASE AddGrant(r)
      <4>1. PICK g \in GrantId, p \in Project, c \in Caller, ttl \in Ttls :
              /\ ValidTtl(ttl)
              /\ grants' = [grants EXCEPT ![g] = [project |-> p, caller |-> c, left |-> ttl]]
              /\ approved' = [approved EXCEPT ![<<p, c>>] = IF approved[<<p, c>>] < ttl THEN ttl ELSE approved[<<p, c>>]]
        BY <3>1 DEF AddGrant
      <4>2. [project |-> p, caller |-> c, left |-> ttl] \in Grants
        BY <4>1, AgentAssumption DEF ValidTtl, AgentAssumption, Grants
      <4>3. grants' \in [GrantId -> Grants \cup {NoGrant}]
        BY <4>1, <4>2 DEF AgentTypeOK
      <4>4. approved' \in [Project \X Caller -> 0..TtlMax]
        <5>1. ttl \in 0..TtlMax
          BY <4>1, AgentAssumption DEF ValidTtl, AgentAssumption
        <5> QED
          BY <4>1, <5>1 DEF AgentTypeOK
      <4> QED
        BY <3>1, <4>3, <4>4, NoRequestType DEF AddGrant, Answer, AgentTypeOK
    <3>2. CASE ListGrants(r)
      BY <3>2, PrunedType, NoRequestType DEF ListGrants, Answer, AgentTypeOK, history
    <3>3. CASE RevokeGrants(r)
      BY <3>3, NoRequestType, HistoryType DEF RevokeGrants, Answer, AgentTypeOK, NoGrants
    <3>4. ASSUME NEW p \in Project, NEW c \in Caller, CheckGrant(r, p, c) PROVE AgentTypeOK'
      BY <3>4, PrunedType, NoRequestType DEF CheckGrant, Answer, AgentTypeOK, history
    <3> QED
      BY <2>2, <3>1, <3>2, <3>3, <3>4 DEF AsksGrants
  <2>3. CASE LockStep
    BY <2>3, LockType, OvertakenType
       DEF LockStep, LockRequest, StatusRequest, IdleFires, MaxAgeFires, Suspend, Lock
  <2>4. CASE Tick
    <3>1. key' \in KeyStates(limits)
      <4>1. key.idle \in 0..limits.idle /\ key.age \in 0..limits.age
        BY DEF AgentTypeOK, KeyStates
      <4>2. Less(key.idle) \in 0..limits.idle /\ Less(key.age) \in 0..limits.age
        BY <4>1, AgentAssumption DEF Less, AgentTypeOK, Limits, AgentAssumption
      <4> DEFINE idle == Less(key.idle)
                 age  == Less(key.age)
      <4>3. key' = [key EXCEPT !.idle = idle, !.age = age]
        BY <2>4 DEF Tick
      <4>4. idle \in 0..limits.idle /\ age \in 0..limits.age
        BY <4>2
      <4> HIDE DEF idle, age
      <4> QED
        BY <4>3, <4>4 DEF AgentTypeOK, KeyStates
    <3>2. grants' \in [GrantId -> Grants \cup {NoGrant}]
      <4>1. ASSUME NEW g \in GrantId, Live(g)
            PROVE  [grants[g] EXCEPT !.left = Less(grants[g].left)] \in Grants
        <5>1. grants[g] \in Grants
          BY <4>1 DEF AgentTypeOK, Live
        <5> QED
          BY <5>1, AgentAssumption DEF Grants, Less, AgentAssumption
      <4> QED
        BY <2>4, <4>1 DEF Tick
    <3>3. /\ since' \in 0..AgeDefault
          /\ approved' \in [Project \X Caller -> 0..TtlMax]
      BY <2>4, AgentAssumption DEF Tick, Less, AgentTypeOK, AgentAssumption
    <3> QED
      BY <2>4, <3>1, <3>2, <3>3 DEF Tick, AgentTypeOK
  <2>5. CASE PruneFires
    BY <2>5, PrunedType DEF PruneFires, AgentTypeOK, history
  <2>6. CASE StartAgent
    <3>1. PICK i \in IdleSettings, a \in AgeSettings :
            limits' = [idle |-> IdleSeconds(i), age |-> MaxAge(a)]
      BY <2>6 DEF StartAgent
    <3>2. limits' \in Limits
      BY <3>1, SettingsGiveLimits
    <3> QED
      BY <2>6, <3>2, LockedType, HistoryType DEF StartAgent, AgentTypeOK, NoGrants
  <2>7. CASE Exit
    BY <2>7, LockedType, NoLimitsType, NoRequestType, HistoryType DEF Exit, AgentTypeOK, NoGrants
  <2>8. CASE UNCHANGED agentVars
    BY <2>8 DEF agentVars, AgentTypeOK
  <2> QED
    BY <2>1, <2>2, <2>3, <2>4, <2>5, <2>6, <2>7, <2>8, Steps
<1> QED
  BY <1>1, <1>2, PTL DEF AgentSpec

(***************************************************************************)
(* Grants never outlive the unlocked period they were given in: whatever    *)
(* drops the key drops them too.                                            *)
(***************************************************************************)
LEMMA GrantsNeedKey == AgentTypeOK /\ GrantsUnderKey /\ [AgentNext]_agentVars => GrantsUnderKey'
<1> SUFFICES ASSUME AgentTypeOK, GrantsUnderKey, [AgentNext]_agentVars PROVE GrantsUnderKey'
  OBVIOUS
<1>1. ASSUME grants' = NoGrants PROVE GrantsUnderKey'
  BY <1>1 DEF GrantsUnderKey, Live, NoGrants
<1>2. ASSUME NEW rest, LockAnd(rest) PROVE GrantsUnderKey'
  BY <1>1, <1>2 DEF LockAnd, GrantsAfter
<1>3. ASSUME key'.held = key.held, \A g \in GrantId : Live(g)' => Live(g)
      PROVE  GrantsUnderKey'
  BY <1>3 DEF GrantsUnderKey
<1>4. ASSUME key'.held PROVE GrantsUnderKey'
  BY <1>4 DEF GrantsUnderKey
<1>5. Unlocked.held /\ (key.held => Touched(key).held)
  BY DEF Unlocked, Touched, AgentTypeOK, KeyStates
<1>6. ASSUME NEW r \in Request, Serves(r) PROVE GrantsUnderKey'
  <2>1. CASE UnlockAgain(r) \/ UseVault(r)
    BY <2>1, <1>4, <1>5 DEF UnlockAgain, UseVault, Usable
  <2>2. CASE KeystoreAnswers(r) \/ UnlockKey(r)
    BY <2>2, <1>4, <1>5 DEF KeystoreAnswers, UnlockKey
  <2>3. CASE AskKeystore(r)
    BY <2>3, <1>2, <1>3 DEF AskKeystore, Live
  <2>4. CASE AnswerLocked(r)
    BY <2>4, <1>2, <1>3 DEF AnswerLocked, Live
  <2>5. CASE KeystoreFails(r) \/ Refuse(r) \/ \E op \in Op : Arrive(r, op)
    <3>1. UNCHANGED <<key, grants>>
      <4>1. CASE KeystoreFails(r) \/ Refuse(r)
        BY <4>1 DEF KeystoreFails, Refuse, history
      <4>2. ASSUME NEW op \in Op, Arrive(r, op) PROVE UNCHANGED <<key, grants>>
        BY <4>2 DEF Arrive, history
      <4> QED
        BY <2>5, <4>1, <4>2
    <3> QED
      BY <3>1, <1>3 DEF Live
  <2> QED
    BY <1>6, <2>1, <2>2, <2>3, <2>4, <2>5 DEF Serves
<1>7. ASSUME NEW r \in Request, AsksGrants(r) PROVE GrantsUnderKey'
  <2>1. key.held
    BY <1>7 DEF AsksGrants, AddGrant, ListGrants, RevokeGrants, CheckGrant, Usable
  <2>2. key' = key
    BY <1>7 DEF AsksGrants, AddGrant, ListGrants, RevokeGrants, CheckGrant
  <2> QED
    BY <2>1, <2>2, <1>4
<1>8. CASE LockStep
  BY <1>8, <1>2
     DEF LockStep, LockRequest, StatusRequest, IdleFires, MaxAgeFires, Suspend, Lock
<1>9. CASE Tick
  <2>1. key'.held = key.held
    BY <1>9 DEF Tick, AgentTypeOK, KeyStates
  <2>2. \A g \in GrantId : Live(g)' => Live(g)
    BY <1>9 DEF Tick, Live
  <2> QED
    BY <2>1, <2>2, <1>3
<1>10. CASE PruneFires
  BY <1>10, <1>3 DEF PruneFires, Pruned, Live
<1>11. CASE UNCHANGED agentVars
  BY <1>11, <1>3 DEF agentVars, Live
<1>12. CASE StartAgent \/ Exit
  BY <1>12, <1>1 DEF StartAgent, Exit
<1> QED
  BY <1>6, <1>7, <1>8, <1>9, <1>10, <1>11, <1>12, Steps

\* A grant never outlives the unlocked period it was given in, whatever locks the agent.
THEOREM GrantsEndWithLock == AgentSpec => []GrantsUnderKey
<1>1. AgentInit => GrantsUnderKey
  BY DEF AgentInit, GrantsUnderKey, Live, NoGrants
<1> QED
  BY <1>1, AgentTypes, GrantsNeedKey, PTL DEF AgentSpec

(***************************************************************************)
(* The deadlines of the agent against the history: a key that is not too    *)
(* old has no more time left than its fresh unlock gave it, and no grant    *)
(* more than the user's approvals.                                          *)
(***************************************************************************)
AgeCovered   == key.held /\ key.age > 0 => since + key.age <= limits.age
GrantCovered(g) == Live(g) => grants[g].left <= approved[<<grants[g].project, grants[g].caller>>]
InForce == AgeCovered /\ \A g \in GrantId : GrantCovered(g)

\* Handlers that start no deadline, and drop grants at most, leave that so.
LEMMA Quietly ==
  ASSUME InForce, UNCHANGED <<limits, history>>,
         key'.held => key.held, key'.age = key.age,
         \A g \in GrantId : grants'[g] = grants[g] \/ grants'[g] = NoGrant
  PROVE  InForce'
BY DEF InForce, AgeCovered, GrantCovered, Live, history

LEMMA LockCovers ==
  ASSUME NEW rest, LockAnd(rest) PROVE InForce'
BY DEF LockAnd, GrantsAfter, InForce, AgeCovered, GrantCovered, Live, NoGrants, Locked

LEMMA StaysInForce == AgentTypeOK /\ InForce /\ [AgentNext]_agentVars => InForce'
<1> SUFFICES ASSUME AgentTypeOK, InForce, [AgentNext]_agentVars PROVE InForce'
  OBVIOUS
<1>1. key \in KeyStates(limits) /\ limits \in Limits
  BY DEF AgentTypeOK
<1>2. Touched(key).held = key.held /\ Touched(key).age = key.age
  BY <1>1 DEF Touched, KeyStates
<1>3. Unlocked.age = limits.age
  BY DEF Unlocked, Touched
<1>4. ASSUME key' = Unlocked, since' = 0, UNCHANGED <<limits, grants, approved>> PROVE InForce'
  BY <1>1, <1>3, <1>4 DEF InForce, AgeCovered, GrantCovered, Live, Limits
<1>5. ASSUME NEW r \in Request, Serves(r) PROVE InForce'
  <2>1. CASE UnlockAgain(r) \/ UseVault(r)
    BY <2>1, <1>2, Quietly DEF UnlockAgain, UseVault
  <2>2. CASE KeystoreAnswers(r) \/ UnlockKey(r)
    BY <2>2, <1>4 DEF KeystoreAnswers, UnlockKey
  <2>3. CASE AskKeystore(r)
    <3>1. CASE TooOld(key)
      BY <2>3, <3>1, LockCovers DEF AskKeystore
    <3>2. CASE ~TooOld(key)
      BY <2>3, <3>2, Quietly DEF AskKeystore
    <3> QED
      BY <3>1, <3>2
  <2>4. CASE AnswerLocked(r)
    BY <2>4, LockCovers, Quietly DEF AnswerLocked
  <2>5. CASE KeystoreFails(r) \/ Refuse(r) \/ \E op \in Op : Arrive(r, op)
    <3>1. UNCHANGED <<limits, key, grants, history>>
      <4>1. CASE KeystoreFails(r) \/ Refuse(r)
        BY <4>1 DEF KeystoreFails, Refuse, history
      <4>2. ASSUME NEW op \in Op, Arrive(r, op) PROVE UNCHANGED <<limits, key, grants, history>>
        BY <4>2 DEF Arrive, history
      <4> QED
        BY <2>5, <4>1, <4>2
    <3> QED
      BY <3>1, Quietly
  <2> QED
    BY <1>5, <2>1, <2>2, <2>3, <2>4, <2>5 DEF Serves
<1>6. \A g \in GrantId : Pruned[g] = grants[g] \/ Pruned[g] = NoGrant
  BY DEF Pruned
<1>7. ASSUME NEW r \in Request, AsksGrants(r) PROVE InForce'
  <2>1. CASE AddGrant(r)
    <3>1. PICK g \in GrantId, p \in Project, c \in Caller, ttl \in Ttls :
            /\ ValidTtl(ttl)
            /\ grants' = [grants EXCEPT ![g] = [project |-> p, caller |-> c, left |-> ttl]]
            /\ approved' = [approved EXCEPT ![<<p, c>>] = IF approved[<<p, c>>] < ttl THEN ttl ELSE approved[<<p, c>>]]
      BY <2>1 DEF AddGrant
    <3>2. ttl \in Int /\ \A x \in Project \X Caller : approved[x] \in Int
      BY AgentAssumption DEF AgentAssumption, AgentTypeOK
    <3>3. \A x \in Project \X Caller : approved[x] <= approved'[x]
      <4> SUFFICES ASSUME NEW x \in Project \X Caller PROVE approved[x] <= approved'[x]
        OBVIOUS
      <4>1. approved \in [Project \X Caller -> 0..TtlMax]
        BY DEF AgentTypeOK
      <4>2. CASE x = <<p, c>>
        BY <3>1, <3>2, <4>1, <4>2
      <4>3. CASE x # <<p, c>>
        BY <3>1, <3>2, <4>1, <4>3
      <4> QED
        BY <4>2, <4>3
    <3>4. ttl <= approved'[<<p, c>>]
      BY <3>1, <3>2 DEF AgentTypeOK
    <3>5. ASSUME NEW h \in GrantId PROVE GrantCovered(h)'
      <4>1. CASE h = g
        <5>1. grants'[h] = [project |-> p, caller |-> c, left |-> ttl]
          BY <3>1, <4>1 DEF AgentTypeOK
        <5> QED
          BY <3>4, <5>1 DEF GrantCovered, Live
      <4>2. CASE h # g
        <5>1. grants'[h] = grants[h]
          BY <3>1, <4>2 DEF AgentTypeOK
        <5>2. Live(h) => grants[h] \in Grants
          BY DEF AgentTypeOK, Live
        <5>3. Live(h) => /\ <<grants[h].project, grants[h].caller>> \in Project \X Caller
                         /\ grants[h].left \in Int
          BY <5>2, AgentAssumption DEF Grants, AgentAssumption
        <5>4. Live(h) => grants[h].left <= approved[<<grants[h].project, grants[h].caller>>]
          BY DEF InForce, GrantCovered
        <5>5. Live(h) => /\ approved[<<grants[h].project, grants[h].caller>>] \in Int
                         /\ approved[<<grants[h].project, grants[h].caller>>] <= approved'[<<grants[h].project, grants[h].caller>>]
          BY <3>2, <3>3, <5>3
        <5>6. \A x \in Project \X Caller : approved'[x] \in Int
          BY <3>1, <3>2 DEF AgentTypeOK
        <5>7. Live(h) => grants[h].left <= approved'[<<grants[h].project, grants[h].caller>>]
          BY <5>3, <5>4, <5>5, <5>6
        <5> QED
          BY <5>1, <5>7 DEF GrantCovered, Live
      <4> QED
        BY <4>1, <4>2
    <3> QED
      BY <2>1, <3>5 DEF AddGrant, InForce, AgeCovered
  <2>2. CASE ListGrants(r)
    BY <2>2, <1>6, Quietly DEF ListGrants
  <2>3. ASSUME NEW p \in Project, NEW c \in Caller, CheckGrant(r, p, c) PROVE InForce'
    BY <2>3, <1>6, Quietly DEF CheckGrant
  <2>4. CASE RevokeGrants(r)
    <3>1. CASE grants' = NoGrants
      BY <2>4, <3>1 DEF RevokeGrants, InForce, AgeCovered, GrantCovered, Live, NoGrants
    <3>2. CASE UNCHANGED approved /\ \E g \in GrantId : grants' = [grants EXCEPT ![g] = NoGrant]
      <4>1. \A g \in GrantId : grants'[g] = grants[g] \/ grants'[g] = NoGrant
        BY <3>2 DEF AgentTypeOK
      <4> QED
        BY <2>4, <3>2, <4>1, Quietly DEF RevokeGrants, history
    <3> QED
      BY <2>4, <3>1, <3>2 DEF RevokeGrants
  <2> QED
    BY <1>7, <2>1, <2>2, <2>3, <2>4 DEF AsksGrants
<1>8. CASE LockStep
  BY <1>8, LockCovers
     DEF LockStep, LockRequest, StatusRequest, IdleFires, MaxAgeFires, Suspend, Lock
<1>9. CASE Tick
  <2>1. AgeCovered'
    <3>1. key'.held = key.held /\ key'.age = Less(key.age) /\ limits' = limits
      BY <1>1, <1>9 DEF Tick, KeyStates
    <3>2. since' <= since + 1 /\ since' \in Int /\ since \in Int
      BY <1>9, AgentAssumption DEF Tick, AgentTypeOK, AgentAssumption
    <3>3. key.age \in Int /\ limits.age \in Int
      BY <1>1 DEF KeyStates, Limits
    <3> QED
      BY <3>1, <3>2, <3>3 DEF InForce, AgeCovered, Less
  <2>2. ASSUME NEW g \in GrantId, Live(g) PROVE GrantCovered(g)'
    <3>1. grants[g] \in Grants
      BY <2>2 DEF AgentTypeOK, Live
    <3>2. /\ grants'[g] = [grants[g] EXCEPT !.left = Less(grants[g].left)]
          /\ approved' = [x \in Project \X Caller |-> Less(approved[x])]
      BY <1>9, <2>2 DEF Tick
    <3> DEFINE x == <<grants[g].project, grants[g].caller>>
    <3>3. /\ x \in Project \X Caller
          /\ grants'[g].project = grants[g].project /\ grants'[g].caller = grants[g].caller
          /\ grants'[g].left = Less(grants[g].left)
      BY <3>1, <3>2 DEF Grants
    <3>4. approved'[x] = Less(approved[x])
      BY <3>2, <3>3
    <3>5. grants[g].left \in Nat /\ approved[x] \in Nat
      BY <3>1, <3>3, AgentAssumption DEF Grants, AgentTypeOK, AgentAssumption
    <3>6. grants[g].left <= approved[x]
      BY <2>2 DEF InForce, GrantCovered
    <3>7. Less(grants[g].left) <= Less(approved[x])
      BY <3>5, <3>6 DEF Less
    <3> QED
      BY <3>3, <3>4, <3>7 DEF GrantCovered
  <2>3. ASSUME NEW g \in GrantId, ~Live(g) PROVE GrantCovered(g)'
    BY <1>9, <2>3 DEF Tick, GrantCovered, Live
  <2> QED
    BY <2>1, <2>2, <2>3 DEF InForce
<1>10. CASE PruneFires
  BY <1>10, <1>6, Quietly DEF PruneFires
<1>11. CASE UNCHANGED agentVars
  BY <1>11, Quietly DEF agentVars, history
<1>12. CASE StartAgent \/ Exit
  BY <1>12 DEF StartAgent, Exit, InForce, AgeCovered, GrantCovered, Live, NoGrants, Locked
<1> QED
  BY <1>5, <1>7, <1>8, <1>9, <1>10, <1>11, <1>12, Steps

(***************************************************************************)
(* UseIsCovered: the key is used and grants are honoured only while a       *)
(* user's fresh unlock and approval cover it, however late the timers are   *)
(* and whatever was asked in between.                                       *)
(***************************************************************************)
THEOREM UseNeedsApproval == AgentSpec => UseIsCovered
<1>1. ASSUME AgentTypeOK, InForce, NEW r \in Request PROVE Covered(r)
  <2>1. key.held /\ ~TooOld(key) => Young
    <3>1. key.age \in Nat /\ limits.age \in Nat /\ since \in Int
      BY <1>1 DEF AgentTypeOK, KeyStates, Limits
    <3> QED
      BY <1>1, <3>1 DEF TooOld, Young, InForce, AgeCovered
  <2>2. ASSUME NEW p \in Project, NEW c \in Caller, Granted(p, c) PROVE approved[<<p, c>>] > 0
    <3>1. PICK g \in GrantId : Matches(g, p, c)
      BY <2>2 DEF Granted
    <3>2. grants[g] \in Grants /\ approved[<<p, c>>] \in Int
      BY <1>1, <3>1 DEF Matches, Live, AgentTypeOK
    <3>3. grants[g].left \in Nat /\ grants[g].left # 0 /\ grants[g].left <= approved[<<p, c>>]
      BY <1>1, <3>1, <3>2 DEF Matches, Expired, Live, Grants, InForce, GrantCovered
    <3> QED
      BY <3>2, <3>3
  <2> QED
    BY <2>1, <2>2 DEF Covered, UseVault, CheckGrant, Usable
<1>2. AgentInit => InForce
  BY DEF AgentInit, InForce, AgeCovered, GrantCovered, Live, NoGrants, Locked
<1>3. AgentTypeOK /\ InForce /\ [AgentNext]_agentVars => [\A r \in Request : Covered(r)]_agentVars
  BY <1>1
<1> QED
  BY <1>2, <1>3, AgentTypes, StaysInForce, PTL DEF AgentSpec, UseIsCovered
=============================================================================
