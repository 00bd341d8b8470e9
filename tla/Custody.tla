------------------------------ MODULE Custody ------------------------------
(***************************************************************************)
(* Which master key vault.enc is sealed with, and who holds it: the OS      *)
(* keystore (keytar or the macOS keychain), master.key.enc, abra-agent, and *)
(* the commands that resolve, make, restore and migrate it:                 *)
(* core/masterKey.ts, core/vault.ts, platform/ and                          *)
(* commands/keystore-migrate.ts.                                            *)
(*                                                                         *)
(* Commands are processes; nothing but the keystores and the files is       *)
(* shared.  A keystore can refuse, a user give up and a process die at any  *)
(* time.  Files are replaced atomically (see AtomicFile).  What is in the   *)
(* vault, passphrases and the agent's timers are left out.                  *)
(***************************************************************************)
EXTENDS Naturals

CONSTANTS
  Process,        \* commands running at a time
  Agent,          \* abra-agent, when it asks the keystore itself
  Key, NoKey,
  Foreign,        \* the keys in bundles of other machines
  FirstRunAlone   \* is the first vault made by one process at a time

ASSUME CustodyAssumption ==
  /\ Agent \notin Process
  /\ NoKey \notin Key /\ Foreign \subseteq Key
  /\ FirstRunAlone \in BOOLEAN

Actor == Process \cup {Agent}
Keys  == Key \cup {NoKey}

\* What does not change: the platform ("linux" stands for Windows, too), whether
\* keytar's native module is built, whether the agent runs, whether users restore
\* bundles and set ABRA_KEYSTORE=passphrase-file (with one command at a time, then).
Machine == [platform : {"linux", "macos"}, keytar : BOOLEAN, agent : BOOLEAN,
            restores : BOOLEAN, override : BOOLEAN]

VARIABLES
  machine,
  ring,   \* the key in the OS keystore
  file,   \* the key in master.key.enc
  vault,  \* the key vault.enc is sealed with; NoKey: there is no vault
  agent,  \* the key the agent holds
  job     \* what each process is doing
vars == <<machine, ring, file, vault, agent, job>>

(***************************************************************************)
(* at: where a process is; for: what it wants the key for; key: the key it  *)
(* has found or made; env: is ABRA_KEYSTORE set; keystore: the backend it   *)
(* has picked, once it has.                                                 *)
(***************************************************************************)
Idle == [at |-> "idle", for |-> "load", key |-> NoKey, env |-> FALSE, keystore |-> "none"]

Init ==
  /\ machine \in Machine
  /\ ring = NoKey /\ file = NoKey /\ vault = NoKey /\ agent = NoKey
  /\ job = [a \in Actor |-> Idle]

\* resolveKeystoreBackend(): master.key.enc selects passphrase-file, and so does
\* a new vault where keytar is not built.
Backend(env) ==
  IF env THEN "passphrase-file"
  ELSE IF machine.platform = "macos" THEN "keychain"
  ELSE IF file # NoKey \/ (~machine.keytar /\ vault = NoKey) THEN "passphrase-file"
  ELSE "keytar"

\* getKeystore(): a process keeps the backend it has picked.
Picked(a) == IF job[a].keystore = "none" THEN Backend(job[a].env) ELSE job[a].keystore

Decrypts(k) == vault \in {NoKey, k}

\* A new random key is none that is anywhere.
Fresh(k) ==
  /\ k \notin Foreign \cup {NoKey, ring, file, vault, agent}
  /\ \A a \in Actor : job[a].key # k

At(a, at) == job[a].at = at
Goto(a, at) == job' = [job EXCEPT ![a].at = at]
GotoWith(a, at, k) == job' = [job EXCEPT ![a].at = at, ![a].key = k, ![a].keystore = Picked(a)]

\* The command is over, refused or dead.
Leave(a) == job' = [job EXCEPT ![a] = Idle]
Quit(a)  == ~At(a, "idle") /\ Leave(a) /\ UNCHANGED <<machine, ring, file, vault, agent>>

(***************************************************************************)
(* A command loads the vault and, when its user has typed, saves it: each   *)
(* through the agent or with a key it resolves itself.                      *)
(***************************************************************************)
Start(p, env) ==
  /\ At(p, "idle")
  /\ env => machine.override
  /\ machine.restores \/ machine.override => \A q \in Process : At(q, "idle")
  /\ job' = [job EXCEPT ![p].at = "start", ![p].env = env]
  /\ UNCHANGED <<machine, ring, file, vault, agent>>

\* The agent takes requests for its own vault and backend only.
Bound(p) == machine.agent /\ agent # NoKey /\ Backend(job[p].env) = Backend(FALSE)

AgentLoad(p) ==
  /\ At(p, "start") /\ Bound(p)
  /\ IF Decrypts(agent) THEN Goto(p, "loaded") ELSE Leave(p)
  /\ UNCHANGED <<machine, ring, file, vault, agent>>

AgentSave(p) ==
  /\ At(p, "loaded") /\ Bound(p)
  /\ vault' = agent
  /\ Leave(p)
  /\ UNCHANGED <<machine, ring, file, agent>>

MayLook(a) ==
  FirstRunAlone /\ vault = NoKey => \A b \in Actor \ {a} : job[b].at \in {"idle", "start"}

\* loadVaultDirect and saveVaultDirect resolve the key, each time.
Resolve(p) ==
  /\ MayLook(p)
  /\ \/ At(p, "start")  /\ job' = [job EXCEPT ![p].at = "find", ![p].for = "load"]
     \/ At(p, "loaded") /\ job' = [job EXCEPT ![p].at = "find", ![p].for = "save"]
  /\ UNCHANGED <<machine, ring, file, vault, agent>>

Open(p) ==
  /\ At(p, "open")
  /\ IF Decrypts(job[p].key) THEN Goto(p, "loaded") ELSE Leave(p)
  /\ UNCHANGED <<machine, ring, file, vault, agent>>

Write(p) ==
  /\ At(p, "write")
  /\ vault' = job[p].key
  /\ Leave(p)
  /\ UNCHANGED <<machine, ring, file, agent>>

\* What is done with a key that is there.
Got(a, k) ==
  CASE job[a].for = "load"    -> GotoWith(a, "open", k) /\ UNCHANGED agent
    [] job[a].for = "save"    -> GotoWith(a, "write", k) /\ UNCHANGED agent
    [] job[a].for = "restore" -> GotoWith(a, "restored", k) /\ UNCHANGED agent
    [] job[a].for = "hold"    -> agent' = k /\ Leave(a)
    [] OTHER                  -> FALSE

(***************************************************************************)
(* resolveMasterKey.                                                        *)
(***************************************************************************)
RingWorks(a) == Picked(a) = "keychain" \/ (Picked(a) = "keytar" /\ machine.keytar)

FindKey(a) ==
  /\ At(a, "find")
  /\ \/ RingWorks(a) /\ ring # NoKey /\ Got(a, ring)
     \* the key of this process's session, or unwrapped with the CI passphrase
     \/ Picked(a) = "passphrase-file" /\ job[a].key # NoKey /\ Got(a, job[a].key)
     \/ Picked(a) = "passphrase-file" /\ job[a].key = NoKey /\ file # NoKey /\ Got(a, file)
  /\ UNCHANGED <<machine, ring, file, vault>>

\* Only a key that is not there is made; a slip: one that is not accessible, too.
AnyError == TRUE
NotFound == ring = NoKey
NoFile   == file = NoKey

\* keytar: not over an existing vault.
MissKeytar(a) ==
  /\ At(a, "find") /\ Picked(a) = "keytar" /\ machine.keytar /\ NotFound /\ vault = NoKey
  /\ job' = [job EXCEPT ![a].at = "mint", ![a].keystore = "keytar"]
  /\ UNCHANGED <<machine, ring, file, vault, agent>>

MissKeychain(a) ==
  /\ At(a, "find") /\ Picked(a) = "keychain" /\ NotFound
  /\ \E k \in Key : Fresh(k) /\ GotoWith(a, "store", k)
  /\ UNCHANGED <<machine, ring, file, vault, agent>>

\* createMasterKey looks once more.
Mint(a) ==
  /\ At(a, "mint") /\ ring = NoKey
  /\ \E k \in Key : Fresh(k) /\ GotoWith(a, "store", k)
  /\ UNCHANGED <<machine, ring, file, vault, agent>>

\* storeMasterKey writes the key, and reads it back.
Store(a) ==
  /\ At(a, "store")
  /\ ring' = job[a].key
  /\ Goto(a, "verify")
  /\ UNCHANGED <<machine, file, vault, agent>>

Verify(a) ==
  /\ At(a, "verify") /\ ring = job[a].key
  /\ Got(a, ring)
  /\ UNCHANGED <<machine, ring, file, vault>>

\* passphrase-file: no file, so a new passphrase is asked for ...
MissFile(a) ==
  /\ At(a, "find") /\ Picked(a) = "passphrase-file" /\ job[a].key = NoKey /\ NoFile
  /\ job' = [job EXCEPT ![a].at = "prompt", ![a].keystore = "passphrase-file"]
  /\ UNCHANGED <<machine, ring, file, vault, agent>>

\* ... and a new key wrapped with it.
MakeFile(a) ==
  /\ At(a, "prompt")
  /\ \E k \in Key : Fresh(k) /\ file' = k /\ Got(a, k)
  /\ UNCHANGED <<machine, ring, vault>>

(***************************************************************************)
(* The agent's key.                                                         *)
(***************************************************************************)
\* unlock, which a command waits for: a keytar agent asks the keystore.
Hold ==
  /\ machine.agent /\ agent = NoKey /\ At(Agent, "idle") /\ Backend(FALSE) = "keytar"
  /\ MayLook(Agent)
  /\ job' = [job EXCEPT ![Agent].at = "find", ![Agent].for = "hold"]
  /\ UNCHANGED <<machine, ring, file, vault, agent>>

\* `abra unlock`, and unlock.key: the agent tries the key on the vault.
Unlock(p) ==
  /\ At(p, "start") /\ Picked(p) = "passphrase-file" /\ file # NoKey
  /\ GotoWith(p, "push", file)
  /\ UNCHANGED <<machine, ring, file, vault, agent>>

PushKey(p) ==
  /\ At(p, "push") /\ machine.agent /\ Backend(FALSE) = "passphrase-file"
  /\ Decrypts(job[p].key)
  /\ agent' = job[p].key
  /\ Leave(p)
  /\ UNCHANGED <<machine, ring, file, vault>>

AgentLock == agent # NoKey /\ agent' = NoKey /\ UNCHANGED <<machine, ring, file, vault, job>>

(***************************************************************************)
(* usb restore and cartridge restore: the key, then the vault.              *)
(***************************************************************************)
\* A slip: into the OS keystore, whatever the backend.
AlwaysRing(p)   == FALSE
IntoKeyFile(p) == Picked(p) = "passphrase-file"

Restore(p, k) ==
  /\ MayLook(p)
  /\ machine.restores /\ At(p, "start") /\ k \in Foreign
  /\ IF IntoKeyFile(p)
     THEN /\ file' = k
          /\ job' = [job EXCEPT ![p].at = "restored", ![p].for = "restore", ![p].key = k]
     ELSE /\ job' = [job EXCEPT ![p].at = "store", ![p].for = "restore", ![p].key = k]
          /\ UNCHANGED file
  /\ UNCHANGED <<machine, ring, vault, agent>>

WriteRestored(p) ==
  /\ At(p, "restored")
  /\ vault' = job[p].key
  /\ Leave(p)
  /\ UNCHANGED <<machine, ring, file, agent>>

(***************************************************************************)
(* keystore migrate: keytar's key into master.key.enc, checked before the   *)
(* old copy may go.                                                         *)
(***************************************************************************)
HasOldKey == ring # NoKey

ReadRing(p) ==
  /\ MayLook(p)
  /\ machine.platform = "linux" /\ machine.keytar /\ At(p, "start") /\ HasOldKey
  /\ job' = [job EXCEPT ![p].at = IF file # NoKey THEN "compare" ELSE "wrap",
                        ![p].for = "migrate", ![p].key = ring]
  /\ UNCHANGED <<machine, ring, file, vault, agent>>

Verified(p) == file = job[p].key /\ Decrypts(file)

Compare(p) ==
  /\ At(p, "compare") /\ Verified(p)
  /\ Goto(p, "migrated")
  /\ UNCHANGED <<machine, ring, file, vault, agent>>

Wrap(p) ==
  /\ At(p, "wrap") /\ file = NoKey
  /\ file' = job[p].key
  /\ Goto(p, "check")
  /\ UNCHANGED <<machine, ring, vault, agent>>

\* A file that does not verify is renamed away.
CheckWrapped(p) ==
  /\ At(p, "check")
  /\ IF Verified(p) THEN Goto(p, "migrated") /\ UNCHANGED file
     ELSE file' = NoKey /\ Leave(p)
  /\ UNCHANGED <<machine, ring, vault, agent>>

\* --remove-old, once confirmed.  A slip: before the new copy is there.
Unmigrated(p) == At(p, "wrap")
Migrated(p)   == At(p, "migrated")

RemoveOld(p) ==
  /\ Migrated(p)
  /\ ring' = NoKey
  /\ Leave(p)
  /\ UNCHANGED <<machine, file, vault, agent>>

Command(p) ==
  \/ \E env \in BOOLEAN : Start(p, env)
  \/ AgentLoad(p) \/ AgentSave(p) \/ Resolve(p) \/ Open(p) \/ Write(p)
  \/ Unlock(p) \/ PushKey(p)
  \/ (\E k \in Key : Restore(p, k)) \/ WriteRestored(p)
  \/ ReadRing(p) \/ Compare(p) \/ Wrap(p) \/ CheckWrapped(p) \/ RemoveOld(p)

ResolveKey(a) ==
  \/ FindKey(a) \/ MissKeytar(a) \/ MissKeychain(a) \/ Mint(a) \/ Store(a) \/ Verify(a)
  \/ MissFile(a) \/ MakeFile(a)

Next ==
  \/ \E p \in Process : Command(p)
  \/ \E a \in Actor : ResolveKey(a) \/ Quit(a)
  \/ Hold \/ AgentLock

Spec == Init /\ [][Next]_vars
-----------------------------------------------------------------------------
(***************************************************************************)
(* abra, as it is run by default, can open its vault: at every moment,      *)
(* whoever makes, migrates, pushes or removes keys and wherever they stop.  *)
(* "An existing vault whose key lives in the OS keyring stays on keytar",   *)
(* and a migration leaves vault.enc untouched (docs/CROSS-PLATFORM.md).     *)
(* Not where restores are cut short, and not where ABRA_KEYSTORE overrides  *)
(* the choice for some commands.                                            *)
(***************************************************************************)
DefaultKey == IF Backend(FALSE) = "passphrase-file" THEN file ELSE ring

Opens == vault # NoKey => DefaultKey = vault

Openable == machine.restores \/ machine.override \/ Opens

(***************************************************************************)
(* No key is overwritten or removed, but by a restore, or while the other   *)
(* store keeps it: "Master key already exists in credential store;          *)
(* refusing to overwrite" (platform/keystore-keytar.ts).                    *)
(***************************************************************************)
Restoring == \E p \in Process : job[p].for = "restore"
Lost(k)   == k # NoKey /\ k \in {ring, file} /\ k \notin {ring', file'}

KeysKept == [][\A k \in Key : Lost(k) => Restoring \/ Restoring']_vars

(***************************************************************************)
(* "A vault created on macOS must open on Linux/Windows after USB restore": *)
(* a restore that gets to its end leaves a vault that opens, whatever the   *)
(* keystore had and however often it was cut short before.                  *)
(***************************************************************************)
RestoreOpens ==
  [][\A p \in Process : (WriteRestored(p) /\ ~machine.override) => Opens']_vars
=============================================================================
