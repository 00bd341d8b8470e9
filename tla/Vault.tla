------------------------------- MODULE Vault -------------------------------
(***************************************************************************)
(* The contents of a decrypted vault and the edits a user makes to it:      *)
(* src/core/vault.ts, src/commands/crud.ts and src/commands/connect.ts.     *)
(*                                                                         *)
(* A "scope" is a project or a connection: both are maps from variable      *)
(* names to entries, and sync merges both the same way.  An entry stands    *)
(* for { value, secret, updatedAt }, equal exactly when its JSON is equal.  *)
(* Creation times, labels and connection metadata are left out.             *)
(***************************************************************************)
CONSTANTS
  Project,      \* project names
  Provider,     \* connection providers
  Key,          \* variable names
  Entry,        \* variable entries
  Absent,       \* the variable is not in the map
  Gone,         \* the project or connection is not in the vault
  Blob,         \* contents of the passkeys array and of the apiKeys record
  NoBlob,       \* an empty one
  Identity,     \* device identities made by `abra sync` (syncIdentity, syncPeers)
  NoIdentity    \* the vault holds no device-local field

Scope  == Project \cup Provider
Slot   == Entry \cup {Absent}
VarMap == [Key -> Slot]

ASSUME VaultAssumption ==
  /\ Project \cap Provider = {}
  /\ Absent \notin Entry
  /\ Gone \notin VarMap
  /\ NoBlob \in Blob
  /\ NoIdentity \notin Identity

Vaults == [ scopes   : [Scope -> VarMap \cup {Gone}],
            passkeys : Blob,
            apiKeys  : Blob,
            identity : Identity \cup {NoIdentity} ]

NoVars == [k \in Key |-> Absent]

EmptyVault == [ scopes   |-> [s \in Scope |-> Gone],
                passkeys |-> NoBlob,
                apiKeys  |-> NoBlob,
                identity |-> NoIdentity ]

Present(v, s) == v.scopes[s] # Gone

\* The variables of a scope, none when it is not there (`b?.vars ?? {}`).
VarsOf(v, s) == IF Present(v, s) THEN v.scopes[s] ELSE NoVars

(***************************************************************************)
(* Device-local fields: stripped from everything that leaves the machine,   *)
(* never taken from a peer.                                                 *)
(***************************************************************************)
DeviceLocalKept(v) == v   \* a slip: nothing stripped

WithoutDeviceLocal(v) == [v EXCEPT !.identity = NoIdentity]

KeepDeviceLocal(incoming, local) == [incoming EXCEPT !.identity = local.identity]

(***************************************************************************)
(* The edits the commands make to a loaded vault before they save it.       *)
(***************************************************************************)
PutScope(v, s, vars) == [v EXCEPT !.scopes[s] = vars]

\* `abra set` creates the project when it is missing.
SetVar(v, p, k, e) == PutScope(v, p, [VarsOf(v, p) EXCEPT ![k] = e])

RemoveVar(v, p, k) == PutScope(v, p, [v.scopes[p] EXCEPT ![k] = Absent])

SetVarEdits(v)     == {SetVar(v, p, k, e) : p \in Project, k \in Key, e \in Entry}

\* Removing a variable that is not there is refused: no edit at all.
RemoveVarEdits(v)  == {RemoveVar(v, p, k) : p \in {q \in Project : Present(v, q)}, k \in Key}

ProjectNewEdits(v) == {PutScope(v, p, NoVars) : p \in {q \in Project : ~Present(v, q)}}

ProjectRmEdits(v)  == {PutScope(v, p, Gone) : p \in {q \in Project : Present(v, q)}}

\* `abra connect` writes the whole connection, replacing an older one.
ConnectEdits(v)    == {PutScope(v, c, vars) : c \in Provider, vars \in VarMap}

DisconnectEdits(v) == {PutScope(v, c, Gone) : c \in {d \in Provider : Present(v, d)}}

\* `abra keys`, the dash's passkey registration and removal.
ListEdits(v)       == {[v EXCEPT !.passkeys = b] : b \in Blob}
                        \cup {[v EXCEPT !.apiKeys = b] : b \in Blob}

Edits(v) == (UNION {SetVarEdits(v), RemoveVarEdits(v), ProjectNewEdits(v),
                    ProjectRmEdits(v), ConnectEdits(v), DisconnectEdits(v),
                    ListEdits(v)}) \ {v}

\* `abra sync` makes the identity on first use and adds peers to it later.
MadeIdentity(v, id) == [v EXCEPT !.identity = id]
=============================================================================
