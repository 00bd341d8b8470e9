------------------------------ MODULE UsbSync ------------------------------
(***************************************************************************)
(* Machines that meet at one backup directory (a stick, or any directory    *)
(* given with -f): src/commands/usb.ts with the sync base of                *)
(* src/core/sync.ts and the bundles of src/core/backup.ts.                  *)
(*                                                                         *)
(* A command reads, asks, waits for an approval and then writes the vault,  *)
(* the bundle and the base in three separate steps.  Between any two steps  *)
(* another machine may use the directory, another process of the same       *)
(* machine may save the vault, and the command may stop: an answer of no,   *)
(* a denied approval, a failed write and a kill all look the same.          *)
(*                                                                         *)
(* latest.json is renamed into place after its bundle file is written, so   *)
(* a bundle appears in one step.  Bundles older than latest.json, scoped    *)
(* bundles, passphrases and the master key are left out here.               *)
(***************************************************************************)
EXTENDS ThreeWayMerge, Naturals

CONSTANTS
  Machine,
  Home,         \* the identity each machine makes when it first pairs, if it ever does
  Lineage,      \* lineage ids a bundle can be given (bound on fresh bundles)
  NoLineage,    \* a legacy bundle without one
  NoBundle,     \* there is no latest.json
  LegacyBundle, \* bundles an older release may have left on the stick
  MaxEdits,     \* bound on user edits
  MidSync       \* machines whose vault may be edited while a command of theirs runs

ASSUME UsbAssumption ==
  /\ Home \in [Machine -> Identity \cup {NoIdentity}]
  /\ NoLineage \notin Lineage
  /\ MaxEdits \in Nat
  /\ MidSync \subseteq Machine

Bundles == [vault : Vaults, lineage : Lineage \cup {NoLineage}]

ASSUME LegacyAssumption ==
  /\ LegacyBundle \subseteq Bundles
  /\ NoBundle \notin Bundles

VARIABLES
  vault,    \* what each machine's vault.enc holds
  base,     \* each machine's sync-state.json: a base per lineage, EmptyVault when none
  stick,    \* the bundle latest.json names
  fresh,    \* lineage ids not used yet
  pc,       \* where each machine's command stands
  job,      \* what that command has read and decided
  edits
vars == <<vault, base, stick, fresh, pc, job, edits>>

Sync    == {"opened", "loaded", "merged", "approved", "saved", "published"}
Export  == {"first", "first out", "backup"}
Restore == {"restore", "restored"}
Steps   == {"idle"} \cup Sync \cup Export \cup Restore

Jobs == [ via     : {"cli", "dash"},
          theirs  : Vaults,                     \* the bundle that was read
          lineage : Lineage \cup {NoLineage},
          ours    : Vaults,                     \* the local vault that was read
          base    : Vaults,
          res     : Resolutions,
          allow   : BOOLEAN ]                   \* --allow-deletes, or "delete" typed

NoJob == [ via |-> "cli", theirs |-> EmptyVault, lineage |-> NoLineage,
           ours |-> EmptyVault, base |-> EmptyVault, res |-> NoResolution, allow |-> FALSE ]

TypeOK ==
  /\ vault \in [Machine -> Vaults]
  /\ base \in [Machine -> [Lineage -> Vaults]]
  /\ stick \in Bundles \cup {NoBundle}
  /\ fresh \in SUBSET Lineage
  /\ pc \in [Machine -> Steps]
  /\ job \in [Machine -> Jobs]
  /\ edits \in Nat

Init ==
  /\ vault = [m \in Machine |-> EmptyVault]
  /\ base = [m \in Machine |-> [l \in Lineage |-> EmptyVault]]
  /\ stick \in LegacyBundle \cup {NoBundle}
  /\ fresh = Lineage
  /\ pc = [m \in Machine |-> "idle"]
  /\ job = [m \in Machine |-> NoJob]
  /\ edits = 0

Goto(m, step) == pc' = [pc EXCEPT ![m] = step]
Finish(m)     == Goto(m, "idle") /\ job' = [job EXCEPT ![m] = NoJob]

(***************************************************************************)
(* The sync base: saveSyncState strips device-local fields and touches one  *)
(* lineage; it does nothing without a lineage id, and neither does loading. *)
(***************************************************************************)
LoadBase(m, l) == IF l = NoLineage THEN EmptyVault ELSE base[m][l]

SaveBase(m, l, v) ==
  base' = IF l = NoLineage THEN base
          ELSE [base EXCEPT ![m][l] = WithoutDeviceLocal(v)]

\* encryptVaultForExport + writeBundleToDir.
WriteBundle(v, l) == stick' = [vault |-> WithoutDeviceLocal(v), lineage |-> l]

MergedOf(j)    == Merge(j.ours, j.theirs, j.base, j.res)
DeletionsOf(j) == ProjectDeletions(j.ours, j.theirs, j.base)
QuietOf(j)     == Quiet(j.ours, j.theirs, j.base, j.res)

(***************************************************************************)
(* Edits by other commands on machine m, and `abra sync` making its         *)
(* identity.                                                                *)
(***************************************************************************)
Free(m) == m \in MidSync \/ pc[m] = "idle"

Edit(m) ==
  /\ Free(m) /\ edits < MaxEdits
  /\ \E v \in Edits(vault[m]) : vault' = [vault EXCEPT ![m] = v]
  /\ edits' = edits + 1
  /\ UNCHANGED <<base, stick, fresh, pc, job>>

MakeIdentity(m) ==
  /\ Free(m) /\ vault[m].identity = NoIdentity /\ Home[m] # NoIdentity
  /\ vault' = [vault EXCEPT ![m] = MadeIdentity(vault[m], Home[m])]
  /\ UNCHANGED <<base, stick, fresh, pc, job, edits>>

(***************************************************************************)
(* `abra usb sync` against an existing bundle, and the dash's applySync.    *)
(***************************************************************************)
\* The CLI reads the bundle (resolveLatest, openAnyWithPrompts) before it asks
\* for the passphrase.
OpenBundle(m) ==
  /\ pc[m] = "idle" /\ stick # NoBundle
  /\ job' = [job EXCEPT ![m] = [NoJob EXCEPT !.theirs = stick.vault,
                                             !.lineage = stick.lineage]]
  /\ Goto(m, "opened")
  /\ UNCHANGED <<vault, base, stick, fresh, edits>>

\* Merge what was read and resolve every conflict.
Decide(m, j, picks) ==
  /\ \E pick \in picks :
       job' = [job EXCEPT ![m] = [j EXCEPT !.res = Resolve(j.ours, j.theirs, j.base, pick)]]
  /\ Goto(m, "merged")
  /\ UNCHANGED <<vault, base, stick, fresh, edits>>

\* Then it loads the vault and the base, and asks about the conflicts.
MergeLocal(m) ==
  /\ pc[m] = "opened"
  /\ Decide(m, [job[m] EXCEPT !.ours = vault[m], !.base = LoadBase(m, job[m].lineage)], Picks)

\* The dash (prepareSync) loads the vault before it looks for a bundle ...
LoadLocal(m) ==
  /\ pc[m] = "idle"
  /\ job' = [job EXCEPT ![m] = [NoJob EXCEPT !.via = "dash", !.ours = vault[m]]]
  /\ Goto(m, "loaded")
  /\ UNCHANGED <<vault, base, stick, fresh, edits>>

\* ... and takes one side for all conflicts; with no side forced it stops at
\* the first one.
MergeStick(m) ==
  /\ pc[m] = "loaded" /\ stick # NoBundle
  /\ Decide(m, [job[m] EXCEPT !.theirs = stick.vault, !.lineage = stick.lineage,
                              !.base = LoadBase(m, stick.lineage)], Forced)

\* gateProjectDeletions, then one approval for all the writes.
Approve(m) ==
  /\ pc[m] = "merged"
  /\ \E allow \in BOOLEAN :
       /\ DeletionsOf(job[m]) # {} => allow
       /\ job' = [job EXCEPT ![m].allow = allow]
  /\ Goto(m, "approved")
  /\ UNCHANGED <<vault, base, stick, fresh, edits>>

\* "Already in sync": only the base is written.  The dash loads the vault
\* anew for it, the CLI saves the one it merged.
SaveQuietBase(m) ==
  /\ pc[m] = "approved" /\ QuietOf(job[m])
  /\ SaveBase(m, job[m].lineage, IF job[m].via = "dash" THEN vault[m] ELSE job[m].ours)
  /\ Finish(m)
  /\ UNCHANGED <<vault, stick, fresh, edits>>

SaveMerged(m) ==
  /\ pc[m] = "approved" /\ ~QuietOf(job[m])
  /\ vault' = [vault EXCEPT ![m] = MergedOf(job[m])]
  /\ Goto(m, "saved")
  /\ UNCHANGED <<base, stick, fresh, job, edits>>

\* Refresh the stick under the bundle's lineage; a legacy bundle gets one.
Publish(m) ==
  /\ pc[m] = "saved"
  /\ \E l \in IF job[m].lineage = NoLineage THEN fresh ELSE {job[m].lineage} :
       /\ WriteBundle(MergedOf(job[m]), l)
       /\ job' = [job EXCEPT ![m].lineage = l]
       /\ fresh' = fresh \ {l}
  /\ Goto(m, "published")
  /\ UNCHANGED <<vault, base, edits>>

SaveMergedBase(m) ==
  /\ pc[m] = "published"
  /\ SaveBase(m, job[m].lineage, MergedOf(job[m]))
  /\ Finish(m)
  /\ UNCHANGED <<vault, stick, fresh, edits>>

(***************************************************************************)
(* `abra usb sync` with no bundle there yet, and `abra usb backup`.         *)
(***************************************************************************)
BeginFirst(m) ==
  /\ pc[m] = "idle" /\ stick = NoBundle
  /\ job' = [job EXCEPT ![m].ours = vault[m]]
  /\ Goto(m, "first")
  /\ UNCHANGED <<vault, base, stick, fresh, edits>>

\* Approved, the directory and a passphrase asked for.
WriteFirst(m) ==
  /\ pc[m] = "first"
  /\ \E l \in fresh :
       /\ WriteBundle(job[m].ours, l)
       /\ job' = [job EXCEPT ![m].lineage = l]
       /\ fresh' = fresh \ {l}
  /\ Goto(m, "first out")
  /\ UNCHANGED <<vault, base, edits>>

SaveFirstBase(m) ==
  /\ pc[m] = "first out"
  /\ SaveBase(m, job[m].lineage, job[m].ours)
  /\ Finish(m)
  /\ UNCHANGED <<vault, stick, fresh, edits>>

\* Approved first, loaded, then the passphrase is asked for twice.
BeginBackup(m) ==
  /\ pc[m] = "idle"
  /\ job' = [job EXCEPT ![m].ours = vault[m]]
  /\ Goto(m, "backup")
  /\ UNCHANGED <<vault, base, stick, fresh, edits>>

\* A backup mints a lineage of its own and leaves no base behind.
WriteBackup(m) ==
  /\ pc[m] = "backup"
  /\ \E l \in fresh : WriteBundle(job[m].ours, l) /\ fresh' = fresh \ {l}
  /\ Finish(m)
  /\ UNCHANGED <<vault, base, edits>>

(***************************************************************************)
(* `abra usb restore`: the vault is replaced, then every base forgotten.    *)
(***************************************************************************)
BeginRestore(m) ==
  /\ pc[m] = "idle" /\ stick # NoBundle
  /\ job' = [job EXCEPT ![m].theirs = stick.vault]
  /\ Goto(m, "restore")
  /\ UNCHANGED <<vault, base, stick, fresh, edits>>

WriteRestored(m) ==
  /\ pc[m] = "restore"
  /\ vault' = [vault EXCEPT ![m] = WithoutDeviceLocal(job[m].theirs)]
  /\ Goto(m, "restored")
  /\ UNCHANGED <<base, stick, fresh, job, edits>>

ForgetBases(m) ==
  /\ pc[m] = "restored"
  /\ base' = [base EXCEPT ![m] = [l \in Lineage |-> EmptyVault]]
  /\ Finish(m)
  /\ UNCHANGED <<vault, stick, fresh, edits>>

\* The command ends early, wherever it stands.
Stop(m) ==
  /\ pc[m] # "idle"
  /\ Finish(m)
  /\ UNCHANGED <<vault, base, stick, fresh, edits>>

Next == \E m \in Machine :
  \/ Edit(m) \/ MakeIdentity(m)
  \/ OpenBundle(m) \/ MergeLocal(m) \/ LoadLocal(m) \/ MergeStick(m) \/ Approve(m)
  \/ SaveQuietBase(m) \/ SaveMerged(m) \/ Publish(m) \/ SaveMergedBase(m)
  \/ BeginFirst(m) \/ WriteFirst(m) \/ SaveFirstBase(m)
  \/ BeginBackup(m) \/ WriteBackup(m)
  \/ BeginRestore(m) \/ WriteRestored(m) \/ ForgetBases(m)
  \/ Stop(m)

Spec == Init /\ [][Next]_vars
-----------------------------------------------------------------------------
(***************************************************************************)
(* A device identity never leaves the machine that made it: not in a        *)
(* bundle this release writes, not in a base, and a bundle that an older    *)
(* release wrote with one inside passes it on to nobody                     *)
(* (withoutDeviceLocal, keepDeviceLocal, writeRestoredVault).               *)
(***************************************************************************)
OwnOrNone(m, v) == v.identity \in {NoIdentity, Home[m]}

IdentityStaysHome ==
  /\ \A m \in Machine : OwnOrNone(m, vault[m])
  /\ \A m \in Machine, l \in Lineage : base[m][l].identity = NoIdentity
  /\ stick \in LegacyBundle \cup {NoBundle} \/ stick.vault.identity = NoIdentity

(***************************************************************************)
(* README: "Whole-project deletions against the sync base require           *)
(* --allow-deletes (or typing `delete` on a TTY)".  A project a machine or  *)
(* the stick has disappears in a sync only with that consent, provided the  *)
(* sync writes over what it read: SaveMerged and Publish after the gate.    *)
(***************************************************************************)
Drops(old, new) == {p \in Project : Present(old, p) /\ ~Present(new, p)}

Consented(m) ==
  /\ (SaveMerged(m) /\ vault[m].scopes = job[m].ours.scopes) =>
       (Drops(vault[m], vault'[m]) # {} => job[m].allow)
  /\ (Publish(m) /\ stick.vault = job[m].theirs) =>
       (Drops(stick.vault, stick'.vault) # {} => job[m].allow)

DeletesNeedConsent == [][\A m \in Machine : Consented(m)]_vars

(***************************************************************************)
(* What one side has and the other has not seen (it differs from the base   *)
(* of this machine) survives a sync: the stick's news reaches the vault and *)
(* stays on the refreshed stick, the vault's news stays in the vault.  The  *)
(* exceptions are the user's: a choice in a conflict, a project let go.     *)
(***************************************************************************)
News(v, b) == {x \in Scope \X Key :
                 Present(v, x[1]) /\ v.scopes[x[1]][x[2]] # VarsOf(b, x[1])[x[2]]}

Chosen(j) == Conflicts(j.ours, j.theirs, j.base, NoResolution)
               \cup {x \in Scope \X Key : j.allow /\ x[1] \in DeletionsOf(j)}

Carries(v, from, m) ==
  \A x \in News(from, LoadBase(m, job[m].lineage)) \ Chosen(job[m]) :
    VarsOf(v, x[1])[x[2]] = from.scopes[x[1]][x[2]]

NewsSurvives ==
  [][\A m \in Machine :
       /\ SaveMerged(m) => Carries(vault'[m], job[m].theirs, m)
       /\ (SaveMerged(m) /\ vault[m] = job[m].ours) => Carries(vault'[m], vault[m], m)
       /\ (Publish(m) /\ stick.vault = job[m].theirs) =>
            Carries(stick'.vault, stick.vault, m)]_vars

(***************************************************************************)
(* README: "Only-one-side-changed keeps auto-merging".  A sync that stands  *)
(* between one machine and its own stick, with nobody else editing, leaves  *)
(* every entry the vault holds as it is, unless the user chose in a         *)
(* conflict.  Stated for the instance with one machine.                     *)
(***************************************************************************)
OwnEditsStay ==
  [][\A m \in Machine :
       (SaveMerged(m) /\ vault[m] = job[m].ours) =>
         \A s \in Scope, k \in Key :
            \/ VarsOf(vault[m], s)[k] \in {Absent, VarsOf(vault'[m], s)[k]}
            \/ <<s, k>> \in Chosen(job[m])]_vars
=============================================================================
