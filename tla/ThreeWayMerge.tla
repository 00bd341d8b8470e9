--------------------------- MODULE ThreeWayMerge ---------------------------
(***************************************************************************)
(* threeWayMerge of src/core/sync.ts: two vaults merged against the last    *)
(* synced snapshot (the base).  Without a snapshot every `base?.x ?? {}` in *)
(* the code reads as empty, so "no base" is EmptyVault here.                *)
(*                                                                         *)
(* Resolutions say, per scope and key, what the user picked for a conflict; *)
(* Unresolved where nothing was picked.  The report is abstracted to the    *)
(* set of scopes it has a line about: callers only ask whether it is empty. *)
(***************************************************************************)
EXTENDS Vault

CONSTANT Unresolved

ASSUME UnresolvedAssumption == Unresolved \notin Slot

Resolutions  == [Scope -> [Key -> Slot \cup {Unresolved}]]
NoResolution == [s \in Scope |-> [k \in Key |-> Unresolved]]

\* Both sides differ from each other and from the base, and nobody chose.
Clash(o, t, b, r) == o # t /\ r = Unresolved /\ o # b /\ t # b

(***************************************************************************)
(* Slips of MergeEntry that the properties must notice: the one-sided       *)
(* changes swapped, ours kept whenever it changed, theirs never taken.      *)
(***************************************************************************)
EntrySwapped(o, t, b, r) ==
  IF o = t THEN o ELSE IF r # Unresolved THEN r
  ELSE IF t = b THEN t ELSE IF o = b THEN o ELSE Absent
EntryOursFirst(o, t, b, r) == IF o = t \/ o # b THEN o ELSE t
EntryDropsTheirs(o, t, b, r) ==
  IF o = t THEN o ELSE IF r # Unresolved THEN r
  ELSE IF t = b THEN o ELSE Absent

\* One key of mergeVarMaps.  A key in conflict is left out of the result.
MergeEntry(o, t, b, r) ==
  IF o = t THEN o
  ELSE IF r # Unresolved THEN r
  ELSE IF t = b THEN o
  ELSE IF o = b THEN t
  ELSE Absent

MergeVars(o, t, b, r) == [k \in Key |-> MergeEntry(o[k], t[k], b[k], r[k])]

\* A slip of MergeScope: the base is not asked.
ScopeBaseIgnored(ours, theirs, base, res, s) ==
  IF Present(ours, s) /\ Present(theirs, s)
    THEN MergeVars(ours.scopes[s], theirs.scopes[s], VarsOf(base, s), res[s])
  ELSE IF s \in Project THEN Gone
  ELSE IF Present(ours, s) THEN ours.scopes[s] ELSE theirs.scopes[s]

\* One scope.  A project that only one side has is dropped when the base had
\* it; a connection that only one side has is always kept.
MergeScope(ours, theirs, base, res, s) ==
  LET o == ours.scopes[s]
      t == theirs.scopes[s]
  IN  IF Present(ours, s) /\ Present(theirs, s)
        THEN MergeVars(o, t, VarsOf(base, s), res[s])
      ELSE IF s \in Project /\ Present(base, s) THEN Gone
      ELSE IF Present(ours, s) THEN o
      ELSE t

\* passkeys and apiKeys: the whole value, ours as soon as ours changed.
MergeBlob(o, t, b) == IF o # b THEN o ELSE t

Merge(ours, theirs, base, res) ==
  KeepDeviceLocal([ scopes   |-> [s \in Scope |-> MergeScope(ours, theirs, base, res, s)],
                    passkeys |-> MergeBlob(ours.passkeys, theirs.passkeys, base.passkeys),
                    apiKeys  |-> MergeBlob(ours.apiKeys, theirs.apiKeys, base.apiKeys),
                    identity |-> NoIdentity ],
                  ours)

InConflict(ours, theirs, base, res, s, k) ==
  /\ Present(ours, s) /\ Present(theirs, s)
  /\ Clash(ours.scopes[s][k], theirs.scopes[s][k], VarsOf(base, s)[k], res[s][k])

Conflicts(ours, theirs, base, res) ==
  {x \in Scope \X Key : InConflict(ours, theirs, base, res, x[1], x[2])}

\* Exactly one of the two vaults has the scope.
OneSided(ours, theirs, s) == Present(ours, s) # Present(theirs, s)

\* A slip of ProjectDeletions: only what the peer deleted is listed.
DeletionsOfPeer(ours, theirs, base) ==
  {p \in Project : Present(ours, p) /\ ~Present(theirs, p) /\ Present(base, p)}

\* Whole-project deletions relative to the base, which the callers gate.
ProjectDeletions(ours, theirs, base) ==
  {p \in Project : OneSided(ours, theirs, p) /\ Present(base, p)}

\* A project both sides have is reported only when the merge changes OURS; a
\* connection both sides have is never reported.
Report(ours, theirs, base, res) ==
  {s \in Scope :
     \/ OneSided(ours, theirs, s)
     \/ /\ s \in Project /\ Present(ours, s) /\ Present(theirs, s)
        /\ MergeScope(ours, theirs, base, res, s) # ours.scopes[s]}

\* What the callers call "already in sync".
Quiet(ours, theirs, base, res) ==
  Report(ours, theirs, base, res) = {} /\ ProjectDeletions(ours, theirs, base) = {}

\* The resolutions that pick "ours" or "theirs" for each conflict of a first merge.
Picked(ours, theirs, base, pick, s, k) ==
  IF ~InConflict(ours, theirs, base, NoResolution, s, k) THEN Unresolved
  ELSE IF pick[s, k] = "theirs" THEN theirs.scopes[s][k]
  ELSE ours.scopes[s][k]

Resolve(ours, theirs, base, pick) ==
  [s \in Scope |-> [k \in Key |-> Picked(ours, theirs, base, pick, s, k)]]

\* What a user may pick: key by key, or one side for all (--theirs, --ours,
\* the dash's force).
Picks  == [Scope \X Key -> {"ours", "theirs"}]
Forced == {pick \in Picks : \A x, y \in Scope \X Key : pick[x] = pick[y]}
=============================================================================
