---------------------------- MODULE MergeProofs ----------------------------
(***************************************************************************)
(* What the merge of src/core/sync.ts returns, for every value of the       *)
(* constants: lemmas for the modules that build on it, and then the         *)
(* properties that the runs of Divergence check, for vaults of any size.    *)
(***************************************************************************)
EXTENDS Divergence, TLAPS

(* A loaded vault has a map of variables for every scope, even one it lacks. *)
LEMMA VarsOfType ==
  ASSUME NEW v \in Vaults, NEW s \in Scope
  PROVE  VarsOf(v, s) \in VarMap
BY VaultAssumption DEF Vaults, VarsOf, Present, NoVars, VarMap, Slot

(* One key of mergeVarMaps is an entry or absent: nothing is left undecided. *)
LEMMA MergeEntryType ==
  ASSUME NEW o \in Slot, NEW t \in Slot, NEW b \in Slot,
         NEW r \in Slot \cup {Unresolved}
  PROVE  MergeEntry(o, t, b, r) \in Slot
BY DEF MergeEntry, Slot

(* mergeVarMaps returns a map of variables. *)
LEMMA MergeVarsType ==
  ASSUME NEW o \in VarMap, NEW t \in VarMap, NEW b \in VarMap,
         NEW r \in [Key -> Slot \cup {Unresolved}]
  PROVE  MergeVars(o, t, b, r) \in VarMap
BY MergeEntryType DEF MergeVars, VarMap

(* Merging one scope gives a map of variables or drops the scope. *)
LEMMA MergeScopeType ==
  ASSUME NEW ours \in Vaults, NEW theirs \in Vaults, NEW base \in Vaults,
         NEW res \in Resolutions, NEW s \in Scope
  PROVE  MergeScope(ours, theirs, base, res, s) \in VarMap \cup {Gone}
<1>1. /\ ours.scopes[s] \in VarMap \cup {Gone}
      /\ theirs.scopes[s] \in VarMap \cup {Gone}
      /\ res[s] \in [Key -> Slot \cup {Unresolved}]
  BY DEF Vaults, Resolutions
<1>2. CASE Present(ours, s) /\ Present(theirs, s)
  BY <1>1, <1>2, VarsOfType, MergeVarsType DEF MergeScope, Present
<1>3. CASE ~(Present(ours, s) /\ Present(theirs, s))
  BY <1>1, <1>3 DEF MergeScope
<1>4. QED
  BY <1>2, <1>3

(* keepDeviceLocal changes nothing but the device-local field. *)
LEMMA KeepDeviceLocalType ==
  ASSUME NEW v \in Vaults, NEW local \in Vaults
  PROVE  /\ KeepDeviceLocal(v, local) \in Vaults
         /\ KeepDeviceLocal(v, local).scopes = v.scopes
         /\ KeepDeviceLocal(v, local).passkeys = v.passkeys
         /\ KeepDeviceLocal(v, local).apiKeys = v.apiKeys
         /\ KeepDeviceLocal(v, local).identity = local.identity
BY DEF KeepDeviceLocal, Vaults

(* threeWayMerge of well-formed vaults is one, and keeps ours' identity. *)
LEMMA MergeType ==
  ASSUME NEW ours \in Vaults, NEW theirs \in Vaults, NEW base \in Vaults,
         NEW res \in Resolutions
  PROVE  LET m == Merge(ours, theirs, base, res) IN
         /\ m \in Vaults
         /\ \A s \in Scope : m.scopes[s] = MergeScope(ours, theirs, base, res, s)
         /\ m.passkeys = MergeBlob(ours.passkeys, theirs.passkeys, base.passkeys)
         /\ m.apiKeys = MergeBlob(ours.apiKeys, theirs.apiKeys, base.apiKeys)
         /\ m.identity = ours.identity
<1> DEFINE scopes == [s \in Scope |-> MergeScope(ours, theirs, base, res, s)]
           bare   == [ scopes   |-> scopes,
                       passkeys |-> MergeBlob(ours.passkeys, theirs.passkeys, base.passkeys),
                       apiKeys  |-> MergeBlob(ours.apiKeys, theirs.apiKeys, base.apiKeys),
                       identity |-> NoIdentity ]
<1>1. scopes \in [Scope -> VarMap \cup {Gone}]
  BY MergeScopeType
<1>2. /\ MergeBlob(ours.passkeys, theirs.passkeys, base.passkeys) \in Blob
      /\ MergeBlob(ours.apiKeys, theirs.apiKeys, base.apiKeys) \in Blob
  BY DEF Vaults, MergeBlob
<1>3. Merge(ours, theirs, base, res) = KeepDeviceLocal(bare, ours)
  BY DEF Merge
<1>4. \A s \in Scope : scopes[s] = MergeScope(ours, theirs, base, res, s)
  OBVIOUS
<1> HIDE DEF scopes
<1>5. /\ bare \in Vaults
      /\ bare.scopes = scopes
      /\ bare.passkeys = MergeBlob(ours.passkeys, theirs.passkeys, base.passkeys)
      /\ bare.apiKeys = MergeBlob(ours.apiKeys, theirs.apiKeys, base.apiKeys)
  BY <1>1, <1>2 DEF Vaults
<1> HIDE DEF bare
<1>6. QED
  BY <1>3, <1>4, <1>5, KeepDeviceLocalType

(* A scope that either side has stays, unless its project is a deletion.     *)
LEMMA MergeKeepsScopes ==
  ASSUME NEW ours \in Vaults, NEW theirs \in Vaults, NEW base \in Vaults,
         NEW res \in Resolutions, NEW s \in Scope,
         Present(ours, s) \/ Present(theirs, s),
         s \notin ProjectDeletions(ours, theirs, base)
  PROVE  Present(Merge(ours, theirs, base, res), s)
<1>1. Merge(ours, theirs, base, res).scopes[s] = MergeScope(ours, theirs, base, res, s)
  BY MergeType
<1>2. CASE Present(ours, s) /\ Present(theirs, s)
  <2>1. /\ ours.scopes[s] \in VarMap /\ theirs.scopes[s] \in VarMap
        /\ VarsOf(base, s) \in VarMap
        /\ res[s] \in [Key -> Slot \cup {Unresolved}]
    BY <1>2, VarsOfType DEF Vaults, Resolutions, Present
  <2>2. MergeScope(ours, theirs, base, res, s) \in VarMap
    BY <1>2, <2>1, MergeVarsType DEF MergeScope
  <2>3. QED
    BY <1>1, <2>2, VaultAssumption DEF Present
<1>3. CASE ~(Present(ours, s) /\ Present(theirs, s))
  BY <1>1, <1>3 DEF MergeScope, ProjectDeletions, OneSided, Present
<1>4. QED
  BY <1>2, <1>3

(* What the user picks for the conflicts of a merge are resolutions. *)
LEMMA ResolveType ==
  ASSUME NEW ours \in Vaults, NEW theirs \in Vaults, NEW base \in Vaults,
         NEW pick
  PROVE  Resolve(ours, theirs, base, pick) \in Resolutions
<1>1. ASSUME NEW s \in Scope, NEW k \in Key
      PROVE  Picked(ours, theirs, base, pick, s, k) \in Slot \cup {Unresolved}
  <2>1. CASE InConflict(ours, theirs, base, NoResolution, s, k)
    <3>1. ours.scopes[s] \in VarMap /\ theirs.scopes[s] \in VarMap
      BY <2>1 DEF InConflict, Vaults, Present
    <3>2. QED
      BY <3>1 DEF Picked, VarMap
  <2>2. CASE ~InConflict(ours, theirs, base, NoResolution, s, k)
    BY <2>2 DEF Picked
  <2>3. QED
    BY <2>1, <2>2
<1>2. QED
  BY <1>1 DEF Resolve, Resolutions

(* The vault of a machine that has none is well formed. *)
LEMMA EmptyVaultType == EmptyVault \in Vaults /\ EmptyVault.identity = NoIdentity
BY VaultAssumption DEF EmptyVault, Vaults

(* Stripping the device-local fields leaves a vault without an identity. *)
LEMMA WithoutDeviceLocalType ==
  ASSUME NEW v \in Vaults
  PROVE  /\ WithoutDeviceLocal(v) \in Vaults
         /\ WithoutDeviceLocal(v).identity = NoIdentity
BY DEF WithoutDeviceLocal, Vaults

(* Replacing one scope of a vault leaves a vault with the same identity. *)
LEMMA PutScopeType ==
  ASSUME NEW v \in Vaults, NEW s \in Scope, NEW x \in VarMap \cup {Gone}
  PROVE  PutScope(v, s, x) \in Vaults /\ PutScope(v, s, x).identity = v.identity
BY DEF PutScope, Vaults

(* Every edit of a command leaves a well-formed vault and its identity. *)
LEMMA EditsType ==
  ASSUME NEW v \in Vaults, NEW w \in Edits(v)
  PROVE  w \in Vaults /\ w.identity = v.identity
<1>1. CASE w \in SetVarEdits(v)
  <2>1. PICK p \in Project, k \in Key, e \in Entry : w = SetVar(v, p, k, e)
    BY <1>1 DEF SetVarEdits
  <2>2. p \in Scope /\ [VarsOf(v, p) EXCEPT ![k] = e] \in VarMap
    <3>1. p \in Scope
      BY DEF Scope
    <3>2. VarsOf(v, p) \in VarMap
      BY <3>1, VarsOfType
    <3>3. QED
      BY <3>1, <3>2 DEF VarMap, Slot
  <2>3. QED
    BY <2>1, <2>2, PutScopeType DEF SetVar
<1>2. CASE w \in RemoveVarEdits(v)
  <2>1. PICK p \in Project, k \in Key : w = RemoveVar(v, p, k) /\ Present(v, p)
    BY <1>2 DEF RemoveVarEdits
  <2>2. p \in Scope /\ Present(v, p)
    BY <2>1 DEF Scope
  <2>3. [v.scopes[p] EXCEPT ![k] = Absent] \in VarMap
    BY <2>2 DEF Vaults, Present, VarMap, Slot
  <2>4. QED
    BY <2>1, <2>2, <2>3, PutScopeType DEF RemoveVar
<1>3. CASE w \in ProjectNewEdits(v)
  BY <1>3, PutScopeType DEF ProjectNewEdits, Scope, NoVars, VarMap, Slot
<1>4. CASE w \in ProjectRmEdits(v)
  BY <1>4, PutScopeType DEF ProjectRmEdits, Scope
<1>5. CASE w \in ConnectEdits(v)
  BY <1>5, PutScopeType DEF ConnectEdits, Scope
<1>6. CASE w \in DisconnectEdits(v)
  BY <1>6, PutScopeType DEF DisconnectEdits, Scope
<1>7. CASE w \in ListEdits(v)
  BY <1>7 DEF ListEdits, Vaults
<1>8. QED
  BY <1>1, <1>2, <1>3, <1>4, <1>5, <1>6, <1>7 DEF Edits

(* A merge leaves alone what is not in conflict, whatever the user picked.   *)
OnlyConflicts(ours, theirs, base, res) ==
  \A s \in Scope, k \in Key :
    res[s][k] # Unresolved => InConflict(ours, theirs, base, NoResolution, s, k)

LEMMA ResolvesConflicts ==
  ASSUME NEW ours, NEW theirs, NEW base, NEW pick
  PROVE  OnlyConflicts(ours, theirs, base, Resolve(ours, theirs, base, pick))
BY DEF OnlyConflicts, Resolve, Picked

(* What the merge does to one scope that a side has, key by key: the side's  *)
(* entry is kept, was the base's, is in conflict, or its project goes.       *)
LEMMA MergeCarries ==
  ASSUME NEW ours \in Vaults, NEW theirs \in Vaults, NEW base \in Vaults,
         NEW res \in Resolutions, OnlyConflicts(ours, theirs, base, res),
         NEW s \in Scope, NEW k \in Key,
         NEW side \in {ours, theirs}, Present(side, s),
         s \notin ProjectDeletions(ours, theirs, base)
  PROVE  LET m == Merge(ours, theirs, base, res) IN
         /\ Present(m, s)
         /\ \/ side.scopes[s][k] = VarsOf(base, s)[k]
            \/ m.scopes[s][k] = side.scopes[s][k]
            \/ InConflict(ours, theirs, base, NoResolution, s, k)
<1> DEFINE m == MergeScope(ours, theirs, base, res, s)
<1>1. Merge(ours, theirs, base, res).scopes[s] = m
  BY MergeType
<1>2. CASE Present(ours, s) /\ Present(theirs, s)
  <2>1. m \in VarMap /\ Gone \notin VarMap
    BY <1>2, VarsOfType, MergeVarsType, VaultAssumption
       DEF MergeScope, Vaults, Resolutions, Present
  <2>2. m[k] = MergeEntry(ours.scopes[s][k], theirs.scopes[s][k],
                          VarsOf(base, s)[k], res[s][k])
    BY <1>2 DEF MergeScope, MergeVars
  <2>3. CASE ~InConflict(ours, theirs, base, NoResolution, s, k)
    <3>1. res[s][k] = Unresolved
      BY <2>3 DEF OnlyConflicts
    <3>2. \/ ours.scopes[s][k] = theirs.scopes[s][k]
          \/ ours.scopes[s][k] = VarsOf(base, s)[k]
          \/ theirs.scopes[s][k] = VarsOf(base, s)[k]
      BY <1>2, <2>3 DEF InConflict, Clash, NoResolution
    <3>3. QED
      BY <1>1, <2>1, <2>2, <3>1, <3>2 DEF MergeEntry, Present
  <2>4. QED
    BY <1>1, <2>1, <2>3 DEF Present
<1>3. CASE ~(Present(ours, s) /\ Present(theirs, s))
  <2>1. ~(s \in Project /\ Present(base, s))
    BY <1>3 DEF ProjectDeletions, OneSided
  <2>2. m = side.scopes[s]
    BY <1>3, <2>1 DEF MergeScope, Present
  <2>3. QED
    BY <1>1, <2>2 DEF Present
<1>4. QED
  BY <1>2, <1>3

(***************************************************************************)
(* Divergence: two vaults and the base they left.                           *)
(***************************************************************************)
Inv == {ourVault, theirVault, baseVault} \subseteq Vaults

(* Edits keep all three vaults well formed. *)
LEMMA InvHolds == DivergenceSpec => []Inv
<1>1. DivergenceInit => Inv
  BY DEF DivergenceInit, Inv, Vaults
<1>2. Inv /\ [DivergenceNext]_vaults => Inv'
  <2> SUFFICES ASSUME Inv, [DivergenceNext]_vaults PROVE Inv'
    OBVIOUS
  <2>1. CASE EditOurs
    BY <2>1, EditsType DEF Inv, EditOurs
  <2>2. CASE EditTheirs
    BY <2>2, EditsType DEF Inv, EditTheirs
  <2>3. CASE UNCHANGED vaults
    BY <2>3 DEF Inv, vaults
  <2>4. QED
    BY <2>1, <2>2, <2>3 DEF DivergenceNext
<1>3. QED
  BY <1>1, <1>2, PTL DEF DivergenceSpec

(* Whatever the user picks, the merged vault is well formed, and each of its *)
(* scopes is the merge of that scope.                                        *)
LEMMA MergedScopes ==
  ASSUME Inv, NEW pick \in Picks
  PROVE  /\ Merged(pick) \in Vaults
         /\ Res(pick) \in Resolutions
         /\ \A s \in Scope : Merged(pick).scopes[s] =
                               MergeScope(ourVault, theirVault, baseVault, Res(pick), s)
BY ResolveType, MergeType DEF Inv, Merged, Res

(* TypeOK: the merge of any two vaults that edits can make is a vault.       *)
THEOREM MergesTyped == DivergenceSpec => []MergeTypeOK
<1>1. Inv => MergeTypeOK
  BY MergedScopes DEF Inv, MergeTypeOK
<1>2. QED
  BY <1>1, InvHolds, PTL

(* SameFromBothEnds: both machines see the same merge, the same conflicts    *)
(* and the same deletions.                                                   *)
THEOREM BothEndsAgree == DivergenceSpec => []SameFromBothEnds
<1>1. ASSUME Inv PROVE SameFromBothEnds
  <2>1. ASSUME NEW pick \in Picks
        PROVE  Merge(theirVault, ourVault, baseVault, Res(pick)).scopes = Merged(pick).scopes
    <3>1. \A s \in Scope : MergeScope(theirVault, ourVault, baseVault, Res(pick), s) =
                             MergeScope(ourVault, theirVault, baseVault, Res(pick), s)
      <4> SUFFICES ASSUME NEW s \in Scope
                   PROVE MergeScope(theirVault, ourVault, baseVault, Res(pick), s) =
                           MergeScope(ourVault, theirVault, baseVault, Res(pick), s)
        OBVIOUS
      <4>1. \A o, t, b, r : MergeEntry(o, t, b, r) = MergeEntry(t, o, b, r)
        BY DEF MergeEntry
      <4>2. \A o, t, b, r : MergeVars(o, t, b, r) = MergeVars(t, o, b, r)
        BY <4>1 DEF MergeVars
      <4>3. CASE Present(ourVault, s) /\ Present(theirVault, s)
        BY <4>2, <4>3 DEF MergeScope
      <4>4. CASE ~(Present(ourVault, s) /\ Present(theirVault, s))
        BY <4>4 DEF MergeScope, Present
      <4>5. QED
        BY <4>3, <4>4
    <3>2. /\ Merge(theirVault, ourVault, baseVault, Res(pick)) \in Vaults
          /\ \A s \in Scope : Merge(theirVault, ourVault, baseVault, Res(pick)).scopes[s] =
                                MergeScope(theirVault, ourVault, baseVault, Res(pick), s)
      BY <1>1, MergedScopes, MergeType DEF Inv
    <3>3. QED
      BY <1>1, <3>1, <3>2, MergedScopes DEF Vaults
  <2>2. Conflicts(theirVault, ourVault, baseVault, NoResolution) = Open
    BY DEF Conflicts, InConflict, Clash, Open
  <2>3. ProjectDeletions(theirVault, ourVault, baseVault) = ProjectDeletions(ourVault, theirVault, baseVault)
    BY DEF ProjectDeletions, OneSided
  <2>4. QED
    BY <2>1, <2>2, <2>3 DEF SameFromBothEnds
<1>2. QED
  BY <1>1, InvHolds, PTL

(* The same, for the merge that Divergence looks at.                         *)
LEMMA ScopeKept ==
  ASSUME Inv, NEW pick \in Picks, NEW s \in Scope, NEW k \in Key,
         NEW side \in {ourVault, theirVault}, Present(side, s),
         s \notin ProjectDeletions(ourVault, theirVault, baseVault)
  PROVE  /\ Present(Merged(pick), s)
         /\ \/ side.scopes[s][k] = VarsOf(baseVault, s)[k]
            \/ Merged(pick).scopes[s][k] = side.scopes[s][k]
            \/ <<s, k>> \in Open
<1>1. /\ ourVault \in Vaults /\ theirVault \in Vaults /\ baseVault \in Vaults
      /\ Res(pick) \in Resolutions
      /\ OnlyConflicts(ourVault, theirVault, baseVault, Res(pick))
  BY MergedScopes, ResolvesConflicts DEF Inv, Res
<1>2. /\ Present(Merged(pick), s)
      /\ \/ side.scopes[s][k] = VarsOf(baseVault, s)[k]
         \/ Merged(pick).scopes[s][k] = side.scopes[s][k]
         \/ InConflict(ourVault, theirVault, baseVault, NoResolution, s, k)
  BY <1>1, MergeCarries DEF Merged
<1>3. QED
  BY <1>2 DEF Open, Conflicts

(* NothingLostUnasked: a changed entry of either side survives the merge, was *)
(* in conflict or its project is a listed deletion; a removed project stays   *)
(* removed, and is listed.                                                    *)
THEOREM ChangesSurvive == DivergenceSpec => []NothingLostUnasked
<1>1. ASSUME Inv, NEW pick \in Picks, NEW side \in {ourVault, theirVault}
      PROVE  EntriesKeptOrAsked(side, Merged(pick))
  BY <1>1, ScopeKept DEF EntriesKeptOrAsked, Deletions, VarsOf
<1>2. ASSUME Inv, NEW pick \in Picks, NEW p \in Project, Present(baseVault, p),
             ~Present(ourVault, p) \/ ~Present(theirVault, p)
      PROVE  /\ ~Present(Merged(pick), p)
             /\ Present(ourVault, p) \/ Present(theirVault, p) => p \in Deletions
  <2>1. p \in Scope
    BY DEF Scope
  <2>2. MergeScope(ourVault, theirVault, baseVault, Res(pick), p) = Gone
    BY <1>2 DEF MergeScope
  <2>3. Merged(pick).scopes[p] = Gone
    BY <1>2, <2>1, <2>2, MergedScopes
  <2>4. QED
    BY <1>2, <2>3 DEF Deletions, ProjectDeletions, OneSided, Present
<1>3. Inv => NothingLostUnasked
  BY <1>1, <1>2 DEF NothingLostUnasked, KeptOrAsked, RemovalsKept
<1>4. QED
  BY <1>3, InvHolds, PTL

(* AdditiveWithoutBase: with no snapshot nothing either side has goes.       *)
THEOREM NothingDeletedWithoutBase == DivergenceSpec => []AdditiveWithoutBase
<1>1. ASSUME Inv, baseVault = EmptyVault PROVE AdditiveWithoutBase
  <2>1. ProjectDeletions(ourVault, theirVault, baseVault) = {}
    BY <1>1 DEF ProjectDeletions, Present, EmptyVault, Scope
  <2>2. \A s \in Scope, k \in Key : VarsOf(baseVault, s)[k] = Absent
    BY <1>1 DEF VarsOf, Present, EmptyVault, NoVars
  <2>3. ASSUME NEW pick \in Picks, NEW side \in {ourVault, theirVault}, NEW s \in Scope,
               Present(side, s)
        PROVE  /\ Present(Merged(pick), s)
               /\ \A k \in Key : side.scopes[s][k] # Absent =>
                    \/ Merged(pick).scopes[s][k] # Absent
                    \/ <<s, k>> \in Open
    <3>1. s \notin ProjectDeletions(ourVault, theirVault, baseVault)
      BY <2>1
    <3>2. Present(Merged(pick), s)
      BY <1>1, <2>3, <3>1, MergedScopes, MergeKeepsScopes DEF Inv, Merged
    <3>3. ASSUME NEW k \in Key, side.scopes[s][k] # Absent, <<s, k>> \notin Open
          PROVE  Merged(pick).scopes[s][k] # Absent
      <4>1. VarsOf(baseVault, s)[k] = Absent
        BY <2>2
      <4>2. \/ side.scopes[s][k] = VarsOf(baseVault, s)[k]
            \/ Merged(pick).scopes[s][k] = side.scopes[s][k]
        BY <1>1, <2>3, <3>1, <3>3, ScopeKept
      <4>3. QED
        BY <3>3, <4>1, <4>2
    <3>4. QED
      BY <3>2, <3>3
  <2>4. QED
    BY <2>3 DEF AdditiveWithoutBase
<1>2. Inv => AdditiveWithoutBase
  BY <1>1 DEF AdditiveWithoutBase
<1>3. QED
  BY <1>2, InvHolds, PTL

(* One key, merged again: once resolved it stays what it became.             *)
LEMMA EntryStable ==
  ASSUME NEW o, NEW t, NEW b, NEW r,
         Clash(o, t, b, Unresolved) => r # Unresolved
  PROVE  LET x == MergeEntry(o, t, b, r) IN
         /\ MergeEntry(x, t, b, r) = x
         /\ Clash(x, t, b, Unresolved) => Clash(o, t, b, Unresolved)
            \/ r # Unresolved
BY DEF MergeEntry, Clash

(* One scope, merged again.                                                  *)
LEMMA ScopeStable ==
  ASSUME Inv, NEW pick \in Picks, NEW s \in Scope
  PROVE  /\ MergeScope(Merged(pick), theirVault, baseVault, Res(pick), s) = Merged(pick).scopes[s]
         /\ \A k \in Key : InConflict(Merged(pick), theirVault, baseVault, NoResolution, s, k)
                             => InConflict(ourVault, theirVault, baseVault, NoResolution, s, k)
         /\ s \in ProjectDeletions(Merged(pick), theirVault, baseVault)
              => s \in ProjectDeletions(ourVault, theirVault, baseVault)
<1> DEFINE m == Merged(pick)
           o == ourVault.scopes[s]
           t == theirVault.scopes[s]
           b == VarsOf(baseVault, s)
           r == Res(pick)[s]
<1>1. /\ m \in Vaults
      /\ m.scopes[s] = MergeScope(ourVault, theirVault, baseVault, Res(pick), s)
  BY MergedScopes
<1>2. \A k \in Key : r[k] = Picked(ourVault, theirVault, baseVault, pick, s, k)
  BY DEF Res, Resolve
<1>3. CASE Present(ourVault, s) /\ Present(theirVault, s)
  <2>1. /\ o \in VarMap /\ t \in VarMap /\ b \in VarMap
        /\ r \in [Key -> Slot \cup {Unresolved}]
    BY <1>3, VarsOfType, MergedScopes DEF Inv, Vaults, Resolutions, Present
  <2>2. /\ m.scopes[s] = MergeVars(o, t, b, r)
        /\ m.scopes[s] \in VarMap
        /\ Present(m, s)
    <3>1. MergeScope(ourVault, theirVault, baseVault, Res(pick), s) = MergeVars(o, t, b, r)
      BY <1>3 DEF MergeScope
    <3>2. MergeVars(o, t, b, r) \in VarMap
      BY <2>1, MergeVarsType
    <3>3. QED
      BY <1>1, <3>1, <3>2, VaultAssumption DEF Present
  <2>3. ASSUME NEW k \in Key
        PROVE  /\ MergeEntry(m.scopes[s][k], t[k], b[k], r[k]) = m.scopes[s][k]
               /\ InConflict(m, theirVault, baseVault, NoResolution, s, k)
                    => InConflict(ourVault, theirVault, baseVault, NoResolution, s, k)
    <3>1. m.scopes[s][k] = MergeEntry(o[k], t[k], b[k], r[k])
      BY <2>2 DEF MergeVars
    <3>2. InConflict(ourVault, theirVault, baseVault, NoResolution, s, k)
            <=> Clash(o[k], t[k], b[k], Unresolved)
      BY <1>3 DEF InConflict, NoResolution
    <3>3. Clash(o[k], t[k], b[k], Unresolved) <=> r[k] # Unresolved
      BY <1>2, <2>1, <3>2, UnresolvedAssumption DEF Picked, VarMap
    <3>4. InConflict(m, theirVault, baseVault, NoResolution, s, k)
            => Clash(m.scopes[s][k], t[k], b[k], Unresolved)
      BY DEF InConflict, NoResolution
    <3>5. QED
      BY <3>1, <3>2, <3>3, <3>4, EntryStable
  <2>4. MergeVars(m.scopes[s], t, b, r) = m.scopes[s]
    BY <2>2, <2>3 DEF MergeVars, VarMap
  <2>5. QED
    BY <1>3, <2>2, <2>3, <2>4 DEF MergeScope, ProjectDeletions, OneSided
<1>4. CASE ~(Present(ourVault, s) /\ Present(theirVault, s))
  <2>1. CASE s \in Project /\ Present(baseVault, s)
    BY <1>1, <1>4, <2>1 DEF MergeScope, Present, InConflict, ProjectDeletions, OneSided
  <2>2. CASE ~(s \in Project /\ Present(baseVault, s)) /\ Present(ourVault, s)
    BY <1>1, <1>4, <2>2 DEF MergeScope, Present, InConflict, ProjectDeletions, OneSided
  <2>3. CASE ~(s \in Project /\ Present(baseVault, s)) /\ ~Present(ourVault, s)
    <3>1. m.scopes[s] = t
      BY <1>1, <1>4, <2>3 DEF MergeScope
    <3>2. CASE Present(theirVault, s)
      <4>1. t \in VarMap
        BY <3>2 DEF Inv, Vaults, Present
      <4>2. MergeVars(t, t, b, r) = t
        BY <4>1 DEF MergeVars, MergeEntry, VarMap
      <4>3. QED
        BY <3>1, <3>2, <4>2, <2>3 DEF MergeScope, Present, InConflict, Clash,
           ProjectDeletions, OneSided
    <3>3. CASE ~Present(theirVault, s)
      BY <3>1, <3>3, <2>3 DEF MergeScope, Present, InConflict, ProjectDeletions, OneSided
    <3>4. QED
      BY <3>2, <3>3
  <2>4. QED
    BY <2>1, <2>2, <2>3
<1>5. QED
  BY <1>3, <1>4

(* RetryIsStable: a sync that stopped after saving the merged vault can be   *)
(* run again and settles on the same vault.                                  *)
THEOREM RetrySettles == DivergenceSpec => []RetryIsStable
<1>1. ASSUME Inv, NEW pick \in Picks
      PROVE  LET m == Merged(pick) IN
             /\ Conflicts(m, theirVault, baseVault, NoResolution) \subseteq Open
             /\ ProjectDeletions(m, theirVault, baseVault) \subseteq ProjectDeletions(ourVault, theirVault, baseVault)
             /\ Merge(m, theirVault, baseVault, Res(pick)) = m
  <2> DEFINE m == Merged(pick)
             n == Merge(m, theirVault, baseVault, Res(pick))
  <2>1. m \in Vaults /\ Res(pick) \in Resolutions
    BY <1>1, MergedScopes
  <2>2. /\ m.passkeys = MergeBlob(ourVault.passkeys, theirVault.passkeys, baseVault.passkeys)
        /\ m.apiKeys = MergeBlob(ourVault.apiKeys, theirVault.apiKeys, baseVault.apiKeys)
    BY <1>1, <2>1, MergeType DEF Inv, Merged
  <2>3. /\ n \in Vaults
        /\ \A s \in Scope : n.scopes[s] = MergeScope(m, theirVault, baseVault, Res(pick), s)
        /\ n.passkeys = MergeBlob(m.passkeys, theirVault.passkeys, baseVault.passkeys)
        /\ n.apiKeys = MergeBlob(m.apiKeys, theirVault.apiKeys, baseVault.apiKeys)
        /\ n.identity = m.identity
    BY <1>1, <2>1, MergeType DEF Inv
  <2>4. n.passkeys = m.passkeys /\ n.apiKeys = m.apiKeys
    BY <2>2, <2>3 DEF MergeBlob
  <2>5. n.scopes = m.scopes
    BY <1>1, <2>1, <2>3, ScopeStable DEF Vaults
  <2>6. n = m
    BY <2>1, <2>3, <2>4, <2>5 DEF Vaults
  <2>7. QED
    BY <1>1, <2>6, ScopeStable DEF Conflicts, Open, ProjectDeletions, Scope
<1>2. Inv => RetryIsStable
  BY <1>1 DEF RetryIsStable
<1>3. QED
  BY <1>2, InvHolds, PTL
=============================================================================
