---------------------------- MODULE Divergence ----------------------------
(***************************************************************************)
(* Two vaults that leave a common base by user edits, so that every triple  *)
(* (ours, theirs, base) over the constants is reached; EmptyVault among the *)
(* bases is the merge without a snapshot.                                   *)
(***************************************************************************)
EXTENDS ThreeWayMerge

VARIABLES baseVault, ourVault, theirVault
vaults == <<baseVault, ourVault, theirVault>>

DivergenceInit ==
  /\ baseVault \in [ scopes : [Scope -> VarMap \cup {Gone}], passkeys : Blob,
                apiKeys : Blob, identity : {NoIdentity} ]
  /\ ourVault = baseVault
  /\ theirVault = baseVault

EditOurs   == ourVault' \in Edits(ourVault) /\ UNCHANGED <<baseVault, theirVault>>
EditTheirs == theirVault' \in Edits(theirVault) /\ UNCHANGED <<baseVault, ourVault>>

DivergenceNext == EditOurs \/ EditTheirs
DivergenceSpec == DivergenceInit /\ [][DivergenceNext]_vaults

Open == Conflicts(ourVault, theirVault, baseVault, NoResolution)

\* What the merge gives for one way to pick a side for each conflict.
Res(pick) == Resolve(ourVault, theirVault, baseVault, pick)
Merged(pick) == Merge(ourVault, theirVault, baseVault, Res(pick))

\* The vaults stay well formed, and so does what the merge makes of them.
MergeTypeOK ==
  /\ {ourVault, theirVault, baseVault} \subseteq Vaults
  /\ \A pick \in Picks : Merged(pick) \in Vaults

(***************************************************************************)
(* A change one side made to an entry since the base is in the merged       *)
(* vault, or the user was asked about it: it was a conflict, or its project *)
(* is listed as a deletion.  A project one side removed is gone from the    *)
(* merged vault, and listed when the other side still had it (the loop of   *)
(* mergeVarMaps and the survivor that mergeProjects does not keep).  One    *)
(* change is left out, because the code loses it: mergeConnections does not *)
(* ask the base, so a connection that one side removed comes back from the  *)
(* other; OneSidedChangesMerge, below, is about it.                         *)
(***************************************************************************)
Deletions == ProjectDeletions(ourVault, theirVault, baseVault)

EntriesKeptOrAsked(side, m) ==
  \A s \in Scope : Present(side, s) => \A k \in Key :
    \/ side.scopes[s][k] = VarsOf(baseVault, s)[k]
    \/ VarsOf(m, s)[k] = side.scopes[s][k]
    \/ <<s, k>> \in Open
    \/ s \in Deletions

RemovalsKept(side, other, m) ==
  \A p \in Project : Present(baseVault, p) /\ ~Present(side, p) =>
    /\ ~Present(m, p)
    /\ Present(other, p) => p \in Deletions

KeptOrAsked(side, other, m) == EntriesKeptOrAsked(side, m) /\ RemovalsKept(side, other, m)

NothingLostUnasked ==
  \A pick \in Picks :
    /\ KeptOrAsked(ourVault, theirVault, Merged(pick))
    /\ KeptOrAsked(theirVault, ourVault, Merged(pick))

(***************************************************************************)
(* What the repository's README says, "Only-one-side-changed keeps          *)
(* auto-merging": a project or connection that only one side changed since  *)
(* the base, be it by removing it, is in the merged vault what that side    *)
(* made of it.  TLC refutes it (README.md), for removed connections.        *)
(***************************************************************************)
OneSidedChangesMerge ==
  \A pick \in Picks, s \in Scope :
    /\ theirVault.scopes[s] = baseVault.scopes[s] => Merged(pick).scopes[s] = ourVault.scopes[s]
    /\ ourVault.scopes[s] = baseVault.scopes[s] => Merged(pick).scopes[s] = theirVault.scopes[s]

(***************************************************************************)
(* Whichever machine runs the sync, the same projects, connections,         *)
(* conflicts and deletions come out: mergeVarMaps and mergeProjects do not  *)
(* favour a side.                                                           *)
(***************************************************************************)
SameFromBothEnds ==
  /\ \A pick \in Picks :
       Merge(theirVault, ourVault, baseVault, Res(pick)).scopes = Merged(pick).scopes
  /\ Conflicts(theirVault, ourVault, baseVault, NoResolution) = Open
  /\ ProjectDeletions(theirVault, ourVault, baseVault) = ProjectDeletions(ourVault, theirVault, baseVault)

(***************************************************************************)
(* A sync that saved the merged vault and stopped there can be run again:   *)
(* merging the result with the same peer and base raises no new conflict,   *)
(* lists no new deletion and, with the same picks, gives the same vault.    *)
(***************************************************************************)
RetryIsStable ==
  \A pick \in Picks :
    LET m == Merged(pick)
    IN  /\ Conflicts(m, theirVault, baseVault, NoResolution) \subseteq Open
        /\ ProjectDeletions(m, theirVault, baseVault) \subseteq ProjectDeletions(ourVault, theirVault, baseVault)
        /\ Merge(m, theirVault, baseVault, Res(pick)) = m

(***************************************************************************)
(* README: without a base the merge is "additive only (nothing deleted)":   *)
(* every scope and every key that either side has is still there, unless    *)
(* the key's value is the user's to pick.                                   *)
(***************************************************************************)
AdditiveWithoutBase ==
  baseVault = EmptyVault =>
    \A pick \in Picks, side \in {ourVault, theirVault}, s \in Scope :
      Present(side, s) =>
        /\ Present(Merged(pick), s)
        /\ \A k \in Key : side.scopes[s][k] # Absent =>
             \/ Merged(pick).scopes[s][k] # Absent
             \/ <<s, k>> \in Open
=============================================================================
