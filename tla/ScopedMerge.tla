---------------------------- MODULE ScopedMerge ----------------------------
(***************************************************************************)
(* Sharing named projects only: src/core/sync-scope.ts.  Used over LAN and  *)
(* by the scoped bundle files.  There is no base: entries are added, never  *)
(* removed, and a clash keeps the local one unless the receiver says        *)
(* --theirs.  The report (names only) is left out.                          *)
(***************************************************************************)
EXTENDS Vault

CONSTANTS
  Reserved,   \* projects named __abra_*: the treasury and other system data
  Content     \* an entry's value and secret flag, without its time stamp

ASSUME ScopedAssumption ==
  /\ Reserved \subseteq Project
  /\ DOMAIN Content = Entry

\* The project maps a scoped bundle can carry.
Shares   == [Project -> VarMap \cup {Gone}]
NoShares == [p \in Project |-> Gone]

\* validateScope: at least one name, none reserved, all known.
ValidScope(v, names) ==
  names # {} /\ names \cap Reserved = {} /\ \A p \in names : Present(v, p)

\* A slip of Extract: the whole vault goes along.
ExtractEverything(v, names) == [p \in Project |-> v.scopes[p]]

Extract(v, names) == [p \in Project |-> IF p \in names THEN v.scopes[p] ELSE Gone]

\* One key: add what is missing, keep what says the same.
TakeEntry(local, incoming, theirs) ==
  IF incoming = Absent THEN local
  ELSE IF local = Absent THEN incoming
  ELSE IF theirs /\ Content[local] # Content[incoming] THEN incoming
  ELSE local

TakeVars(local, incoming, theirs) ==
  [k \in Key |-> TakeEntry(local[k], incoming[k], theirs)]

TakeScope(local, incoming, theirs, s) ==
  IF s \notin Project THEN local.scopes[s]
  ELSE IF incoming[s] = Gone THEN local.scopes[s]
  ELSE IF ~Present(local, s) THEN incoming[s]
  ELSE TakeVars(local.scopes[s], incoming[s], theirs)

\* mergeScopedProjects; "changed" is that it differs from the local vault.
MergeScoped(local, incoming, theirs) ==
  [local EXCEPT !.scopes = [s \in Scope |-> TakeScope(local, incoming, theirs, s)]]
=============================================================================
