--------------------------- MODULE UsbSyncProofs ---------------------------
(* The safety of USB sync for any number of machines, bundles, edits and     *)
(* interleavings of their commands.                                          *)
EXTENDS UsbSync, MergeProofs

(***************************************************************************)
(* IdentityStaysHome is not inductive alone: the vault a command has read   *)
(* is written back or exported later, so its identity is tracked as well.   *)
(***************************************************************************)
IInv ==
  /\ TypeOK
  /\ IdentityStaysHome
  /\ \A m \in Machine : OwnOrNone(m, job[m].ours)

LEMMA NoJobType == NoJob \in Jobs /\ NoJob.ours.identity = NoIdentity
<1>1. NoResolution \in Resolutions
  BY DEF NoResolution, Resolutions
<1>2. QED
  BY <1>1, EmptyVaultType DEF NoJob, Jobs

LEMMA LoadBaseType ==
  ASSUME TypeOK, NEW m \in Machine, NEW l \in Lineage \cup {NoLineage}
  PROVE  LoadBase(m, l) \in Vaults
BY EmptyVaultType DEF LoadBase, TypeOK

(* A job that has read well-formed vaults merges them into one. *)
LEMMA MergedOfType ==
  ASSUME NEW j \in Jobs
  PROVE  MergedOf(j) \in Vaults /\ MergedOf(j).identity = j.ours.identity
BY MergeType DEF MergedOf, Jobs

LEMMA SaveBaseType ==
  ASSUME IInv, NEW m \in Machine, NEW l \in Lineage \cup {NoLineage},
         NEW v \in Vaults, SaveBase(m, l, v)
  PROVE  /\ base' \in [Machine -> [Lineage -> Vaults]]
         /\ \A n \in Machine, k \in Lineage : base'[n][k].identity = NoIdentity
<1>1. CASE l = NoLineage
  BY <1>1 DEF IInv, TypeOK, IdentityStaysHome, SaveBase
<1>2. CASE l # NoLineage
  <2>1. base' = [base EXCEPT ![m][l] = WithoutDeviceLocal(v)]
    BY <1>2 DEF SaveBase
  <2>2. QED
    BY <2>1, WithoutDeviceLocalType DEF IInv, TypeOK, IdentityStaysHome
<1>3. QED
  BY <1>1, <1>2

LEMMA WriteBundleType ==
  ASSUME NEW v \in Vaults, NEW l \in Lineage \cup {NoLineage}, WriteBundle(v, l)
  PROVE  stick' \in Bundles /\ stick'.vault.identity = NoIdentity
BY WithoutDeviceLocalType DEF WriteBundle, Bundles

LEMMA InitIInv == Init => IInv
BY EmptyVaultType, NoJobType, LegacyAssumption, UsbAssumption
   DEF Init, IInv, TypeOK, IdentityStaysHome, OwnOrNone, Steps

LEMMA NextIInv == IInv /\ [Next]_vars => IInv'
<1> SUFFICES ASSUME IInv, [Next]_vars PROVE IInv'
  OBVIOUS
<1> USE DEF IInv
<1>1. CASE UNCHANGED vars
  BY <1>1 DEF vars, TypeOK, IdentityStaysHome, OwnOrNone
<1>2. ASSUME NEW m \in Machine, Edit(m) PROVE IInv'
  <2>1. PICK v \in Edits(vault[m]) : vault' = [vault EXCEPT ![m] = v]
    BY <1>2 DEF Edit
  <2>2. v \in Vaults /\ v.identity = vault[m].identity
    BY <2>1, EditsType DEF TypeOK
  <2>3. QED
    BY <1>2, <2>1, <2>2 DEF Edit, TypeOK, IdentityStaysHome, OwnOrNone
<1>3. ASSUME NEW m \in Machine, MakeIdentity(m) PROVE IInv'
  <2>1. MadeIdentity(vault[m], Home[m]) \in Vaults
        /\ MadeIdentity(vault[m], Home[m]).identity = Home[m]
    BY UsbAssumption DEF MadeIdentity, Vaults, TypeOK
  <2>2. QED
    BY <1>3, <2>1 DEF MakeIdentity, TypeOK, IdentityStaysHome, OwnOrNone
<1>4. ASSUME NEW m \in Machine, OpenBundle(m) \/ LoadLocal(m) PROVE IInv'
  <2>1. PICK j \in Jobs : j.ours.identity \in {NoIdentity, vault[m].identity}
                          /\ job' = [job EXCEPT ![m] = j]
    <3>1. CASE OpenBundle(m)
      <4> DEFINE j == [NoJob EXCEPT !.theirs = stick.vault, !.lineage = stick.lineage]
      <4>1. stick.vault \in Vaults /\ stick.lineage \in Lineage \cup {NoLineage}
        BY <3>1 DEF OpenBundle, TypeOK, Bundles
      <4>2. j \in Jobs /\ j.ours.identity = NoIdentity
        BY <4>1, NoJobType DEF Jobs
      <4>3. QED
        BY <3>1, <4>2 DEF OpenBundle
    <3>2. CASE LoadLocal(m)
      <4> DEFINE j == [NoJob EXCEPT !.via = "dash", !.ours = vault[m]]
      <4>1. j \in Jobs /\ j.ours = vault[m]
        BY NoJobType DEF Jobs, TypeOK
      <4>2. QED
        BY <3>2, <4>1 DEF LoadLocal
    <3>3. QED
      BY <1>4, <3>1, <3>2
  <2>2. (\E step \in Sync : Goto(m, step)) /\ UNCHANGED <<vault, base, stick, fresh, edits>>
    BY <1>4 DEF OpenBundle, LoadLocal, Sync
  <2>3. QED
    BY <2>1, <2>2 DEF Goto, TypeOK, IdentityStaysHome, OwnOrNone, Steps
<1>5. ASSUME NEW m \in Machine, MergeLocal(m) \/ MergeStick(m) PROVE IInv'
  <2>1. PICK j, picks : j \in Jobs /\ OwnOrNone(m, j.ours) /\ Decide(m, j, picks)
    <3>1. CASE MergeLocal(m)
      <4> DEFINE j == [job[m] EXCEPT !.ours = vault[m], !.base = LoadBase(m, job[m].lineage)]
      <4>1. j \in Jobs /\ j.ours = vault[m]
        BY LoadBaseType DEF TypeOK, Jobs
      <4>2. OwnOrNone(m, j.ours) /\ Decide(m, j, Picks)
        BY <3>1, <4>1 DEF MergeLocal, IdentityStaysHome
      <4> HIDE DEF j
      <4>3. QED
        BY <4>1, <4>2
    <3>2. CASE MergeStick(m)
      <4> DEFINE j == [job[m] EXCEPT !.theirs = stick.vault, !.lineage = stick.lineage,
                                     !.base = LoadBase(m, stick.lineage)]
      <4>1. stick.vault \in Vaults /\ stick.lineage \in Lineage \cup {NoLineage}
        BY <3>2 DEF MergeStick, TypeOK, Bundles
      <4>2. j \in Jobs /\ j.ours = job[m].ours
        BY <4>1, LoadBaseType DEF TypeOK, Jobs
      <4>3. OwnOrNone(m, j.ours) /\ Decide(m, j, Forced)
        BY <3>2, <4>2 DEF MergeStick
      <4> HIDE DEF j
      <4>4. QED
        BY <4>2, <4>3
    <3>3. QED
      BY <1>5, <3>1, <3>2
  <2>2. /\ j.ours \in Vaults /\ j.theirs \in Vaults /\ j.base \in Vaults
    BY <2>1 DEF Jobs
  <2>3. PICK pick \in picks :
          job' = [job EXCEPT ![m] = [j EXCEPT !.res = Resolve(j.ours, j.theirs, j.base, pick)]]
    BY <2>1 DEF Decide
  <2>4. Resolve(j.ours, j.theirs, j.base, pick) \in Resolutions
    BY <2>2, ResolveType
  <2>5. PICK res \in Resolutions : job' = [job EXCEPT ![m] = [j EXCEPT !.res = res]]
    BY <2>3, <2>4
  <2>6. [j EXCEPT !.res = res] \in Jobs /\ [j EXCEPT !.res = res].ours = j.ours
    BY <2>1, <2>5 DEF Jobs
  <2>7. QED
    BY <2>1, <2>5, <2>6
       DEF Decide, Goto, TypeOK, IdentityStaysHome, OwnOrNone, Steps, Sync
<1>6. ASSUME NEW m \in Machine, Approve(m) PROVE IInv'
  <2>1. PICK allow \in BOOLEAN : job' = [job EXCEPT ![m].allow = allow]
    BY <1>6 DEF Approve
  <2>2. [job[m] EXCEPT !.allow = allow] \in Jobs
        /\ [job[m] EXCEPT !.allow = allow].ours = job[m].ours
    BY <2>1 DEF TypeOK, Jobs
  <2>3. QED
    BY <1>6, <2>1, <2>2
       DEF Approve, Goto, TypeOK, IdentityStaysHome, OwnOrNone, Steps, Sync
<1>7. ASSUME NEW m \in Machine, SaveQuietBase(m) PROVE IInv'
  <2>1. /\ job[m].lineage \in Lineage \cup {NoLineage}
        /\ (IF job[m].via = "dash" THEN vault[m] ELSE job[m].ours) \in Vaults
    BY DEF TypeOK, Jobs
  <2>2. /\ base' \in [Machine -> [Lineage -> Vaults]]
        /\ \A n \in Machine, k \in Lineage : base'[n][k].identity = NoIdentity
    BY <1>7, <2>1, SaveBaseType DEF SaveQuietBase
  <2>3. QED
    BY <1>7, <2>2, NoJobType
       DEF SaveQuietBase, Finish, Goto, TypeOK, IdentityStaysHome, OwnOrNone, Steps
<1>8. ASSUME NEW m \in Machine, SaveMerged(m) PROVE IInv'
  <2>1. MergedOf(job[m]) \in Vaults /\ MergedOf(job[m]).identity = job[m].ours.identity
    BY MergedOfType DEF TypeOK
  <2>2. QED
    BY <1>8, <2>1
       DEF SaveMerged, Goto, TypeOK, IdentityStaysHome, OwnOrNone, Steps, Sync
<1>9. ASSUME NEW m \in Machine, Publish(m) PROVE IInv'
  <2>1. PICK l \in (IF job[m].lineage = NoLineage THEN fresh ELSE {job[m].lineage}) :
          /\ WriteBundle(MergedOf(job[m]), l)
          /\ job' = [job EXCEPT ![m].lineage = l]
          /\ fresh' = fresh \ {l}
    BY <1>9 DEF Publish
  <2>2. l \in Lineage \cup {NoLineage} /\ MergedOf(job[m]) \in Vaults
    BY <2>1, MergedOfType DEF TypeOK, Jobs
  <2>3. stick' \in Bundles /\ stick'.vault.identity = NoIdentity
    BY <2>1, <2>2, WriteBundleType
  <2>4. [job[m] EXCEPT !.lineage = l] \in Jobs
        /\ [job[m] EXCEPT !.lineage = l].ours = job[m].ours
    BY <2>2 DEF TypeOK, Jobs
  <2>5. QED
    BY <1>9, <2>1, <2>3, <2>4
       DEF Publish, Goto, TypeOK, IdentityStaysHome, OwnOrNone, Steps, Sync
<1>10. ASSUME NEW m \in Machine, SaveMergedBase(m) PROVE IInv'
  <2>1. job[m].lineage \in Lineage \cup {NoLineage} /\ MergedOf(job[m]) \in Vaults
    BY MergedOfType DEF TypeOK, Jobs
  <2>2. /\ base' \in [Machine -> [Lineage -> Vaults]]
        /\ \A n \in Machine, k \in Lineage : base'[n][k].identity = NoIdentity
    BY <1>10, <2>1, SaveBaseType DEF SaveMergedBase
  <2>3. QED
    BY <1>10, <2>2, NoJobType
       DEF SaveMergedBase, Finish, Goto, TypeOK, IdentityStaysHome, OwnOrNone, Steps
<1>11. ASSUME NEW m \in Machine, BeginFirst(m) \/ BeginBackup(m) PROVE IInv'
  <2>1. /\ job' = [job EXCEPT ![m].ours = vault[m]]
        /\ \E step \in Export : Goto(m, step)
        /\ UNCHANGED <<vault, base, stick, fresh, edits>>
    BY <1>11 DEF BeginFirst, BeginBackup, Export
  <2>2. [job[m] EXCEPT !.ours = vault[m]] \in Jobs
        /\ [job[m] EXCEPT !.ours = vault[m]].ours = vault[m]
    BY DEF TypeOK, Jobs
  <2>3. QED
    BY <2>1, <2>2 DEF Goto, TypeOK, IdentityStaysHome, OwnOrNone, Steps
<1>12. ASSUME NEW m \in Machine, WriteFirst(m) PROVE IInv'
  <2>1. PICK l \in fresh : /\ WriteBundle(job[m].ours, l)
                           /\ job' = [job EXCEPT ![m].lineage = l]
                           /\ fresh' = fresh \ {l}
    BY <1>12 DEF WriteFirst
  <2>2. l \in Lineage \cup {NoLineage} /\ job[m].ours \in Vaults
    BY <2>1 DEF TypeOK, Jobs
  <2>3. stick' \in Bundles /\ stick'.vault.identity = NoIdentity
    BY <2>1, <2>2, WriteBundleType
  <2>4. [job[m] EXCEPT !.lineage = l] \in Jobs
        /\ [job[m] EXCEPT !.lineage = l].ours = job[m].ours
    BY <2>2 DEF TypeOK, Jobs
  <2>5. QED
    BY <1>12, <2>1, <2>3, <2>4
       DEF WriteFirst, Goto, TypeOK, IdentityStaysHome, OwnOrNone, Steps, Export
<1>13. ASSUME NEW m \in Machine, SaveFirstBase(m) PROVE IInv'
  <2>1. job[m].lineage \in Lineage \cup {NoLineage} /\ job[m].ours \in Vaults
    BY DEF TypeOK, Jobs
  <2>2. /\ base' \in [Machine -> [Lineage -> Vaults]]
        /\ \A n \in Machine, k \in Lineage : base'[n][k].identity = NoIdentity
    BY <1>13, <2>1, SaveBaseType DEF SaveFirstBase
  <2>3. QED
    BY <1>13, <2>2, NoJobType
       DEF SaveFirstBase, Finish, Goto, TypeOK, IdentityStaysHome, OwnOrNone, Steps
<1>14. ASSUME NEW m \in Machine, WriteBackup(m) PROVE IInv'
  <2>1. PICK l \in fresh : WriteBundle(job[m].ours, l) /\ fresh' = fresh \ {l}
    BY <1>14 DEF WriteBackup
  <2>2. l \in Lineage \cup {NoLineage} /\ job[m].ours \in Vaults
    BY <2>1 DEF TypeOK, Jobs
  <2>3. stick' \in Bundles /\ stick'.vault.identity = NoIdentity
    BY <2>1, <2>2, WriteBundleType
  <2>4. QED
    BY <1>14, <2>1, <2>3, NoJobType
       DEF WriteBackup, Finish, Goto, TypeOK, IdentityStaysHome, OwnOrNone, Steps
<1>15. ASSUME NEW m \in Machine, BeginRestore(m) PROVE IInv'
  <2>1. job' = [job EXCEPT ![m].theirs = stick.vault]
    BY <1>15 DEF BeginRestore
  <2>2. [job[m] EXCEPT !.theirs = stick.vault] \in Jobs
        /\ [job[m] EXCEPT !.theirs = stick.vault].ours = job[m].ours
    BY <1>15 DEF BeginRestore, TypeOK, Bundles, Jobs
  <2>3. QED
    BY <1>15, <2>1, <2>2
       DEF BeginRestore, Goto, TypeOK, IdentityStaysHome, OwnOrNone, Steps, Restore
<1>16. ASSUME NEW m \in Machine, WriteRestored(m) PROVE IInv'
  <2>1. /\ WithoutDeviceLocal(job[m].theirs) \in Vaults
        /\ WithoutDeviceLocal(job[m].theirs).identity = NoIdentity
    BY WithoutDeviceLocalType DEF TypeOK, Jobs
  <2>2. QED
    BY <1>16, <2>1
       DEF WriteRestored, Goto, TypeOK, IdentityStaysHome, OwnOrNone, Steps, Restore
<1>17. ASSUME NEW m \in Machine, ForgetBases(m) PROVE IInv'
  BY <1>17, EmptyVaultType, NoJobType
     DEF ForgetBases, Finish, Goto, TypeOK, IdentityStaysHome, OwnOrNone, Steps
<1>18. ASSUME NEW m \in Machine, Stop(m) PROVE IInv'
  BY <1>18, NoJobType
     DEF Stop, Finish, Goto, TypeOK, IdentityStaysHome, OwnOrNone, Steps
<1>19. QED
  BY <1>1, <1>2, <1>3, <1>4, <1>5, <1>6, <1>7, <1>8, <1>9, <1>10, <1>11, <1>12,
     <1>13, <1>14, <1>15, <1>16, <1>17, <1>18 DEF Next

LEMMA IInvHolds == Spec => []IInv
BY InitIInv, NextIInv, PTL DEF Spec

(* Every reachable state is well formed.                                     *)
THEOREM TypeCorrect == Spec => []TypeOK
<1>1. IInv => TypeOK
  BY DEF IInv
<1>2. QED
  BY <1>1, IInvHolds, PTL

(* A device identity never leaves its machine, whatever bundles an older     *)
(* release left behind.                                                      *)
THEOREM IdentityIsLocal == Spec => []IdentityStaysHome
<1>1. IInv => IdentityStaysHome
  BY DEF IInv
<1>2. QED
  BY <1>1, IInvHolds, PTL

(***************************************************************************)
(* Once approved, a command that would delete projects has the consent.     *)
(***************************************************************************)
Gated == \A m \in Machine : pc[m] \in {"approved", "saved"} =>
           (DeletionsOf(job[m]) # {} => job[m].allow)

LEMMA NextGated == IInv /\ Gated /\ [Next]_vars => Gated'
<1> SUFFICES ASSUME IInv, Gated, [Next]_vars, NEW n \in Machine,
                    pc'[n] \in {"approved", "saved"}
             PROVE  DeletionsOf(job'[n]) # {} => job'[n].allow
  BY DEF Gated
<1>1. pc \in [Machine -> Steps] /\ job \in [Machine -> Jobs]
  BY DEF IInv, TypeOK
<1>2. CASE pc[n] \in {"approved", "saved"} /\ job'[n] = job[n]
  BY <1>2 DEF Gated
<1>3. ASSUME Approve(n) PROVE DeletionsOf(job'[n]) # {} => job'[n].allow
  <2>1. PICK allow \in BOOLEAN :
          /\ DeletionsOf(job[n]) # {} => allow
          /\ job' = [job EXCEPT ![n].allow = allow]
    BY <1>3 DEF Approve
  <2>2. /\ job'[n].ours = job[n].ours /\ job'[n].theirs = job[n].theirs
        /\ job'[n].base = job[n].base /\ job'[n].allow = allow
    BY <1>1, <2>1 DEF Jobs
  <2>3. QED
    BY <2>1, <2>2 DEF DeletionsOf
<1>4. Approve(n) \/ (pc[n] \in {"approved", "saved"} /\ job'[n] = job[n])
  <2>1. CASE UNCHANGED vars
    BY <2>1 DEF vars
  <2>2. CASE \E m \in Machine : Edit(m) \/ MakeIdentity(m)
    BY <2>2 DEF Edit, MakeIdentity
  <2>3. ASSUME NEW m \in Machine,
               \/ OpenBundle(m) \/ MergeLocal(m) \/ LoadLocal(m) \/ MergeStick(m) \/ Approve(m)
               \/ SaveQuietBase(m) \/ SaveMerged(m) \/ Publish(m) \/ SaveMergedBase(m)
        PROVE  Approve(n) \/ (pc[n] \in {"approved", "saved"} /\ job'[n] = job[n])
    <3>1. CASE m = n
      BY <1>1, <2>3, <3>1 DEF OpenBundle, MergeLocal, LoadLocal, MergeStick, Decide, Approve, SaveQuietBase,
         SaveMerged, Publish, SaveMergedBase, Finish, Goto
    <3>2. CASE m # n
      <4>1. pc'[n] = pc[n] /\ job'[n] = job[n]
        BY <1>1, <2>3, <3>2 DEF OpenBundle, MergeLocal, LoadLocal, MergeStick, Decide, Approve, SaveQuietBase,
           SaveMerged, Publish, SaveMergedBase, Finish, Goto
      <4>2. QED
        BY <4>1
    <3>3. QED
      BY <3>1, <3>2
  <2>4. ASSUME NEW m \in Machine,
               \/ BeginFirst(m) \/ WriteFirst(m) \/ SaveFirstBase(m)
               \/ BeginBackup(m) \/ WriteBackup(m)
               \/ BeginRestore(m) \/ WriteRestored(m) \/ ForgetBases(m) \/ Stop(m)
        PROVE  pc[n] \in {"approved", "saved"} /\ job'[n] = job[n]
    BY <1>1, <2>4 DEF BeginFirst, WriteFirst, SaveFirstBase, BeginBackup, WriteBackup,
       BeginRestore, WriteRestored, ForgetBases, Stop, Finish, Goto
  <2>5. QED
    BY <2>1, <2>2, <2>3, <2>4 DEF Next
<1>5. QED
  BY <1>2, <1>3, <1>4

(* A project goes in a sync only where its command asked and was allowed.    *)
LEMMA GatedStep ==
  ASSUME IInv, Gated, NEW m \in Machine
  PROVE  Consented(m)
<1> DEFINE j == job[m]
<1>1. j \in Jobs
  BY DEF IInv, TypeOK
<1>2. \A s \in Scope : /\ Present(j.ours, s) \/ Present(j.theirs, s)
                       /\ s \notin DeletionsOf(j)
                       => Present(MergedOf(j), s)
  BY <1>1, MergeKeepsScopes DEF Jobs, MergedOf, DeletionsOf
<1>3. ASSUME SaveMerged(m), vault[m].scopes = j.ours.scopes,
             Drops(vault[m], vault'[m]) # {}
      PROVE  j.allow
  <2>1. vault'[m] = MergedOf(j) /\ pc[m] = "approved"
    BY <1>3 DEF SaveMerged, IInv, TypeOK
  <2>2. PICK p \in Project : Present(j.ours, p) /\ ~Present(MergedOf(j), p)
    BY <1>3, <2>1 DEF Drops, Present
  <2>3. QED
    BY <1>2, <2>1, <2>2 DEF Gated, Scope
<1>4. ASSUME Publish(m), stick.vault = j.theirs,
             Drops(stick.vault, stick'.vault) # {}
      PROVE  j.allow
  <2>1. stick'.vault = WithoutDeviceLocal(MergedOf(j)) /\ pc[m] = "saved"
    BY <1>4 DEF Publish, WriteBundle
  <2>2. stick'.vault.scopes = MergedOf(j).scopes
    BY <1>1, <2>1, MergedOfType DEF WithoutDeviceLocal, Vaults
  <2>3. PICK p \in Project : Present(j.theirs, p) /\ ~Present(MergedOf(j), p)
    BY <1>4, <2>2 DEF Drops, Present
  <2>4. QED
    BY <1>2, <2>1, <2>3 DEF Gated, Scope
<1>5. QED
  BY <1>3, <1>4 DEF Consented

(* DeletesNeedConsent: no sync drops a project it read unless deletions were *)
(* allowed.                                                                  *)
THEOREM ConsentedDeletes == Spec => DeletesNeedConsent
<1>1. Init => Gated
  BY DEF Init, Gated
<1>2. IInv /\ Gated /\ [Next]_vars => [\A m \in Machine : Consented(m)]_vars
  BY GatedStep
<1>3. QED
  BY <1>1, <1>2, NextGated, IInvHolds, PTL DEF Spec, DeletesNeedConsent

(***************************************************************************)
(* From its merge to the stick's refresh a command keeps the base it merged *)
(* against, which is still the base on its machine: only its own commands   *)
(* write it.  And it has resolved nothing but conflicts.                    *)
(***************************************************************************)
SettledJob(m) ==
  /\ job[m].base = LoadBase(m, job[m].lineage)
  /\ OnlyConflicts(job[m].ours, job[m].theirs, job[m].base, job[m].res)

Settled == \A m \in Machine : pc[m] \in {"merged", "approved", "saved"} => SettledJob(m)

(* A job that is decided on is settled. *)
LEMMA DecideSettles ==
  ASSUME IInv, NEW m \in Machine, MergeLocal(m) \/ MergeStick(m)
  PROVE  SettledJob(m)'
<1>1. PICK j, picks : /\ j \in Jobs /\ Decide(m, j, picks)
                      /\ j.base = LoadBase(m, j.lineage)
  <2>1. CASE MergeLocal(m)
    <3> DEFINE j == [job[m] EXCEPT !.ours = vault[m], !.base = LoadBase(m, job[m].lineage)]
    <3>1. j \in Jobs /\ j.base = LoadBase(m, j.lineage)
      BY LoadBaseType DEF IInv, TypeOK, Jobs
    <3>2. Decide(m, j, Picks)
      BY <2>1 DEF MergeLocal
    <3> HIDE DEF j
    <3>3. QED
      BY <3>1, <3>2
  <2>2. CASE MergeStick(m)
    <3> DEFINE j == [job[m] EXCEPT !.theirs = stick.vault, !.lineage = stick.lineage,
                                   !.base = LoadBase(m, stick.lineage)]
    <3>1. stick.vault \in Vaults /\ stick.lineage \in Lineage \cup {NoLineage}
      BY <2>2 DEF MergeStick, IInv, TypeOK, Bundles
    <3>2. j \in Jobs /\ j.base = LoadBase(m, j.lineage)
      BY <3>1, LoadBaseType DEF IInv, TypeOK, Jobs
    <3>3. Decide(m, j, Forced)
      BY <2>2 DEF MergeStick
    <3> HIDE DEF j
    <3>4. QED
      BY <3>2, <3>3
  <2>3. QED
    BY <2>1, <2>2
<1>2. PICK pick : job' = [job EXCEPT ![m] =
                            [j EXCEPT !.res = Resolve(j.ours, j.theirs, j.base, pick)]]
  BY <1>1 DEF Decide
<1>3. job'[m] = [j EXCEPT !.res = Resolve(j.ours, j.theirs, j.base, pick)] /\ base' = base
  BY <1>1, <1>2 DEF Decide, IInv, TypeOK
<1>4. /\ job'[m].ours = j.ours /\ job'[m].theirs = j.theirs /\ job'[m].base = j.base
      /\ job'[m].lineage = j.lineage
      /\ job'[m].res = Resolve(j.ours, j.theirs, j.base, pick)
  BY <1>1, <1>3 DEF Jobs
<1>5. QED
  BY <1>1, <1>3, <1>4, ResolvesConflicts DEF SettledJob, LoadBase

LEMMA NextSettled == IInv /\ Settled /\ [Next]_vars => Settled'
<1> SUFFICES ASSUME IInv, Settled, [Next]_vars, NEW n \in Machine,
                    pc'[n] \in {"merged", "approved", "saved"}
             PROVE  SettledJob(n)'
  BY DEF Settled
<1> DEFINE Same == /\ pc[n] \in {"merged", "approved", "saved"}
                   /\ base'[n] = base[n]
                   /\ job'[n].ours = job[n].ours /\ job'[n].theirs = job[n].theirs
                   /\ job'[n].base = job[n].base /\ job'[n].res = job[n].res
                   /\ job'[n].lineage = job[n].lineage
<1>1. pc \in [Machine -> Steps] /\ job \in [Machine -> Jobs]
      /\ base \in [Machine -> [Lineage -> Vaults]]
  BY DEF IInv, TypeOK
<1>2. CASE Same
  BY <1>2 DEF Settled, SettledJob, LoadBase
<1>3. MergeLocal(n) \/ MergeStick(n) \/ Same
  <2>1. CASE UNCHANGED vars
    BY <2>1 DEF vars
  <2>2. CASE \E m \in Machine : Edit(m) \/ MakeIdentity(m)
    BY <2>2 DEF Edit, MakeIdentity
  <2>3. ASSUME NEW m \in Machine, m # n,
               \/ OpenBundle(m) \/ MergeLocal(m) \/ LoadLocal(m) \/ MergeStick(m) \/ Approve(m)
               \/ SaveMerged(m) \/ Publish(m)
               \/ BeginFirst(m) \/ WriteFirst(m) \/ BeginBackup(m) \/ WriteBackup(m)
               \/ BeginRestore(m) \/ WriteRestored(m) \/ Stop(m)
        PROVE  Same
    <3>1. base' = base
      BY <2>3 DEF OpenBundle, MergeLocal, LoadLocal, MergeStick, Decide, Approve, SaveMerged,
         Publish, BeginFirst, WriteFirst, BeginBackup, WriteBackup, BeginRestore, WriteRestored, Stop
    <3>2. pc'[n] = pc[n] /\ job'[n] = job[n]
      BY <1>1, <2>3 DEF OpenBundle, MergeLocal, LoadLocal, MergeStick, Decide, Approve, SaveMerged,
         Publish, BeginFirst, WriteFirst, BeginBackup, WriteBackup, BeginRestore, WriteRestored,
         Stop, Finish, Goto
    <3>3. QED
      BY <3>1, <3>2
  <2>4. ASSUME NEW m \in Machine, m # n,
               \/ SaveQuietBase(m) \/ SaveMergedBase(m) \/ SaveFirstBase(m) \/ ForgetBases(m)
        PROVE  Same
    <3>1. base'[n] = base[n]
      BY <1>1, <2>4 DEF SaveQuietBase, SaveMergedBase, SaveFirstBase, ForgetBases, SaveBase
    <3>2. pc'[n] = pc[n] /\ job'[n] = job[n]
      BY <1>1, <2>4 DEF SaveQuietBase, SaveMergedBase, SaveFirstBase, ForgetBases, Finish, Goto
    <3>3. QED
      BY <3>1, <3>2
  <2>5. CASE SaveMerged(n)
    BY <2>5 DEF SaveMerged
  <2>6. CASE Approve(n)
    <3>1. PICK allow : job' = [job EXCEPT ![n].allow = allow]
      BY <2>6 DEF Approve
    <3>2. job'[n] = [job[n] EXCEPT !.allow = allow] /\ job[n] \in Jobs
      BY <1>1, <3>1
    <3>3. QED
      BY <2>6, <3>2 DEF Approve, Jobs
  <2>7. ~( \/ OpenBundle(n) \/ LoadLocal(n) \/ SaveQuietBase(n) \/ Publish(n) \/ SaveMergedBase(n)
           \/ BeginFirst(n) \/ WriteFirst(n) \/ SaveFirstBase(n)
           \/ BeginBackup(n) \/ WriteBackup(n)
           \/ BeginRestore(n) \/ WriteRestored(n) \/ ForgetBases(n) \/ Stop(n) )
    BY <1>1 DEF OpenBundle, LoadLocal, SaveQuietBase, Publish, SaveMergedBase, BeginFirst,
       WriteFirst, SaveFirstBase, BeginBackup, WriteBackup, BeginRestore, WriteRestored,
       ForgetBases, Stop, Finish, Goto
  <2>8. QED
    BY <2>1, <2>2, <2>3, <2>4, <2>5, <2>6, <2>7 DEF Next
<1>4. QED
  BY <1>2, <1>3, DecideSettles

(* A settled merge carries the news of both vaults it was made of.           *)
LEMMA MergedCarries ==
  ASSUME IInv, Gated, Settled, NEW m \in Machine, pc[m] \in {"approved", "saved"},
         NEW from \in {job[m].ours, job[m].theirs}
  PROVE  Carries(MergedOf(job[m]), from, m)
<1> DEFINE j == job[m]
<1>1. j \in Jobs /\ SettledJob(m) /\ (DeletionsOf(j) # {} => j.allow)
  BY DEF IInv, TypeOK, Settled, Gated
<1>2. SUFFICES ASSUME NEW x \in News(from, LoadBase(m, j.lineage)) \ Chosen(j)
               PROVE  VarsOf(MergedOf(j), x[1])[x[2]] = from.scopes[x[1]][x[2]]
  BY DEF Carries
<1>3. PICK s \in Scope, k \in Key : x = <<s, k>>
  BY <1>2 DEF News
<1>4. Present(from, s) /\ from.scopes[s][k] # VarsOf(j.base, s)[k]
  BY <1>1, <1>2, <1>3 DEF News, SettledJob
<1>5. /\ ~InConflict(j.ours, j.theirs, j.base, NoResolution, s, k)
      /\ s \notin ProjectDeletions(j.ours, j.theirs, j.base)
  BY <1>1, <1>2, <1>3 DEF Chosen, Conflicts, DeletionsOf
<1>6. Present(MergedOf(j), s) /\ MergedOf(j).scopes[s][k] = from.scopes[s][k]
  BY <1>1, <1>4, <1>5, MergeCarries DEF MergedOf, Jobs, SettledJob
<1>7. QED
  BY <1>3, <1>6 DEF VarsOf

(* NewsSurvives: what one side changed and the other has not seen survives   *)
(* the sync, on the machine and on the stick.                                *)
THEOREM NewsKept == Spec => NewsSurvives
<1> DEFINE Step(m) ==
      /\ SaveMerged(m) => Carries(vault'[m], job[m].theirs, m)
      /\ (SaveMerged(m) /\ vault[m] = job[m].ours) => Carries(vault'[m], vault[m], m)
      /\ (Publish(m) /\ stick.vault = job[m].theirs) => Carries(stick'.vault, stick.vault, m)
<1>1. Init => Gated /\ Settled
  BY DEF Init, Gated, Settled
<1>2. ASSUME IInv, Gated, Settled, NEW m \in Machine PROVE Step(m)
  <2>1. ASSUME SaveMerged(m)
        PROVE  /\ Carries(vault'[m], job[m].theirs, m)
               /\ Carries(vault'[m], job[m].ours, m)
    <3>1. vault'[m] = MergedOf(job[m]) /\ pc[m] = "approved"
      BY <1>2, <2>1 DEF SaveMerged, IInv, TypeOK
    <3>2. QED
      BY <1>2, <3>1, MergedCarries
  <2>2. ASSUME Publish(m)
        PROVE  Carries(stick'.vault, job[m].theirs, m)
    <3>1. stick'.vault = WithoutDeviceLocal(MergedOf(job[m])) /\ pc[m] = "saved"
      BY <2>2 DEF Publish, WriteBundle
    <3>2. stick'.vault.scopes = MergedOf(job[m]).scopes
      BY <1>2, <3>1, MergedOfType DEF WithoutDeviceLocal, Vaults, IInv, TypeOK
    <3>3. Carries(MergedOf(job[m]), job[m].theirs, m)
      BY <1>2, <3>1, MergedCarries
    <3>4. QED
      BY <3>2, <3>3 DEF Carries, VarsOf, Present
  <2>3. QED
    BY <2>1, <2>2
<1>3. IInv /\ Gated /\ Settled /\ [Next]_vars => [\A m \in Machine : Step(m)]_vars
  BY <1>2
<1>4. QED
  BY <1>1, <1>3, NextGated, NextSettled, IInvHolds, PTL DEF Spec, NewsSurvives
=============================================================================
