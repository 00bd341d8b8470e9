--------------------------- MODULE LanSyncProofs ---------------------------
(* The safety of LAN sync for any number of clients, sessions and edits.     *)
EXTENDS LanSync, MergeProofs

LEMMA NoJobType == NoJob \in Jobs /\ NoHandler \in Handlers
<1>1. NoResolution \in Resolutions /\ NoShares \in Shares
  BY DEF NoResolution, Resolutions, NoShares, Shares
<1>2. QED
  BY <1>1, EmptyVaultType DEF NoJob, Jobs, NoHandler, Handlers

(* What a client pushes is a vault without an identity. *)
LEMMA OutOfType ==
  ASSUME NEW j \in Jobs
  PROVE  MergedOf(j) \in Vaults /\ OutOf(j) \in Vaults
<1>1. MergedOf(j) \in Vaults /\ j.ours \in Vaults
  BY MergeType DEF MergedOf, Jobs
<1>2. QED
  BY <1>1, WithoutDeviceLocalType DEF OutOf

LEMMA ExtractType ==
  ASSUME NEW v \in Vaults, NEW names
  PROVE  Extract(v, names) \in Shares
BY DEF Extract, Shares, Vaults, Scope

(* mergeScopedProjects of a well-formed vault is one. *)
LEMMA MergeScopedType ==
  ASSUME NEW v \in Vaults, NEW shares \in Shares, NEW theirs \in BOOLEAN
  PROVE  /\ MergeScoped(v, shares, theirs) \in Vaults
         /\ \A s \in Scope : MergeScoped(v, shares, theirs).scopes[s] = TakeScope(v, shares, theirs, s)
<1> DEFINE scopes == [s \in Scope |-> TakeScope(v, shares, theirs, s)]
<1>1. ASSUME NEW s \in Scope PROVE TakeScope(v, shares, theirs, s) \in VarMap \cup {Gone}
  <2>1. v.scopes[s] \in VarMap \cup {Gone}
    BY DEF Vaults
  <2>2. CASE s \in Project /\ shares[s] # Gone /\ Present(v, s)
    <3>1. v.scopes[s] \in VarMap /\ shares[s] \in VarMap
      BY <2>1, <2>2 DEF Present, Shares
    <3>2. \A k \in Key : TakeEntry(v.scopes[s][k], shares[s][k], theirs) \in Slot
      BY <3>1 DEF TakeEntry, VarMap
    <3>3. TakeScope(v, shares, theirs, s) = TakeVars(v.scopes[s], shares[s], theirs)
      BY <2>2 DEF TakeScope
    <3>4. QED
      BY <3>2, <3>3 DEF TakeVars, VarMap
  <2>3. CASE ~(s \in Project /\ shares[s] # Gone /\ Present(v, s))
    BY <2>1, <2>3 DEF TakeScope, Shares
  <2>4. QED
    BY <2>2, <2>3
<1>2. scopes \in [Scope -> VarMap \cup {Gone}]
  BY <1>1
<1>3. \A s \in Scope : scopes[s] = TakeScope(v, shares, theirs, s)
  OBVIOUS
<1>4. MergeScoped(v, shares, theirs) = [v EXCEPT !.scopes = scopes]
  BY DEF MergeScoped
<1> HIDE DEF scopes
<1>5. QED
  BY <1>2, <1>3, <1>4 DEF Vaults

(***************************************************************************)
(* Every handler that runs was let in by an unscoped session.               *)
(***************************************************************************)
LetIn == \A c \in Client : handler[c].at # "none" =>
           /\ handler[c].session \in Session
           /\ session[handler[c].session].scope = Everything

IInv == TypeOK /\ LetIn

LEMMA InitIInv == Init => IInv
BY EmptyVaultType, NoJobType, LanAssumption
   DEF Init, IInv, TypeOK, LetIn, NoHandler, Steps, Sessions, NotStarted

LEMMA NextIInv == IInv /\ [Next]_vars => IInv'
<1> SUFFICES ASSUME IInv, [Next]_vars PROVE IInv'
  OBVIOUS
<1> USE DEF IInv
<1>1. CASE UNCHANGED vars
  BY <1>1 DEF vars, TypeOK, LetIn
<1>2. ASSUME NEW m \in Machine, Edit(m) PROVE IInv'
  <2>1. PICK v \in Edits(vault[m]) : vault' = [vault EXCEPT ![m] = v]
    BY <1>2 DEF Edit
  <2>2. v \in Vaults
    BY <2>1, EditsType DEF TypeOK
  <2>3. QED
    BY <1>2, <2>1, <2>2 DEF Edit, hostVars, TypeOK, LetIn
<1>3. ASSUME NEW scope \in Scopes, NEW allow \in BOOLEAN, StartHost(scope, allow) PROVE IInv'
  <2>1. PICK s \in Session :
          /\ \A t \in Session : t < s <=> session[t] # NotStarted
          /\ session' = [session EXCEPT ![s] = [scope |-> scope, allow |-> allow]]
          /\ Listen(s)
    BY <1>3 DEF StartHost
  <2>2. [scope |-> scope, allow |-> allow] \in Sessions
    BY LanAssumption DEF Sessions
  <2>3. session[s].scope # Everything
    BY <2>1, LanAssumption DEF NotStarted, Session
  <2>4. TypeOK'
    BY <1>3, <2>1, <2>2, LanAssumption DEF StartHost, Listen, TypeOK
  <2>5. LetIn'
    BY <1>3, <2>1, <2>3 DEF StartHost, TypeOK, LetIn
  <2>6. QED
    BY <2>4, <2>5
<1>4. CASE StopHost
  BY <1>4, LanAssumption DEF StopHost, Listen, TypeOK, LetIn
<1>6. CASE WrongPin
  <2>1. failures' \in 0..MaxFailures
    BY <1>6, LanAssumption DEF WrongPin, Accepts, TypeOK
  <2>2. QED
    BY <1>6, <2>1 DEF WrongPin, TypeOK, LetIn
<1>7. ASSUME NEW c \in Client, Pull(c) PROVE IInv'
  <2> DEFINE j == [NoJob EXCEPT !.session = active, !.theirs = WithoutDeviceLocal(vault[Host])]
  <2>1. WithoutDeviceLocal(vault[Host]) \in Vaults
    BY WithoutDeviceLocalType DEF TypeOK, Machine
  <2>2. j \in Jobs
    BY <2>1, NoJobType DEF Jobs, TypeOK
  <2>3. job' = [job EXCEPT ![c] = j]
    BY <1>7 DEF Pull
  <2> HIDE DEF j
  <2>4. QED
    BY <1>7, <2>2, <2>3 DEF Pull, Goto, hostVars, TypeOK, LetIn, Steps
<1>8. ASSUME NEW c \in Client, MergePulled(c) PROVE IInv'
  <2>1. PICK pick \in Forced, allow \in BOOLEAN :
          job' = [job EXCEPT ![c] = [Loaded(c, allow) EXCEPT !.res =
                    Resolve(Loaded(c, allow).ours, Loaded(c, allow).theirs,
                            Loaded(c, allow).base, pick)]]
    BY <1>8, Zenon DEF MergePulled
  <2>2. /\ Loaded(c, allow) \in Jobs
        /\ Loaded(c, allow).ours \in Vaults
        /\ Loaded(c, allow).theirs \in Vaults
        /\ Loaded(c, allow).base \in Vaults
    BY DEF TypeOK, Jobs, Machine, Loaded
  <2>3. PICK res \in Resolutions : job' = [job EXCEPT ![c] = [Loaded(c, allow) EXCEPT !.res = res]]
    BY <2>1, <2>2, ResolveType, Zenon
  <2>4. [Loaded(c, allow) EXCEPT !.res = res] \in Jobs
    BY <2>2, <2>3 DEF Jobs
  <2>5. QED
    BY <1>8, <2>3, <2>4 DEF MergePulled, Goto, hostVars, TypeOK, LetIn, Steps
<1>9. ASSUME NEW c \in Client, SaveQuietBase(c) PROVE IInv'
  <2>1. WithoutDeviceLocal(job[c].ours) \in Vaults
    BY WithoutDeviceLocalType DEF TypeOK, Jobs
  <2>2. QED
    BY <1>9, <2>1 DEF SaveQuietBase, Goto, hostVars, TypeOK, LetIn, Steps
<1>10. ASSUME NEW c \in Client, SaveMerged(c) PROVE IInv'
  BY <1>10, OutOfType DEF SaveMerged, Goto, hostVars, TypeOK, LetIn, Steps, Machine
<1>11. ASSUME NEW c \in Client, SaveMergedBase(c) PROVE IInv'
  <2>1. WithoutDeviceLocal(MergedOf(job[c])) \in Vaults
    BY OutOfType, WithoutDeviceLocalType DEF TypeOK
  <2>2. QED
    BY <1>11, <2>1, NoJobType DEF SaveMergedBase, Finish, Goto, hostVars, TypeOK, LetIn, Steps
<1>12. ASSUME NEW c \in Client, Stop(c) PROVE IInv'
  BY <1>12, NoJobType DEF Stop, Finish, Goto, hostVars, TypeOK, LetIn, Steps
<1>13. ASSUME NEW c \in Client, TakePush(c) PROVE IInv'
  <2> DEFINE h == [NoHandler EXCEPT !.at = "entered", !.session = job[c].session,
                                    !.pushed = OutOf(job[c])]
  <2>1. h \in Handlers /\ h.session = job[c].session /\ job[c].session \in Session \cup {0}
    BY NoJobType, OutOfType DEF Handlers, TypeOK, Jobs
  <2>2. handler' = [handler EXCEPT ![c] = h]
    BY <1>13 DEF TakePush
  <2>3. job[c].session \in Session /\ session[job[c].session].scope = Everything
    BY <1>13, <2>1 DEF TakePush, Accepts
  <2> HIDE DEF h
  <2>4. QED
    BY <1>13, <2>1, <2>2, <2>3 DEF TakePush, Goto, TypeOK, LetIn, Steps
<1>14. ASSUME NEW c \in Client, GatePush(c) PROVE IInv'
  <2> DEFINE h == [handler[c] EXCEPT !.at = "asked", !.current = vault[Host],
                     !.pushed = KeepDeviceLocal(handler[c].pushed, vault[Host])]
  <2>1. h \in Handlers /\ h.session = handler[c].session
    BY KeepDeviceLocalType DEF Handlers, TypeOK, Machine
  <2>2. handler' = [handler EXCEPT ![c] = h] /\ handler[c].at # "none"
    BY <1>14 DEF GatePush
  <2> HIDE DEF h
  <2>3. QED
    BY <1>14, <2>1, <2>2 DEF GatePush, TypeOK, LetIn
<1>15. ASSUME NEW c \in Client, ApplyPush(c) PROVE IInv'
  <2>1. [handler[c] EXCEPT !.at = "saved"] \in Handlers
        /\ [handler[c] EXCEPT !.at = "saved"].session = handler[c].session
        /\ handler[c].pushed \in Vaults
    BY DEF TypeOK, Handlers
  <2>2. QED
    BY <1>15, <2>1 DEF ApplyPush, TypeOK, LetIn, Machine
<1>16. ASSUME NEW c \in Client, AnswerPush(c) PROVE IInv'
  <2>1. WithoutDeviceLocal(handler[c].pushed) \in Vaults
    BY WithoutDeviceLocalType DEF TypeOK, Handlers
  <2>2. NoHandler.at = "none"
    BY DEF NoHandler
  <2>3. pc' \in [Client -> Steps]
    BY <1>16 DEF AnswerPush, TypeOK, Steps
  <2>4. active' \in Session \cup {0} /\ failures' \in 0..MaxFailures
    BY <1>16, LanAssumption DEF AnswerPush, Listen
  <2>5. handler' \in [Client -> Handlers] /\ hostBase' \in [Client -> Vaults]
    BY <1>16, <2>1, NoJobType DEF AnswerPush, TypeOK
  <2>6. TypeOK'
    BY <1>16, <2>3, <2>4, <2>5 DEF AnswerPush, TypeOK
  <2>7. LetIn'
    BY <1>16, <2>2 DEF AnswerPush, TypeOK, LetIn
  <2>8. QED
    BY <2>6, <2>7
<1>17. ASSUME NEW c \in Client, DropPush(c) PROVE IInv'
  <2>1. NoHandler.at = "none"
    BY DEF NoHandler
  <2>2. QED
    BY <1>17, <2>1, NoJobType DEF DropPush, Finish, Goto, TypeOK, LetIn, Steps
<1>18. ASSUME NEW c \in Client, NEW names \in SUBSET Project, ScopedPull(c, names) PROVE IInv'
  <2> DEFINE j == [NoJob EXCEPT !.session = active, !.shares = Extract(vault[Host], names)]
  <2>1. Extract(vault[Host], names) \in Shares
    BY ExtractType DEF TypeOK, Machine
  <2>2. j \in Jobs
    BY <2>1, NoJobType DEF Jobs, TypeOK
  <2>3. job' = [job EXCEPT ![c] = j]
    BY <1>18 DEF ScopedPull
  <2> HIDE DEF j
  <2>4. QED
    BY <1>18, <2>2, <2>3 DEF ScopedPull, Goto, hostVars, TypeOK, LetIn, Steps
<1>19. ASSUME NEW c \in Client, MergeShares(c) PROVE IInv'
  <2>1. PICK v \in Vaults : job' = [job EXCEPT ![c].merged = v]
    BY <1>19, MergeScopedType DEF MergeShares, TypeOK, Jobs, Machine
  <2>2. [job[c] EXCEPT !.merged = v] \in Jobs
    BY <2>1 DEF TypeOK, Jobs
  <2>3. QED
    BY <1>19, <2>1, <2>2 DEF MergeShares, Goto, hostVars, TypeOK, LetIn, Steps
<1>20. ASSUME NEW c \in Client, SaveShares(c) PROVE IInv'
  <2>1. job[c].merged \in Vaults
    BY DEF TypeOK, Jobs
  <2>2. QED
    BY <1>20, <2>1, NoJobType
       DEF SaveShares, Finish, Goto, hostVars, TypeOK, LetIn, Steps, Machine
<1>21. QED
  BY <1>1, <1>2, <1>3, <1>4, <1>6, <1>7, <1>8, <1>9, <1>10, <1>11, <1>12, <1>13,
     <1>14, <1>15, <1>16, <1>17, <1>18, <1>19, <1>20 DEF Next

LEMMA IInvHolds == Spec => []IInv
BY InitIInv, NextIInv, PTL DEF Spec

(* Every reachable state is well formed; in particular a session never       *)
(* counts more failed PINs than its limit.                                   *)
THEOREM TypeCorrect == Spec => []TypeOK
<1>1. IInv => TypeOK
  BY DEF IInv
<1>2. QED
  BY <1>1, IInvHolds, PTL

(***************************************************************************)
(* A push that waits for approval has passed the delete gate.               *)
(***************************************************************************)
Gated == \A c \in Client : handler[c].at = "asked" =>
           Removed(handler[c]) = {} \/ session[handler[c].session].allow

(* A session does not change once it is started.                             *)
LEMMA SessionsStay ==
  ASSUME TypeOK, [Next]_vars, NEW t \in Session, session[t].scope = Everything
  PROVE  session'[t] = session[t]
<1>1. ASSUME NEW scope \in Scopes, NEW allow \in BOOLEAN, StartHost(scope, allow)
      PROVE  session'[t] = session[t]
  <2>1. PICK s \in Session :
          /\ \A u \in Session : u < s <=> session[u] # NotStarted
          /\ session' = [session EXCEPT ![s] = [scope |-> scope, allow |-> allow]]
    BY <1>1 DEF StartHost
  <2>2. session[s].scope # Everything
    BY <2>1, LanAssumption DEF NotStarted, Session
  <2>3. QED
    BY <2>1, <2>2 DEF TypeOK
<1>2. (\E scope \in Scopes, allow \in BOOLEAN : StartHost(scope, allow)) \/ session' = session
  BY DEF vars, Next, Edit, StopHost, WrongPin, Pull, MergePulled, SaveQuietBase,
     SaveMerged, SaveMergedBase, Stop, TakePush, GatePush, ApplyPush, AnswerPush, DropPush,
     ScopedPull, MergeShares, SaveShares, hostVars
<1>3. QED
  BY <1>1, <1>2

LEMMA NextGated == IInv /\ Gated /\ [Next]_vars => Gated'
<1> SUFFICES ASSUME IInv, Gated, [Next]_vars, NEW c \in Client, handler'[c].at = "asked"
             PROVE  Removed(handler'[c]) = {} \/ session'[handler'[c].session].allow
  BY DEF Gated
<1>1. handler \in [Client -> Handlers]
  BY DEF IInv, TypeOK
<1>2. CASE handler'[c] = handler[c]
  <2>1. session'[handler[c].session] = session[handler[c].session]
    BY <1>2, SessionsStay DEF IInv, LetIn
  <2>2. QED
    BY <1>2, <2>1 DEF Gated
<1>3. ASSUME GatePush(c)
      PROVE  Removed(handler'[c]) = {} \/ session'[handler'[c].session].allow
  <2> DEFINE h == [handler[c] EXCEPT !.at = "asked", !.current = vault[Host],
                     !.pushed = KeepDeviceLocal(handler[c].pushed, vault[Host])]
  <2>1. handler'[c] = h /\ session' = session
    BY <1>1, <1>3 DEF GatePush
  <2>2. h.session = handler[c].session
    BY <1>1 DEF Handlers
  <2>3. session[handler[c].session].allow \/ Removed(h) = {}
    BY <1>3 DEF GatePush
  <2> HIDE DEF h
  <2>4. QED
    BY <2>1, <2>2, <2>3
<1>4. GatePush(c) \/ handler'[c] = handler[c]
  <2>1. ASSUME NEW d \in Client,
               TakePush(d) \/ ApplyPush(d) \/ AnswerPush(d) \/ DropPush(d) \/ GatePush(d)
        PROVE  GatePush(c) \/ handler'[c] = handler[c]
    <3>1. CASE d # c
      BY <1>1, <2>1, <3>1 DEF TakePush, ApplyPush, AnswerPush, DropPush, GatePush
    <3>2. CASE d = c /\ TakePush(d)
      BY <1>1, <3>2 DEF TakePush, NoHandler
    <3>3. CASE d = c /\ ApplyPush(d)
      BY <1>1, <3>3 DEF ApplyPush, Handlers
    <3>4. CASE d = c /\ (AnswerPush(d) \/ DropPush(d))
      BY <1>1, <3>4 DEF AnswerPush, DropPush, NoHandler
    <3>5. QED
      BY <2>1, <3>1, <3>2, <3>3, <3>4
  <2>2. \/ \E d \in Client : \/ TakePush(d) \/ ApplyPush(d) \/ AnswerPush(d)
                              \/ DropPush(d) \/ GatePush(d)
        \/ handler' = handler
    BY DEF vars, Next, Edit, StartHost, StopHost, WrongPin, Pull, MergePulled,
       SaveQuietBase, SaveMerged, SaveMergedBase, Stop, ScopedPull, MergeShares, SaveShares,
       hostVars
  <2>3. QED
    BY <2>1, <2>2
<1>5. QED
  BY <1>2, <1>3, <1>4

(* HostDeletesGated: where nobody else wrote the host's vault, a push takes  *)
(* projects off the host only in a session started with --allow-deletes.     *)
THEOREM GatedDeletes == Spec => HostDeletesGated
<1> DEFINE Step(c) == (ApplyPush(c) /\ vault[Host] = handler[c].current) =>
                         \/ Drops(vault[Host], vault'[Host]) = {}
                         \/ session[handler[c].session].allow
<1>1. Init => Gated
  BY DEF Init, Gated, NoHandler
<1>2. ASSUME IInv, Gated, NEW c \in Client PROVE Step(c)
  <2> SUFFICES ASSUME ApplyPush(c), vault[Host] = handler[c].current
               PROVE  \/ Drops(vault[Host], vault'[Host]) = {}
                      \/ session[handler[c].session].allow
    OBVIOUS
  <2>1. vault'[Host] = handler[c].pushed
    BY <1>2 DEF ApplyPush, IInv, TypeOK, Machine
  <2>2. Drops(vault[Host], vault'[Host]) = Removed(handler[c])
    BY <2>1 DEF Drops, Removed
  <2>3. QED
    BY <1>2, <2>2 DEF Gated, ApplyPush
<1>3. IInv /\ Gated /\ [Next]_vars => [\A c \in Client : Step(c)]_vars
  BY <1>2
<1>4. QED
  BY <1>1, <1>3, NextGated, IInvHolds, PTL DEF Spec, HostDeletesGated

(***************************************************************************)
(* From its merge until its push is answered, a client has resolved nothing *)
(* but conflicts and deletes only what it was allowed to; and the push that *)
(* it waits for at the host is the one it made.                             *)
(***************************************************************************)
SettledJob(j) ==
  /\ DeletionsOf(j) # {} => j.allow
  /\ OnlyConflicts(j.ours, j.theirs, j.base, j.res)

Settled == \A c \in Client : pc[c] \in {"approved", "push", "waiting"} => SettledJob(job[c])

OwnPush == \A c \in Client :
  pc[c] = "waiting" /\ handler[c].at \in {"entered", "asked"} =>
    handler[c].pushed.scopes = OutOf(job[c]).scopes

(* What a client decides on is settled. *)
LEMMA MergePulledSettles ==
  ASSUME IInv, NEW c \in Client, MergePulled(c)
  PROVE  SettledJob(job'[c])
<1>1. PICK pick \in Forced, allow \in BOOLEAN :
        /\ DeletionsOf(Loaded(c, allow)) # {} <=> allow
        /\ job' = [job EXCEPT ![c] = [Loaded(c, allow) EXCEPT !.res =
                     Resolve(Loaded(c, allow).ours, Loaded(c, allow).theirs,
                             Loaded(c, allow).base, pick)]]
  BY Zenon DEF MergePulled
<1> DEFINE l == Loaded(c, allow)
<1>2. l \in Jobs /\ l.allow = allow
  BY DEF Loaded, Jobs, IInv, TypeOK, Machine
<1>3. job'[c] = [l EXCEPT !.res = Resolve(l.ours, l.theirs, l.base, pick)]
  BY <1>1 DEF IInv, TypeOK
<1>4. DeletionsOf(l) # {} <=> allow
  BY <1>1
<1> HIDE DEF l
<1>5. /\ job'[c].ours = l.ours /\ job'[c].theirs = l.theirs /\ job'[c].base = l.base
      /\ job'[c].allow = allow
      /\ job'[c].res = Resolve(l.ours, l.theirs, l.base, pick)
  BY <1>2, <1>3 DEF Jobs
<1>6. QED
  BY <1>4, <1>5, ResolvesConflicts DEF SettledJob, DeletionsOf

(* A job changes only where its client begins, merges or ends.               *)
LEMMA NextSettled == IInv /\ Settled /\ [Next]_vars => Settled'
<1> SUFFICES ASSUME IInv, Settled, [Next]_vars, NEW c \in Client,
                    pc'[c] \in {"approved", "push", "waiting"}
             PROVE  SettledJob(job'[c])
  BY DEF Settled
<1> DEFINE Same == pc[c] \in {"approved", "push", "waiting"} /\ job'[c] = job[c]
<1>1. pc \in [Client -> Steps] /\ job \in [Client -> Jobs]
  BY DEF IInv, TypeOK
<1>2. CASE Same
  BY <1>2 DEF Settled
<1>3. MergePulled(c) \/ Same
  <2>1. CASE \/ UNCHANGED vars \/ StopHost \/ WrongPin
             \/ \E m \in Machine : Edit(m)
             \/ \E scope \in Scopes, allow \in BOOLEAN : StartHost(scope, allow)
    BY <2>1 DEF vars, StopHost, WrongPin, Edit, StartHost
  <2>2. ASSUME NEW d \in Client, GatePush(d) \/ ApplyPush(d) PROVE Same
    BY <2>2 DEF GatePush, ApplyPush
  <2>3. ASSUME NEW d \in Client, SaveQuietBase(d) \/ SaveMerged(d) \/ TakePush(d) PROVE Same
    BY <1>1, <2>3 DEF SaveQuietBase, SaveMerged, TakePush, Goto
  <2>4. ASSUME NEW d \in Client, AnswerPush(d) PROVE Same
    BY <1>1, <2>4 DEF AnswerPush
  <2>5. ASSUME NEW d \in Client, DropPush(d) PROVE Same
    BY <1>1, <2>5 DEF DropPush, Finish, Goto
  <2>6. ASSUME NEW d \in Client, d # c,
               \/ Pull(d) \/ MergePulled(d) \/ SaveMergedBase(d) \/ Stop(d)
               \/ (\E names \in SUBSET Project : ScopedPull(d, names))
               \/ MergeShares(d) \/ SaveShares(d)
        PROVE  Same
    BY <1>1, <2>6 DEF Pull, MergePulled, SaveMergedBase, Stop, ScopedPull, MergeShares,
       SaveShares, Finish, Goto
  <2>7. ~( \/ Pull(c) \/ SaveMergedBase(c) \/ Stop(c)
           \/ (\E names \in SUBSET Project : ScopedPull(c, names))
           \/ MergeShares(c) \/ SaveShares(c) )
    BY <1>1 DEF Pull, SaveMergedBase, Stop, ScopedPull, MergeShares, SaveShares, Finish, Goto
  <2>8. QED
    BY <2>1, <2>2, <2>3, <2>4, <2>5, <2>6, <2>7 DEF Next
<1>4. QED
  BY <1>2, <1>3, MergePulledSettles

LEMMA NextOwnPush == IInv /\ OwnPush /\ [Next]_vars => OwnPush'
<1> SUFFICES ASSUME IInv, OwnPush, [Next]_vars, NEW c \in Client,
                    pc'[c] = "waiting", handler'[c].at \in {"entered", "asked"}
             PROVE  handler'[c].pushed.scopes = OutOf(job'[c]).scopes
  BY DEF OwnPush
<1> DEFINE Same == pc[c] = "waiting" /\ job'[c] = job[c] /\ handler'[c] = handler[c]
<1>1. /\ pc \in [Client -> Steps] /\ job \in [Client -> Jobs]
      /\ handler \in [Client -> Handlers] /\ vault[Host] \in Vaults
  BY DEF IInv, TypeOK, Machine
<1>2. CASE Same
  BY <1>2 DEF OwnPush
<1>3. CASE TakePush(c)
  <2>1. handler'[c] = [NoHandler EXCEPT !.at = "entered", !.session = job[c].session,
                                        !.pushed = OutOf(job[c])]
    BY <1>1, <1>3 DEF TakePush
  <2>2. handler'[c].pushed = OutOf(job[c]) /\ job' = job
    BY <1>3, <2>1 DEF TakePush, NoHandler
  <2>3. QED
    BY <2>2
<1>4. CASE GatePush(c)
  <2> DEFINE h == [handler[c] EXCEPT !.at = "asked", !.current = vault[Host],
                     !.pushed = KeepDeviceLocal(handler[c].pushed, vault[Host])]
  <2>1. handler'[c] = h
    BY <1>1, <1>4 DEF GatePush
  <2>2. handler[c].pushed \in Vaults
        /\ h.pushed = KeepDeviceLocal(handler[c].pushed, vault[Host])
    BY <1>1 DEF Handlers
  <2> HIDE DEF h
  <2>3. h.pushed.scopes = handler[c].pushed.scopes
    BY <1>1, <2>2, KeepDeviceLocalType
  <2>4. pc[c] = "waiting" /\ handler[c].at = "entered" /\ job' = job
    BY <1>4 DEF GatePush
  <2>5. QED
    BY <2>1, <2>3, <2>4 DEF OwnPush
<1>5. TakePush(c) \/ GatePush(c) \/ Same
  <2>1. CASE \/ UNCHANGED vars \/ StopHost \/ WrongPin
             \/ \E m \in Machine : Edit(m)
             \/ \E scope \in Scopes, allow \in BOOLEAN : StartHost(scope, allow)
    BY <2>1 DEF vars, StopHost, WrongPin, Edit, StartHost, hostVars
  <2>2. ASSUME NEW d \in Client, d # c,
               TakePush(d) \/ GatePush(d) \/ ApplyPush(d) \/ AnswerPush(d) \/ DropPush(d)
        PROVE  Same
    <3>1. handler'[c] = handler[c]
      BY <1>1, <2>2 DEF TakePush, GatePush, ApplyPush, AnswerPush, DropPush
    <3>2. pc'[c] = pc[c] /\ job'[c] = job[c]
      BY <1>1, <2>2 DEF TakePush, GatePush, ApplyPush, AnswerPush, DropPush, Finish, Goto
    <3>3. QED
      BY <3>1, <3>2
  <2>3. ~(ApplyPush(c) \/ AnswerPush(c) \/ DropPush(c))
    BY <1>1 DEF ApplyPush, AnswerPush, DropPush, NoHandler, Handlers
  <2>4. ASSUME NEW d \in Client,
               \/ Pull(d) \/ MergePulled(d) \/ SaveQuietBase(d) \/ SaveMerged(d)
               \/ SaveMergedBase(d) \/ Stop(d)
               \/ (\E names \in SUBSET Project : ScopedPull(d, names))
               \/ MergeShares(d) \/ SaveShares(d)
        PROVE  Same
    <3>1. handler' = handler
      BY <2>4 DEF Pull, MergePulled, SaveQuietBase, SaveMerged, SaveMergedBase, Stop,
         ScopedPull, MergeShares, SaveShares, hostVars
    <3>2. d # c
      BY <1>1, <2>4 DEF Pull, MergePulled, SaveQuietBase, SaveMerged, SaveMergedBase, Stop,
         ScopedPull, MergeShares, SaveShares, Finish, Goto
    <3>3. pc'[c] = pc[c] /\ job'[c] = job[c]
      BY <1>1, <2>4, <3>2 DEF Pull, MergePulled, SaveQuietBase, SaveMerged, SaveMergedBase,
         Stop, ScopedPull, MergeShares, SaveShares, Finish, Goto
    <3>4. QED
      BY <3>1, <3>3
  <2>5. QED
    BY <2>1, <2>2, <2>3, <2>4 DEF Next
<1>6. QED
  BY <1>2, <1>3, <1>4, <1>5

(* A settled merge carries the news of what was pulled.                      *)
LEMMA MergedCarries ==
  ASSUME NEW j \in Jobs, SettledJob(j)
  PROVE  Carries(MergedOf(j), j.theirs, j)
<1>1. SUFFICES ASSUME NEW x \in News(j.theirs, j.base) \ Chosen(j)
               PROVE  VarsOf(MergedOf(j), x[1])[x[2]] = j.theirs.scopes[x[1]][x[2]]
  BY DEF Carries
<1>2. PICK s \in Scope, k \in Key : x = <<s, k>>
  BY <1>1 DEF News
<1>3. Present(j.theirs, s) /\ j.theirs.scopes[s][k] # VarsOf(j.base, s)[k]
  BY <1>1, <1>2 DEF News
<1>4. /\ ~InConflict(j.ours, j.theirs, j.base, NoResolution, s, k)
      /\ s \notin ProjectDeletions(j.ours, j.theirs, j.base)
  BY <1>1, <1>2 DEF Chosen, Conflicts, DeletionsOf, SettledJob
<1>5. Present(MergedOf(j), s) /\ MergedOf(j).scopes[s][k] = j.theirs.scopes[s][k]
  BY <1>3, <1>4, MergeCarries DEF MergedOf, Jobs, SettledJob
<1>6. QED
  BY <1>2, <1>5 DEF VarsOf

(* HostNewsSurvives: what the host changed and the client has not seen       *)
(* reaches the client, and is not undone by its push.                        *)
THEOREM HostNewsKept == Spec => HostNewsSurvives
<1> DEFINE Step(c) ==
      /\ SaveMerged(c) => Carries(vault'[c], job[c].theirs, job[c])
      /\ (AppliesOver(c) /\ ~QuietOf(job[c])) => Carries(vault'[Host], job[c].theirs, job[c])
<1>1. Init => Settled /\ OwnPush
  BY DEF Init, Settled, OwnPush
<1>2. ASSUME IInv, Settled, OwnPush, NEW c \in Client PROVE Step(c)
  <2>1. job[c] \in Jobs
    BY <1>2 DEF IInv, TypeOK
  <2>2. ASSUME SaveMerged(c) PROVE Carries(vault'[c], job[c].theirs, job[c])
    <3>1. vault'[c] = MergedOf(job[c]) /\ pc[c] = "approved"
      BY <1>2, <2>2 DEF SaveMerged, IInv, TypeOK, Machine
    <3>2. SettledJob(job[c])
      BY <1>2, <3>1 DEF Settled
    <3>3. QED
      BY <2>1, <3>1, <3>2, MergedCarries
  <2>3. ASSUME AppliesOver(c), ~QuietOf(job[c])
        PROVE  Carries(vault'[Host], job[c].theirs, job[c])
    <3>1. /\ vault'[Host] = handler[c].pushed
          /\ handler[c].at = "asked" /\ pc[c] = "waiting"
      BY <1>2, <2>3 DEF AppliesOver, ApplyPush, IInv, TypeOK, Machine
    <3>2. handler[c].pushed.scopes = OutOf(job[c]).scopes /\ SettledJob(job[c])
      BY <1>2, <3>1 DEF OwnPush, Settled
    <3>3. OutOf(job[c]).scopes = MergedOf(job[c]).scopes
      BY <2>1, <2>3, OutOfType DEF OutOf, WithoutDeviceLocal, Vaults
    <3>4. Carries(MergedOf(job[c]), job[c].theirs, job[c])
      BY <2>1, <3>2, MergedCarries
    <3>5. QED
      BY <3>1, <3>2, <3>3, <3>4 DEF Carries, VarsOf, Present
  <2>4. QED
    BY <2>2, <2>3
<1>3. IInv /\ Settled /\ OwnPush /\ [Next]_vars => [\A c \in Client : Step(c)]_vars
  BY <1>2
<1>4. QED
  BY <1>1, <1>3, NextSettled, NextOwnPush, IInvHolds, PTL DEF Spec, HostNewsSurvives

(***************************************************************************)
(* Before an unscoped session is started, only scoped syncs run, and what   *)
(* they carry lies within the projects shared so far.                       *)
(***************************************************************************)
HostsOut(v, c, shared) == \A s \in Scope \ shared : Untouched(v, s, Host, c)

OnlyScopedAt(c) ==
  /\ pc[c] \in {"idle", "scoped", "scoped merged"}
  /\ HostsOut(vault[c], c, Shared)
  /\ \A s \in Scope : Untouched(vault[Host], s, c, Host)
  /\ pc[c] = "scoped" => \A p \in Project \ Shared : job[c].shares[p] = Gone
  /\ pc[c] = "scoped merged" => HostsOut(job[c].merged, c, Shared)

SInv == ~Unscoped => \A c \in Client : OnlyScopedAt(c)

(* Shared only grows while no unscoped session is started.                   *)
LEMMA SharedGrows ==
  ASSUME TypeOK, [Next]_vars, ~Unscoped'
  PROVE  ~Unscoped /\ Shared \subseteq Shared'
<1>1. ~Unscoped
  <2> SUFFICES ASSUME NEW t \in Session, session[t].scope = Everything PROVE FALSE
    BY DEF Unscoped
  <2>1. session'[t].scope = Everything
    BY SessionsStay
  <2>2. QED
    BY <2>1 DEF Unscoped
<1>2. ASSUME NEW scope \in Scopes, NEW allow \in BOOLEAN, StartHost(scope, allow)
      PROVE  \A t \in Session : session[t].scope \subseteq session'[t].scope
  <2>1. PICK s \in Session :
          /\ \A t \in Session : t < s <=> session[t] # NotStarted
          /\ session' = [session EXCEPT ![s] = [scope |-> scope, allow |-> allow]]
    BY <1>2 DEF StartHost
  <2>2. session[s].scope = {}
    BY <2>1 DEF NotStarted, Session
  <2>3. QED
    BY <2>1, <2>2 DEF TypeOK
<1>3. (\E scope \in Scopes, allow \in BOOLEAN : StartHost(scope, allow)) \/ session' = session
  BY DEF vars, Next, Edit, StopHost, WrongPin, Pull, MergePulled, SaveQuietBase,
     SaveMerged, SaveMergedBase, Stop, TakePush, GatePush, ApplyPush, AnswerPush, DropPush,
     ScopedPull, MergeShares, SaveShares, hostVars
<1>4. \A t \in Session : session[t].scope \subseteq session'[t].scope
  BY <1>2, <1>3
<1>5. Shared \subseteq Shared'
  <2> SUFFICES ASSUME NEW p, NEW t \in Session, p \in session[t].scope, p \notin Reserved
               PROVE  p \in UNION {session'[u].scope : u \in Session}
    BY DEF Shared
  <2>1. p \in session'[t].scope
    BY <1>4
  <2>2. QED
    BY <2>1
<1>6. QED
  BY <1>1, <1>5

LEMMA MergeSharesOut ==
  ASSUME NEW v \in Vaults, NEW shares \in Shares, NEW theirs \in BOOLEAN, NEW c \in Client,
         NEW shared, HostsOut(v, c, shared), \A p \in Project \ shared : shares[p] = Gone
  PROVE  HostsOut(MergeScoped(v, shares, theirs), c, shared)
<1> SUFFICES ASSUME NEW s \in Scope \ shared
             PROVE  Untouched(MergeScoped(v, shares, theirs), s, Host, c)
  BY DEF HostsOut
<1>1. MergeScoped(v, shares, theirs).scopes[s] = v.scopes[s]
  <2>1. TakeScope(v, shares, theirs, s) = v.scopes[s]
    BY DEF TakeScope
  <2>2. QED
    BY <2>1, MergeScopedType
<1>2. VarsOf(MergeScoped(v, shares, theirs), s) = VarsOf(v, s)
  BY <1>1 DEF VarsOf, Present
<1>3. QED
  BY <1>2 DEF HostsOut, Untouched

(* What a machine's user types is typed there, or was there before.          *)
LEMMA EditUntouched ==
  ASSUME NEW m \in Machine, Edit(m), IInv, NEW s \in Scope, NEW from \in Machine,
         Untouched(vault[m], s, from, m)
  PROVE  Untouched(vault'[m], s, from, m)
<1>1. PICK v \in Edits(vault[m]) :
        /\ \A t \in Scope, k \in Key :
             VarsOf(v, t)[k] \in Typed[m] \cup {Absent, VarsOf(vault[m], t)[k]}
        /\ vault' = [vault EXCEPT ![m] = v]
  BY DEF Edit
<1>2. vault'[m] = v
  BY <1>1 DEF IInv, TypeOK
<1>3. Absent \notin Typed[from]
  BY LanAssumption, VaultAssumption
<1>4. ASSUME NEW k \in Key PROVE VarsOf(v, s)[k] \notin Typed[from] \ Typed[m]
  <2>1. VarsOf(v, s)[k] \in Typed[m] \cup {Absent, VarsOf(vault[m], s)[k]}
    BY <1>1
  <2>2. VarsOf(vault[m], s)[k] \notin Typed[from] \ Typed[m]
    BY DEF Untouched
  <2>3. QED
    BY <1>3, <2>1, <2>2
<1>5. QED
  BY <1>2, <1>4 DEF Untouched

LEMMA InitSInv == Init => SInv
<1>1. ASSUME NEW s \in Scope, NEW m \in Machine, NEW n PROVE Untouched(EmptyVault, s, m, n)
  <2>1. Absent \notin Typed[m]
    BY LanAssumption, VaultAssumption
  <2>2. QED
    BY <2>1 DEF Untouched, VarsOf, Present, EmptyVault, NoVars
<1>2. QED
  BY <1>1 DEF Init, SInv, OnlyScopedAt, HostsOut, Machine

LEMMA NextSInv == IInv /\ SInv /\ [Next]_vars => SInv'
<1> SUFFICES ASSUME IInv, SInv, [Next]_vars, ~Unscoped', NEW c \in Client
             PROVE  OnlyScopedAt(c)'
  BY DEF SInv
<1>1. ~Unscoped /\ Shared \subseteq Shared'
  BY SharedGrows DEF IInv
<1>2. \A d \in Client : OnlyScopedAt(d)
  BY <1>1 DEF SInv
<1>3. \A d \in Client : handler[d].at = "none"
  BY <1>1 DEF IInv, LetIn, Unscoped
<1>4. \A v : HostsOut(v, c, Shared) => HostsOut(v, c, Shared')
  BY <1>1 DEF HostsOut
<1>5. /\ \A m \in Machine, v \in Vaults : vault' = [vault EXCEPT ![m] = v] =>
               /\ vault'[m] = v
               /\ \A n \in Machine \ {m} : vault'[n] = vault[n]
      /\ c \in Machine /\ Host \in Machine /\ c # Host
  BY LanAssumption DEF IInv, TypeOK, Machine
<1>6. CASE vault' = vault /\ pc'[c] = pc[c] /\ job'[c] = job[c]
  BY <1>1, <1>2, <1>4, <1>6 DEF OnlyScopedAt
<1>7. ASSUME NEW m \in Machine, Edit(m) PROVE OnlyScopedAt(c)'
  <2>1. \A n \in Machine \ {m} : vault'[n] = vault[n]
    BY <1>7 DEF Edit, IInv, TypeOK
  <2>2. HostsOut(vault'[c], c, Shared)
    BY <1>2, <1>5, <1>7, <2>1, EditUntouched DEF OnlyScopedAt, HostsOut
  <2>3. \A s \in Scope : Untouched(vault'[Host], s, c, Host)
    BY <1>2, <1>5, <1>7, <2>1, EditUntouched DEF OnlyScopedAt
  <2>4. pc'[c] = pc[c] /\ job'[c] = job[c]
    BY <1>7 DEF Edit
  <2>5. QED
    BY <1>1, <1>2, <1>4, <2>2, <2>3, <2>4 DEF OnlyScopedAt
<1>8. ASSUME NEW names \in SUBSET Project, ScopedPull(c, names) PROVE OnlyScopedAt(c)'
  <2> DEFINE j == [NoJob EXCEPT !.session = active, !.shares = Extract(vault[Host], names)]
  <2>1. names \subseteq Shared
    BY <1>1, <1>8 DEF ScopedPull, Accepts, ValidScope, Unscoped, Shared, IInv, TypeOK
  <2>2. j.shares = Extract(vault[Host], names)
    BY DEF NoJob
  <2>3. job'[c] = j /\ pc'[c] = "scoped" /\ vault' = vault
    BY <1>8 DEF ScopedPull, Goto, IInv, TypeOK
  <2> HIDE DEF j
  <2>4. \A p \in Project \ Shared' : j.shares[p] = Gone
    BY <1>1, <2>1, <2>2 DEF Extract
  <2>5. QED
    BY <1>2, <1>4, <2>3, <2>4 DEF OnlyScopedAt
<1>9. ASSUME MergeShares(c) PROVE OnlyScopedAt(c)'
  <2>1. PICK theirs \in BOOLEAN :
          job' = [job EXCEPT ![c].merged = MergeScoped(vault[c], job[c].shares, theirs)]
    BY <1>9, Zenon DEF MergeShares
  <2>2. vault[c] \in Vaults /\ job[c].shares \in Shares
    BY <1>5 DEF IInv, TypeOK, Jobs
  <2>3. HostsOut(MergeScoped(vault[c], job[c].shares, theirs), c, Shared)
    BY <1>2, <1>9, <2>2, MergeSharesOut DEF OnlyScopedAt, MergeShares
  <2>4. job'[c].merged = MergeScoped(vault[c], job[c].shares, theirs)
    BY <2>1 DEF IInv, TypeOK, Jobs
  <2>5. pc'[c] = "scoped merged" /\ vault' = vault
    BY <1>9 DEF MergeShares, Goto, IInv, TypeOK
  <2>6. QED
    BY <1>2, <1>4, <2>3, <2>4, <2>5 DEF OnlyScopedAt
<1>10. ASSUME SaveShares(c) PROVE OnlyScopedAt(c)'
  <2>1. vault'[c] = job[c].merged /\ vault'[Host] = vault[Host] /\ pc'[c] = "idle"
    BY <1>5, <1>10 DEF SaveShares, Finish, Goto, IInv, TypeOK
  <2>2. QED
    BY <1>2, <1>4, <1>10, <2>1 DEF OnlyScopedAt, SaveShares
<1>11. CASE Stop(c)
  BY <1>2, <1>4, <1>11 DEF Stop, Finish, Goto, OnlyScopedAt, IInv, TypeOK
<1>12. ASSUME NEW d \in Client, d # c, SaveShares(d) PROVE OnlyScopedAt(c)'
  <2>1. /\ vault'[c] = vault[c] /\ vault'[Host] = vault[Host]
        /\ pc'[c] = pc[c] /\ job'[c] = job[c]
    BY <1>12, LanAssumption DEF SaveShares, Finish, Goto, IInv, TypeOK, Machine
  <2>2. QED
    BY <1>1, <1>2, <1>4, <2>1 DEF OnlyScopedAt
<1>13. ASSUME NEW d \in Client, d # c,
              Stop(d) \/ MergeShares(d) \/ \E names \in SUBSET Project : ScopedPull(d, names)
       PROVE  OnlyScopedAt(c)'
  <2>1. vault' = vault /\ pc'[c] = pc[c] /\ job'[c] = job[c]
    BY <1>13 DEF Stop, MergeShares, ScopedPull, Finish, Goto, IInv, TypeOK
  <2>2. QED
    BY <1>6, <2>1
<1>14. ASSUME NEW d \in Client,
              \/ Pull(d) \/ MergePulled(d) \/ SaveQuietBase(d) \/ SaveMerged(d)
              \/ SaveMergedBase(d) \/ TakePush(d) \/ GatePush(d) \/ ApplyPush(d) \/ AnswerPush(d)
       PROVE  FALSE
  <2>1. ~(GatePush(d) \/ ApplyPush(d) \/ AnswerPush(d))
    BY <1>3 DEF GatePush, ApplyPush, AnswerPush
  <2>2. ~(MergePulled(d) \/ SaveQuietBase(d) \/ SaveMerged(d) \/ SaveMergedBase(d) \/ TakePush(d))
    BY <1>2 DEF OnlyScopedAt, MergePulled, SaveQuietBase, SaveMerged, SaveMergedBase, TakePush
  <2>3. ~Pull(d)
    BY <1>1 DEF Pull, Accepts, Unscoped, IInv, TypeOK
  <2>4. QED
    BY <1>14, <2>1, <2>2, <2>3
<1>15. ASSUME NEW d \in Client, DropPush(d) PROVE OnlyScopedAt(c)'
  <2>1. pc[d] # "waiting"
    BY <1>2 DEF OnlyScopedAt
  <2>2. QED
    BY <1>6, <1>15, <2>1 DEF DropPush
<1>16. CASE StopHost \/ WrongPin \/ UNCHANGED vars
            \/ \E scope \in Scopes, allow \in BOOLEAN : StartHost(scope, allow)
  <2>1. vault' = vault /\ pc' = pc /\ job' = job
    BY <1>16 DEF StopHost, WrongPin, vars, StartHost
  <2>2. QED
    BY <1>6, <2>1
<1>17. QED
  BY <1>7, <1>8, <1>9, <1>10, <1>11, <1>12, <1>13, <1>14, <1>15, <1>16 DEF Next

(* A scoped host shares its projects and nothing else.                       *)
THEOREM ScopedProjectsOnly == Spec => []ScopedSharesOnlyScope
<1>1. SInv => ScopedSharesOnlyScope
  BY DEF SInv, OnlyScopedAt, HostsOut, ScopedSharesOnlyScope
<1>2. QED
  BY <1>1, InitSInv, NextSInv, IInvHolds, PTL DEF Spec
=============================================================================
