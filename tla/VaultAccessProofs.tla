------------------------- MODULE VaultAccessProofs -------------------------
(***************************************************************************)
(* Proofs about the ways to the vault, for any commands, callers, contents  *)
(* and machines: types, the time budget of the peer check, what a command   *)
(* reports of its save, and that the agent and the commands together still  *)
(* replace the file whole.                                                  *)
(***************************************************************************)
EXTENDS VaultAccess, TLAPS

(***************************************************************************)
(* A file replaced by one process at a time is a register, for any          *)
(* processes, contents and sizes and wherever a save may stop.  Without the *)
(* agent first: AtomicFile.                                                 *)
(***************************************************************************)
\* The first n chunks of c.
Prefix(c, n) == [i \in 1..MaxSize |-> IF i <= n THEN c ELSE NoContent]

OneSaves == \A p, q \in Process : save[p] # NoSave /\ save[q] # NoSave => p = q

SaveOK(p) ==
  \/ save[p] = NoSave
  \/ /\ save[p].at = "open" /\ save[p].content \in Content /\ save[p].done = 0
  \/ /\ save[p].at = "write" /\ save[p].content \in Content
     /\ tmp # NoInode /\ save[p].inode = tmp
     /\ save[p].done <= Size[save[p].content]
     /\ data[tmp] = Prefix(save[p].content, save[p].done)

FileOK ==
  file # NoInode => file # tmp /\ \E c \in Content : data[file] = Whole(c)

IInv == TypeOK /\ OneSaves /\ FileOK /\ \A p \in Process : SaveOK(p)

LEMMA NoSaveType == NoSave \in Saves /\ NoSave.at = "idle" /\ NoSave.content = NoContent
BY FileAssumption DEF NoSave, Saves

LEMMA WholeOf == \A c, d \in Content : Whole(c) = Whole(d) => c = d
<1> SUFFICES ASSUME NEW c \in Content, NEW d \in Content, Whole(c) = Whole(d) PROVE c = d
  OBVIOUS
<1>1. 1 \in 1..MaxSize /\ 1 <= Size[c] /\ 1 <= Size[d]
  BY FileAssumption
<1> QED
  BY <1>1 DEF Whole

LEMMA Complete == \A c \in Content : Prefix(c, Size[c]) = Whole(c)
BY DEF Prefix, Whole

LEMMA PrefixType == \A c \in Content : \A n : Prefix(c, n) \in Chunks
BY DEF Prefix, Chunks

LEMMA ChunksType == Empty \in Chunks /\ \A c \in Content : Empty = Prefix(c, 0)
BY DEF Empty, Chunks, Prefix

LEMMA PrefixGrows ==
  ASSUME NEW c \in Content, NEW n \in 1..MaxSize
  PROVE  [Prefix(c, n - 1) EXCEPT ![n] = c] = Prefix(c, n)
<1>1. \A i \in 1..MaxSize : i # n => (i <= n - 1 <=> i <= n)
  BY FileAssumption
<1>2. n <= n
  BY FileAssumption
<1> QED
  BY <1>1, <1>2 DEF Prefix

(***************************************************************************)
(* What a reader finds depends on the chunks of the file only, and a whole  *)
(* content is found as it is.                                               *)
(***************************************************************************)
LEMMA ValueWhole == ASSUME NEW c \in Content, file # NoInode, data[file] = Whole(c)
                    PROVE  Value = c
BY WholeOf DEF Value

LEMMA InitIInv == Init => IInv
BY NoSaveType, ChunksType DEF Init, IInv, TypeOK, OneSaves, FileOK, SaveOK

LEMMA NextIInv == Alone /\ IInv /\ [Next]_vars => IInv'
<1> SUFFICES ASSUME Alone, IInv, [Next]_vars PROVE IInv'
  OBVIOUS
<1> USE FileAssumption DEF IInv
<1>1. ASSUME NEW p \in Process, NEW c \in Content, Begin(p, c) PROVE IInv'
  <2> DEFINE new == [NoSave EXCEPT !.at = "open", !.content = c]
  <2>1. new \in Saves /\ new.at = "open" /\ new.content = c /\ new.done = 0
    BY NoSaveType DEF Saves, NoSave
  <2>2. save' = [save EXCEPT ![p] = new] /\ UNCHANGED <<file, tmp, data>>
    BY <1>1 DEF Begin
  <2>3. \A q \in Process : q # p => save[q] = NoSave
    BY <1>1 DEF Begin
  <2> HIDE DEF new
  <2>4. TypeOK'
    BY <2>1, <2>2 DEF TypeOK
  <2>5. OneSaves'
    BY <2>2, <2>3 DEF OneSaves, TypeOK
  <2>6. ASSUME NEW q \in Process PROVE SaveOK(q)'
    BY <2>1, <2>2, <2>3 DEF SaveOK, TypeOK
  <2> QED
    BY <2>2, <2>4, <2>5, <2>6 DEF FileOK
<1>2. ASSUME NEW p \in Process, OpenTmp(p) PROVE IInv'
  <2>1. tmp' \in Inode /\ (file # NoInode => tmp' # file)
    BY <1>2 DEF OpenTmp, TypeOK, Unused, FileOK
  <2>2. data' = [data EXCEPT ![tmp'] = Empty] /\ file' = file
    BY <1>2 DEF OpenTmp
  <2> DEFINE new == [save[p] EXCEPT !.at = "write", !.inode = tmp']
  <2>3. save' = [save EXCEPT ![p] = new]
    BY <1>2 DEF OpenTmp, TypeOK
  <2>4. /\ save[p] \in Saves /\ save[p].at = "open" /\ save[p] # NoSave
        /\ save[p].content \in Content /\ save[p].done = 0
    BY <1>2, NoSaveType DEF OpenTmp, TypeOK, SaveOK
  <2>5. new \in Saves /\ new.at = "write" /\ new.content = save[p].content
        /\ new.inode = tmp' /\ new.done = 0
    BY <2>1, <2>4 DEF Saves
  <2> HIDE DEF new
  <2>6. \A q \in Process : q # p => save'[q] = NoSave
    BY <2>3, <2>4 DEF OneSaves, TypeOK
  <2>7. TypeOK'
    BY <2>1, <2>2, <2>3, <2>5, ChunksType DEF TypeOK
  <2>8. OneSaves'
    BY <2>6 DEF OneSaves
  <2>9. FileOK'
    BY <2>1, <2>2 DEF FileOK, TypeOK
  <2>10. SaveOK(p)'
    <3>1. save'[p] = new /\ data'[tmp'] = Empty
      BY <2>1, <2>2, <2>3 DEF TypeOK
    <3>2. Empty = Prefix(new.content, 0) /\ 0 <= Size[new.content]
      BY <2>4, <2>5, ChunksType
    <3> QED
      BY <3>1, <3>2, <2>1, <2>4, <2>5 DEF SaveOK
  <2> QED
    BY <2>6, <2>7, <2>8, <2>9, <2>10 DEF SaveOK
<1>3. ASSUME NEW p \in Process, WriteChunk(p) PROVE IInv'
  <2> DEFINE c == save[p].content
             n == save[p].done + 1
             new == [save[p] EXCEPT !.done = n]
  <2>1. /\ save[p] \in Saves /\ save[p].at = "write" /\ save[p] # NoSave
        /\ c \in Content /\ tmp \in Inode /\ save[p].inode = tmp
        /\ data[tmp] = Prefix(c, save[p].done) /\ save[p].done < Size[c]
    BY <1>3, NoSaveType DEF WriteChunk, TypeOK, SaveOK, MoreToWrite
  <2>2. n \in 1..MaxSize /\ n <= Size[c]
    BY <2>1 DEF Saves
  <2>3. save' = [save EXCEPT ![p] = new] /\ UNCHANGED <<file, tmp>>
    BY <1>3 DEF WriteChunk, TypeOK
  <2>4. new \in Saves /\ new.at = "write" /\ new.content = c /\ new.inode = tmp /\ new.done = n
    BY <2>1, <2>2 DEF Saves
  <2>5. data' = [data EXCEPT ![tmp] = [data[tmp] EXCEPT ![n] = c]]
    BY <1>3, <2>1 DEF WriteChunk, TypeOK
  <2>6. [data[tmp] EXCEPT ![n] = c] = Prefix(c, n)
    <3>1. Prefix(c, n - 1) = data[tmp] /\ n \in 1..MaxSize /\ c \in Content
      BY <2>1, <2>2 DEF Saves
    <3> HIDE DEF c, n
    <3> QED
      BY <3>1, PrefixGrows
  <2>7. Prefix(c, n) \in Chunks
    BY <2>1, PrefixType
  <2> HIDE DEF c, n, new
  <2>8. \A q \in Process : q # p => save'[q] = NoSave
    BY <2>1, <2>3 DEF OneSaves, TypeOK
  <2>9. TypeOK'
    BY <2>1, <2>3, <2>4, <2>5, <2>6, <2>7 DEF TypeOK
  <2>10. FileOK'
    BY <2>1, <2>3, <2>5 DEF FileOK, TypeOK
  <2>11. SaveOK(p)'
    <3>1. save'[p] = new /\ data'[tmp'] = Prefix(c, n) /\ tmp' = tmp
      BY <2>1, <2>3, <2>5, <2>6 DEF TypeOK
    <3> QED
      BY <3>1, <2>1, <2>2, <2>4 DEF SaveOK
  <2> QED
    BY <2>8, <2>9, <2>10, <2>11 DEF SaveOK, OneSaves
<1>4. ASSUME NEW p \in Process, Rename(p) PROVE IInv'
  <2>1. /\ save[p] # NoSave /\ save[p].content \in Content /\ tmp # NoInode /\ tmp \in Inode
        /\ data[tmp] = Whole(save[p].content)
    BY <1>4, NoSaveType, Complete DEF Rename, Written, SaveOK, TypeOK
  <2>2. file' = tmp /\ tmp' = NoInode /\ data' = data /\ save' = [save EXCEPT ![p] = NoSave]
    BY <1>4 DEF Rename, Quit
  <2>3. \A q \in Process : save'[q] = NoSave
    BY <2>1, <2>2 DEF OneSaves, TypeOK
  <2>4. TypeOK'
    BY <2>1, <2>2, NoSaveType DEF TypeOK
  <2> QED
    BY <2>1, <2>2, <2>3, <2>4 DEF OneSaves, FileOK, SaveOK
<1>5. ASSUME NEW p \in Process, Fail(p) PROVE IInv'
  <2>1. save[p] # NoSave /\ save' = [save EXCEPT ![p] = NoSave] /\ UNCHANGED <<file, tmp, data>>
    BY <1>5 DEF Fail, Quit
  <2>2. \A q \in Process : save'[q] = NoSave
    BY <2>1 DEF OneSaves, TypeOK
  <2>3. TypeOK'
    BY <2>1, NoSaveType DEF TypeOK
  <2> QED
    BY <2>1, <2>2, <2>3 DEF OneSaves, FileOK, SaveOK
<1>6. CASE UNCHANGED vars
  BY <1>6 DEF vars, TypeOK, OneSaves, FileOK, SaveOK
<1> QED
  BY <1>1, <1>2, <1>3, <1>4, <1>5, <1>6 DEF Next

(***************************************************************************)
(* Every step is a step of the register or leaves it alone: the rename is   *)
(* the moment a save takes effect.                                          *)
(***************************************************************************)
LEMMA Refines == Alone /\ IInv /\ IInv' /\ [Next]_vars => [Register!Next]_Register!vars
<1> SUFFICES ASSUME Alone, IInv, IInv', [Next]_vars PROVE [Register!Next]_Register!vars
  OBVIOUS
<1> USE FileAssumption DEF IInv
<1> DEFINE saving == [p \in Process |-> save[p].content]
<1>1. ASSUME NEW p \in Process, NEW c \in Content, Begin(p, c) PROVE Register!Begin(p, c)
  <2> DEFINE new == [NoSave EXCEPT !.at = "open", !.content = c]
  <2>1. new.content = c
    BY DEF NoSave
  <2>2. save[p] = NoSave /\ save' = [save EXCEPT ![p] = new] /\ UNCHANGED <<file, tmp, data>>
    BY <1>1 DEF Begin
  <2> HIDE DEF new
  <2>3. saving' = [saving EXCEPT ![p] = c] /\ saving[p] = NoContent
    BY <2>1, <2>2, NoSaveType DEF TypeOK
  <2> QED
    BY <2>2, <2>3 DEF Register!Begin, Value
<1>2. ASSUME NEW p \in Process, OpenTmp(p) \/ WriteChunk(p) PROVE UNCHANGED Register!vars
  <2>1. save[p] # NoSave /\ save[p] \in Saves /\ save'[p].content = save[p].content
        /\ \A q \in Process : q # p => save'[q] = save[q]
    BY <1>2, NoSaveType DEF OpenTmp, WriteChunk, TypeOK, Saves
  <2>2. saving' = saving
    BY <2>1
  <2>3. file' = file /\ (file # NoInode => data'[file] = data[file])
    BY <1>2, NoSaveType DEF OpenTmp, WriteChunk, TypeOK, Unused, FileOK, SaveOK
  <2>4. Value' = Value
    BY <2>3 DEF Value
  <2> QED
    BY <2>2, <2>4 DEF Register!vars
<1>3. ASSUME NEW p \in Process, Rename(p) PROVE Register!Commit(p)
  <2>1. /\ save[p] # NoSave /\ save[p].content \in Content /\ tmp # NoInode
        /\ data[tmp] = Whole(save[p].content)
    BY <1>3, NoSaveType, Complete DEF Rename, Written, SaveOK, TypeOK
  <2>2. file' = tmp /\ data' = data /\ save' = [save EXCEPT ![p] = NoSave]
    BY <1>3 DEF Rename, Quit
  <2>3. Value' = save[p].content
    BY <2>1, <2>2, WholeOf DEF Value
  <2>4. saving' = [saving EXCEPT ![p] = NoContent] /\ saving[p] = save[p].content
    BY <2>2, NoSaveType DEF TypeOK
  <2> QED
    BY <2>1, <2>3, <2>4 DEF Register!Commit
<1>4. ASSUME NEW p \in Process, Fail(p) PROVE Register!Abandon(p)
  <2>1. save[p] # NoSave /\ save' = [save EXCEPT ![p] = NoSave] /\ UNCHANGED <<file, tmp, data>>
    BY <1>4 DEF Fail, Quit
  <2>2. saving' = [saving EXCEPT ![p] = NoContent] /\ saving[p] # NoContent
    BY <2>1, NoSaveType DEF TypeOK, SaveOK
  <2> QED
    BY <2>1, <2>2 DEF Register!Abandon, Value
<1>5. CASE UNCHANGED vars
  BY <1>5 DEF vars, Register!vars, Value
<1> QED
  BY <1>1, <1>2, <1>3, <1>4, <1>5 DEF Next, Register!Next

(***************************************************************************)
(* As long as one process saves at a time, a save takes effect whole or not *)
(* at all, wherever it stops and whatever file.tmp an earlier one has left. *)
(***************************************************************************)
THEOREM SavesAreAtomic == Alone => (Spec => Atomic)
<1> SUFFICES ASSUME Alone PROVE Spec => Register!Spec
  BY DEF Atomic
<1>1. Init => Register!Init
  BY NoSaveType DEF Init, Register!Init, Value
<1>2. IInv /\ [Next]_vars => IInv'
  BY NextIInv
<1>3. IInv /\ IInv' /\ [Next]_vars => [Register!Next]_Register!vars
  BY Refines
<1> QED
  BY <1>1, <1>2, <1>3, InitIInv, PTL DEF Spec, Register!Spec

(***************************************************************************)
(* The commands and the agent.                                              *)
(***************************************************************************)

LEMMA Constants ==
  /\ Call = {"load", "save", "key"} \X {"try", "unlock", "again"}
  /\ \A p \in Client : p \in Process /\ Own[p] \in Content
  /\ Agent \in Process
BY AccessAssumption

LEMMA RequestType ==
  /\ NoRequest \in Requests /\ NoRequest.at = "none" /\ NoRequest.clock = 0
  /\ \A at \in {"check", "keystore", "write", "closed"} \cup Replies :
       /\ [NoRequest EXCEPT !.at = at] \in Requests
       /\ [NoRequest EXCEPT !.at = at].at = at
       /\ [NoRequest EXCEPT !.at = at].clock = 0
BY DEF NoRequest, Requests, SS_MAX_ATTEMPTS

LEMMA CommandType ==
  ASSUME AccessTypeOK, NEW p \in Client
  PROVE  /\ cmd[p] \in Commands /\ cmd[p].call \in Call /\ Asked(p) \in Client \X Call
         /\ \A how \in {"try", "unlock", "again"} : <<Job(p), how>> \in Call
BY Constants DEF AccessTypeOK, Commands, Asked, Job

LEMMA GoesType ==
  ASSUME AccessTypeOK, NEW p \in Client,
         NEW at \in {"idle", "call", "wait", "direct", "write", "saved", "failed",
                     "shared", "alone", "refused", "dead"},
         Goes(p, at)
  PROVE  cmd' \in [Client -> Commands]
BY CommandType DEF Goes, AccessTypeOK, Commands

LEMMA CallsType ==
  ASSUME AccessTypeOK, NEW p \in Client, NEW c \in Call, Calls(p, c)
  PROVE  cmd' \in [Client -> Commands]
BY DEF Calls, AccessTypeOK, Commands

LEMMA UnservedType ==
  ASSUME AccessTypeOK, NEW p \in Client, Unserved(p)
  PROVE  cmd' \in [Client -> Commands]
BY GoesType DEF Unserved

(***************************************************************************)
(* The time of a request is that of its peer check, which keeps to its      *)
(* budget: a run of ss gets no more than what is left of it.                *)
(***************************************************************************)
WithinBudget == \A r \in Client \X Call : req[r].clock <= PEER_CHECK_BUDGET

LEMMA UnseenInBudget ==
  ASSUME AccessTypeOK, WithinBudget, NEW r \in Client \X Call, Unseen(r)
  PROVE  /\ req' \in [Client \X Call -> Requests]
         /\ WithinBudget'
<1> DEFINE q == req[r]
<1>1. q \in Requests /\ q.tries \in 0..3 /\ q.clock \in Nat /\ q.clock <= 120
  BY DEF AccessTypeOK, WithinBudget, Requests, SS_MAX_ATTEMPTS, PEER_CHECK_BUDGET
<1>2. q.tries < 3 /\ Left(r) > 0
  BY <1>1 DEF Unseen, MayTry, SS_MAX_ATTEMPTS
<1>3. Backoff(r) \in Nat
  BY <1>1, <1>2 DEF Backoff, SS_RETRY_BACKOFF
<1>4. Left(r) = 120 - q.clock - Backoff(r)
  BY DEF Left, PEER_CHECK_BUDGET
<1>5. PICK took \in Durations(r) :
        req' = [req EXCEPT ![r] = [q EXCEPT !.tries = q.tries + 1,
                                             !.clock = q.clock + Backoff(r) + took]]
  BY DEF Unseen, AccessTypeOK
<1>6. took \in Nat /\ took <= Left(r)
  BY <1>1, <1>2, <1>3, <1>4 DEF Durations, Timeout, SS_TIMEOUT
<1> DEFINE n == q.tries + 1
           c == q.clock + Backoff(r) + took
<1>7. n \in 0..3 /\ c \in Nat /\ c <= 120
  BY <1>1, <1>2, <1>3, <1>4, <1>6
<1>8. req' = [req EXCEPT ![r] = [q EXCEPT !.tries = n, !.clock = c]]
  BY <1>5
<1> HIDE DEF n, c
<1>9. [q EXCEPT !.tries = n, !.clock = c] \in Requests /\ [q EXCEPT !.tries = n, !.clock = c].clock = c
  BY <1>1, <1>7 DEF Requests, SS_MAX_ATTEMPTS
<1> QED
  BY <1>7, <1>8, <1>9 DEF AccessTypeOK, WithinBudget, PEER_CHECK_BUDGET

\* The requests keep to the budget when one starts anew.
LEMMA MovesInBudget ==
  ASSUME AccessTypeOK, WithinBudget, NEW r \in Client \X Call,
         NEW at \in {"check", "keystore", "write", "closed"} \cup Replies,
         req' = [req EXCEPT ![r] = [NoRequest EXCEPT !.at = at]]
  PROVE  req' \in [Client \X Call -> Requests] /\ WithinBudget'
<1> DEFINE new == [NoRequest EXCEPT !.at = at]
<1>1. new \in Requests /\ new.clock = 0
  BY RequestType
<1>2. req' = [req EXCEPT ![r] = new]
  OBVIOUS
<1> HIDE DEF new
<1>3. req' \in [Client \X Call -> Requests]
  BY <1>1, <1>2 DEF AccessTypeOK
<1>4. ASSUME NEW s \in Client \X Call PROVE req'[s].clock <= PEER_CHECK_BUDGET
  BY <1>1, <1>2, 0 <= PEER_CHECK_BUDGET DEF AccessTypeOK, WithinBudget, PEER_CHECK_BUDGET
<1> QED
  BY <1>3, <1>4 DEF WithinBudget

LEMMA DropsInBudget ==
  ASSUME AccessTypeOK, WithinBudget, NEW r \in Client \X Call,
         req' = [req EXCEPT ![r] = NoRequest]
  PROVE  req' \in [Client \X Call -> Requests] /\ WithinBudget'
BY RequestType DEF AccessTypeOK, WithinBudget, PEER_CHECK_BUDGET

LEMMA RepliesInBudget ==
  ASSUME AccessTypeOK, WithinBudget, NEW r \in Client \X Call, NEW answer \in Replies,
         Reply(r, answer)
  PROVE  req' \in [Client \X Call -> Requests] /\ WithinBudget'
BY MovesInBudget, DropsInBudget DEF Reply, Moves

LEMMA DoneInBudget ==
  ASSUME AccessTypeOK, WithinBudget, NEW p \in Client, Done(p)
  PROVE  req' \in [Client \X Call -> Requests] /\ WithinBudget'
BY DropsInBudget, CommandType DEF Done

TypeInv == AccessTypeOK /\ WithinBudget

LEMMA InitTypeInv == AccessInit => TypeInv
BY RequestType, Constants DEF AccessInit, TypeInv, AccessTypeOK, WithinBudget, Commands, PEER_CHECK_BUDGET

LEMMA NextTypeInv == TypeInv /\ [AccessNext]_<<vars, access>> => TypeInv'
<1> SUFFICES ASSUME TypeInv, [AccessNext]_<<vars, access>> PROVE TypeInv'
  OBVIOUS
<1> USE DEF TypeInv
<1>1. ASSUME NEW p \in Client, Start(p) \/ NoAgent(p) PROVE TypeInv'
  <2>1. cmd' \in [Client -> Commands]
    BY <1>1, CallsType, UnservedType, GoesType, Constants DEF Start, NoAgent
  <2> QED
    BY <1>1, <2>1 DEF Start, NoAgent, AccessTypeOK, WithinBudget
<1>2. ASSUME NEW p \in Client, Connect(p) PROVE TypeInv'
  <2>1. cmd' \in [Client -> Commands]
    BY <1>2, GoesType DEF Connect
  <2>2. req' \in [Client \X Call -> Requests] /\ WithinBudget'
    BY <1>2, MovesInBudget, CommandType DEF Connect
  <2> QED
    BY <1>2, <2>1, <2>2 DEF Connect, AccessTypeOK
<1>3. ASSUME NEW p \in Client, AnswerOk(p) \/ AnswerLocked(p) \/ AnswerError(p) PROVE TypeInv'
  <2>1. cmd' \in [Client -> Commands]
    BY <1>3, CallsType, UnservedType, GoesType, CommandType, Constants
       DEF AnswerOk, AnswerLocked, AnswerError
  <2>2. req' \in [Client \X Call -> Requests] /\ WithinBudget'
    BY <1>3, DoneInBudget DEF AnswerOk, AnswerLocked, AnswerError
  <2> QED
    BY <1>3, <2>1, <2>2 DEF AnswerOk, AnswerLocked, AnswerError, AccessTypeOK
<1>4. ASSUME NEW p \in Client, GiveUp(p) PROVE TypeInv'
  <2>1. cmd' \in [Client -> Commands]
    BY <1>4, UnservedType DEF GiveUp
  <2>2. req' \in [Client \X Call -> Requests] /\ WithinBudget'
    BY <1>4, DoneInBudget DEF GiveUp, AccessTypeOK, WithinBudget
  <2>3. unsure' \in [Client -> BOOLEAN]
    <3> DEFINE lost == unsure[p] \/ Op(cmd[p].call) = "save"
    <3>1. unsure' = [unsure EXCEPT ![p] = lost] /\ lost \in BOOLEAN
      BY <1>4 DEF GiveUp, AccessTypeOK
    <3> HIDE DEF lost
    <3> QED
      BY <3>1 DEF AccessTypeOK
  <2> QED
    BY <1>4, <2>1, <2>2, <2>3 DEF GiveUp, AccessTypeOK
<1>5. ASSUME NEW r \in Client \X Call, Unseen(r) PROVE TypeInv'
  <2>1. req' \in [Client \X Call -> Requests] /\ WithinBudget'
    BY <1>5, UnseenInBudget
  <2> QED
    BY <1>5, <2>1 DEF Unseen, AccessTypeOK
<1>6. ASSUME NEW r \in Client \X Call,
             Refuse(r) \/ Mismatch(r) \/ Locked(r) \/ Load(r) \/ TakeKey(r) \/ KeystoreAnswers(r)
      PROVE  TypeInv'
  <2>1. req' \in [Client \X Call -> Requests] /\ WithinBudget'
    BY <1>6, RepliesInBudget
       DEF Refuse, Mismatch, Locked, Load, TakeKey, KeystoreAnswers, Replies
  <2> QED
    BY <1>6, <2>1 DEF Refuse, Mismatch, Locked, Load, TakeKey, KeystoreAnswers, AccessTypeOK
<1>7. ASSUME NEW r \in Client \X Call, Unlock(r) \/ BeginSave(r) PROVE TypeInv'
  <2>1. req' \in [Client \X Call -> Requests] /\ WithinBudget'
    BY <1>7, RepliesInBudget, MovesInBudget DEF Unlock, BeginSave, Moves, Replies
  <2> QED
    BY <1>7, <2>1 DEF Unlock, BeginSave, AccessTypeOK
<1>8. ASSUME NEW r \in Client \X Call, AgentWrites(r) PROVE TypeInv'
  <2>1. req' \in [Client \X Call -> Requests] /\ WithinBudget'
    BY <1>8, RepliesInBudget DEF AgentWrites, Replies, AccessTypeOK, WithinBudget
  <2>2. landed' \in [Client -> Nat]
    BY <1>8 DEF AgentWrites, Lands, AccessTypeOK
  <2> QED
    BY <1>8, <2>1, <2>2 DEF AgentWrites, AccessTypeOK
<1>9. ASSUME LockAgent \/ StartAgent PROVE TypeInv'
  BY <1>9 DEF LockAgent, StartAgent, AccessTypeOK, WithinBudget
<1>10. ASSUME StopAgent PROVE TypeInv'
  <2>1. req' \in [Client \X Call -> Requests] /\ WithinBudget'
    <3> DEFINE closed == [NoRequest EXCEPT !.at = "closed"]
    <3>1. req' = [r \in Client \X Call |-> IF Awaited(r) THEN closed ELSE NoRequest]
      BY <1>10 DEF StopAgent
    <3>2. closed \in Requests /\ closed.clock = 0
      BY RequestType
    <3> HIDE DEF closed
    <3> QED
      BY <3>1, <3>2, RequestType DEF WithinBudget, PEER_CHECK_BUDGET
  <2> QED
    BY <1>10, <2>1 DEF StopAgent, AccessTypeOK
<1>11. ASSUME NEW p \in Client, Direct(p) PROVE TypeInv'
  <2>1. cmd' \in [Client -> Commands]
    BY <1>11, CallsType, GoesType, Constants DEF Direct
  <2> QED
    BY <1>11, <2>1 DEF Direct, AccessTypeOK, WithinBudget
<1>12. ASSUME NEW p \in Client, Writes(p) PROVE TypeInv'
  <2>1. cmd' \in [Client -> Commands]
    BY <1>12, GoesType DEF Writes, AccessTypeOK
  <2>2. landed' \in [Client -> Nat]
    BY <1>12 DEF Writes, Lands, AccessTypeOK
  <2> QED
    BY <1>12, <2>1, <2>2 DEF Writes, AccessTypeOK, WithinBudget
<1>13. ASSUME NEW p \in Client, Die(p) PROVE TypeInv'
  <2>1. cmd' \in [Client -> Commands]
    BY <1>13, GoesType DEF Die
  <2>2. req' \in [Client \X Call -> Requests] /\ WithinBudget'
    BY <1>13, DoneInBudget DEF Die, AccessTypeOK, WithinBudget
  <2> QED
    BY <1>13, <2>1, <2>2 DEF Die, AccessTypeOK
<1>14. CASE UNCHANGED <<vars, access>>
  BY <1>14 DEF access, AccessTypeOK, WithinBudget
<1> QED
  BY <1>1, <1>2, <1>3, <1>4, <1>5, <1>6, <1>7, <1>8, <1>9, <1>10, <1>11, <1>12, <1>13, <1>14
     DEF AccessNext, ClientStep, CheckStep

\* Commands, calls and the agent are well formed in every reachable state.
THEOREM AccessTypes == AccessSpec => []AccessTypeOK
<1>1. TypeInv => AccessTypeOK
  BY DEF TypeInv
<1> QED
  BY <1>1, InitTypeInv, NextTypeInv, PTL DEF AccessSpec

(***************************************************************************)
(* resolvePeerPidWithRetry: no client gives up while the agent still finds  *)
(* out who it is, however the runs of ss turn out.                          *)
(***************************************************************************)
THEOREM CheckIsInTime == AccessSpec => []CheckInTime
<1>1. TypeInv => CheckInTime
  BY DEF TypeInv, AccessTypeOK, WithinBudget, CheckInTime, Requests, PEER_CHECK_BUDGET, READ_TIMEOUT
<1> QED
  BY <1>1, InitTypeInv, NextTypeInv, PTL DEF AccessSpec

(***************************************************************************)
(* What a command knows of its save: it was told, or saw itself, that the   *)
(* vault is in the file; or it was told nothing, and then the agent may be  *)
(* writing still.  While the answer may have been lost nothing is certain.  *)
(***************************************************************************)
Reported(p) ==
  \/ cmd[p].at = "saved"
  \/ cmd[p].at = "wait" /\ Op(cmd[p].call) = "save" /\ Answer(p) = "ok"

Sure(p) ==
  /\ ~unsure[p] /\ cmd[p].at # "dead"
  /\ ~(cmd[p].at = "wait" /\ Op(cmd[p].call) = "save" /\ Answer(p) = "closed")

SaveOf(p) ==
  /\ Reported(p) => landed[p] > 0
  /\ Sure(p) => landed[p] = IF Reported(p) THEN 1 ELSE 0

WriteOf(p) ==
  \A c \in Call :
    /\ req[<<p, c>>].at = "write" =>
         Op(c) = "save" /\ (Awaited(<<p, c>>) \/ unsure[p] \/ cmd[p].at = "dead")
    /\ req[<<p, c>>].at = "keystore" => Op(c) = "unlock"

SaveInv == TypeInv /\ \A p \in Client : SaveOf(p) /\ WriteOf(p)

LEMMA InitSaveInv == AccessInit => SaveInv
<1> SUFFICES ASSUME AccessInit PROVE SaveInv
  OBVIOUS
<1>1. ASSUME NEW p \in Client PROVE SaveOf(p) /\ WriteOf(p)
  BY <1>1, RequestType DEF AccessInit, SaveOf, WriteOf, Reported, Sure
<1> QED
  BY <1>1, InitTypeInv DEF SaveInv

\* Nothing changes for a command that a step does not touch.
LEMMA SaveFrame ==
  ASSUME NEW p \in Client, SaveOf(p), WriteOf(p), TypeInv,
         cmd'[p] = cmd[p], unsure'[p] = unsure[p], landed'[p] = landed[p],
         \A c \in Call : req'[<<p, c>>] = req[<<p, c>>]
  PROVE  SaveOf(p)' /\ WriteOf(p)'
<1>1. Asked(p)' = Asked(p) /\ Answer(p)' = Answer(p)
  BY CommandType DEF Asked, Answer, TypeInv
<1> QED
  BY <1>1 DEF SaveOf, WriteOf, Reported, Sure, Awaited, Asked

\* The agent goes on with a request that was neither answered nor closed.
LEMMA SaveOfRequest ==
  ASSUME SaveInv, NEW r \in Client \X Call, NEW new \in Requests,
         req' = [req EXCEPT ![r] = new], UNCHANGED <<cmd, landed, unsure>>,
         req[r].at \notin {"ok", "closed"}, new.at # "closed",
         new.at = "ok" => Op(r[2]) # "save",
         new.at = "write" => Op(r[2]) = "save" /\ Awaited(r),
         new.at = "keystore" => Op(r[2]) = "unlock"
  PROVE  \A p \in Client : SaveOf(p)' /\ WriteOf(p)'
<1> TAKE p \in Client
<1>1. CASE p # r[1]
  <2>1. \A c \in Call : <<p, c>> # r
    BY <1>1
  <2> QED
    BY <2>1, SaveFrame DEF SaveInv, TypeInv, AccessTypeOK
<1>2. CASE p = r[1]
  <2>1. r = <<p, r[2]>> /\ r[2] \in Call /\ req \in [Client \X Call -> Requests]
    BY <1>2 DEF SaveInv, TypeInv, AccessTypeOK
  <2>2. \A c \in Call : req'[<<p, c>>] = IF c = r[2] THEN new ELSE req[<<p, c>>]
    BY <2>1
  <2>3. Asked(p) = <<p, cmd[p].call>> /\ cmd[p].call \in Call /\ Asked(p)' = Asked(p)
    BY CommandType DEF SaveInv, TypeInv, Asked
  <2>4. cmd[p].call # r[2] => Answer(p)' = Answer(p)
    BY <2>2, <2>3 DEF Answer
  <2>5. cmd[p].call = r[2] => Answer(p)' = new.at /\ Answer(p) \notin {"ok", "closed"}
    BY <2>1, <2>2, <2>3 DEF Answer
  <2>6. Reported(p)' = Reported(p) /\ Sure(p)' = Sure(p)
    BY <2>4, <2>5 DEF Reported, Sure
  <2>7. SaveOf(p)'
    BY <2>6 DEF SaveInv, SaveOf
  <2>8. WriteOf(p)'
    BY <2>1, <2>2, <2>3 DEF SaveInv, WriteOf, Awaited
  <2> QED
    BY <2>7, <2>8
<1> QED
  BY <1>1, <1>2

LEMMA SaveOfMoves ==
  ASSUME SaveInv, NEW r \in Client \X Call, NEW at \in {"keystore", "write"} \cup Replies,
         Moves(r, at), UNCHANGED <<cmd, landed, unsure>>,
         req[r].at \notin {"ok", "closed"},
         at = "ok" => Op(r[2]) # "save",
         at = "write" => Op(r[2]) = "save" /\ Awaited(r),
         at = "keystore" => Op(r[2]) = "unlock"
  PROVE  \A p \in Client : SaveOf(p)' /\ WriteOf(p)'
<1> DEFINE new == [NoRequest EXCEPT !.at = at]
<1>1. new \in Requests /\ new.at = at /\ new.at # "closed"
  BY RequestType DEF Replies
<1>2. req' = [req EXCEPT ![r] = new]
  BY DEF Moves
<1> HIDE DEF new
<1> QED
  BY <1>1, <1>2, SaveOfRequest

LEMMA SaveOfReply ==
  ASSUME SaveInv, NEW r \in Client \X Call, NEW answer \in Replies, Reply(r, answer),
         UNCHANGED <<cmd, landed, unsure>>,
         req[r].at \notin {"ok", "closed"}, answer = "ok" => Op(r[2]) # "save"
  PROVE  \A p \in Client : SaveOf(p)' /\ WriteOf(p)'
BY SaveOfMoves, SaveOfRequest, RequestType DEF Reply, Replies

\* A command that does not wait, or waits no more, says it saved if it knows it.
LEMMA SaveOfCommand ==
  ASSUME SaveInv, NEW p \in Client, NEW new \in Commands,
         cmd' = [cmd EXCEPT ![p] = new], UNCHANGED landed,
         UNCHANGED req \/ Done(p),
         unsure' = unsure \/ unsure' = [unsure EXCEPT ![p] = TRUE],
         new.at # "wait",
         new.at = "saved" => Reported(p),
         ~unsure'[p] /\ new.at # "dead" =>
           /\ Sure(p)
           /\ Reported(p) => new.at = "saved"
           /\ cmd[p].at = "wait" => Answer(p) # "write"
  PROVE  \A q \in Client : SaveOf(q)' /\ WriteOf(q)'
<1> TAKE q \in Client
<1>1. cmd \in [Client -> Commands] /\ req \in [Client \X Call -> Requests]
      /\ unsure \in [Client -> BOOLEAN] /\ Asked(p) \in Client \X Call /\ Asked(p)[1] = p
  BY CommandType DEF SaveInv, TypeInv, AccessTypeOK, Asked
<1>2. \A r \in Client \X Call : req'[r] = req[r] \/ (r = Asked(p) /\ req'[r] = NoRequest)
  BY <1>1 DEF Done
<1>3. CASE q # p
  <2>1. \A c \in Call : req'[<<q, c>>] = req[<<q, c>>]
    BY <1>1, <1>2, <1>3
  <2> QED
    BY <1>1, <1>3, <2>1, SaveFrame DEF SaveInv
<1>4. CASE q = p
  <2>1. cmd'[p] = new /\ (unsure'[p] = unsure[p] \/ unsure'[p] = TRUE)
    BY <1>1
  <2>2. Reported(p)' <=> new.at = "saved"
    BY <2>1 DEF Reported
  <2>3. Sure(p)' <=> ~unsure'[p] /\ new.at # "dead"
    BY <2>1 DEF Sure
  <2>4. SaveOf(p)'
    BY <2>2, <2>3 DEF SaveInv, SaveOf
  <2>5. ASSUME NEW c \in Call, req'[<<p, c>>].at \in {"write", "keystore"}
        PROVE  req'[<<p, c>>] = req[<<p, c>>]
    BY <1>2, <2>5, RequestType
  <2>6. ASSUME NEW c \in Call, req'[<<p, c>>].at = "write"
        PROVE  Op(c) = "save" /\ (unsure'[p] \/ new.at = "dead")
    <3>1. req[<<p, c>>].at = "write"
      BY <2>5, <2>6
    <3>2. Op(c) = "save" /\ (Awaited(<<p, c>>) \/ unsure[p] \/ cmd[p].at = "dead")
      BY <3>1 DEF SaveInv, WriteOf
    <3>3. Awaited(<<p, c>>) => cmd[p].at = "wait" /\ Answer(p) = "write"
      BY <3>1 DEF Awaited, Answer
    <3> QED
      BY <2>1, <3>2, <3>3 DEF Sure
  <2>7. WriteOf(p)'
    BY <2>1, <2>5, <2>6 DEF SaveInv, WriteOf
  <2> QED
    BY <1>4, <2>4, <2>7
<1> QED
  BY <1>3, <1>4

LEMMA SaveOfGoes ==
  ASSUME SaveInv, NEW p \in Client,
         NEW at \in {"direct", "write", "saved", "failed", "shared", "alone", "refused", "dead"},
         Goes(p, at), UNCHANGED landed, UNCHANGED req \/ Done(p),
         unsure' = unsure \/ unsure' = [unsure EXCEPT ![p] = TRUE],
         at = "saved" => Reported(p),
         ~unsure'[p] /\ at # "dead" =>
           /\ Sure(p)
           /\ Reported(p) => at = "saved"
           /\ cmd[p].at = "wait" => Answer(p) # "write"
  PROVE  \A q \in Client : SaveOf(q)' /\ WriteOf(q)'
<1> DEFINE new == [cmd[p] EXCEPT !.at = at]
<1>0. cmd \in [Client -> Commands] /\ cmd[p] \in Commands
  BY DEF SaveInv, TypeInv, AccessTypeOK
<1>1. new \in Commands /\ new.at = at
  BY <1>0 DEF Commands
<1>2. cmd' = [cmd EXCEPT ![p] = new]
  BY DEF Goes
<1> HIDE DEF new
<1> QED
  BY <1>1, <1>2, SaveOfCommand

LEMMA SaveOfCalls ==
  ASSUME SaveInv, NEW p \in Client, NEW c \in Call, Calls(p, c),
         UNCHANGED <<landed, unsure>>, UNCHANGED req \/ Done(p),
         ~Reported(p), Sure(p) \/ unsure[p], cmd[p].at = "wait" => Answer(p) # "write"
  PROVE  \A q \in Client : SaveOf(q)' /\ WriteOf(q)'
<1> DEFINE new == [at |-> "call", call |-> c]
<1>1. new \in Commands /\ new.at = "call"
  BY DEF Commands
<1>2. cmd' = [cmd EXCEPT ![p] = new]
  BY DEF Calls
<1> HIDE DEF new
<1> QED
  BY <1>1, <1>2, SaveOfCommand

\* The steps of a command, but for Connect and its own writes.
LEMMA SaveOfClient ==
  ASSUME SaveInv, NEW p \in Client,
         Start(p) \/ NoAgent(p) \/ AnswerOk(p) \/ AnswerLocked(p) \/ AnswerError(p) \/ GiveUp(p)
           \/ Direct(p) \/ Die(p)
  PROVE  \A q \in Client : SaveOf(q)' /\ WriteOf(q)'
<1> DEFINE Goal == \A q \in Client : SaveOf(q)' /\ WriteOf(q)'
<1>0. TypeInv /\ unsure \in [Client -> BOOLEAN]
  BY DEF SaveInv, TypeInv, AccessTypeOK
<1>1. CASE Start(p)
  BY <1>1, SaveOfCalls, Constants DEF Start, Reported, Sure
<1>2. CASE NoAgent(p)
  BY <1>2, SaveOfGoes DEF NoAgent, Unserved, Reported, Sure
<1>3. CASE AnswerOk(p)
  <2>1. \A how \in {"try", "unlock", "again"} : <<Job(p), how>> \in Call /\ <<"save", "try">> \in Call
    BY CommandType, Constants DEF SaveInv, TypeInv
  <2>2. CASE Op(cmd[p].call) = "save"
    BY <1>3, <2>2, SaveOfGoes DEF AnswerOk, Reported, Sure
  <2>3. CASE Op(cmd[p].call) # "save"
    BY <1>3, <2>1, <2>3, SaveOfGoes, SaveOfCalls DEF AnswerOk, Reported, Sure
  <2> QED
    BY <2>2, <2>3
<1>4. CASE AnswerLocked(p)
  BY <1>4, SaveOfGoes, SaveOfCalls, CommandType
     DEF AnswerLocked, Unserved, Reported, Sure, SaveInv, TypeInv
<1>5. CASE AnswerError(p)
  BY <1>5, SaveOfGoes DEF AnswerError, Unserved, Reported, Sure
<1>6. CASE GiveUp(p)
  <2>1. CASE Op(cmd[p].call) = "save"
    <3>1. unsure' = [unsure EXCEPT ![p] = TRUE] /\ unsure'[p] = TRUE
      BY <1>0, <1>6, <2>1 DEF GiveUp
    <3> QED
      BY <1>6, <3>1, SaveOfGoes DEF GiveUp, Unserved
  <2>2. CASE Op(cmd[p].call) # "save"
    <3>1. unsure' = unsure
      BY <1>0, <1>6, <2>2 DEF GiveUp
    <3>2. Answer(p) # "write"
      BY <2>2, CommandType DEF SaveInv, TypeInv, WriteOf, Answer, Asked
    <3> QED
      BY <1>6, <2>2, <3>1, <3>2, SaveOfGoes DEF GiveUp, Unserved, Reported, Sure
  <2> QED
    BY <2>1, <2>2
<1>7. CASE Direct(p)
  BY <1>7, SaveOfGoes, SaveOfCalls, Constants DEF Direct, Reported, Sure
<1>8. CASE Die(p)
  BY <1>8, SaveOfGoes DEF Die
<1> QED
  BY <1>1, <1>2, <1>3, <1>4, <1>5, <1>6, <1>7, <1>8

LEMMA SaveOfConnect ==
  ASSUME SaveInv, NEW p \in Client, Connect(p)
  PROVE  \A q \in Client : SaveOf(q)' /\ WriteOf(q)'
<1> TAKE q \in Client
<1>1. Asked(p) = <<p, cmd[p].call>> /\ cmd[p] \in Commands /\ cmd[p].call \in Call
  BY CommandType DEF SaveInv, TypeInv, Asked
<1>2. cmd \in [Client -> Commands] /\ req \in [Client \X Call -> Requests]
  BY DEF SaveInv, TypeInv, AccessTypeOK
<1>3. CASE q # p
  BY <1>1, <1>2, <1>3, SaveFrame DEF SaveInv, Connect, Goes
<1>4. CASE q = p
  <2> DEFINE new == [NoRequest EXCEPT !.at = "check"]
  <2>1. new \in Requests /\ new.at = "check"
    BY RequestType
  <2>2. req' = [req EXCEPT ![Asked(p)] = new]
    BY DEF Connect
  <2> HIDE DEF new
  <2>3. cmd[p].at = "call" /\ cmd'[p].at = "wait" /\ cmd'[p].call = cmd[p].call
    BY <1>1, <1>2 DEF Connect, Goes, Commands
  <2>4. Asked(p)' = Asked(p) /\ Answer(p)' = "check"
    BY <1>1, <1>2, <2>1, <2>2, <2>3 DEF Asked, Answer
  <2>5. SaveOf(p)'
    BY <2>3, <2>4 DEF SaveInv, SaveOf, Reported, Sure, Connect
  <2>6. \A c \in Call : c # cmd[p].call => req'[<<p, c>>] = req[<<p, c>>]
    BY <1>1, <1>2, <2>2
  <2>7. req'[<<p, cmd[p].call>>].at = "check"
    BY <1>1, <1>2, <2>1, <2>2
  <2>8. WriteOf(p)'
    BY <2>3, <2>6, <2>7 DEF SaveInv, WriteOf, Awaited, Connect
  <2> QED
    BY <1>4, <2>5, <2>8
<1> QED
  BY <1>3, <1>4

LEMMA SaveOfWrites ==
  ASSUME SaveInv, NEW p \in Client, Writes(p)
  PROVE  \A q \in Client : SaveOf(q)' /\ WriteOf(q)'
<1>1. CASE UNCHANGED <<cmd, landed>>
  BY <1>1, SaveFrame DEF SaveInv, Writes
<1>2. CASE Fail(p) /\ Goes(p, "failed") /\ UNCHANGED <<landed, req, unsure>>
  BY <1>2, SaveOfGoes DEF Writes, Reported, Sure
<1>3. CASE Goes(p, "saved") /\ Lands(p) /\ UNCHANGED <<req, unsure>>
  <2> TAKE q \in Client
  <2>1. cmd[p].at = "write" /\ cmd'[p].at = "saved" /\ landed'[p] = landed[p] + 1
        /\ landed[p] \in Nat /\ (q # p => cmd'[q] = cmd[q] /\ landed'[q] = landed[q])
    BY <1>3, CommandType DEF Writes, Goes, Lands, SaveInv, TypeInv, AccessTypeOK, Commands
  <2>2. CASE q # p
    BY <1>3, <2>1, <2>2, SaveFrame DEF SaveInv
  <2>3. CASE q = p
    <3>1. SaveOf(p)'
      BY <1>3, <2>1 DEF SaveInv, SaveOf, Reported, Sure
    <3>2. WriteOf(p)'
      BY <1>3, <2>1 DEF SaveInv, WriteOf, Awaited
    <3> QED
      BY <2>3, <3>1, <3>2
  <2> QED
    BY <2>2, <2>3
<1> QED
  BY <1>1, <1>2, <1>3 DEF Writes

\* The agent's vault became the file: the one who waits for it will know.
LEMMA SaveOfLanding ==
  ASSUME SaveInv, NEW r \in Client \X Call, req[r].at = "write",
         Reply(r, "ok"), Lands(r[1]), UNCHANGED <<cmd, unsure>>
  PROVE  \A q \in Client : SaveOf(q)' /\ WriteOf(q)'
<1> TAKE q \in Client
<1> DEFINE p == r[1]
           new == req'[r]
<1>1. r = <<p, r[2]>> /\ p \in Client /\ r[2] \in Call
  OBVIOUS
<1>2. req \in [Client \X Call -> Requests] /\ landed \in [Client -> Nat]
  BY DEF SaveInv, TypeInv, AccessTypeOK
<1>3. \A s \in Client \X Call : s # r => req'[s] = req[s]
  BY <1>2 DEF Reply, Moves
<1>4. new.at = IF Awaited(r) THEN "ok" ELSE "none"
  BY <1>2, RequestType DEF Reply, Moves, Replies
<1>5. landed'[p] = landed[p] + 1 /\ landed[p] \in Nat /\ (q # p => landed'[q] = landed[q])
  BY <1>1, <1>2 DEF Lands
<1>6. Op(r[2]) = "save" /\ (Awaited(r) \/ unsure[p] \/ cmd[p].at = "dead")
  BY <1>1 DEF SaveInv, WriteOf
<1> HIDE DEF p, new
<1>7. CASE q # p
  BY <1>1, <1>3, <1>5, <1>7, SaveFrame DEF SaveInv
<1>8. CASE q = p
  <2>1. Awaited(r) <=> cmd[p].at = "wait" /\ cmd[p].call = r[2]
    BY <1>1, CommandType DEF Awaited, Asked, SaveInv, TypeInv, p
  <2>2. ASSUME Awaited(r) PROVE SaveOf(p)'
    <3>1. Answer(p) = "write" /\ Answer(p)' = "ok"
      BY <1>1, <1>4, <2>1, <2>2 DEF Answer, Asked, new
    <3>2. SaveOf(p) /\ ~Reported(p) /\ Reported(p)'
      BY <1>1, <1>6, <2>1, <2>2, <3>1 DEF SaveInv, Reported
    <3>3. Sure(p)' => Sure(p)
      BY <3>1 DEF Sure
    <3> QED
      BY <1>5, <3>2, <3>3 DEF SaveOf
  <2>3. ASSUME ~Awaited(r) PROVE SaveOf(p)'
    BY <1>5, <1>6, <2>3 DEF SaveOf, Sure
  <2>4. SaveOf(p)'
    BY <2>2, <2>3
  <2>5. WriteOf(p)'
    BY <1>1, <1>3, <1>4 DEF SaveInv, WriteOf, Awaited, Asked, new
  <2> QED
    BY <1>8, <2>4, <2>5
<1> QED
  BY <1>7, <1>8

LEMMA SaveOfStop ==
  ASSUME SaveInv, StopAgent
  PROVE  \A q \in Client : SaveOf(q)' /\ WriteOf(q)'
<1> TAKE p \in Client
<1> DEFINE closed == [NoRequest EXCEPT !.at = "closed"]
<1>1. req' = [r \in Client \X Call |-> IF Awaited(r) THEN closed ELSE NoRequest]
  BY DEF StopAgent
<1>2. closed.at = "closed" /\ NoRequest.at = "none"
  BY RequestType
<1> HIDE DEF closed
<1>3. Asked(p) \in Client \X Call /\ Asked(p)[1] = p /\ Asked(p)' = Asked(p)
  BY CommandType DEF SaveInv, TypeInv, Asked, StopAgent
<1>4. Answer(p)' = IF cmd[p].at = "wait" THEN "closed" ELSE "none"
  BY <1>1, <1>2, <1>3 DEF Answer, Awaited
<1>5. SaveOf(p)'
  BY <1>4 DEF SaveInv, SaveOf, Reported, Sure, StopAgent
<1>6. WriteOf(p)'
  BY <1>1, <1>2 DEF WriteOf
<1> QED
  BY <1>5, <1>6

\* What the agent does with a request until it writes.
LEMMA SaveOfAgent ==
  ASSUME SaveInv, NEW r \in Client \X Call,
         CheckStep(r) \/ Mismatch(r) \/ Locked(r) \/ Load(r) \/ BeginSave(r) \/ Unlock(r)
           \/ KeystoreAnswers(r) \/ TakeKey(r)
  PROVE  \A q \in Client : SaveOf(q)' /\ WriteOf(q)'
<1>1. CASE Unseen(r)
  <2>1. req[r] \in Requests /\ req[r].at = "check" /\ req' \in [Client \X Call -> Requests]
    BY <1>1, UnseenInBudget DEF Unseen, SaveInv, TypeInv, AccessTypeOK
  <2>2. req'[r].at = "check" /\ \A s \in Client \X Call : s # r => req'[s] = req[s]
    BY <1>1, <2>1 DEF Unseen, SaveInv, TypeInv, AccessTypeOK, Requests
  <2>3. req' = [req EXCEPT ![r] = req'[r]]
    BY <2>1, <2>2 DEF SaveInv, TypeInv, AccessTypeOK
  <2> QED
    BY <1>1, <2>1, <2>2, <2>3, SaveOfRequest DEF Unseen
<1>2. CASE Refuse(r)
  BY <1>2, SaveOfReply DEF Refuse, Replies
<1>3. CASE Mismatch(r)
  BY <1>3, SaveOfReply DEF Mismatch, Runs, Replies
<1>4. CASE Locked(r)
  BY <1>4, SaveOfReply DEF Locked, Runs, Replies
<1>5. CASE Load(r)
  BY <1>5, SaveOfReply DEF Load, Runs, Replies
<1>6. CASE BeginSave(r)
  BY <1>6, SaveOfMoves DEF BeginSave, Runs
<1>7. CASE Unlock(r)
  <2>1. CASE Reply(r, "ok")
    BY <1>7, <2>1, SaveOfReply DEF Unlock, Runs, Replies
  <2>2. CASE Moves(r, "keystore")
    BY <1>7, <2>2, SaveOfMoves DEF Unlock, Runs
  <2> QED
    BY <1>7, <2>1, <2>2 DEF Unlock
<1>8. CASE KeystoreAnswers(r)
  <2>1. Op(r[2]) = "unlock"
    BY <1>8 DEF KeystoreAnswers, SaveInv, WriteOf
  <2> QED
    BY <1>8, <2>1, SaveOfReply DEF KeystoreAnswers, Replies
<1>9. CASE TakeKey(r)
  BY <1>9, SaveOfReply DEF TakeKey, Runs, Replies
<1> QED
  BY <1>1, <1>2, <1>3, <1>4, <1>5, <1>6, <1>7, <1>8, <1>9 DEF CheckStep

LEMMA NextSaveInv == SaveInv /\ [AccessNext]_<<vars, access>> => SaveInv'
<1> SUFFICES ASSUME SaveInv, [AccessNext]_<<vars, access>>
             PROVE  \A p \in Client : SaveOf(p)' /\ WriteOf(p)'
  BY NextTypeInv DEF SaveInv
<1>1. ASSUME NEW r \in Client \X Call, AgentWrites(r)
      PROVE  \A p \in Client : SaveOf(p)' /\ WriteOf(p)'
  <2>1. CASE UNCHANGED <<req, landed>>
    BY <1>1, <2>1, SaveFrame DEF AgentWrites, SaveInv
  <2>2. CASE Reply(r, "ok") /\ Lands(r[1])
    BY <1>1, <2>2, SaveOfLanding DEF AgentWrites
  <2>3. CASE Reply(r, "internal") /\ UNCHANGED landed
    BY <1>1, <2>3, SaveOfReply DEF AgentWrites, Replies
  <2> QED
    BY <1>1, <2>1, <2>2, <2>3 DEF AgentWrites
<1>2. CASE LockAgent \/ StartAgent \/ UNCHANGED <<vars, access>>
  BY <1>2, SaveFrame DEF LockAgent, StartAgent, access, SaveInv
<1> QED
  BY <1>1, <1>2, SaveOfClient, SaveOfConnect, SaveOfWrites, SaveOfStop, SaveOfAgent
     DEF AccessNext, ClientStep

(***************************************************************************)
(* saveVault: a command that says it saved did; and it saved once, unless   *)
(* the answer of the agent was lost.                                        *)
(***************************************************************************)
THEOREM SavesAreOnce == AccessSpec => []SaveOnce
<1>1. SaveInv => SaveOnce
  BY DEF SaveInv, SaveOf, Reported, Sure, SaveOnce, Ends
<1> QED
  BY <1>1, InitSaveInv, NextSaveInv, PTL DEF AccessSpec

(***************************************************************************)
(* The file, as the agent and the commands save it: what each action does   *)
(* to it is an action of AtomicFile, or nothing.                            *)
(***************************************************************************)
LEMMA DropsSave ==
  ASSUME TypeOK, MayDie, NEW p \in Process,
         save' = [save EXCEPT ![p] = NoSave], UNCHANGED <<file, tmp, data>>
  PROVE  [Next]_vars
<1>1. CASE save[p] = NoSave
  BY <1>1 DEF TypeOK, vars
<1>2. CASE save[p] # NoSave
  BY <1>2 DEF Next, Fail, Quit
<1> QED
  BY <1>1, <1>2

LEMMA AccessIsSaving == TypeOK /\ [AccessNext]_<<vars, access>> => [Next]_vars
<1> SUFFICES ASSUME TypeOK, [AccessNext]_<<vars, access>> PROVE [Next]_vars
  OBVIOUS
<1>1. ASSUME NEW p \in Client, Start(p) \/ ClientStep(p) PROVE [Next]_vars
  <2>1. CASE Direct(p)
    BY <2>1, Constants DEF Direct, Next, vars
  <2>2. CASE Writes(p)
    BY <2>2, Constants DEF Writes, Next
  <2> QED
    BY <1>1, <2>1, <2>2 DEF Start, ClientStep, Connect, NoAgent, AnswerOk, AnswerLocked, AnswerError, GiveUp
<1>2. ASSUME NEW p \in Client, Die(p) PROVE [Next]_vars
  BY <1>2, DropsSave, Constants DEF Die, Quit
<1>3. ASSUME NEW r \in Client \X Call, BeginSave(r) \/ AgentWrites(r) PROVE [Next]_vars
  BY <1>3, Constants DEF BeginSave, AgentWrites, Next
<1>4. ASSUME NEW r \in Client \X Call,
             CheckStep(r) \/ Mismatch(r) \/ Locked(r) \/ Load(r) \/ Unlock(r)
               \/ KeystoreAnswers(r) \/ TakeKey(r)
      PROVE  [Next]_vars
  BY <1>4 DEF CheckStep, Unseen, Refuse, Mismatch, Locked, Load, Unlock, KeystoreAnswers, TakeKey
<1>5. ASSUME LockAgent \/ StartAgent PROVE [Next]_vars
  BY <1>5 DEF LockAgent, StartAgent
<1>6. ASSUME StopAgent PROVE [Next]_vars
  <2>1. CASE MayDie
    BY <1>6, <2>1, DropsSave, Constants DEF StopAgent
  <2>2. CASE save[Agent] = NoSave
    BY <1>6, <2>2, Constants DEF StopAgent, TypeOK, vars
  <2> QED
    BY <1>6, <2>1, <2>2 DEF StopAgent
<1>7. CASE UNCHANGED <<vars, access>>
  BY <1>7
<1> QED
  BY <1>1, <1>2, <1>3, <1>4, <1>5, <1>6, <1>7 DEF AccessNext

(***************************************************************************)
(* With one process saving at a time, the agent among them, vault.enc is    *)
(* written whole or not at all, however calls, time-outs, answers, starts   *)
(* and deaths fall.                                                         *)
(***************************************************************************)
THEOREM AccessIsAtomic == Alone => (AccessSpec => Atomic)
<1> SUFFICES ASSUME Alone PROVE AccessSpec => Register!Spec
  BY DEF Atomic
<1>1. AccessInit => Init
  BY DEF AccessInit
<1>2. Init => Register!Init
  BY NoSaveType DEF Init, Register!Init, Value
<1>3. IInv /\ [AccessNext]_<<vars, access>> => [Next]_vars
  BY AccessIsSaving DEF IInv
<1>4. IInv /\ [Next]_vars => IInv'
  BY NextIInv
<1>5. IInv /\ IInv' /\ [Next]_vars => [Register!Next]_Register!vars
  BY Refines
<1> QED
  BY <1>1, <1>2, <1>3, <1>4, <1>5, InitIInv, PTL DEF AccessSpec, Register!Spec
=============================================================================
