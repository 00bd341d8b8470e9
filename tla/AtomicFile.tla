---------------------------- MODULE AtomicFile ----------------------------
(***************************************************************************)
(* How abra replaces vault.enc (writeEncryptedVaultFile), master.key.enc,   *)
(* sync-state.json and unlock-attempts.json: <file>.tmp is opened and       *)
(* emptied, written, and renamed to <file>.  The name of the temporary file *)
(* is always the same, so processes that save at the same time share it.    *)
(*                                                                         *)
(* A file is an inode, which outlives its name while it is open; what is    *)
(* written is a number of chunks, and any process can die at any time.      *)
(***************************************************************************)
EXTENDS Naturals

CONSTANTS
  Process,
  Content,    \* what can be saved
  MaxSize,    \* bound on the chunks of a content
  Size,       \* of each content, in chunks
  NoContent,
  Torn,       \* what a reader finds that nobody saved
  Inode, NoInode,
  Alone,      \* is at most one process saving at a time
  MayDie      \* can calls fail and processes die

ASSUME FileAssumption ==
  /\ MaxSize \in Nat /\ Size \in [Content -> 1..MaxSize]
  /\ NoContent \notin Content /\ Torn \notin Content /\ Torn # NoContent
  /\ NoInode \notin Inode
  /\ Alone \in BOOLEAN /\ MayDie \in BOOLEAN

VARIABLES
  file, tmp,  \* the inodes <file> and <file>.tmp name
  data,       \* whose chunk is at each position of an inode
  save        \* the save each process is at
vars == <<file, tmp, data, save>>

Chunks == [1..MaxSize -> Content \cup {NoContent}]
Empty  == [i \in 1..MaxSize |-> NoContent]
Whole(c) == [i \in 1..MaxSize |-> IF i <= Size[c] THEN c ELSE NoContent]

\* at: not saving, about to open, writing.  done: the chunks written.
Saves == [at : {"idle", "open", "write"}, content : Content \cup {NoContent},
          inode : Inode \cup {NoInode}, done : 0..MaxSize]
NoSave == [at |-> "idle", content |-> NoContent, inode |-> NoInode, done |-> 0]

TypeOK ==
  /\ file \in Inode \cup {NoInode} /\ tmp \in Inode \cup {NoInode}
  /\ data \in [Inode -> Chunks]
  /\ save \in [Process -> Saves]

Init ==
  /\ file = NoInode /\ tmp = NoInode
  /\ data = [i \in Inode |-> Empty]
  /\ save = [p \in Process |-> NoSave]

Quit(p) == save' = [save EXCEPT ![p] = NoSave]

Begin(p, c) ==
  /\ save[p] = NoSave
  /\ Alone => \A q \in Process : save[q] = NoSave
  /\ save' = [save EXCEPT ![p] = [NoSave EXCEPT !.at = "open", !.content = c]]
  /\ UNCHANGED <<file, tmp, data>>

Unused(i) == i # file /\ i # tmp /\ \A q \in Process : save[q].inode # i

\* open(<file>.tmp, O_CREAT | O_TRUNC)
OpenTmp(p) ==
  /\ save[p].at = "open"
  /\ IF tmp # NoInode THEN tmp' = tmp ELSE \E i \in Inode : Unused(i) /\ tmp' = i
  /\ data' = [data EXCEPT ![tmp'] = Empty]
  /\ save' = [save EXCEPT ![p].at = "write", ![p].inode = tmp']
  /\ UNCHANGED file

MoreToWrite(p) == save[p].done < Size[save[p].content]

WriteChunk(p) ==
  /\ save[p].at = "write" /\ MoreToWrite(p)
  /\ data' = [data EXCEPT ![save[p].inode][save[p].done + 1] = save[p].content]
  /\ save' = [save EXCEPT ![p].done = save[p].done + 1]
  /\ UNCHANGED <<file, tmp>>

\* A slip: renamed before all of it is written.
Started(p) == save[p].done > 0
Written(p) == save[p].done = Size[save[p].content]

\* rename(<file>.tmp, <file>): of whatever has the name by now.
Rename(p) ==
  /\ save[p].at = "write" /\ Written(p) /\ tmp # NoInode
  /\ file' = tmp /\ tmp' = NoInode
  /\ Quit(p)
  /\ UNCHANGED data

\* The rename finds no file; or a call fails, or the process dies.
Fail(p) ==
  /\ save[p] # NoSave
  /\ MayDie \/ (save[p].at = "write" /\ Written(p) /\ tmp = NoInode)
  /\ Quit(p)
  /\ UNCHANGED <<file, tmp, data>>

Next ==
  \E p \in Process :
    \/ \E c \in Content : Begin(p, c)
    \/ OpenTmp(p) \/ WriteChunk(p) \/ Rename(p) \/ Fail(p)

Spec == Init /\ [][Next]_vars
-----------------------------------------------------------------------------
Value ==
  IF file = NoInode THEN NoContent
  ELSE IF \E c \in Content : data[file] = Whole(c)
       THEN CHOOSE c \in Content : data[file] = Whole(c)
  ELSE Torn

(***************************************************************************)
(* One process at a time, which may die at any point and leave any file.tmp *)
(* behind: the file is a register that saves replace whole or not at all.   *)
(***************************************************************************)
Register == INSTANCE FileRegister WITH value <- Value, saving <- [p \in Process |-> save[p].content]
Atomic == Register!Spec
=============================================================================
