--------------------------- MODULE FileRegister ---------------------------
(***************************************************************************)
(* What abra counts on from a file it replaces: a save takes effect whole   *)
(* or not at all.  "Vault writes are atomic (tmp + rename)" (README.md).    *)
(***************************************************************************)
CONSTANTS Process, Content, NoContent

VARIABLES
  value,   \* what a reader finds; NoContent if there is no file
  saving   \* what each process is about to save
vars == <<value, saving>>

Init == value = NoContent /\ saving = [p \in Process |-> NoContent]

Begin(p, c) ==
  /\ saving[p] = NoContent
  /\ saving' = [saving EXCEPT ![p] = c]
  /\ UNCHANGED value

Commit(p) ==
  /\ saving[p] # NoContent
  /\ value' = saving[p]
  /\ saving' = [saving EXCEPT ![p] = NoContent]

\* The save fails, or its process dies.
Abandon(p) ==
  /\ saving[p] # NoContent
  /\ saving' = [saving EXCEPT ![p] = NoContent]
  /\ UNCHANGED value

Next == \E p \in Process : Commit(p) \/ Abandon(p) \/ \E c \in Content : Begin(p, c)

Spec == Init /\ [][Next]_vars
=============================================================================
