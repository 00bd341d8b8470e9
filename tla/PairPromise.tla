---------------------------- MODULE PairPromise ----------------------------
(***************************************************************************)
(* What `abra sync pair` promises of each session: neither side writes its  *)
(* peer before the people at both have confirmed, and a side is told that   *)
(* the other has saved only when it has.                                    *)
(***************************************************************************)
CONSTANT Session

VARIABLES yes, wrote, told   \* the sides that have confirmed, written, been told
vars == <<yes, wrote, told>>

Side == {"listener", "connector"}

Init ==
  /\ yes   = [s \in Session |-> {}]
  /\ wrote = [s \in Session |-> {}]
  /\ told  = [s \in Session |-> {}]

Confirm(s, d) ==
  /\ yes' = [yes EXCEPT ![s] = @ \cup {d}]
  /\ UNCHANGED <<wrote, told>>

Write(s, d) ==
  /\ yes[s] = Side
  /\ wrote' = [wrote EXCEPT ![s] = @ \cup {d}]
  /\ UNCHANGED <<yes, told>>

Tell(s, d) ==
  /\ wrote[s] = Side
  /\ told' = [told EXCEPT ![s] = @ \cup {d}]
  /\ UNCHANGED <<yes, wrote>>

Next == \E s \in Session, d \in Side : Confirm(s, d) \/ Write(s, d) \/ Tell(s, d)

Spec == Init /\ [][Next]_vars
=============================================================================
