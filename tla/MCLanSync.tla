----------------------------- MODULE MCLanSync -----------------------------
(* Instances of LanSync for TLC. *)
EXTENDS LanSync, TLC

CONSTANTS e1, e2

\* Every entry says something else.
ContentAll == [e \in Entry |-> e]

\* Each machine types its own entries; or both type all of them.
TypedOwn    == (Host :> {e1}) @@ [c \in Client |-> {e2}]
TypedShared == [m \in Machine |-> Entry]
=============================================================================
