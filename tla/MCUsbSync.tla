----------------------------- MODULE MCUsbSync -----------------------------
(* Instances of UsbSync for TLC. *)
EXTENDS UsbSync, TLC

CONSTANTS m1, m2, id1, id2, p1, k1, e1

HomeTwo  == [m \in Machine |-> IF m = m1 THEN id1 ELSE NoIdentity]
HomeNone == [m \in Machine |-> NoIdentity]

\* A bundle of an old release: m1's identity inside, and no lineage.
OldBundle == [ vault   |-> MadeIdentity(SetVar(EmptyVault, p1, k1, e1), id1),
               lineage |-> NoLineage ]
LegacyOld  == {OldBundle}
LegacyNone == {}
=============================================================================
