----------------------------- MODULE MCPairing -----------------------------
\* A listener of either role, whose vault is new or knows a machine that had the
\* connector's hostname before, and a connector that takes what is left, or names
\* a role and replaces; it may dial again while its first connection is still there.
EXTENDS Pairing, TLC

CONSTANTS a, b, p, q

MCMachine  == {a, b}
MCListener == {a}
MCHostName == a :> p @@ b :> q
MCId       == 1..MaxIdentity
MCVaults0  == {[own |-> 1, peers |-> [i \in MCId |-> IF i = MaxIdentity
                 THEN [name |-> q, ed |-> i, x |-> i, role |-> "receiver"] ELSE NoPeer]]}
MCListens  == {[role |-> "source",   name |-> NoName, replace |-> FALSE],
               [role |-> "receiver", name |-> q,      replace |-> TRUE]}
MCConnects == {[role |-> "any",      name |-> NoName, replace |-> FALSE],
               [role |-> "receiver", name |-> p,      replace |-> TRUE]}
=============================================================================
