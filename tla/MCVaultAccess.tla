--------------------------- MODULE MCVaultAccess ---------------------------
(***************************************************************************)
(* Instances of VaultAccess: a client that is abra's CLI and one that may   *)
(* be, under another node or for another vault.                             *)
(***************************************************************************)
EXTENDS VaultAccess, TLC

CONSTANTS c1, c2, p1, p2, agentd
Sizes == (c1 :> 1) @@ (c2 :> 2)
Owns == (p1 :> c1) @@ (p2 :> c2)
Calling == {"load", "save", "key"} \X {"try", "unlock", "again"}

Cli == [exe |-> "same", exePath |-> TRUE, options |-> "clean", argv |-> "script",
        cwd |-> "absolute", script |-> "same", scriptPath |-> TRUE, bound |-> TRUE]
Found == (p1 :> {Cli}) @@ (p2 :> {[Cli EXCEPT !.exe = "other"], [Cli EXCEPT !.bound = FALSE]})
=============================================================================
