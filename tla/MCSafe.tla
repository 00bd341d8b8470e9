------------------------------- MODULE MCSafe -------------------------------
(***************************************************************************)
(* Two Safes: safe1 is deployed, safe2 is not.  The treasury, a co-signer.  *)
(***************************************************************************)
EXTENDS Safe

CONSTANTS safe1, safe2, bob

MCSetups == {[owners |-> {1, bob}, threshold |-> 2], [owners |-> {1}, threshold |-> 1]}
MCChain0 == {[a \in Address |-> IF a = safe1 THEN [owners |-> u.owners, threshold |-> u.threshold, nonce |-> 0]
                                ELSE NoCode] : u \in MCSetups}
=============================================================================
