------------------------------ MODULE Multisig ------------------------------
(***************************************************************************)
(* What a Safe promises its owners: it pays what enough of its owners have  *)
(* been shown and have approved, one payment for each of its nonces.        *)
(***************************************************************************)
EXTENDS Naturals

CONSTANTS
  Safe,        \* addresses of Safes
  Payee,
  Person,      \* the people behind the owners
  PersonOf(_)  \* of an owner's address

VARIABLES
  chain,    \* of each Safe: owners, threshold and nonce
  shown,    \* <<person, transaction>>: what each has seen and approved
  paid      \* the transactions the Safes have executed
vars == <<chain, shown, paid>>

\* As many different owners as the threshold, one by one, whose people approved t.
Backed(t) ==
  \E f \in [1..chain[t.safe].threshold -> chain[t.safe].owners] :
    /\ \A i, j \in DOMAIN f : f[i] = f[j] => i = j
    /\ \A i \in DOMAIN f : <<PersonOf(f[i]), t>> \in shown

Init == shown = {} /\ paid = {}

Approve(x) == x \in Person \X [safe : Safe, to : Payee, nonce : Nat] /\ shown' = shown \cup {x}
                /\ UNCHANGED <<chain, paid>>

Pay(t) ==
  /\ t.nonce = chain[t.safe].nonce /\ Backed(t)
  /\ chain' = [chain EXCEPT ![t.safe].nonce = @ + 1]
  /\ paid' = paid \cup {t}
  /\ UNCHANGED shown

\* A Safe is deployed, or changes its owners or threshold.
Change(s) ==
  /\ chain' = [chain EXCEPT ![s] = chain'[s]] /\ chain'[s].nonce >= chain[s].nonce
  /\ UNCHANGED <<shown, paid>>

Next ==
  \/ \E x \in shown' : Approve(x)
  \/ \E t \in paid' : Pay(t)
  \/ \E s \in Safe : Change(s)

Spec == Init /\ [][Next]_vars
=============================================================================
