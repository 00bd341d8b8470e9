-------------------------------- MODULE Safe --------------------------------
(***************************************************************************)
(* Payments from a Safe (commands/safe.ts): the treasury's wallet is one of *)
(* its owners.  A command reads the vault, the Safe's state on the chain    *)
(* and, for a proposal, its record at the Transaction Service, asks its     *)
(* user, signs with the key the vault has by then, and posts the signature  *)
(* or sends the transaction.                                                *)
(*                                                                         *)
(* Between any two of these steps other commands run, the treasury is made  *)
(* anew, co-signers sign and execute, and the Safe changes its owners; the  *)
(* service may hand out a record that is not the one proposed; a post may   *)
(* arrive and its answer be lost, and a transaction mined and not seen to   *)
(* be.  A transaction's hash is the transaction.  Balances and gas prices,  *)
(* which only make a command stop before it asks, are left out, and so are  *)
(* --dry-run and status.                                                    *)
(***************************************************************************)
EXTENDS Naturals, FiniteSets

CONSTANTS
  Process,      \* commands running at a time
  Address,      \* where a Safe is, or can be deployed
  NoSafe,
  Payee,
  MaxWallet,    \* bound on the treasuries made: wallets 1..MaxWallet
  Cosigner,     \* owners that are not the treasury
  User,         \* who runs abra, whatever the treasury's wallet
  Setups,       \* the owners and thresholds a Safe is given
  Chain0,       \* the states of the Safes to start from
  Lies,         \* what the service may make up: of "fields", "confirmations"
  MaxNonce,     \* bound on a transaction's nonce
  MaxCommand,   \* bound on the commands of a behaviour
  MaxChange     \* bound on changes of owners

Wallet   == 1..MaxWallet
Owner    == Wallet \cup Cosigner
PersonOf(o) == IF o \in Wallet THEN User ELSE o

Nonce == 0..MaxNonce
Tx    == [safe : Address, to : Payee, nonce : Nonce]
SafeInfo == [owners : SUBSET Owner, threshold : Nat, nonce : Nat]
NoCode   == [owners |-> {}, threshold |-> 0, nonce |-> 0]
Vault    == [treasury : Wallet, safe : Address \cup {NoSafe}]

ASSUME SafeAssumption ==
  /\ NoSafe \notin Address /\ IsFiniteSet(Cosigner) /\ Cosigner \cap (Wallet \cup {User, 0}) = {}
  /\ MaxWallet \in Nat \ {0} /\ MaxNonce \in Nat /\ MaxCommand \in Nat /\ MaxChange \in Nat
  /\ \A u \in Setups : u.owners \subseteq Owner /\ u.owners # {} /\ u.threshold \in Nat \ {0}
  /\ \A c \in Chain0 : c \in [Address -> SafeInfo] /\ \A a \in Address : c[a].owners = {} => c[a] = NoCode

VARIABLES
  vault,
  chain,     \* of each address: owners, threshold, nonce; NoCode where no Safe is
  proposed,  \* the service's transactions
  confirmed, \* <<owner, transaction>>: the signatures the service has
  cmd,       \* what each process is doing
  begun, changed,   \* how many commands have begun, how often owners changed
  shown,     \* what each person was shown and approved
  paid,      \* the transactions executed
  sent       \* what is recorded of each execTransaction sent, for the properties
outside == <<chain, proposed, confirmed, changed, paid>>
vars == <<vault, outside, cmd, begun, shown, sent>>

(***************************************************************************)
(* base: the vault as loaded; signer, info: the treasury and the Safe as    *)
(* read then; tx: what the command is asked for, fields: what the service   *)
(* said it is; sigs: the signatures it goes by; ask: what its user is asked *)
(* for, agreed: what was agreed to; honest: did the service tell the truth. *)
(***************************************************************************)
NoTx == [safe |-> NoSafe, to |-> NoSafe, nonce |-> 0]
Idle == [at |-> "idle", kind |-> "pay", base |-> [treasury |-> 1, safe |-> NoSafe], signer |-> 1,
         info |-> NoCode, tx |-> NoTx, fields |-> NoTx, sigs |-> {}, ask |-> {}, agreed |-> {},
         honest |-> TRUE]

Sig  == [owner : Owner, by : Wallet \cup Cosigner \cup {0}]
Asks == {"create", "sign", "execute"}
Command ==
  [at : {"idle", "approve", "deploy", "sign", "post", "send", "save"},
   kind : {"link", "unlink", "create", "pay", "confirm", "exec"},
   base : Vault, signer : Wallet, info : SafeInfo, tx : Tx \cup {NoTx}, fields : Tx \cup {NoTx},
   sigs : SUBSET Sig, ask : SUBSET Asks, agreed : SUBSET Asks, honest : BOOLEAN]

TypeOK ==
  /\ vault \in Vault /\ chain \in [Address -> SafeInfo]
  /\ proposed \subseteq Tx /\ confirmed \subseteq Owner \X Tx
  /\ begun \in 0..MaxCommand /\ changed \in 0..MaxChange
  /\ shown \subseteq ({User} \cup Cosigner) \X Tx /\ paid \subseteq Tx
  /\ cmd \in [Process -> Command]

\* getSafeInfo() fails where there is no code.
Deployed(s) == chain[s].owners # {}

Init ==
  /\ chain \in Chain0
  /\ \E s \in {a \in Address : Deployed(a)} \cup {NoSafe} : vault = [treasury |-> 1, safe |-> s]
  /\ proposed = {} /\ confirmed = {} /\ begun = 0 /\ changed = 0
  /\ cmd = [p \in Process |-> Idle]
  /\ shown = {} /\ paid = {} /\ sent = {}

At(p, at)   == cmd[p].at = at
Goes(p, c)  == cmd' = [cmd EXCEPT ![p] = c]
Begin(p, c) == At(p, "idle") /\ begun < MaxCommand /\ begun' = begun + 1 /\ Goes(p, c)

\* The command is over: done, refused, failed or dead.
Leave(p) == ~At(p, "idle") /\ Goes(p, Idle) /\ UNCHANGED <<vault, outside, begun, shown, sent>>

(***************************************************************************)
(* Linking a Safe.  The vault is saved as it was loaded.                    *)
(***************************************************************************)
linkSafe(p, s) ==
  /\ Deployed(s)
  /\ Begin(p, [Idle EXCEPT !.at = "save", !.kind = "link", !.base = [vault EXCEPT !.safe = s]])
  /\ UNCHANGED <<vault, outside, shown, sent>>

unlinkSafe(p) ==
  /\ vault.safe # NoSafe
  /\ Begin(p, [Idle EXCEPT !.at = "save", !.kind = "unlink", !.base = [vault EXCEPT !.safe = NoSafe]])
  /\ UNCHANGED <<vault, outside, shown, sent>>

\* createSafe(), at the address the factory predicts for the setup and the salt.
createSafe(p, s, u) ==
  /\ vault.safe = NoSafe /\ ~Deployed(s) /\ vault.treasury \in u.owners
  /\ Begin(p, [Idle EXCEPT !.at = "approve", !.kind = "create", !.ask = {"create"},
                 !.base = [vault EXCEPT !.safe = s],
                 !.info = [owners |-> u.owners, threshold |-> u.threshold, nonce |-> 0]])
  /\ UNCHANGED <<vault, outside, shown, sent>>

\* A slip: a deployment that was not mined is linked, too.
DeployUnseen(p) ==
  /\ At(p, "deploy")
  /\ Goes(p, [cmd[p] EXCEPT !.at = "save", !.base = [vault EXCEPT !.safe = cmd[p].base.safe]])
  /\ UNCHANGED <<vault, outside, begun, shown, sent>>

\* The deployment, with the vault loaded again: seen mined, mined, or neither.
Deploy(p) ==
  LET s == cmd[p].base.safe IN
  /\ At(p, "deploy")
  /\ \/ /\ ~Deployed(s) /\ chain' = [chain EXCEPT ![s] = cmd[p].info]
        /\ \/ Goes(p, [cmd[p] EXCEPT !.at = "save", !.base = [vault EXCEPT !.safe = s]])
           \/ Goes(p, Idle)
     \/ Goes(p, Idle) /\ UNCHANGED chain
  /\ UNCHANGED <<vault, proposed, confirmed, changed, paid, begun, shown, sent>>

storeSafeAddress(p) ==
  /\ At(p, "save")
  /\ vault' = cmd[p].base /\ Goes(p, Idle)
  /\ UNCHANGED <<outside, begun, shown, sent>>

(***************************************************************************)
(* Reading what there is to sign or execute.                                *)
(***************************************************************************)
planSafePayment(threshold) == IF threshold = 1 THEN "execute" ELSE "propose"

\* payFromSafe(): without --nonce, the Safe's next.
payFromSafe(p, to, nonce) ==
  LET s == vault.safe
      t == [safe |-> s, to |-> to, nonce |-> nonce]
  IN
  /\ s # NoSafe /\ Deployed(s) /\ vault.treasury \in chain[s].owners
  /\ nonce >= chain[s].nonce
  /\ Begin(p, [Idle EXCEPT !.at = "approve", !.kind = "pay", !.signer = vault.treasury,
                 !.info = chain[s], !.tx = t, !.fields = t,
                 !.ask = IF planSafePayment(chain[s].threshold) = "execute" THEN {"sign", "execute"}
                         ELSE {"sign"}])
  /\ UNCHANGED <<vault, outside, shown, sent>>

\* The record the service answers with, and whether it is the one proposed.
Records(t) ==
  {[fields |-> t, sigs |-> {[owner |-> x[1], by |-> x[1]] : x \in {y \in confirmed : y[2] = t}},
    honest |-> TRUE]}
  \cup (IF "fields" \in Lies THEN {[fields |-> f, sigs |-> {}, honest |-> FALSE] : f \in Tx} ELSE {})
  \cup (IF "confirmations" \in Lies
        THEN {[fields |-> t, sigs |-> {[owner |-> o, by |-> 0]}, honest |-> FALSE] : o \in Cosigner} ELSE {})

\* The hash is computed anew, by the Safe.  A slip: it is taken for granted.
AnyFields(t, rec) == rec.fields.safe = t.safe
Recomputes(t, rec) == rec.fields.safe = t.safe /\ rec.fields = t

\* Confirmations of owners only.  A slip: of anyone who signed.
EverySig(info, rec) == rec.sigs
OwnersSigs(info, rec) == {c \in rec.sigs : c.owner \in info.owners}

\* loadVerifiedServiceTx(): c, with what was read and found in order.
Verified(c, t, rec) ==
  [c EXCEPT !.tx = t, !.fields = rec.fields, !.info = chain[t.safe], !.honest = rec.honest,
            !.sigs = OwnersSigs(chain[t.safe], rec), !.signer = vault.treasury]
loadVerifiedServiceTx(t, rec) ==
  t.safe = vault.safe /\ t \in proposed /\ t \notin paid /\ Deployed(t.safe) /\ Recomputes(t, rec)

\* executeVerified(), up to the approval.  A slip: the nonce is not looked at.
EnoughAnyNonce(c) == Cardinality(c.sigs) >= c.info.threshold
Executable(c) == Cardinality(c.sigs) >= c.info.threshold /\ c.tx.nonce = c.info.nonce

Signed(c) == \E x \in c.sigs : x.owner = c.signer

\* confirmSafeTx(): sign, unless it is signed; with --exec, execute if that is enough.
confirmSafeTx(p, t, exec) ==
  \E rec \in Records(t) :
    LET c == Verified([Idle EXCEPT !.kind = "confirm", !.at = "approve"], t, rec) IN
    /\ loadVerifiedServiceTx(t, rec) /\ c.signer \in c.info.owners
    /\ Signed(c) => exec /\ Executable(c)
    /\ Begin(p, [c EXCEPT !.ask = (IF Signed(c) THEN {} ELSE {"sign"})
                                   \cup (IF exec THEN {"execute"} ELSE {})])
    /\ UNCHANGED <<vault, outside, shown, sent>>

execSafeTx(p, t) ==
  \E rec \in Records(t) :
    LET c == Verified([Idle EXCEPT !.kind = "exec", !.at = "approve"], t, rec) IN
    /\ loadVerifiedServiceTx(t, rec) /\ Executable(c)
    /\ Begin(p, [c EXCEPT !.ask = {"execute"}])
    /\ UNCHANGED <<vault, outside, shown, sent>>

(***************************************************************************)
(* authenticate(): the user reads what the transaction does, and approves.  *)
(***************************************************************************)
Approve(p) ==
  LET c == cmd[p] IN
  /\ At(p, "approve")
  /\ Goes(p, [c EXCEPT !.agreed = c.ask,
                !.at = CASE c.kind = "create" -> "deploy" [] "sign" \in c.ask -> "sign" [] OTHER -> "send"])
  /\ shown' = IF "sign" \in c.ask THEN shown \cup {<<User, c.fields>>} ELSE shown
  /\ UNCHANGED <<vault, outside, begun, sent>>

\* signHash(), with the key the vault has by now; the signature is the signer's by name.
signHash(p) ==
  LET c == cmd[p]
      mine == [owner |-> c.signer, by |-> vault.treasury]
  IN
  /\ At(p, "sign")
  /\ Goes(p, [c EXCEPT !.sigs = @ \cup {mine},
                !.at = IF c.kind = "pay" /\ "execute" \in c.agreed THEN "send" ELSE "post"])
  /\ UNCHANGED <<vault, outside, begun, shown, sent>>

(***************************************************************************)
(* proposeToService() and confirmOnService().  The service takes what an    *)
(* owner of the Safe has signed; the answer may be lost.  A command that    *)
(* has confirmed and is to execute goes on if it has seen it taken.         *)
(***************************************************************************)
MySig(c) == CHOOSE x \in c.sigs : x.owner = c.signer

ServiceTakes(c) ==
  /\ MySig(c).by \in chain[c.tx.safe].owners
  /\ c.kind = "pay" => MySig(c).by = c.signer
  /\ proposed' = proposed \cup {c.tx}
  /\ confirmed' = confirmed \cup {<<MySig(c).by, c.tx>>}

\* A slip: it executes what is enough, asked to or not.
ExecutesAnyway(c) == IF c.kind = "confirm" /\ Executable(c) THEN [c EXCEPT !.at = "send"] ELSE Idle
AfterPost(c) ==
  IF c.kind = "confirm" /\ "execute" \in c.agreed /\ Executable(c) THEN [c EXCEPT !.at = "send"] ELSE Idle

Post(p) ==
  /\ At(p, "post")
  /\ \/ ServiceTakes(cmd[p]) /\ (Goes(p, AfterPost(cmd[p])) \/ Goes(p, Idle))
     \/ Goes(p, Idle) /\ UNCHANGED <<proposed, confirmed>>
  /\ UNCHANGED <<vault, chain, changed, paid, begun, shown, sent>>

(***************************************************************************)
(* The Safe contract.  It pays the transaction with its next nonce, signed  *)
(* by as many of its owners as its threshold.                               *)
(***************************************************************************)
Accepts(t, sigs) ==
  /\ t.nonce = chain[t.safe].nonce
  /\ Cardinality(sigs) >= chain[t.safe].threshold
  /\ \A x \in sigs : x.by = x.owner /\ x.owner \in chain[t.safe].owners

Executes(t) ==
  /\ chain' = [chain EXCEPT ![t.safe].nonce = @ + 1]
  /\ paid' = paid \cup {t}

\* Is all as the command read it: the Safe, and the treasury when it signed, by an
\* honest service?
AsRead(c) == c.honest /\ chain[c.tx.safe] = c.info /\ \A x \in c.sigs : x.by = x.owner

\* execTransaction(), with as many signatures as the threshold.
execTransaction(p) ==
  LET c == cmd[p] IN
  /\ At(p, "send")
  /\ \E sigs \in SUBSET c.sigs :
       /\ Cardinality(sigs) = c.info.threshold
       /\ sent' = sent \cup {[tx |-> c.tx, kind |-> c.kind, agreed |-> c.agreed, asRead |-> AsRead(c),
                              next |-> c.tx.nonce = c.info.nonce, accepted |-> Accepts(c.tx, sigs)]}
       /\ \/ Accepts(c.tx, sigs) /\ Executes(c.tx)
          \/ UNCHANGED <<chain, paid>>
  /\ Goes(p, Idle)
  /\ UNCHANGED <<vault, proposed, confirmed, changed, begun, shown>>

(***************************************************************************)
(* Everyone else.                                                           *)
(***************************************************************************)
\* initTreasury(), with --force: the old key is gone.
initTreasury ==
  /\ vault.treasury < MaxWallet
  /\ vault' = [vault EXCEPT !.treasury = @ + 1]
  /\ UNCHANGED <<outside, cmd, begun, shown, sent>>

\* In the Safe app a co-signer proposes a payment, or reads one and signs it, or
\* executes it.
Cosign(o, t) ==
  /\ t.nonce >= chain[t.safe].nonce /\ o \in chain[t.safe].owners /\ <<o, t>> \notin confirmed
  /\ proposed' = proposed \cup {t}
  /\ shown' = shown \cup {<<o, t>>}
  /\ confirmed' = confirmed \cup {<<o, t>>}
  /\ UNCHANGED <<vault, chain, changed, paid, cmd, begun, sent>>

AppExecutes(t) ==
  /\ t \in proposed
  /\ \E S \in SUBSET {x[1] : x \in {y \in confirmed : y[2] = t}} :
       Accepts(t, {[owner |-> o, by |-> o] : o \in S}) /\ Executes(t)
  /\ UNCHANGED <<vault, proposed, confirmed, changed, cmd, begun, shown, sent>>

\* The Safe's owners or threshold change, by a transaction of its own.
ChangeOwners(s, u) ==
  /\ Deployed(s) /\ changed < MaxChange
  /\ changed' = changed + 1
  /\ chain' = [chain EXCEPT ![s] = [owners |-> u.owners, threshold |-> u.threshold, nonce |-> @.nonce + 1]]
  /\ UNCHANGED <<vault, proposed, confirmed, paid, cmd, begun, shown, sent>>

Next ==
  \/ \E p \in Process :
       \/ Leave(p) \/ Deploy(p) \/ storeSafeAddress(p) \/ Approve(p) \/ signHash(p) \/ Post(p)
       \/ execTransaction(p) \/ unlinkSafe(p)
       \/ \E s \in Address : linkSafe(p, s) \/ \E u \in Setups : createSafe(p, s, u)
       \/ \E to \in Payee, n \in Nonce : payFromSafe(p, to, n)
       \/ \E t \in proposed : execSafeTx(p, t) \/ \E exec \in BOOLEAN : confirmSafeTx(p, t, exec)
  \/ initTreasury
  \/ \E t \in proposed : AppExecutes(t)
  \/ \E t \in Tx, o \in Cosigner : Cosign(o, t)
  \/ \E s \in Address, u \in Setups : ChangeOwners(s, u)

Spec == Init /\ [][Next]_vars

(***************************************************************************)
(* Properties.                                                              *)
(***************************************************************************)
\* A Safe pays only what enough of its owners were shown and approved, each nonce once:
\* the treasury signs nothing but what its user has read, whatever the service answers,
\* however old the reading (safe.ts: loadVerifiedServiceTx, payFromSafe, confirmSafeTx).
Multi == INSTANCE Multisig WITH Safe <- Address, Person <- {User} \cup Cosigner
IsMultisig == Multi!Spec

\* Every execTransaction sent was agreed to as one, in the same command: confirm --exec
\* asks no second time only because its one question said so (safe.ts: executeVerified).
ExecutionAgreed == \A x \in sent : "execute" \in x.agreed

\* What is sent while the Safe and the treasury still are as the command read them is
\* accepted: the checks before sending are those of the contract, and stale owners'
\* signatures are not sent (safe.ts: executeVerified, packSignatures).  Not so for
\* safe pay --nonce above the next on a Safe with threshold 1, which can only fail.
NothingSentInVain == \A x \in sent : x.asRead /\ (x.kind = "pay" => x.next) => x.accepted

\* The linked Safe is on the chain, whichever commands race to link one: createSafe
\* links what it has seen deployed (safe.ts: createSafe, linkSafe).
LinkedIsDeployed == vault.safe # NoSafe => Deployed(vault.safe)
=============================================================================
