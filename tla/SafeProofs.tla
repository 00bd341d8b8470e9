----------------------------- MODULE SafeProofs -----------------------------
(***************************************************************************)
(* Proofs about payments from a Safe, for any processes, owners, payees,    *)
(* setups and lies of the service: types, that nothing is executed that was *)
(* not agreed to, that what is linked is deployed, and that the commands,   *)
(* the service and the contract together are a multi-signature wallet.      *)
(***************************************************************************)
EXTENDS Safe, FiniteSetTheorems, TLAPS

(***************************************************************************)
(* A set of signatures the contract accepts holds as many owners, shown     *)
(* what they signed, as the threshold.                                      *)
(***************************************************************************)
LEMMA FiniteOwners == IsFiniteSet(Owner)
<1>1. 1 \in Int /\ MaxWallet \in Int /\ IsFiniteSet(Cosigner)
  BY SafeAssumption
<1>2. IsFiniteSet(Wallet)
  BY <1>1, FS_Interval DEF Wallet
<1> QED
  BY <1>1, <1>2, FS_Union DEF Owner

Vouched(sigs, t) == \A x \in sigs : x.by = x.owner => <<PersonOf(x.owner), t>> \in shown

LEMMA AcceptedIsBacked ==
  ASSUME TypeOK, NEW t \in Tx, NEW sigs \in SUBSET Sig, Accepts(t, sigs), Vouched(sigs, t)
  PROVE  Multi!Backed(t)
<1> DEFINE k == chain[t.safe].threshold
           os == chain[t.safe].owners
           ownerOf == [x \in sigs |-> x.owner]
<1>1. os \subseteq Owner /\ k \in Nat /\ Cardinality(sigs) >= k
  BY DEF TypeOK, Tx, SafeInfo, Accepts
<1>2. \A x \in sigs : /\ x.by = x.owner /\ x.owner \in os
                      /\ x = [owner |-> x.owner, by |-> x.by]
  BY DEF Accepts, Sig
<1>3. ownerOf \in Injection(sigs, Owner)
  BY <1>1, <1>2 DEF Injection, IsInjective
<1> HIDE DEF ownerOf
<1>4. IsFiniteSet(sigs)
  BY <1>3, FiniteOwners, FS_Injection
<1>5. Cardinality(sigs) \in Nat /\ ExistsBijection(1..Cardinality(sigs), sigs)
  BY <1>4, FS_CardinalityType
<1>6. PICK f : f \in Bijection(1..Cardinality(sigs), sigs)
  BY <1>5 DEF ExistsBijection
<1>7. \A i \in 1..k : i \in 1..Cardinality(sigs)
  BY <1>1, <1>5
<1>8. \A i \in 1..k : f[i] \in sigs
  BY <1>6, <1>7 DEF Bijection, Injection
<1>9. \A i, j \in 1..k : f[i] = f[j] => i = j
  BY <1>6, <1>7 DEF Bijection, Injection, IsInjective
<1> DEFINE g == [i \in 1..k |-> f[i].owner]
<1>10. g \in [1..k -> os] /\ DOMAIN g = 1..k
  BY <1>2, <1>8
<1>11. \A i, j \in 1..k : g[i] = g[j] => i = j
  BY <1>2, <1>8, <1>9
<1>12. \A i \in 1..k : <<PersonOf(g[i]), t>> \in shown
  BY <1>2, <1>8 DEF Vouched
<1> HIDE DEF g
<1> QED
  BY <1>10, <1>11, <1>12 DEF Multi!Backed

(***************************************************************************)
(* What a command holds at each step.  fields is what its user is asked for *)
(* and tx what it signs: the same, as the hash was computed anew.           *)
(***************************************************************************)
Asking(c) ==
  /\ c.fields = c.tx
  /\ c.at = "approve" /\ c.kind = "create" => c.ask = {"create"}
  /\ c.at \in {"approve", "deploy"} /\ c.kind = "create" =>
       c.base.safe \in Address /\ c.info.owners # {}
  /\ c.at = "deploy" => c.kind = "create"
  /\ c.at = "approve" /\ c.kind # "create" => c.ask # {} /\ c.ask \subseteq {"sign", "execute"}
  /\ (c.at = "approve" /\ c.kind # "create") \/ c.at \in {"sign", "post", "send"} => c.tx \in Tx
  /\ c.at = "send" => "execute" \in c.agreed

Signing(c) ==
  /\ Vouched(c.sigs, c.tx)
  /\ c.at = "approve" /\ "sign" \in c.ask => ~Signed(c)
  /\ c.at = "sign" => ~Signed(c)
  /\ c.at \in {"sign", "post"} => <<User, c.tx>> \in shown
  /\ c.at = "post" => Signed(c) /\ \A x \in c.sigs : x.owner = c.signer => x.by \in Wallet

Checking(c) ==
  /\ (c.at = "approve" /\ c.kind # "create") \/ c.at \in {"sign", "post", "send"} =>
       \A x \in c.sigs : x.owner \in c.info.owners
  /\ (c.at = "approve" /\ "sign" \in c.ask) \/ c.at = "sign" => c.signer \in c.info.owners
  /\ (c.at = "approve" /\ c.kind # "create" /\ "sign" \notin c.ask) \/ c.at = "send" =>
       c.kind = "pay" \/ c.tx.nonce = c.info.nonce

Saving(c) ==
  /\ c.at = "save" => c.base.safe = NoSafe \/ Deployed(c.base.safe)
  /\ (c.at = "approve" /\ c.kind # "create") \/ c.at \in {"sign", "post", "send"} => Deployed(c.tx.safe)

Sound(c) == c \in Command /\ Asking(c) /\ Signing(c) /\ Checking(c) /\ Saving(c)

OutsideOK ==
  /\ \A x \in confirmed : <<PersonOf(x[1]), x[2]>> \in shown
  /\ \A t \in proposed : Deployed(t.safe)
  /\ \A a \in Address : ~Deployed(a) => chain[a] = NoCode

SafeInv ==
  /\ TypeOK /\ OutsideOK /\ ExecutionAgreed /\ NothingSentInVain /\ LinkedIsDeployed
  /\ \A p \in Process : Sound(cmd[p])

\* What people were shown stays shown, and a Safe on the chain stays there.
Onwards == shown \subseteq shown' /\ \A a \in Address : Deployed(a) => Deployed(a)'

LEMMA SoundStays ==
  ASSUME NEW c, Sound(c), Onwards
  PROVE  Sound(c)'
<1>1. /\ c.at = "save" /\ c.base.safe # NoSafe => c.base.safe \in Address
      /\ c.tx \in Tx => c.tx.safe \in Address
  BY DEF Sound, Command, Vault, Tx
<1> QED
  BY <1>1 DEF Sound, Asking, Signing, Checking, Saving, Signed, Vouched, Onwards

LEMMA IdleIsSound == Sound(Idle)
<1>1. 1 \in Wallet /\ NoTx \in Tx \cup {NoTx} /\ NoCode \in SafeInfo
  BY SafeAssumption DEF Wallet, NoCode, SafeInfo
<1> QED
  BY <1>1 DEF Idle, Sound, Command, Vault, Asking, Signing, Checking, Saving, Vouched

\* One command takes a step, and the world goes on.
LEMMA CommandSteps ==
  ASSUME SafeInv, NEW p \in Process, NEW c, Goes(p, c), Sound(c)', Onwards
  PROVE  cmd' \in [Process -> Command] /\ \A q \in Process : Sound(cmd[q])'
<1>1. cmd \in [Process -> Command] /\ c \in Command
  BY DEF SafeInv, TypeOK, Sound
<1>2. cmd' \in [Process -> Command] /\ cmd'[p] = c /\ \A q \in Process : q # p => cmd'[q] = cmd[q]
  BY <1>1 DEF Goes
<1>3. ASSUME NEW q \in Process, q # p PROVE Sound(cmd[q])'
  <2>1. Sound(cmd[q]) /\ cmd'[q] = cmd[q]
    BY <1>2, <1>3 DEF SafeInv
  <2> DEFINE d == cmd[q]
  <2> QED
    BY <2>1, SoundStays
<1> QED
  BY <1>2, <1>3

(***************************************************************************)
(* The command each action leaves behind.                                   *)
(***************************************************************************)
LEMMA LinkSound ==
  ASSUME TypeOK, NEW s \in Address \cup {NoSafe}, s # NoSafe => Deployed(s),
         NEW kind \in {"link", "unlink"}
  PROVE  Sound([Idle EXCEPT !.at = "save", !.kind = kind, !.base = [vault EXCEPT !.safe = s]])
<1> DEFINE base == [vault EXCEPT !.safe = s]
           c == [Idle EXCEPT !.at = "save", !.kind = kind, !.base = base]
<1>1. base \in Vault /\ base.safe = s
  BY DEF TypeOK, Vault
<1> HIDE DEF base
<1>2. c \in Command /\ c.at = "save" /\ c.kind = kind /\ c.base = base /\ c.tx = NoTx
      /\ c.fields = NoTx /\ c.sigs = {}
  BY <1>1, IdleIsSound DEF Idle, Sound, Command
<1> HIDE DEF c
<1>3. Sound(c)
  BY <1>1, <1>2 DEF Sound, Asking, Signing, Checking, Saving, Vouched
<1> QED
  BY <1>3 DEF c, base

LEMMA CreateSound ==
  ASSUME TypeOK, NEW s \in Address, NEW u \in Setups
  PROVE  Sound([Idle EXCEPT !.at = "approve", !.kind = "create", !.ask = {"create"},
                  !.base = [vault EXCEPT !.safe = s],
                  !.info = [owners |-> u.owners, threshold |-> u.threshold, nonce |-> 0]])
<1> DEFINE base == [vault EXCEPT !.safe = s]
           info == [owners |-> u.owners, threshold |-> u.threshold, nonce |-> 0]
           c == [Idle EXCEPT !.at = "approve", !.kind = "create", !.ask = {"create"},
                             !.base = base, !.info = info]
<1>1. base \in Vault /\ base.safe = s
  BY DEF TypeOK, Vault
<1>2. info \in SafeInfo /\ info.owners # {}
  BY SafeAssumption DEF SafeInfo
<1> HIDE DEF base, info
<1>3. c \in Command /\ c.at = "approve" /\ c.kind = "create" /\ c.ask = {"create"} /\ c.base = base
      /\ c.info = info /\ c.tx = NoTx /\ c.fields = NoTx /\ c.sigs = {}
  BY <1>1, <1>2, IdleIsSound DEF Idle, Sound, Command, Asks
<1> HIDE DEF c
<1>4. Sound(c)
  BY <1>1, <1>2, <1>3 DEF Sound, Asking, Signing, Checking, Saving, Vouched
<1> QED
  BY <1>4 DEF c, base, info

LEMMA PaySound ==
  ASSUME TypeOK, NEW to \in Payee, NEW nonce \in Nonce, vault.safe # NoSafe, Deployed(vault.safe),
         vault.treasury \in chain[vault.safe].owners,
         NEW ask \in {{"sign", "execute"}, {"sign"}}
  PROVE  LET t == [safe |-> vault.safe, to |-> to, nonce |-> nonce]
         IN  Sound([Idle EXCEPT !.at = "approve", !.kind = "pay", !.signer = vault.treasury,
                      !.info = chain[vault.safe], !.tx = t, !.fields = t, !.ask = ask])
<1> DEFINE t == [safe |-> vault.safe, to |-> to, nonce |-> nonce]
           info == chain[vault.safe]
           signer == vault.treasury
           c == [Idle EXCEPT !.at = "approve", !.kind = "pay", !.signer = signer,
                      !.info = info, !.tx = t, !.fields = t, !.ask = ask]
<1>1. t \in Tx /\ Deployed(t.safe) /\ info \in SafeInfo /\ signer \in Wallet /\ signer \in info.owners
  BY DEF TypeOK, Vault, Tx
<1>2. ask \subseteq {"sign", "execute"} /\ ask # {} /\ ask \subseteq Asks
  BY DEF Asks
<1> HIDE DEF t, info, signer
<1>3. c \in Command /\ c.at = "approve" /\ c.kind = "pay" /\ c.ask = ask
      /\ c.tx = t /\ c.fields = t /\ c.sigs = {} /\ c.info = info /\ c.signer = signer
  BY <1>1, <1>2, IdleIsSound DEF Idle, Sound, Command
<1> HIDE DEF c
<1>4. Sound(c)
  BY <1>1, <1>2, <1>3 DEF Sound, Asking, Signing, Checking, Saving, Vouched, Signed
<1> QED
  BY <1>4 DEF c, t, info, signer

\* What the service answers with: fields and signatures of some sort, and those that
\* are an owner's own are of what the owner was shown.
LEMMA RecordType ==
  ASSUME TypeOK, OutsideOK, NEW t \in Tx, NEW rec \in Records(t)
  PROVE  rec.fields \in Tx /\ rec.sigs \subseteq Sig /\ Vouched(rec.sigs, t) /\ rec.honest \in BOOLEAN
<1>1. CASE rec = [fields |-> t, honest |-> TRUE,
                  sigs |-> {[owner |-> x[1], by |-> x[1]] : x \in {y \in confirmed : y[2] = t}}]
  BY <1>1 DEF TypeOK, OutsideOK, Sig, Owner, Vouched
<1>2. CASE \E f \in Tx : rec = [fields |-> f, sigs |-> {}, honest |-> FALSE]
  BY <1>2 DEF Vouched
<1>3. CASE \E o \in Cosigner : rec = [fields |-> t, sigs |-> {[owner |-> o, by |-> 0]}, honest |-> FALSE]
  <2>1. PICK o \in Cosigner : rec = [fields |-> t, sigs |-> {[owner |-> o, by |-> 0]}, honest |-> FALSE]
    BY <1>3
  <2> QED
    BY <2>1, SafeAssumption DEF Sig, Owner, Vouched
<1> QED
  BY <1>1, <1>2, <1>3 DEF Records

LEMMA VerifiedSound ==
  ASSUME TypeOK, OutsideOK, NEW t \in Tx, NEW rec \in Records(t), Recomputes(t, rec),
         Deployed(t.safe), NEW kind \in {"confirm", "exec"}, NEW ask \in SUBSET {"sign", "execute"}, ask # {},
         NEW c, c = Verified([Idle EXCEPT !.kind = kind, !.at = "approve"], t, rec),
         "sign" \in ask => ~Signed(c) /\ c.signer \in c.info.owners,
         "sign" \notin ask => Executable(c)
  PROVE  Sound([c EXCEPT !.ask = ask])
<1> DEFINE sigs == OwnersSigs(chain[t.safe], rec)
           info == chain[t.safe]
           signer == vault.treasury
           fields == rec.fields
           honest == rec.honest
           i == [Idle EXCEPT !.kind = kind, !.at = "approve"]
           d == [c EXCEPT !.ask = ask]
<1>1. sigs \in SUBSET Sig /\ Vouched(sigs, t) /\ fields = t /\ honest \in BOOLEAN
      /\ \A x \in sigs : x.owner \in info.owners
  BY RecordType DEF OwnersSigs, Vouched, Recomputes
<1>2. info \in SafeInfo /\ signer \in Wallet
  BY DEF TypeOK, Vault, Tx
<1>3. i \in Command /\ i.at = "approve" /\ i.kind = kind
  BY IdleIsSound DEF Idle, Sound, Command
<1>4. c = [i EXCEPT !.tx = t, !.fields = fields, !.info = info, !.honest = honest,
                    !.sigs = sigs, !.signer = signer]
  BY DEF Verified
<1> HIDE DEF sigs, info, signer, fields, honest, i
<1>5. c \in Command /\ c.at = "approve" /\ c.kind = kind /\ c.tx = t /\ c.fields = t
      /\ c.sigs = sigs /\ c.signer = signer /\ c.info = info
  <2>1. t \in Tx \cup {NoTx} /\ fields = t /\ sigs \in SUBSET Sig /\ honest \in BOOLEAN
    BY <1>1
  <2> DEFINE j == [i EXCEPT !.tx = t, !.fields = fields, !.info = info]
  <2>2. j \in Command /\ j.at = "approve" /\ j.kind = kind /\ j.tx = t /\ j.fields = t
          /\ j.info = info
    BY <2>1, <1>2, <1>3 DEF Command
  <2>3. c = [j EXCEPT !.honest = honest, !.sigs = sigs, !.signer = signer]
    BY <1>4
  <2> HIDE DEF j
  <2> QED
    BY <2>1, <2>2, <2>3, <1>2 DEF Command
<1>6. d \in Command /\ d.at = "approve" /\ d.kind = kind /\ d.tx = t /\ d.fields = t
      /\ d.sigs = sigs /\ d.ask = ask /\ d.signer = c.signer /\ d.info = info
  BY <1>5 DEF Command, Asks
<1> HIDE DEF d
<1>7. Signed(d) <=> Signed(c)
  BY <1>5, <1>6 DEF Signed
<1>8. Sound(d)
  <2>1. Asking(d) /\ Saving(d)
    BY <1>1, <1>6 DEF Asking, Saving
  <2>2. Signing(d)
    BY <1>1, <1>6, <1>7 DEF Signing
  <2>3. Checking(d)
    BY <1>1, <1>5, <1>6 DEF Checking, Executable
  <2> QED
    BY <1>6, <2>1, <2>2, <2>3 DEF Sound
<1> QED
  BY <1>8 DEF d

LEMMA DeploySound ==
  ASSUME TypeOK, NEW c \in Command, NEW s \in Address, Asking(c), Vouched(c.sigs, c.tx), Deployed(s)'
  PROVE  \E d : /\ d = [c EXCEPT !.at = "save", !.base = [vault EXCEPT !.safe = s]]
                /\ d \in Command /\ Asking(d) /\ Signing(d) /\ Checking(d) /\ Saving(d)'
<1>1. PICK base : base = [vault EXCEPT !.safe = s]
  OBVIOUS
<1>2. base \in Vault /\ base.safe = s
  BY <1>1 DEF TypeOK, Vault
<1> DEFINE d == [c EXCEPT !.at = "save", !.base = base]
<1>3. d \in Command /\ d.at = "save" /\ d.base = base /\ d.tx = c.tx /\ d.fields = c.fields
      /\ d.sigs = c.sigs
  BY <1>2 DEF Command
<1>4. d = [c EXCEPT !.at = "save", !.base = [vault EXCEPT !.safe = s]]
  BY <1>1
<1> HIDE DEF d
<1>5. Asking(d) /\ Signing(d) /\ Checking(d) /\ Saving(d)'
  BY <1>2, <1>3 DEF Asking, Signing, Checking, Saving
<1> QED
  BY <1>3, <1>4, <1>5

\* What the user agreed to has been shown.
LEMMA ApproveSound ==
  ASSUME SafeInv, NEW p \in Process, Approve(p)
  PROVE  \E c : Goes(p, c) /\ Sound(c)'
<1>0. PICK c : c = cmd[p]
  OBVIOUS
<1> DEFINE at == CASE c.kind = "create" -> "deploy" [] "sign" \in c.ask -> "sign" [] OTHER -> "send"
           agreed == c.ask
           d == [c EXCEPT !.agreed = agreed, !.at = at]
<1>1. c \in Command /\ c.at = "approve" /\ Asking(c) /\ Signing(c) /\ Goes(p, d)
      /\ Checking(c) /\ Saving(c) /\ chain' = chain
  BY <1>0 DEF SafeInv, Sound, Approve, At, outside
<1>2. at \in {"deploy", "sign", "send"} /\ agreed \in SUBSET Asks
  BY <1>1 DEF Command
<1>3. /\ at = "deploy" => c.kind = "create"
      /\ at = "sign" => c.kind # "create" /\ "sign" \in c.ask
      /\ at = "send" => c.kind # "create" /\ "execute" \in agreed /\ "sign" \notin c.ask
  BY <1>1 DEF Asking
<1>4. shown \subseteq shown' /\ (at = "sign" => <<User, c.tx>> \in shown')
  BY <1>0, <1>1, <1>3 DEF Approve, Asking
<1> HIDE DEF at, agreed
<1>5. d \in Command /\ d.at = at /\ d.agreed = agreed /\ d.kind = c.kind /\ d.tx = c.tx
      /\ d.fields = c.fields /\ d.sigs = c.sigs /\ d.base = c.base /\ d.info = c.info
      /\ d.signer = c.signer /\ d.ask = c.ask
  BY <1>1, <1>2 DEF Command
<1> HIDE DEF d
<1>6. Asking(d) /\ Checking(d) /\ Saving(d)'
  <2>1. Asking(d)
    BY <1>1, <1>2, <1>3, <1>5 DEF Asking
  <2>2. Checking(d)
    BY <1>1, <1>2, <1>3, <1>5 DEF Checking, Asking
  <2> QED
    BY <1>1, <1>2, <1>3, <1>5, <2>1, <2>2 DEF Saving, Deployed
<1>7. Signing(d)'
  BY <1>1, <1>2, <1>3, <1>4, <1>5 DEF Asking, Signing, Vouched, Signed
<1> QED
  BY <1>1, <1>5, <1>6, <1>7 DEF Sound, Asking, Checking

LEMMA SignSound ==
  ASSUME SafeInv, NEW p \in Process, signHash(p)
  PROVE  \E c : Goes(p, c) /\ Sound(c)
<1> DEFINE c == cmd[p]
           mine == [owner |-> c.signer, by |-> vault.treasury]
           sigs == c.sigs \cup {mine}
           at == IF c.kind = "pay" /\ "execute" \in c.agreed THEN "send" ELSE "post"
           d == [c EXCEPT !.sigs = sigs, !.at = at]
<1>1. c \in Command /\ c.at = "sign" /\ Asking(c) /\ Signing(c) /\ Goes(p, d)
      /\ Checking(c) /\ Saving(c)
  BY DEF SafeInv, Sound, signHash, At
<1>2. c.signer \in Wallet /\ vault.treasury \in Wallet /\ c.sigs \subseteq Sig
  BY <1>1 DEF Command, SafeInv, TypeOK, Vault
<1>3. mine \in Sig /\ mine.owner = c.signer /\ mine.by \in Wallet
  BY <1>2 DEF Sig, Owner
<1>4. PersonOf(c.signer) = User
  BY <1>2 DEF PersonOf
<1>5. sigs \in SUBSET Sig /\ Vouched(sigs, c.tx)
  BY <1>1, <1>2, <1>3, <1>4 DEF Vouched, Signing
<1>11. \A x \in sigs : x.owner \in c.info.owners
  BY <1>1, <1>3 DEF Checking
<1>6. (\E x \in sigs : x.owner = c.signer) /\ \A x \in sigs : x.owner = c.signer => x.by \in Wallet
  BY <1>1, <1>3 DEF Signing, Signed
<1>7. at \in {"send", "post"} /\ (at = "send" => "execute" \in c.agreed /\ c.kind = "pay")
  OBVIOUS
<1> HIDE DEF mine, sigs, at
<1>8. d \in Command /\ d.at = at /\ d.sigs = sigs /\ d.tx = c.tx /\ d.fields = c.fields
      /\ d.agreed = c.agreed /\ d.signer = c.signer /\ d.kind = c.kind /\ d.info = c.info
  BY <1>1, <1>5, <1>7 DEF Command
<1> HIDE DEF c, d
<1>9. Asking(d) /\ Saving(d)
  BY <1>1, <1>7, <1>8 DEF Asking, Saving
<1>10. Signing(d)
  BY <1>1, <1>5, <1>6, <1>7, <1>8 DEF Signing, Signed
<1>12. Checking(d)
  BY <1>7, <1>8, <1>11 DEF Checking
<1> QED
  BY <1>1, <1>8, <1>9, <1>10, <1>12 DEF Sound

LEMMA PostSound ==
  ASSUME SafeInv, NEW p \in Process, Post(p)
  PROVE  \E c : Goes(p, c) /\ Sound(c)
<1> DEFINE c == cmd[p]
           d == [c EXCEPT !.at = "send"]
<1>1. c \in Command /\ c.at = "post" /\ Asking(c) /\ Signing(c) /\ Checking(c) /\ Saving(c)
  BY DEF SafeInv, Sound, Post, At
<1>2. CASE Goes(p, Idle)
  BY <1>2, IdleIsSound
<1>3. CASE Goes(p, d) /\ "execute" \in c.agreed /\ c.tx.nonce = c.info.nonce
  <2>1. d \in Command /\ d.at = "send" /\ d.sigs = c.sigs /\ d.tx = c.tx /\ d.fields = c.fields
        /\ d.agreed = c.agreed /\ d.info = c.info /\ d.kind = c.kind
    BY <1>1 DEF Command
  <2> HIDE DEF c, d
  <2>2. Sound(d)
    BY <1>1, <1>3, <2>1 DEF Sound, Asking, Signing, Checking, Saving
  <2> QED
    BY <1>3, <2>2
<1>4. Goes(p, Idle) \/ (Goes(p, d) /\ "execute" \in c.agreed /\ c.tx.nonce = c.info.nonce)
  BY DEF Post, AfterPost, Executable
<1> QED
  BY <1>2, <1>3, <1>4

(***************************************************************************)
(* The chain.                                                               *)
(***************************************************************************)
LEMMA ExecutesKeeps ==
  ASSUME TypeOK, OutsideOK, NEW t \in Tx, Deployed(t.safe), Executes(t), shown \subseteq shown',
         UNCHANGED <<confirmed, proposed>>
  PROVE  /\ chain' \in [Address -> SafeInfo] /\ paid' \subseteq Tx
         /\ OutsideOK' /\ \A a \in Address : Deployed(a) => Deployed(a)'
<1>1. \A a \in Address : chain[a] \in SafeInfo
  BY DEF TypeOK
<1>2. t.safe \in Address
  BY DEF Tx
<1> DEFINE info == [chain[t.safe] EXCEPT !.nonce = @ + 1]
<1>3. chain' = [chain EXCEPT ![t.safe] = info]
  BY DEF Executes
<1>4. info \in SafeInfo /\ info.owners = chain[t.safe].owners
  BY <1>1, <1>2 DEF SafeInfo
<1> HIDE DEF info
<1>5. chain' \in [Address -> SafeInfo]
      /\ \A a \in Address : chain'[a].owners = chain[a].owners /\ (a # t.safe => chain'[a] = chain[a])
  BY <1>2, <1>3, <1>4 DEF TypeOK
<1>6. \A a \in Address : Deployed(a)' <=> Deployed(a)
  BY <1>5 DEF Deployed
<1>7. \A a \in Address : ~Deployed(a)' => chain'[a] = NoCode
  BY <1>5, <1>6 DEF OutsideOK
<1>8. paid' \subseteq Tx
  BY DEF TypeOK, Executes
<1>9. \A x \in proposed : x.safe \in Address
  BY DEF TypeOK, Tx
<1> QED
  BY <1>5, <1>6, <1>7, <1>8, <1>9 DEF OutsideOK

LEMMA SetupKeeps ==
  ASSUME TypeOK, OutsideOK, NEW s \in Address, NEW info \in SafeInfo, info.owners # {},
         chain' = [chain EXCEPT ![s] = info], UNCHANGED <<confirmed, proposed, shown>>
  PROVE  /\ chain' \in [Address -> SafeInfo] /\ Deployed(s)'
         /\ OutsideOK' /\ \A a \in Address : Deployed(a) => Deployed(a)'
<1>1. \A t \in proposed : t.safe \in Address
  BY DEF TypeOK, Tx
<1> QED
  BY <1>1 DEF TypeOK, OutsideOK, Deployed

LEMMA CommandBegins ==
  ASSUME SafeInv, NEW p \in Process, NEW c, Sound(c), Begin(p, c),
         UNCHANGED <<vault, outside, shown, sent>>
  PROVE  SafeInv'
<1>1. Onwards
  BY DEF Onwards, outside, Deployed
<1>2. Sound(c)'
  BY <1>1, SoundStays
<1>3. cmd' \in [Process -> Command] /\ \A q \in Process : Sound(cmd[q])'
  BY <1>1, <1>2, CommandSteps DEF Begin
<1>4. TypeOK'
  BY <1>3, SafeAssumption DEF SafeInv, TypeOK, outside, Begin
<1> QED
  BY <1>3, <1>4 DEF SafeInv, outside, OutsideOK, ExecutionAgreed, NothingSentInVain, LinkedIsDeployed, Deployed

\* A command goes on, and nothing but itself and what was shown changes.
LEMMA CommandGoesOn ==
  ASSUME SafeInv, NEW p \in Process, NEW c, Sound(c)', Goes(p, c), vault' \in Vault,
         vault'.safe # NoSafe => Deployed(vault'.safe),
         shown \subseteq shown', shown' \subseteq ({User} \cup Cosigner) \X Tx,
         UNCHANGED <<outside, begun, sent>>
  PROVE  SafeInv'
<1>1. Onwards
  BY DEF Onwards, outside, Deployed
<1>2. cmd' \in [Process -> Command] /\ \A q \in Process : Sound(cmd[q])'
  BY <1>1, CommandSteps
<1>3. TypeOK'
  BY <1>2 DEF SafeInv, TypeOK, outside
<1>4. OutsideOK'
  BY DEF SafeInv, OutsideOK, outside, Deployed
<1>5. LinkedIsDeployed'
  BY DEF LinkedIsDeployed, outside, Deployed
<1> QED
  BY <1>2, <1>3, <1>4, <1>5 DEF SafeInv, ExecutionAgreed, NothingSentInVain

LEMMA Begins ==
  ASSUME SafeInv, NEW p \in Process,
         \/ unlinkSafe(p)
         \/ \E s \in Address : linkSafe(p, s) \/ \E u \in Setups : createSafe(p, s, u)
         \/ \E to \in Payee, n \in Nonce : payFromSafe(p, to, n)
         \/ \E t \in proposed : execSafeTx(p, t) \/ \E exec \in BOOLEAN : confirmSafeTx(p, t, exec)
  PROVE  SafeInv'
<1>0. TypeOK /\ OutsideOK
  BY DEF SafeInv
<1>1. CASE unlinkSafe(p)
  BY <1>0, <1>1, LinkSound, CommandBegins DEF unlinkSafe
<1>2. ASSUME NEW s \in Address, linkSafe(p, s) PROVE SafeInv'
  BY <1>0, <1>2, LinkSound, CommandBegins DEF linkSafe
<1>3. ASSUME NEW s \in Address, NEW u \in Setups, createSafe(p, s, u) PROVE SafeInv'
  BY <1>0, <1>3, CreateSound, CommandBegins DEF createSafe
<1>4. ASSUME NEW to \in Payee, NEW n \in Nonce, payFromSafe(p, to, n) PROVE SafeInv'
  BY <1>0, <1>4, PaySound, CommandBegins DEF payFromSafe
<1>5. ASSUME NEW t \in proposed, execSafeTx(p, t) PROVE SafeInv'
  <2>1. t \in Tx
    BY <1>0 DEF TypeOK
  <2>2. PICK rec \in Records(t) :
          LET c == Verified([Idle EXCEPT !.kind = "exec", !.at = "approve"], t, rec)
          IN  loadVerifiedServiceTx(t, rec) /\ Executable(c) /\ Begin(p, [c EXCEPT !.ask = {"execute"}])
    BY <1>5 DEF execSafeTx
  <2>3. {"execute"} \in SUBSET {"sign", "execute"} /\ "sign" \notin {"execute"}
    OBVIOUS
  <2> QED
    BY <1>0, <1>5, <2>1, <2>2, <2>3, VerifiedSound, CommandBegins DEF execSafeTx, loadVerifiedServiceTx
<1>6. ASSUME NEW t \in proposed, NEW exec \in BOOLEAN, confirmSafeTx(p, t, exec) PROVE SafeInv'
  <2>1. t \in Tx
    BY <1>0 DEF TypeOK
  <2> DEFINE Confirms(c, rec) ==
        /\ c = Verified([Idle EXCEPT !.kind = "confirm", !.at = "approve"], t, rec)
        /\ loadVerifiedServiceTx(t, rec) /\ (Signed(c) => exec /\ Executable(c))
        /\ c.signer \in c.info.owners
        /\ Begin(p, [c EXCEPT !.ask = (IF Signed(c) THEN {} ELSE {"sign"})
                                       \cup (IF exec THEN {"execute"} ELSE {})])
  <2>2. PICK rec \in Records(t) : \E c : Confirms(c, rec)
    BY <1>6 DEF confirmSafeTx
  <2>3. PICK c : Confirms(c, rec)
    BY <2>2
  <2> DEFINE ask == (IF Signed(c) THEN {} ELSE {"sign"}) \cup (IF exec THEN {"execute"} ELSE {})
  <2>4. ask \in SUBSET {"sign", "execute"} /\ ask # {}
        /\ ("sign" \in ask => ~Signed(c) /\ c.signer \in c.info.owners)
        /\ ("sign" \notin ask => Executable(c))
    BY <2>3
  <2>5. Begin(p, [c EXCEPT !.ask = ask])
    BY <2>3
  <2> HIDE DEF ask
  <2> QED
    BY <1>0, <1>6, <2>1, <2>3, <2>4, <2>5, VerifiedSound, CommandBegins
       DEF confirmSafeTx, loadVerifiedServiceTx
<1> QED
  BY <1>1, <1>2, <1>3, <1>4, <1>5, <1>6

LEMMA Deploys ==
  ASSUME SafeInv, NEW p \in Process, Deploy(p)
  PROVE  SafeInv'
<1>1. PICK c : c = cmd[p]
  OBVIOUS
<1>2. PICK s : s = c.base.safe
  OBVIOUS
<1>3. c \in Command /\ Asking(c) /\ Signing(c) /\ s \in Address /\ c.info \in SafeInfo /\ c.info.owners # {}
      /\ TypeOK /\ OutsideOK
  BY <1>1, <1>2 DEF SafeInv, Sound, Deploy, At, Asking, Command
<1>4. CASE Goes(p, Idle) /\ UNCHANGED chain
  <2>1. Onwards
    BY <1>4 DEF Onwards, Deploy, Deployed
  <2>2. Sound(Idle)'
    BY <2>1, IdleIsSound, SoundStays
  <2> QED
    BY <1>4, <2>2, CommandGoesOn DEF Deploy, SafeInv, TypeOK, LinkedIsDeployed, outside
<1>5. CASE chain' = [chain EXCEPT ![s] = c.info]
  <2>1. /\ chain' \in [Address -> SafeInfo] /\ Deployed(s)'
        /\ OutsideOK' /\ \A a \in Address : Deployed(a) => Deployed(a)'
    BY <1>3, <1>5, SetupKeeps DEF Deploy
  <2>2. Onwards
    BY <2>1 DEF Onwards, Deploy
  <2>3. Sound(Idle)'
    BY <2>2, IdleIsSound, SoundStays
  <2>4. PICK d : /\ d = [c EXCEPT !.at = "save", !.base = [vault EXCEPT !.safe = s]]
                 /\ d \in Command /\ Asking(d) /\ Signing(d) /\ Checking(d) /\ Saving(d)'
    BY <1>3, <2>1, DeploySound DEF Signing
  <2>5. Sound(d)'
    <3>1. Signing(d)'
      BY <2>2, <2>4 DEF Onwards, Signing, Vouched, Signed
    <3> QED
      BY <2>4, <3>1 DEF Sound, Asking, Checking
  <2>6. Goes(p, d) \/ Goes(p, Idle)
    BY <1>1, <1>2, <1>5, <2>4 DEF Deploy
  <2>7. cmd' \in [Process -> Command] /\ \A q \in Process : Sound(cmd[q])'
    BY <2>2, <2>3, <2>5, <2>6, CommandSteps
  <2>8. TypeOK'
    BY <1>3, <2>1, <2>7 DEF Deploy, TypeOK
  <2>9. LinkedIsDeployed'
    BY <1>3, <2>1 DEF SafeInv, LinkedIsDeployed, Deploy, TypeOK, Vault
  <2> QED
    BY <2>1, <2>7, <2>8, <2>9 DEF SafeInv, ExecutionAgreed, NothingSentInVain, Deploy
<1> QED
  BY <1>1, <1>2, <1>4, <1>5 DEF Deploy

LEMMA Posts ==
  ASSUME SafeInv, NEW p \in Process, Post(p)
  PROVE  SafeInv'
<1>1. PICK c : c = cmd[p]
  OBVIOUS
<1>2. c \in Command /\ c.at = "post" /\ Asking(c) /\ Signing(c) /\ Saving(c)
      /\ TypeOK /\ OutsideOK /\ c.tx \in Tx /\ Deployed(c.tx.safe)
  BY <1>1 DEF SafeInv, Sound, Post, At, Asking, Saving
<1>3. Onwards
  BY DEF Onwards, Deployed, Post
<1>4. cmd' \in [Process -> Command] /\ \A q \in Process : Sound(cmd[q])'
  BY <1>3, PostSound, SoundStays, CommandSteps
<1>5. /\ proposed' \subseteq Tx /\ confirmed' \subseteq Owner \X Tx
      /\ OutsideOK'
  <2>1. CASE UNCHANGED <<proposed, confirmed>>
    BY <1>2, <2>1 DEF TypeOK, OutsideOK, Post, Deployed
  <2>2. CASE ServiceTakes(c)
    <3>1. MySig(c) \in c.sigs /\ MySig(c).owner = c.signer
      BY <1>2 DEF Signing, Signed, MySig
    <3>2. MySig(c).by \in Wallet /\ <<User, c.tx>> \in shown
      BY <1>2, <3>1 DEF Signing
    <3>3. PersonOf(MySig(c).by) = User /\ MySig(c).by \in Owner
      BY <3>2 DEF PersonOf, Owner
    <3>4. proposed' = proposed \cup {c.tx} /\ confirmed' = confirmed \cup {<<MySig(c).by, c.tx>>}
      BY <2>2 DEF ServiceTakes
    <3>5. UNCHANGED <<chain, shown>>
      BY DEF Post
    <3> HIDE DEF MySig
    <3>6. \A x \in confirmed' : <<PersonOf(x[1]), x[2]>> \in shown
      BY <1>2, <3>2, <3>3, <3>4 DEF OutsideOK
    <3> QED
      BY <1>2, <3>3, <3>4, <3>5, <3>6 DEF TypeOK, OutsideOK, Deployed
  <2> QED
    BY <1>1, <2>1, <2>2 DEF Post
<1>6. TypeOK'
  BY <1>2, <1>4, <1>5 DEF TypeOK, Post
<1> QED
  BY <1>4, <1>5, <1>6 DEF SafeInv, ExecutionAgreed, NothingSentInVain, LinkedIsDeployed, Post, Deployed

LEMMA Sends ==
  ASSUME SafeInv, NEW p \in Process, execTransaction(p)
  PROVE  SafeInv'
<1>1. PICK c : c = cmd[p]
  OBVIOUS
<1>2. c \in Command /\ c.at = "send" /\ c.tx \in Tx /\ Deployed(c.tx.safe) /\ "execute" \in c.agreed
      /\ Checking(c) /\ TypeOK /\ OutsideOK
  BY <1>1 DEF SafeInv, Sound, execTransaction, At, Asking, Saving
<1>3. Executes(c.tx) \/ UNCHANGED <<chain, paid>>
  BY <1>1 DEF execTransaction
<1>4. /\ chain' \in [Address -> SafeInfo] /\ paid' \subseteq Tx
      /\ OutsideOK' /\ \A a \in Address : Deployed(a) => Deployed(a)'
  <2>1. CASE Executes(c.tx)
    BY <1>2, <2>1, ExecutesKeeps DEF execTransaction
  <2>2. CASE UNCHANGED <<chain, paid>>
    BY <1>2, <2>2 DEF execTransaction, TypeOK, OutsideOK, Deployed
  <2> QED
    BY <1>3, <2>1, <2>2
<1>5. Onwards
  BY <1>4 DEF Onwards, execTransaction
<1>6. cmd' \in [Process -> Command] /\ \A q \in Process : Sound(cmd[q])'
  BY <1>5, IdleIsSound, SoundStays, CommandSteps DEF execTransaction
<1>7. TypeOK'
  BY <1>2, <1>4, <1>6 DEF TypeOK, execTransaction
<1>8. ExecutionAgreed'
  BY <1>1, <1>2 DEF SafeInv, ExecutionAgreed, execTransaction
<1>9. LinkedIsDeployed'
  BY <1>2, <1>4 DEF SafeInv, LinkedIsDeployed, TypeOK, Vault, execTransaction
<1>10. NothingSentInVain'
  <2>1. PICK sigs \in SUBSET c.sigs :
          /\ Cardinality(sigs) = c.info.threshold
          /\ sent' = sent \cup {[tx |-> c.tx, kind |-> c.kind, agreed |-> c.agreed, asRead |-> AsRead(c),
                                  next |-> c.tx.nonce = c.info.nonce, accepted |-> Accepts(c.tx, sigs)]}
    BY <1>1 DEF execTransaction
  <2> DEFINE asRead == AsRead(c)
             next == c.tx.nonce = c.info.nonce
             accepted == Accepts(c.tx, sigs)
             x == [tx |-> c.tx, kind |-> c.kind, agreed |-> c.agreed, asRead |-> asRead,
                   next |-> next, accepted |-> accepted]
  <2>2. c.info.threshold \in Nat
    BY <1>2 DEF Command, SafeInfo
  <2>3. asRead /\ (c.kind = "pay" => next) => accepted
    BY <1>2, <2>1, <2>2 DEF AsRead, Accepts, Checking
  <2>4. sent' = sent \cup {x}
    BY <2>1
  <2> HIDE DEF asRead, next, accepted
  <2>5. x.kind = c.kind /\ x.asRead = asRead /\ x.next = next /\ x.accepted = accepted
    OBVIOUS
  <2> HIDE DEF x
  <2>6. x.asRead /\ (x.kind = "pay" => x.next) => x.accepted
    BY <2>3, <2>5, Zenon
  <2> QED
    BY <2>4, <2>6 DEF SafeInv, NothingSentInVain
<1> QED
  BY <1>4, <1>6, <1>7, <1>8, <1>9, <1>10 DEF SafeInv

\* Everyone but the commands.
LEMMA WorldGoesOn ==
  ASSUME SafeInv, Onwards, UNCHANGED <<cmd, begun, sent>>, OutsideOK', vault' \in Vault,
         vault'.safe = vault.safe, chain' \in [Address -> SafeInfo],
         proposed' \subseteq Tx, confirmed' \subseteq Owner \X Tx, changed' \in 0..MaxChange,
         shown' \subseteq ({User} \cup Cosigner) \X Tx, paid' \subseteq Tx
  PROVE  SafeInv'
<1>1. \A q \in Process : Sound(cmd[q])'
  <2> TAKE q \in Process
  <2>1. PICK c : c = cmd[q]
    OBVIOUS
  <2>2. Sound(c)'
    BY <2>1, SoundStays DEF SafeInv
  <2> QED
    BY <2>1, <2>2
<1>2. TypeOK'
  BY DEF SafeInv, TypeOK
<1>3. LinkedIsDeployed'
  BY DEF SafeInv, LinkedIsDeployed, TypeOK, Vault, Onwards
<1> QED
  BY <1>1, <1>2, <1>3 DEF SafeInv, ExecutionAgreed, NothingSentInVain

LEMMA WorldSteps ==
  ASSUME SafeInv,
         \/ initTreasury
         \/ \E t \in proposed : AppExecutes(t)
         \/ \E t \in Tx, o \in Cosigner : Cosign(o, t)
         \/ \E s \in Address, u \in Setups : ChangeOwners(s, u)
  PROVE  SafeInv'
<1>0. TypeOK /\ OutsideOK
  BY DEF SafeInv
<1>1. CASE initTreasury
  <2>1. vault' \in Vault /\ vault'.safe = vault.safe
    BY <1>0, <1>1, SafeAssumption DEF initTreasury, TypeOK, Vault, Wallet
  <2> QED
    BY <1>0, <1>1, <2>1, WorldGoesOn DEF initTreasury, outside, TypeOK, OutsideOK, Onwards, Deployed
<1>2. ASSUME NEW t \in proposed, AppExecutes(t) PROVE SafeInv'
  <2>1. t \in Tx /\ Deployed(t.safe)
    BY <1>0 DEF TypeOK, OutsideOK
  <2> QED
    BY <1>0, <1>2, <2>1, ExecutesKeeps, WorldGoesOn DEF AppExecutes, TypeOK, Onwards
<1>3. ASSUME NEW t \in Tx, NEW o \in Cosigner, Cosign(o, t) PROVE SafeInv'
  <2>1. PersonOf(o) = o /\ o \in Owner
    BY SafeAssumption DEF PersonOf, Owner
  <2>2. Deployed(t.safe)
    BY <1>3 DEF Cosign, Deployed
  <2>3. proposed' \subseteq Tx /\ confirmed' \subseteq Owner \X Tx
        /\ shown' \subseteq ({User} \cup Cosigner) \X Tx
    BY <1>0, <1>3, <2>1 DEF Cosign, TypeOK
  <2>4. \A x \in confirmed' : <<PersonOf(x[1]), x[2]>> \in shown'
    BY <1>0, <1>3, <2>1 DEF Cosign, OutsideOK
  <2>5. OutsideOK'
    BY <1>0, <1>3, <2>2, <2>4 DEF Cosign, OutsideOK, Deployed
  <2> QED
    BY <1>0, <1>3, <2>3, <2>5, WorldGoesOn DEF Cosign, TypeOK, Onwards, Deployed
<1>4. ASSUME NEW s \in Address, NEW u \in Setups, ChangeOwners(s, u) PROVE SafeInv'
  <2> DEFINE info == [owners |-> u.owners, threshold |-> u.threshold, nonce |-> chain[s].nonce + 1]
  <2>1. info \in SafeInfo /\ info.owners # {}
    BY <1>0, SafeAssumption DEF SafeInfo, TypeOK
  <2>2. chain' = [chain EXCEPT ![s] = info]
    BY <1>4 DEF ChangeOwners
  <2>3. changed' \in 0..MaxChange
    BY <1>0, <1>4, SafeAssumption DEF ChangeOwners, TypeOK
  <2> HIDE DEF info
  <2> QED
    BY <1>0, <1>4, <2>1, <2>2, <2>3, SetupKeeps, WorldGoesOn DEF ChangeOwners, TypeOK, Onwards
<1> QED
  BY <1>1, <1>2, <1>3, <1>4

LEMMA InitSafeInv == Init => SafeInv
<1> SUFFICES ASSUME Init PROVE SafeInv
  OBVIOUS
<1>1. chain \in [Address -> SafeInfo] /\ OutsideOK
  BY SafeAssumption DEF Init, OutsideOK, Deployed
<1>2. vault \in Vault /\ LinkedIsDeployed
  BY SafeAssumption DEF Init, Vault, Wallet, LinkedIsDeployed
<1>3. cmd \in [Process -> Command] /\ \A p \in Process : Sound(cmd[p])
  BY IdleIsSound DEF Init, Sound
<1>4. TypeOK
  BY <1>1, <1>2, <1>3, SafeAssumption DEF Init, TypeOK
<1> QED
  BY <1>1, <1>2, <1>3, <1>4 DEF Init, SafeInv, ExecutionAgreed, NothingSentInVain

LEMMA NextSafeInv == SafeInv /\ [Next]_vars => SafeInv'
<1> SUFFICES ASSUME SafeInv, [Next]_vars PROVE SafeInv'
  OBVIOUS
<1>0. TypeOK /\ vault \in Vault /\ LinkedIsDeployed /\ shown \subseteq ({User} \cup Cosigner) \X Tx
  BY DEF SafeInv, TypeOK
<1>1. ASSUME NEW p \in Process, Leave(p) PROVE SafeInv'
  <2>1. Sound(Idle)'
    BY <1>1, IdleIsSound, SoundStays DEF Leave, outside, Onwards, Deployed
  <2> QED
    BY <1>0, <1>1, <2>1, CommandGoesOn DEF Leave, LinkedIsDeployed
<1>2. ASSUME NEW p \in Process, storeSafeAddress(p) PROVE SafeInv'
  <2>1. Sound(Idle)'
    BY <1>2, IdleIsSound, SoundStays DEF storeSafeAddress, outside, Onwards, Deployed
  <2>2. vault' \in Vault /\ (vault'.safe # NoSafe => Deployed(vault'.safe))
    BY <1>2 DEF storeSafeAddress, At, SafeInv, Sound, Saving, Command
  <2> QED
    BY <1>0, <1>2, <2>1, <2>2, CommandGoesOn DEF storeSafeAddress
<1>3. ASSUME NEW p \in Process, Approve(p) PROVE SafeInv'
  <2>1. PICK c : Goes(p, c) /\ Sound(c)'
    BY <1>3, ApproveSound
  <2>2. cmd[p].at = "approve" /\ Asking(cmd[p])
    BY <1>3 DEF Approve, At, SafeInv, Sound
  <2>3. "sign" \in cmd[p].ask => cmd[p].fields \in Tx
    BY <2>2 DEF Asking
  <2>4. shown \subseteq shown' /\ shown' \subseteq ({User} \cup Cosigner) \X Tx
    BY <1>0, <1>3, <2>3 DEF Approve
  <2> QED
    BY <1>0, <1>3, <2>1, <2>4, CommandGoesOn DEF Approve, LinkedIsDeployed
<1>4. ASSUME NEW p \in Process, signHash(p) PROVE SafeInv'
  <2>1. PICK c : Goes(p, c) /\ Sound(c)
    BY <1>4, SignSound
  <2>2. Sound(c)'
    BY <1>4, <2>1, SoundStays DEF signHash, outside, Onwards, Deployed
  <2> QED
    BY <1>0, <1>4, <2>1, <2>2, CommandGoesOn DEF signHash, LinkedIsDeployed
<1>5. CASE UNCHANGED vars
  BY <1>0, <1>5, WorldGoesOn DEF vars, outside, SafeInv, TypeOK, OutsideOK, Onwards, Deployed
<1> QED
  BY <1>1, <1>2, <1>3, <1>4, <1>5, Begins, Deploys, Posts, Sends, WorldSteps DEF Next

\* Commands, Safes, the service and what is recorded of them are well formed.
THEOREM TypesHold == Spec => []TypeOK
<1>1. SafeInv => TypeOK
  BY DEF SafeInv
<1> QED
  BY <1>1, InitSafeInv, NextSafeInv, PTL DEF Spec

\* executeVerified: nothing is sent by a command whose user did not agree to send it.
THEOREM ExecutionsAgreed == Spec => []ExecutionAgreed
<1>1. SafeInv => ExecutionAgreed
  BY DEF SafeInv
<1> QED
  BY <1>1, InitSafeInv, NextSafeInv, PTL DEF Spec

\* What is sent while the Safe and the treasury are as the command read them, and the
\* service told the truth, is accepted by the contract.
THEOREM SentAreAccepted == Spec => []NothingSentInVain
<1>1. SafeInv => NothingSentInVain
  BY DEF SafeInv
<1> QED
  BY <1>1, InitSafeInv, NextSafeInv, PTL DEF Spec

\* createSafe, linkSafe: the linked Safe is on the chain, whichever commands race.
THEOREM LinkedAreDeployed == Spec => []LinkedIsDeployed
<1>1. SafeInv => LinkedIsDeployed
  BY DEF SafeInv
<1> QED
  BY <1>1, InitSafeInv, NextSafeInv, PTL DEF Spec

(***************************************************************************)
(* What each step is to the wallet that Multisig promises.                  *)
(***************************************************************************)
LEMMA TxIsMulti ==
  ASSUME NEW t \in Tx, NEW who \in {User} \cup Cosigner
  PROVE  <<who, t>> \in ({User} \cup Cosigner) \X [safe : Address, to : Payee, nonce : Nat]
BY SafeAssumption DEF Tx, Nonce

LEMMA ApproveRefines ==
  ASSUME SafeInv, NEW p \in Process, Approve(p)
  PROVE  [Multi!Next]_Multi!vars
<1>1. PICK c : c = cmd[p]
  OBVIOUS
<1>2. Asking(c) /\ c.at = "approve" /\ UNCHANGED <<chain, paid>>
  BY <1>1 DEF SafeInv, Sound, Approve, At, outside
<1>3. CASE "sign" \in c.ask
  <2>1. c.fields \in Tx
    BY <1>2, <1>3 DEF Asking
  <2>2. shown' = shown \cup {<<User, c.fields>>}
    BY <1>1, <1>3 DEF Approve
  <2> QED
    BY <1>2, <2>1, <2>2, TxIsMulti DEF Multi!Next, Multi!Approve
<1>4. CASE "sign" \notin c.ask
  BY <1>1, <1>2, <1>4 DEF Approve, Multi!vars
<1> QED
  BY <1>3, <1>4

LEMMA CosignRefines ==
  ASSUME NEW t \in Tx, NEW o \in Cosigner, Cosign(o, t)
  PROVE  Multi!Next
BY TxIsMulti DEF Cosign, Multi!Next, Multi!Approve

LEMMA PayRefines ==
  ASSUME SafeInv, NEW t \in Tx, NEW sigs \in SUBSET Sig, Vouched(sigs, t),
         Accepts(t, sigs), Executes(t), UNCHANGED shown
  PROVE  Multi!Next
<1>1. Multi!Backed(t)
  BY AcceptedIsBacked DEF SafeInv
<1>2. Multi!Pay(t) /\ t \in paid'
  BY <1>1 DEF Multi!Pay, Accepts, Executes
<1> QED
  BY <1>2 DEF Multi!Next

LEMMA SendRefines ==
  ASSUME SafeInv, NEW p \in Process, execTransaction(p)
  PROVE  [Multi!Next]_Multi!vars
<1>1. PICK c : c = cmd[p]
  OBVIOUS
<1>2. c \in Command /\ c.tx \in Tx /\ Vouched(c.sigs, c.tx)
  BY <1>1 DEF SafeInv, Sound, execTransaction, At, Asking, Signing
<1>3. PICK sigs \in SUBSET c.sigs :
        (Accepts(c.tx, sigs) /\ Executes(c.tx)) \/ UNCHANGED <<chain, paid>>
  BY <1>1 DEF execTransaction
<1>4. sigs \in SUBSET Sig /\ Vouched(sigs, c.tx)
  BY <1>2 DEF Command, Vouched
<1>5. CASE Accepts(c.tx, sigs) /\ Executes(c.tx)
  BY <1>2, <1>4, <1>5, PayRefines DEF execTransaction
<1>6. CASE UNCHANGED <<chain, paid>>
  BY <1>6 DEF execTransaction, Multi!vars
<1> QED
  BY <1>3, <1>5, <1>6

LEMMA AppRefines ==
  ASSUME SafeInv, NEW t \in proposed, AppExecutes(t)
  PROVE  Multi!Next
<1>1. PICK S \in SUBSET {x[1] : x \in {y \in confirmed : y[2] = t}} :
        Accepts(t, {[owner |-> o, by |-> o] : o \in S}) /\ Executes(t)
  BY DEF AppExecutes
<1> DEFINE sigs == {[owner |-> o, by |-> o] : o \in S}
<1>2. t \in Tx /\ \A o \in S : o \in Owner /\ <<PersonOf(o), t>> \in shown
  BY DEF SafeInv, TypeOK, OutsideOK
<1>3. sigs \in SUBSET Sig /\ Vouched(sigs, t)
  <2>1. \A o \in S : [owner |-> o, by |-> o] \in Sig
    BY <1>2 DEF Sig, Owner
  <2>2. \A x \in sigs : x.owner \in S
    OBVIOUS
  <2>3. Vouched(sigs, t)
    BY <1>2, <2>2 DEF Vouched
  <2> QED
    BY <2>1, <2>3
<1>4. Accepts(t, sigs) /\ Executes(t)
  BY <1>1
<1> HIDE DEF sigs
<1> QED
  BY <1>2, <1>3, <1>4, PayRefines DEF AppExecutes

\* A Safe is deployed, or gets other owners.
LEMMA ChangeRefines ==
  ASSUME TypeOK, NEW s \in Address, NEW info \in SafeInfo, info.nonce >= chain[s].nonce,
         chain' = [chain EXCEPT ![s] = info], UNCHANGED <<shown, paid>>
  PROVE  Multi!Next
<1>1. chain'[s] = info
  BY DEF TypeOK
<1> QED
  BY <1>1 DEF Multi!Next, Multi!Change

LEMMA DeployRefines ==
  ASSUME SafeInv, NEW p \in Process, Deploy(p)
  PROVE  [Multi!Next]_Multi!vars
<1>1. PICK c, s : c = cmd[p] /\ s = c.base.safe
  OBVIOUS
<1>2. s \in Address /\ c.info \in SafeInfo /\ TypeOK /\ OutsideOK
  BY <1>1 DEF SafeInv, Sound, Deploy, At, Asking, Command
<1>3. CASE ~Deployed(s) /\ chain' = [chain EXCEPT ![s] = c.info]
  <2>1. chain[s].nonce = 0 /\ c.info.nonce \in Nat
    BY <1>2, <1>3 DEF OutsideOK, NoCode, SafeInfo
  <2>2. c.info.nonce >= chain[s].nonce /\ UNCHANGED <<shown, paid>>
    BY <2>1 DEF Deploy
  <2>3. Multi!Next
    BY <1>2, <1>3, <2>2, ChangeRefines
  <2> QED
    BY <2>3
<1>4. CASE UNCHANGED chain
  BY <1>4 DEF Deploy, Multi!vars
<1> QED
  BY <1>1, <1>3, <1>4 DEF Deploy

LEMMA OwnersRefine ==
  ASSUME SafeInv, NEW s \in Address, NEW u \in Setups, ChangeOwners(s, u)
  PROVE  Multi!Next
<1> DEFINE info == [owners |-> u.owners, threshold |-> u.threshold, nonce |-> chain[s].nonce + 1]
<1>1. TypeOK /\ chain[s].nonce \in Nat
  BY DEF SafeInv, TypeOK, SafeInfo
<1>2. info \in SafeInfo /\ info.nonce >= chain[s].nonce
  BY <1>1, SafeAssumption DEF SafeInfo
<1>3. chain' = [chain EXCEPT ![s] = info]
  BY DEF ChangeOwners
<1> HIDE DEF info
<1> QED
  BY <1>1, <1>2, <1>3, ChangeRefines DEF ChangeOwners

LEMMA Refines == SafeInv /\ [Next]_vars => [Multi!Next]_Multi!vars
<1> SUFFICES ASSUME SafeInv, [Next]_vars PROVE [Multi!Next]_Multi!vars
  OBVIOUS
<1>1. ASSUME NEW p \in Process,
             \/ Leave(p) \/ storeSafeAddress(p) \/ signHash(p) \/ Post(p) \/ unlinkSafe(p)
             \/ \E s \in Address : linkSafe(p, s) \/ \E u \in Setups : createSafe(p, s, u)
             \/ \E to \in Payee, n \in Nonce : payFromSafe(p, to, n)
             \/ \E t \in proposed : execSafeTx(p, t) \/ \E exec \in BOOLEAN : confirmSafeTx(p, t, exec)
      PROVE  UNCHANGED Multi!vars
  BY <1>1 DEF Leave, storeSafeAddress, signHash, Post, unlinkSafe, linkSafe, createSafe, payFromSafe,
              execSafeTx, confirmSafeTx, outside, Multi!vars
<1>2. CASE initTreasury \/ UNCHANGED vars
  BY <1>2 DEF initTreasury, vars, outside, Multi!vars
<1> QED
  BY <1>1, <1>2, ApproveRefines, CosignRefines, SendRefines, AppRefines, DeployRefines, OwnersRefine
     DEF Next

(***************************************************************************)
(* However commands, co-signers, the service and changes of owners fall, a  *)
(* Safe pays what as many of its owners as its threshold have been shown    *)
(* and have approved, each of its nonces once.                              *)
(***************************************************************************)
THEOREM SafeIsMultisig == Spec => IsMultisig
<1>1. Init => Multi!Init
  BY DEF Init, Multi!Init
<1> QED
  BY <1>1, InitSafeInv, NextSafeInv, Refines, PTL DEF Spec, IsMultisig, Multi!Spec
=============================================================================
