---------------------------- MODULE WalletsProofs ----------------------------
(***************************************************************************)
(* Proofs about the wallets: for any commands, wallets, payees, amounts and *)
(* balances, whatever is mined unseen and whoever writes meanwhile.         *)
(***************************************************************************)
EXTENDS Wallets, SequenceTheorems, TLAPS

Places == {"idle", "approve", "mint", "save", "sweep", "send", "fresh", "topup", "transfer"}
Kinds  == {"init", "pay", "refill", "keygen", "rotate", "purge"}
Terms  == [to : Account, asset : Asset, amount : Nat]
Commands == [at : Places, kind : Kinds, fam : Family, base : Vault, from : Wallets, to : Nat,
             ask : SUBSET Terms, terms : SUBSET Terms, key : Wallets, new : Wallets, n : Nat,
             crossed : BOOLEAN]
Records == [n : Nat, kind : Kinds, from : Wallets, term : Terms, approved : SUBSET Terms,
            crossed : BOOLEAN, kept : BOOLEAN]

TypeOK ==
  /\ vault \in Vault
  /\ held \in [Account -> [eth : Nat, usdc : Nat]]
  /\ minted \in 0..MaxWallet
  /\ cmd \in [Process -> Commands]
  /\ begun \in Nat
  /\ sent \in Seq(Records)

(***************************************************************************)
(* What a command's place says of it.  One that saves the vault it loaded   *)
(* has one whose addresses are owned; but for a purge it has a new wallet.  *)
(***************************************************************************)
Writing == {"init", "keygen", "rotate", "purge"}

PlaceOK(c) ==
  /\ c.at = "approve" => c.kind # "keygen"
  /\ c.at = "mint" => c.kind \in {"init", "keygen", "rotate"}
  /\ c.at = "save" => c.kind \in Writing
  /\ c.at = "sweep" => c.kind = "rotate" /\ c.new # None
  /\ c.at = "send" => c.kind = "pay"
  /\ c.at \in {"fresh", "topup", "transfer"} => c.kind = "refill"
  /\ c.terms \subseteq c.ask
  /\ c.at \in {"approve", "mint", "save"} /\ c.kind \in Writing =>
       /\ Owned(c.base)
       /\ c.kind = "rotate" => c.base.key[c.fam] # None
  /\ c.at = "save" /\ c.kind # "purge" => c.new # None

\* While nobody crosses it, a command has the vault it loaded, or the keys it sends to.
AsLoaded(c, v) ==
  c.at # "idle" /\ ~c.crossed =>
    CASE c.at = "sweep" -> c.new \in Keys(v)
      [] c.at # "sweep" /\ c.kind \in Writing -> c.base = v
      [] OTHER -> \A t \in c.ask : t.to \in Payee \cup Keys(v)

(***************************************************************************)
(* Commands are told apart by their numbers, and what a running one has     *)
(* sent so far is the gas of a refill.                                      *)
(***************************************************************************)
Numbered ==
  /\ \A p \in Process : cmd[p].at # "idle" => cmd[p].n \in 1..begun
  /\ \A p, q \in Process : p # q /\ cmd[p].at # "idle" /\ cmd[q].at # "idle" => cmd[p].n # cmd[q].n
  /\ \A i \in 1..Len(sent) : sent[i].n \in 1..begun

OnlyGas ==
  \A p \in Process, i \in 1..Len(sent) :
    cmd[p].at # "idle" /\ sent[i].n = cmd[p].n =>
      cmd[p].at = "transfer" /\ sent[i].term.asset = "eth"

IInv ==
  /\ TypeOK
  /\ Owned(vault)
  /\ \A p \in Process : PlaceOK(cmd[p]) /\ AsLoaded(cmd[p], vault)
  /\ Numbered /\ OnlyGas
  /\ PaidAsApproved /\ SentToKept

(***************************************************************************)
(* What a step leaves of the commands: those of others are as they were,    *)
(* but for being crossed.                                                   *)
(***************************************************************************)
Same(c, d) ==
  /\ d.at = c.at /\ d.kind = c.kind /\ d.fam = c.fam /\ d.base = c.base /\ d.from = c.from
  /\ d.to = c.to /\ d.ask = c.ask /\ d.terms = c.terms /\ d.key = c.key /\ d.new = c.new
  /\ d.n = c.n /\ (c.crossed => d.crossed)

Becomes(p, c) ==
  /\ cmd' \in [Process -> Commands]
  /\ cmd'[p] = c
  /\ \A q \in Process : q # p => Same(cmd[q], cmd'[q])

CrossesAll(p) == \A q \in Process : q # p /\ cmd[q].at # "idle" => cmd'[q].crossed

LEMMA EmptyType == Empty \in Vault
BY DEF Empty, Vault, Wallets, None

LEMMA IdleType ==
  ASSUME NEW v \in Vault
  PROVE  /\ Idle(v) \in Commands /\ Idle(v).at = "idle" /\ Idle(v).terms = {} /\ Idle(v).ask = {}
         /\ Idle(v).base = v /\ Idle(v).crossed = FALSE
BY DEF Idle, Commands, Places, Kinds, Family, Wallets, None

LEMMA CommandType ==
  ASSUME TypeOK, NEW p \in Process
  PROVE  /\ cmd[p] \in Commands
         /\ cmd[p].at \in Places /\ cmd[p].kind \in Kinds /\ cmd[p].fam \in Family /\ cmd[p].base \in Vault
         /\ cmd[p].from \in Wallets /\ cmd[p].ask \subseteq Terms /\ cmd[p].terms \subseteq Terms
         /\ cmd[p].key \in Wallets /\ cmd[p].new \in Wallets /\ cmd[p].n \in Nat /\ cmd[p].crossed \in BOOLEAN
BY DEF TypeOK, Commands

LEMMA VaultType ==
  ASSUME NEW v \in Vault
  PROVE  /\ v.treasury \in Wallets /\ v.payTo \in Wallets
         /\ \A f \in Family : /\ v.addr[f] \in Wallets /\ v.key[f] \in Wallets
                              /\ v.oldAddr[f] \in Wallets /\ v.oldKey[f] \in Wallets
         /\ v.addr \in [Family -> Wallets] /\ v.key \in [Family -> Wallets]
         /\ v.oldAddr \in [Family -> Wallets] /\ v.oldKey \in [Family -> Wallets]
BY DEF Vault

LEMMA GoesBecomes ==
  ASSUME TypeOK, NEW p \in Process, NEW c \in Commands, Goes(p, c)
  PROVE  Becomes(p, c)
BY DEF TypeOK, Goes, Becomes, Same

LEMMA CrossesBecomes ==
  ASSUME TypeOK, NEW p \in Process, NEW c \in Commands, Crosses(p, c)
  PROVE  Becomes(p, c) /\ CrossesAll(p)
<1>1. \A q \in Process : [cmd[q] EXCEPT !.crossed = TRUE] \in Commands
  BY DEF TypeOK, Commands
<1>2. \A q \in Process : Same(cmd[q], [cmd[q] EXCEPT !.crossed = TRUE])
                         /\ [cmd[q] EXCEPT !.crossed = TRUE].crossed
  BY DEF TypeOK, Commands, Same
<1>3. \A q \in Process : Same(cmd[q], cmd[q])
  BY DEF Same
<1>4. cmd' \in [Process -> Commands] /\ cmd'[p] = c
  BY <1>1 DEF Crosses, TypeOK
<1>5. ASSUME NEW q \in Process, q # p
      PROVE  cmd'[q] = IF cmd[q].at = "idle" THEN cmd[q] ELSE [cmd[q] EXCEPT !.crossed = TRUE]
  BY <1>5 DEF Crosses
<1> QED
  BY <1>2, <1>3, <1>4, <1>5 DEF Becomes, CrossesAll

(***************************************************************************)
(* What holds of the other commands goes on to hold.                        *)
(***************************************************************************)
LEMMA PlacesKept ==
  ASSUME \A q \in Process : PlaceOK(cmd[q]),
         NEW p \in Process, NEW c \in Commands, Becomes(p, c), PlaceOK(c)
  PROVE  \A q \in Process : PlaceOK(cmd'[q])
<1> SUFFICES ASSUME NEW q \in Process, q # p PROVE PlaceOK(cmd'[q])
  BY DEF Becomes
<1>1. PlaceOK(cmd[q]) /\ Same(cmd[q], cmd'[q])
  BY DEF Becomes
<1> QED
  BY <1>1 DEF PlaceOK, Same

LEMMA LoadedKept ==
  ASSUME \A q \in Process : AsLoaded(cmd[q], vault), NEW p \in Process, NEW c \in Commands,
         Becomes(p, c), AsLoaded(c, vault'), vault' = vault \/ CrossesAll(p)
  PROVE  \A q \in Process : AsLoaded(cmd'[q], vault')
<1> SUFFICES ASSUME NEW q \in Process, q # p PROVE AsLoaded(cmd'[q], vault')
  BY DEF Becomes
<1>1. AsLoaded(cmd[q], vault) /\ Same(cmd[q], cmd'[q])
  BY DEF Becomes
<1>2. CASE CrossesAll(p)
  BY <1>1, <1>2 DEF CrossesAll, AsLoaded, Same
<1>3. CASE vault' = vault
  BY <1>1, <1>3 DEF AsLoaded, Same
<1> QED
  BY <1>2, <1>3

(***************************************************************************)
(* The four kinds of step: a command goes on, begins, saves, or sends.      *)
(***************************************************************************)
LEMMA NumbersKept ==
  ASSUME Numbered, NEW p \in Process, NEW c \in Commands, Becomes(p, c), cmd[p].at # "idle",
         c.at = "idle" \/ c.n = cmd[p].n, begun' = begun,
         \A i \in 1..Len(sent') : sent'[i].n \in 1..begun
  PROVE  Numbered'
<1>1. \A q \in Process : cmd'[q].at # "idle" => cmd[q].at # "idle" /\ cmd'[q].n = cmd[q].n
  BY DEF Becomes, Same
<1> QED
  BY <1>1 DEF Numbered

LEMMA Moves ==
  ASSUME IInv, NEW p \in Process, NEW c \in Commands, Goes(p, c), cmd[p].at # "idle",
         c.at = "idle" \/ (c.n = cmd[p].n /\ cmd[p].at # "transfer"),
         PlaceOK(c), AsLoaded(c, vault),
         UNCHANGED <<vault, held, begun, sent>>, minted' \in 0..MaxWallet, minted <= minted'
  PROVE  IInv'
<1>1. Becomes(p, c) /\ TypeOK
  BY GoesBecomes DEF IInv
<1>2. TypeOK'
  BY <1>1 DEF Becomes, TypeOK
<1>3. minted \in Nat /\ minted' \in Nat
  BY <1>1, WalletsAssumption DEF TypeOK
<1>4. Owned(vault)'
  BY <1>1, <1>3 DEF IInv, TypeOK, Owned
<1>5. \A q \in Process : PlaceOK(cmd'[q])
  BY <1>1, <1>3, PlacesKept DEF IInv
<1>6. \A q \in Process : AsLoaded(cmd'[q], vault')
  BY <1>1, LoadedKept DEF IInv
<1>7. Numbered'
  BY <1>1, NumbersKept DEF IInv, Numbered
<1>8. OnlyGas'
  <2>1. ASSUME NEW q \in Process, NEW i \in 1..Len(sent), cmd'[q].at # "idle", sent[i].n = cmd'[q].n
        PROVE  cmd'[q].at = "transfer" /\ sent[i].term.asset = "eth"
    <3>1. cmd[q].at # "idle" /\ sent[i].n = cmd[q].n
      BY <1>1, <2>1 DEF Becomes, Same
    <3>2. cmd[q].at = "transfer" /\ sent[i].term.asset = "eth"
      BY <3>1 DEF IInv, OnlyGas
    <3> QED
      BY <1>1, <2>1, <3>2 DEF Becomes, Same
  <2> QED
    BY <2>1 DEF OnlyGas
<1>9. PaidAsApproved' /\ SentToKept'
  BY DEF IInv, PaidAsApproved, SentToKept
<1> QED
  BY <1>2, <1>4, <1>5, <1>6, <1>7, <1>8, <1>9 DEF IInv

LEMMA Begins ==
  ASSUME IInv, NEW p \in Process, NEW c \in Commands, Begin(p, c),
         PlaceOK(c), AsLoaded(c, vault), c.at # "transfer", minted' = minted
  PROVE  IInv'
<1> DEFINE d == [c EXCEPT !.n = begun + 1]
<1>0. begun + 1 \in Nat
  BY DEF IInv, TypeOK
<1>1. d \in Commands /\ d.n = begun + 1 /\ d.at = c.at
  BY <1>0 DEF Commands
<1>2. d.kind = c.kind /\ d.base = c.base /\ d.ask = c.ask /\ d.terms = c.terms /\ d.new = c.new
      /\ d.crossed = c.crossed /\ d.fam = c.fam
  BY DEF Commands
<1>3. TypeOK /\ cmd[p].at = "idle" /\ begun' = begun + 1 /\ Goes(p, d) /\ UNCHANGED <<vault, held, minted, sent>>
  BY DEF IInv, Begin, At
<1> HIDE DEF d
<1>4. Becomes(p, d)
  BY <1>1, <1>3, GoesBecomes
<1>5. TypeOK'
  BY <1>3, <1>4 DEF Becomes, TypeOK
<1>6. minted \in Nat /\ minted <= minted' /\ begun \in Nat
  BY <1>3, WalletsAssumption DEF TypeOK
<1>7. PlaceOK(d) /\ AsLoaded(d, vault')
  BY <1>1, <1>2, <1>3 DEF PlaceOK, AsLoaded
<1>8. Owned(vault)'
  BY <1>3 DEF IInv, Owned
<1>9. \A q \in Process : PlaceOK(cmd'[q]) /\ AsLoaded(cmd'[q], vault')
  BY <1>1, <1>3, <1>4, <1>6, <1>7, PlacesKept, LoadedKept DEF IInv
<1>10. \A q \in Process : q # p /\ cmd'[q].at # "idle" => cmd[q].at # "idle" /\ cmd'[q].n = cmd[q].n
  BY <1>4 DEF Becomes, Same
<1>11. cmd'[p].n = begun + 1 /\ cmd'[p].at # "transfer"
  BY <1>1, <1>4 DEF Becomes
<1>12. Numbered'
  BY <1>3, <1>6, <1>10, <1>11 DEF IInv, Numbered
<1>13. OnlyGas'
  <2>1. ASSUME NEW q \in Process, q # p, NEW i \in 1..Len(sent), cmd'[q].at # "idle", sent[i].n = cmd'[q].n
        PROVE  cmd'[q].at = "transfer" /\ sent[i].term.asset = "eth"
    BY <1>4, <1>10, <2>1 DEF IInv, OnlyGas, Becomes, Same
  <2>2. \A i \in 1..Len(sent) : sent[i].n # begun + 1
    BY <1>6 DEF IInv, Numbered
  <2> QED
    BY <1>3, <1>11, <2>1, <2>2 DEF OnlyGas
<1>14. PaidAsApproved' /\ SentToKept'
  BY <1>3 DEF IInv, PaidAsApproved, SentToKept
<1> QED
  BY <1>5, <1>8, <1>9, <1>12, <1>13, <1>14 DEF IInv

\* A save: of a vault whose addresses are owned, by a command that then is over or sweeps.
LEMMA Writes ==
  ASSUME IInv, NEW p \in Process, NEW c \in Commands, Crosses(p, c), cmd[p].at = "save",
         c.at = "idle" \/ c.n = cmd[p].n, vault' \in Vault, Owned(vault'),
         PlaceOK(c), AsLoaded(c, vault'), UNCHANGED <<held, minted, begun, sent>>
  PROVE  IInv'
<1>1. Becomes(p, c) /\ CrossesAll(p) /\ TypeOK
  BY CrossesBecomes DEF IInv
<1>2. TypeOK'
  BY <1>1 DEF Becomes, TypeOK
<1>3. minted \in Nat /\ minted <= minted'
  BY <1>1, WalletsAssumption DEF TypeOK
<1>4. \A q \in Process : PlaceOK(cmd'[q]) /\ AsLoaded(cmd'[q], vault')
  BY <1>1, <1>3, PlacesKept, LoadedKept DEF IInv
<1>5. Numbered'
  BY <1>1, NumbersKept DEF IInv, Numbered
<1>6. OnlyGas'
  <2>1. ASSUME NEW q \in Process, NEW i \in 1..Len(sent), cmd'[q].at # "idle", sent[i].n = cmd'[q].n
        PROVE  cmd'[q].at = "transfer" /\ sent[i].term.asset = "eth"
    <3>1. cmd[q].at # "idle" /\ sent[i].n = cmd[q].n
      BY <1>1, <2>1 DEF Becomes, Same
    <3>2. cmd[q].at = "transfer" /\ sent[i].term.asset = "eth"
      BY <3>1 DEF IInv, OnlyGas
    <3> QED
      BY <1>1, <2>1, <3>2 DEF Becomes, Same
  <2> QED
    BY <2>1 DEF OnlyGas
<1>7. PaidAsApproved' /\ SentToKept' /\ Owned(vault)'
  BY DEF IInv, PaidAsApproved, SentToKept, Owned
<1> QED
  BY <1>2, <1>4, <1>5, <1>6, <1>7 DEF IInv

(***************************************************************************)
(* cast send.                                                               *)
(***************************************************************************)
LEMMA Balances ==
  ASSUME TypeOK, NEW p \in Process, NEW w \in Wallets, NEW t \in Terms, Mined(p, w, t)
  PROVE  held' \in [Account -> [eth : Nat, usdc : Nat]]
<1> DEFINE new(a) == (held[a][t.asset] + IF a = t.to THEN t.amount ELSE 0) - IF a = w THEN t.amount ELSE 0
<1>1. \A a \in Account : held[a] \in [eth : Nat, usdc : Nat]
  BY DEF TypeOK
<1>2. t.asset \in {"eth", "usdc"} /\ t.amount \in Nat
  BY DEF Terms, Asset
<1>3. \A a \in Account : held[a][t.asset] \in Nat
  BY <1>1, <1>2
<1>4. held[w][t.asset] >= t.amount
  BY DEF Mined, Covered
<1>5. \A a \in Account : new(a) \in Nat
  BY <1>2, <1>3, <1>4
<1>6. held' = [a \in Account |-> [held[a] EXCEPT ![t.asset] = new(a)]]
  BY DEF Mined
<1> HIDE DEF new
<1>7. CASE t.asset = "eth"
  BY <1>1, <1>5, <1>6, <1>7
<1>8. CASE t.asset = "usdc"
  BY <1>1, <1>5, <1>6, <1>8
<1> QED
  BY <1>2, <1>7, <1>8

LEMMA RecordType ==
  ASSUME TypeOK, NEW p \in Process, NEW w \in Wallets, NEW t \in Terms
  PROVE  /\ Record(p, w, t) \in Records
         /\ Record(p, w, t).n = cmd[p].n /\ Record(p, w, t).kind = cmd[p].kind /\ Record(p, w, t).term = t
         /\ Record(p, w, t).approved = cmd[p].terms /\ Record(p, w, t).crossed = cmd[p].crossed
         /\ Record(p, w, t).kept = (t.to \in Payee \cup Keys(vault))
BY CommandType DEF Record, Records

LEMMA SentGrows ==
  ASSUME TypeOK, NEW r \in Records, sent' = Append(sent, r)
  PROVE  /\ sent' \in Seq(Records)
         /\ Len(sent) \in Nat /\ Len(sent') = Len(sent) + 1
         /\ \A i \in 1..Len(sent) : sent'[i] = sent[i]
         /\ sent'[Len(sent) + 1] = r
BY AppendProperties, LenProperties DEF TypeOK

\* A command that sends what was approved, or sweeps; before a refill's transfer of USDC
\* it has at most sent gas, before anything else nothing.
LEMMA Sends ==
  ASSUME IInv, NEW p \in Process, NEW w \in Wallets, NEW t \in Terms, NEW c \in Commands,
         cmd[p].at # "idle", castSend(p, w, t, c), UNCHANGED <<vault, minted, begun>>,
         c.at = "idle" \/ (c.n = cmd[p].n /\ c.at = "transfer" /\ t.asset = "eth"),
         cmd[p].kind # "rotate" => t \in cmd[p].terms,
         ~cmd[p].crossed => t.to \in Payee \cup Keys(vault),
         cmd[p].at = "transfer" => t.asset = "usdc",
         PlaceOK(c), AsLoaded(c, vault)
  PROVE  IInv'
<1>1. TypeOK /\ Idle(Empty) \in Commands /\ Idle(Empty).at = "idle"
  BY EmptyType, IdleType DEF IInv
<1>2. PlaceOK(Idle(Empty)) /\ AsLoaded(Idle(Empty), vault)
  BY <1>1, EmptyType, IdleType DEF PlaceOK, AsLoaded
<1>3. minted \in 0..MaxWallet /\ minted <= minted
  BY <1>1, WalletsAssumption DEF TypeOK
<1>4. CASE Goes(p, Idle(Empty)) /\ UNCHANGED <<held, sent>>
  BY <1>1, <1>2, <1>3, <1>4, Moves
<1>5. ASSUME Mined(p, w, t), NEW d \in Commands, Crosses(p, d), d = c \/ d = Idle(Empty) PROVE IInv'
  <2> DEFINE r == Record(p, w, t)
  <2>1. Becomes(p, d) /\ CrossesAll(p)
    BY <1>1, <1>5, CrossesBecomes
  <2>2. r \in Records /\ sent' = Append(sent, r)
    BY <1>1, <1>5, RecordType DEF Mined
  <2>3. /\ sent' \in Seq(Records) /\ Len(sent) \in Nat /\ Len(sent') = Len(sent) + 1
        /\ \A i \in 1..Len(sent) : sent'[i] = sent[i]
        /\ sent'[Len(sent) + 1] = r
    BY <1>1, <2>2, SentGrows
  <2>4. /\ r.n = cmd[p].n /\ r.kind = cmd[p].kind /\ r.term = t /\ r.approved = cmd[p].terms
        /\ r.crossed = cmd[p].crossed /\ r.kept = (t.to \in Payee \cup Keys(vault))
    BY <1>1, RecordType
  <2> HIDE DEF r
  <2>5. \A i \in 1..Len(sent') : i \in 1..Len(sent) \/ i = Len(sent) + 1
    BY <2>3
  <2>6. TypeOK'
    BY <1>1, <1>5, <2>1, <2>3, Balances DEF Becomes, TypeOK
  <2>7. Owned(vault)'
    BY DEF IInv, Owned
  <2>8. PlaceOK(d) /\ AsLoaded(d, vault)
    BY <1>2, <1>5
  <2>9. \A q \in Process : PlaceOK(cmd'[q]) /\ AsLoaded(cmd'[q], vault')
    BY <1>1, <1>3, <2>1, <2>8, PlacesKept, LoadedKept DEF IInv
  <2>10. \A i \in 1..Len(sent') : sent'[i].n \in 1..begun
    BY <2>3, <2>4, <2>5 DEF IInv, Numbered
  <2>11. Numbered'
    BY <1>1, <1>5, <2>1, <2>10, NumbersKept DEF IInv
  <2>12. OnlyGas'
    <3>1. ASSUME NEW q \in Process, NEW i \in 1..Len(sent'), cmd'[q].at # "idle", sent'[i].n = cmd'[q].n
          PROVE  cmd'[q].at = "transfer" /\ sent'[i].term.asset = "eth"
      <4>1. cmd[q].at # "idle" /\ cmd'[q].n = cmd[q].n
        BY <1>1, <1>5, <2>1, <3>1 DEF Becomes, Same
      <4>2. CASE i \in 1..Len(sent)
        <5>1. cmd[q].at = "transfer" /\ sent[i].term.asset = "eth"
          BY <2>3, <3>1, <4>1, <4>2 DEF IInv, OnlyGas
        <5>2. q # p => cmd'[q].at = cmd[q].at
          BY <2>1 DEF Becomes, Same
        <5>3. q = p => cmd'[q].at = "transfer"
          BY <1>1, <1>5, <2>1, <3>1 DEF Becomes
        <5> QED
          BY <2>3, <4>2, <5>1, <5>2, <5>3
      <4>3. CASE i = Len(sent) + 1
        <5>1. q = p
          BY <2>3, <2>4, <3>1, <4>1, <4>3 DEF IInv, Numbered
        <5> QED
          BY <1>1, <1>5, <2>1, <2>3, <2>4, <3>1, <4>3, <5>1 DEF Becomes
      <4> QED
        BY <2>5, <3>1, <4>2, <4>3
    <3> QED
      BY <3>1 DEF OnlyGas
  <2>13. \A i \in 1..Len(sent) : sent[i].n = cmd[p].n => sent[i].term # t
    BY <2>4 DEF IInv, OnlyGas
  <2>14. PaidAsApproved'
    <3>1. \A i \in 1..Len(sent') : sent'[i].kind # "rotate" => sent'[i].term \in sent'[i].approved
      BY <2>3, <2>4, <2>5 DEF IInv, PaidAsApproved
    <3>2. \A i, j \in 1..Len(sent') : i # j /\ sent'[i].n = sent'[j].n => sent'[i].term # sent'[j].term
      BY <2>3, <2>4, <2>5, <2>13 DEF IInv, PaidAsApproved
    <3> QED
      BY <3>1, <3>2 DEF PaidAsApproved
  <2>15. SentToKept'
    BY <2>3, <2>4, <2>5 DEF IInv, SentToKept
  <2> QED
    BY <2>6, <2>7, <2>9, <2>11, <2>12, <2>14, <2>15 DEF IInv
<1> QED
  BY <1>1, <1>4, <1>5 DEF castSend, GivesUp

(***************************************************************************)
(* What commands make of the vault they have loaded.                        *)
(***************************************************************************)
LEMMA RotatedFields ==
  ASSUME NEW v \in Vault, Owned(v), NEW f \in Family, v.key[f] # None, NEW w \in Wallet
  PROVE  LET r == Rotated(v, f, w) IN
         /\ r \in Vault /\ Owned(r) /\ r.treasury = v.treasury
         /\ r.key = [v.key EXCEPT ![f] = w] /\ r.oldKey = [v.oldKey EXCEPT ![f] = v.key[f]]
<1> DEFINE af == AddressOf(v, f)
           old == v.addr[af]
           Follow(x) == IF old # None /\ x = old THEN w ELSE x
           payTo == Follow(v.payTo)
           addr == [g \in Family |-> IF g = af THEN w ELSE IF f = "FOO" THEN Follow(v.addr[g]) ELSE v.addr[g]]
           key == [v.key EXCEPT ![f] = w]
           oldKey == [v.oldKey EXCEPT ![f] = v.key[f]]
           oldAddr == [v.oldAddr EXCEPT ![f] = IF old # None THEN old ELSE @]
           r == [v EXCEPT !.oldKey = oldKey, !.oldAddr = oldAddr, !.key = key, !.payTo = payTo, !.addr = addr]
<1>1. w \in Wallets /\ w # None
  BY WalletsAssumption DEF Wallets, Wallet, None
<1>2. af \in Family /\ (f = "EVM" => af = "EVM") /\ (af # f => v.addr["FOO"] = None)
  BY DEF AddressOf, Family
<1>3. old \in Wallets
  BY <1>2, VaultType
<1>4. payTo \in Wallets /\ addr \in [Family -> Wallets]
  BY <1>1, VaultType
<1>5. key \in [Family -> Wallets] /\ oldKey \in [Family -> Wallets] /\ oldAddr \in [Family -> Wallets]
  BY <1>1, <1>3, VaultType
<1>6. Rotated(v, f, w) = r
  BY VaultType DEF Rotated, Vault
<1>7. addr["FOO"] \in {None, key["FOO"]} /\ addr["EVM"] \in {None, key["EVM"], key["FOO"]}
  <2>1. key["EVM"] = (IF f = "EVM" THEN w ELSE v.key["EVM"]) /\ key["FOO"] = IF f = "FOO" THEN w ELSE v.key["FOO"]
    BY VaultType DEF Family
  <2>2. CASE f = "EVM"
    <3>1. addr["EVM"] = w /\ addr["FOO"] = v.addr["FOO"]
      BY <1>2, <2>2 DEF Family
    <3> QED
      BY <2>1, <2>2, <3>1 DEF Owned
  <2>3. CASE f = "FOO" /\ af = "EVM"
    <3>1. addr["EVM"] = w /\ addr["FOO"] = Follow(v.addr["FOO"]) /\ v.addr["FOO"] = None
      BY <1>2, <2>3 DEF Family
    <3> QED
      BY <2>1, <2>3, <3>1
  <2>4. CASE f = "FOO" /\ af = "FOO"
    <3>1. addr["FOO"] = w /\ addr["EVM"] = Follow(v.addr["EVM"])
      BY <2>4 DEF Family
    <3>2. v.addr["FOO"] = None => v.addr["EVM"] = None
      BY <2>4 DEF AddressOf
    <3>3. v.addr["FOO"] \in {None, v.key["FOO"]} /\ v.addr["EVM"] \in {None, v.key["EVM"], v.key["FOO"]}
      BY DEF Owned
    <3> QED
      BY <2>1, <2>4, <3>1, <3>2, <3>3
  <2> QED
    BY <1>2, <2>2, <2>3, <2>4 DEF Family
<1> HIDE DEF addr, payTo, key, oldKey, oldAddr
<1>8. r \in Vault /\ r.treasury = v.treasury /\ r.key = key /\ r.oldKey = oldKey /\ r.addr = addr
  BY <1>4, <1>5 DEF Vault
<1>9. Owned(r)
  BY <1>7, <1>8 DEF Owned
<1> QED
  BY <1>6, <1>8, <1>9 DEF key, oldKey

LEMMA ChangedOwned ==
  ASSUME NEW c \in Commands, PlaceOK(c), c.at = "save"
  PROVE  /\ Changed(c) \in Vault /\ Owned(Changed(c))
         /\ c.kind = "rotate" => c.new \in Keys(Changed(c))
         /\ Keys(c.base) \ Keys(Changed(c)) \subseteq Dropped(c)
<1> DEFINE v == c.base
           w == c.new
           f == c.fam
<1>1. /\ c.kind \in Writing /\ Owned(v) /\ v \in Vault /\ f \in Family
      /\ w \in Wallets
      /\ c.kind = "rotate" => v.key[f] # None
      /\ c.kind # "purge" => w # None
  BY DEF PlaceOK, Commands
<1>2. c.kind # "purge" => w \in Wallet
  BY <1>1 DEF Wallets
<1>3. v.treasury \in Wallets /\ v.key["EVM"] \in Wallets /\ None \in Wallets
  BY <1>1, VaultType DEF Wallets, Family
<1> HIDE DEF v, w, f
<1>4. CASE c.kind = "init"
  <2> DEFINE x == [v EXCEPT !.treasury = w]
  <2>1. /\ Changed(c) = x /\ x \in Vault /\ x.treasury = w /\ x.addr = v.addr /\ x.key = v.key
        /\ x.oldAddr = v.oldAddr /\ x.oldKey = v.oldKey
    BY <1>1, <1>4 DEF Changed, Vault, v, w
  <2>2. Dropped(c) = {v.treasury}
    BY <1>4 DEF Dropped, v
  <2> HIDE DEF x
  <2> QED
    BY <1>1, <1>4, <2>1, <2>2 DEF Owned, Keys, v
<1>5. CASE c.kind = "keygen"
  <2> DEFINE payTo == c.to # None
             x == Generated(v, w, payTo)
  <2>1. Changed(c) = x
    BY <1>5 DEF Changed, v, w
  <2>2. /\ x \in Vault /\ x.treasury = v.treasury /\ x.addr = [v.addr EXCEPT !["EVM"] = w]
        /\ x.key = [v.key EXCEPT !["EVM"] = w] /\ x.oldAddr = v.oldAddr /\ x.oldKey = v.oldKey
    BY <1>1, VaultType DEF Generated, Vault, Family
  <2>3. Dropped(c) = {v.key["EVM"]}
    BY <1>5 DEF Dropped, v
  <2>4. /\ x.addr \in [Family -> Wallets] /\ x.key \in [Family -> Wallets]
        /\ x.addr["EVM"] = w /\ x.key["EVM"] = w /\ x.addr["FOO"] = v.addr["FOO"] /\ x.key["FOO"] = v.key["FOO"]
    BY <1>1, <2>2, VaultType DEF Family
  <2> HIDE DEF x
  <2>5. Owned(x)
    BY <1>1, <2>4 DEF Owned
  <2>6. Keys(v) \ Keys(x) \subseteq {v.key["EVM"]}
    BY <2>2, <2>4 DEF Keys, Family
  <2> QED
    BY <1>5, <2>1, <2>2, <2>3, <2>5, <2>6 DEF v
<1>6. CASE c.kind = "rotate"
  <2> DEFINE x == Rotated(v, f, w)
  <2>1. Changed(c) = x
    BY <1>6 DEF Changed, v, w, f
  <2>2. /\ x \in Vault /\ Owned(x) /\ x.treasury = v.treasury
        /\ x.key = [v.key EXCEPT ![f] = w] /\ x.oldKey = [v.oldKey EXCEPT ![f] = v.key[f]]
    BY <1>1, <1>2, <1>6, RotatedFields
  <2>3. Dropped(c) = {v.oldKey[f]}
    BY <1>6 DEF Dropped, v, f
  <2> HIDE DEF x
  <2>4. /\ x.key[f] = w /\ x.oldKey[f] = v.key[f]
        /\ \A g \in Family : g # f => x.key[g] = v.key[g] /\ x.oldKey[g] = v.oldKey[g]
    BY <1>1, <2>2, VaultType
  <2>6. w \in Keys(x)
    BY <1>1, <1>2, <1>6, <2>4, WalletsAssumption DEF Keys, Wallet, None
  <2>7. Keys(v) \ Keys(x) \subseteq {v.oldKey[f]}
    BY <1>1, <2>2, <2>4 DEF Keys
  <2> QED
    BY <1>6, <2>1, <2>2, <2>3, <2>6, <2>7 DEF v, w
<1>7. CASE c.kind = "purge"
  <2> DEFINE x == Purged(v, f)
  <2>1. Changed(c) = x
    BY <1>7 DEF Changed, v, f
  <2>2. /\ x \in Vault /\ x.treasury = v.treasury /\ x.addr = v.addr /\ x.key = v.key
        /\ x.oldAddr = [v.oldAddr EXCEPT ![f] = None] /\ x.oldKey = [v.oldKey EXCEPT ![f] = None]
    BY <1>1, <1>3, VaultType DEF Purged, Vault
  <2>3. Dropped(c) = {v.oldKey[f]}
    BY <1>7 DEF Dropped, v, f
  <2> HIDE DEF x
  <2>4. /\ x.oldKey[f] = None /\ x.oldAddr[f] = None
        /\ \A g \in Family : g # f => x.oldKey[g] = v.oldKey[g] /\ x.oldAddr[g] = v.oldAddr[g]
    BY <1>1, <2>2, VaultType
  <2>5. Owned(x)
    BY <1>1, <2>2 DEF Owned
  <2>6. Keys(v) \ Keys(x) \subseteq {v.oldKey[f]}
    BY <1>1, <2>2, <2>4 DEF Keys
  <2> QED
    BY <1>7, <2>1, <2>2, <2>3, <2>5, <2>6 DEF v
<1> QED
  BY <1>1, <1>4, <1>5, <1>6, <1>7 DEF Writing

(***************************************************************************)
(* Each action.                                                             *)
(***************************************************************************)
LEMMA InitIInv == Init => IInv
<1> SUFFICES ASSUME Init PROVE IInv
  OBVIOUS
<1>1. PICK i \in Vaults0 :
        /\ vault = i.vault
        /\ held = [a \in Account |-> IF a \in Wallet THEN [eth |-> i.eth[a], usdc |-> i.usdc[a]]
                                     ELSE [eth |-> 0, usdc |-> 0]]
        /\ minted = i.minted
  BY DEF Init
<1>2. /\ i.vault \in Vault /\ i.eth \in [Wallet -> Nat] /\ i.usdc \in [Wallet -> Nat]
      /\ i.minted \in 0..MaxWallet /\ Owned(i.vault)
  BY WalletsAssumption
<1>3. Idle(Empty) \in Commands /\ Idle(Empty).at = "idle" /\ Idle(Empty).terms = {}
  BY EmptyType, IdleType
<1>4. cmd = [p \in Process |-> Idle(Empty)] /\ begun = 0 /\ sent = <<>> /\ Len(sent) = 0
  BY DEF Init
<1>5. TypeOK
  <2>1. held \in [Account -> [eth : Nat, usdc : Nat]]
    BY <1>1, <1>2
  <2>2. sent \in Seq(Records)
    BY <1>4
  <2> QED
    BY <1>1, <1>2, <1>3, <1>4, <2>1, <2>2 DEF TypeOK
<1>6. \A p \in Process : PlaceOK(cmd[p]) /\ AsLoaded(cmd[p], vault)
  BY <1>3, <1>4 DEF PlaceOK, AsLoaded
<1>7. Numbered /\ OnlyGas /\ PaidAsApproved /\ SentToKept
  BY <1>3, <1>4 DEF Numbered, OnlyGas, PaidAsApproved, SentToKept
<1>8. Owned(vault)
  BY <1>1, <1>2
<1> QED
  BY <1>5, <1>6, <1>7, <1>8 DEF IInv

LEMMA NextIInv == IInv /\ [Next]_vars => IInv'
<1> SUFFICES ASSUME IInv, [Next]_vars PROVE IInv'
  OBVIOUS
<1> USE DEF At
<1>T. /\ TypeOK /\ vault \in Vault /\ Owned(vault)
      /\ minted \in 0..MaxWallet /\ minted \in Nat /\ minted <= minted
      /\ None \in Wallets /\ Wallet \subseteq Wallets /\ \A x \in Wallets : x # None => x \in Account
      /\ "eth" \in Asset /\ "usdc" \in Asset
  BY WalletsAssumption DEF IInv, TypeOK, Wallets, Account, Asset
<1>P. ASSUME NEW p \in Process
      PROVE  /\ cmd[p] \in Commands /\ PlaceOK(cmd[p]) /\ AsLoaded(cmd[p], vault)
             /\ cmd[p].at \in Places /\ cmd[p].kind \in Kinds /\ cmd[p].fam \in Family /\ cmd[p].base \in Vault
             /\ cmd[p].from \in Wallets /\ cmd[p].ask \subseteq Terms /\ cmd[p].terms \subseteq Terms
             /\ cmd[p].key \in Wallets /\ cmd[p].new \in Wallets /\ cmd[p].n \in Nat /\ cmd[p].crossed \in BOOLEAN
             /\ cmd[p].terms \subseteq cmd[p].ask
  BY <1>T, CommandType DEF IInv, PlaceOK
<1>V. /\ vault.treasury \in Wallets
      /\ \A f \in Family : /\ vault.addr[f] \in Wallets /\ vault.key[f] \in Wallets
                           /\ vault.addr[f] # None => vault.addr[f] \in Keys(vault)
  BY <1>T, VaultType DEF Owned, Keys, Family
<1>I. Idle(Empty) \in Commands /\ PlaceOK(Idle(Empty)) /\ Idle(Empty).at = "idle"
      /\ \A v : AsLoaded(Idle(Empty), v)
      /\ Idle(Empty).terms = {} /\ Idle(vault).terms = {} /\ Idle(vault).base = vault /\ Idle(vault) \in Commands
  BY <1>T, EmptyType, IdleType DEF PlaceOK, AsLoaded
<1>1. ASSUME NEW p \in Process, NEW force \in BOOLEAN, InitTreasury(p, force) PROVE IInv'
  <2> DEFINE at == IF vault.treasury = None THEN "mint" ELSE "approve"
             c == [Idle(vault) EXCEPT !.kind = "init", !.at = at]
  <2>1. c \in Commands /\ c.kind = "init" /\ c.at \in {"mint", "approve"} /\ c.base = vault /\ c.terms = {}
    BY <1>I DEF Commands, Places, Kinds
  <2>2. Begin(p, c)
    BY <1>1 DEF InitTreasury
  <2> HIDE DEF c
  <2>3. PlaceOK(c) /\ AsLoaded(c, vault)
    BY <1>T, <2>1 DEF PlaceOK, AsLoaded, Writing
  <2> QED
    BY <2>1, <2>2, <2>3, Begins DEF Begin
<1>2. ASSUME NEW p \in Process, NEW asset \in Asset, NEW n \in Amount,
             NEW to \in Payee \cup ({vault.addr[f] : f \in Family} \ {None}), PayFromTreasury(p, asset, to, n)
      PROVE  IInv'
  <2> DEFINE t == [to |-> to, asset |-> asset, amount |-> n]
             c == [Idle(Empty) EXCEPT !.kind = "pay", !.at = "approve", !.ask = {t}]
  <2>1. to \in Account /\ to \in Payee \cup Keys(vault) /\ n \in Nat
    BY <1>T, <1>V, WalletsAssumption DEF Account, Keys
  <2>2. t \in Terms /\ t.to = to
    BY <2>1 DEF Terms
  <2> HIDE DEF t
  <2>3. c \in Commands /\ c.kind = "pay" /\ c.at = "approve" /\ c.ask = {t} /\ c.terms = {}
    BY <1>I, <2>2 DEF Commands, Places, Kinds
  <2>4. Begin(p, c)
    BY <1>2 DEF PayFromTreasury, t
  <2> HIDE DEF c
  <2>5. PlaceOK(c) /\ AsLoaded(c, vault)
    BY <2>1, <2>2, <2>3 DEF PlaceOK, AsLoaded, Writing
  <2> QED
    BY <2>3, <2>4, <2>5, Begins DEF Begin
<1>3. ASSUME NEW p \in Process, NEW f \in Family, RefillTreasury(p, f) PROVE IInv'
  <2> DEFINE from == vault.addr[f]
             usdc == [to |-> vault.treasury, asset |-> "usdc", amount |-> held[from]["usdc"]]
             gas  == [to |-> from, asset |-> "eth", amount |-> TopUp]
             ask  == {usdc} \cup IF NeedsTopUp(from) THEN {gas} ELSE {}
             c == [Idle(Empty) EXCEPT !.kind = "refill", !.at = "approve", !.fam = f,
                     !.from = from, !.to = vault.treasury, !.ask = ask]
  <2>1. vault.treasury # None /\ from # None /\ from \in Account /\ vault.treasury \in Account
        /\ from \in Keys(vault) /\ vault.treasury \in Keys(vault) /\ TopUp \in Nat /\ vault.treasury \in Nat
        /\ from \in Wallets
    BY <1>3, <1>T, <1>V, WalletsAssumption DEF RefillTreasury, Keys, Wallets, Wallet, None
  <2>2. held[from]["usdc"] \in Nat
    BY <1>T, <2>1 DEF TypeOK
  <2>3. usdc \in Terms /\ gas \in Terms /\ usdc.to = vault.treasury /\ gas.to = from
    BY <1>T, <2>1, <2>2 DEF Terms
  <2> HIDE DEF usdc, gas
  <2>4. ask \in SUBSET Terms /\ \A t \in ask : t.to \in Payee \cup Keys(vault)
    BY <2>1, <2>3
  <2>5. Begin(p, c)
    BY <1>3 DEF RefillTreasury, usdc, gas
  <2> HIDE DEF ask, from
  <2>6. c \in Commands /\ c.kind = "refill" /\ c.at = "approve" /\ c.ask = ask /\ c.terms = {}
    BY <1>I, <2>1, <2>4 DEF Commands, Places, Kinds
  <2> HIDE DEF c
  <2>7. PlaceOK(c) /\ AsLoaded(c, vault)
    BY <2>4, <2>6 DEF PlaceOK, AsLoaded, Writing
  <2> QED
    BY <2>5, <2>6, <2>7, Begins DEF Begin
<1>4. ASSUME NEW p \in Process, NEW payTo \in BOOLEAN, Keygen(p, payTo) PROVE IInv'
  <2> DEFINE to == IF payTo THEN 1 ELSE None
             c == [Idle(vault) EXCEPT !.kind = "keygen", !.at = "mint", !.to = to]
  <2>1. to \in Nat
    BY DEF None
  <2>2. Begin(p, c)
    BY <1>4 DEF Keygen
  <2> HIDE DEF to
  <2>3. c \in Commands /\ c.kind = "keygen" /\ c.at = "mint" /\ c.base = vault /\ c.terms = {}
    BY <1>I, <2>1 DEF Commands, Places, Kinds
  <2> HIDE DEF c
  <2>4. PlaceOK(c) /\ AsLoaded(c, vault)
    BY <1>T, <2>3 DEF PlaceOK, AsLoaded, Writing
  <2> QED
    BY <2>2, <2>3, <2>4, Begins DEF Begin
<1>5. ASSUME NEW p \in Process, NEW f \in Family, Rotate(p, f) PROVE IInv'
  <2> DEFINE from == vault.addr[AddressOf(vault, f)]
             c == [Idle(vault) EXCEPT !.kind = "rotate", !.at = "approve", !.fam = f,
                                      !.from = from, !.key = vault.key[f]]
  <2>1. vault.key[f] # None /\ vault.key[f] \in Wallets /\ from \in Wallets
    BY <1>5, <1>V DEF Rotate, AddressOf, Family
  <2>2. Begin(p, c)
    BY <1>5 DEF Rotate
  <2> HIDE DEF from
  <2>3. c \in Commands /\ c.kind = "rotate" /\ c.at = "approve" /\ c.base = vault /\ c.terms = {} /\ c.fam = f
    BY <1>I, <2>1 DEF Commands, Places, Kinds
  <2> HIDE DEF c
  <2>4. PlaceOK(c) /\ AsLoaded(c, vault)
    BY <1>T, <2>1, <2>3 DEF PlaceOK, AsLoaded, Writing
  <2> QED
    BY <2>2, <2>3, <2>4, Begins DEF Begin
<1>6. ASSUME NEW p \in Process, NEW f \in Family, Purge(p, f) PROVE IInv'
  <2> DEFINE c == [Idle(vault) EXCEPT !.kind = "purge", !.at = "approve", !.fam = f]
  <2>1. c \in Commands /\ c.kind = "purge" /\ c.at = "approve" /\ c.base = vault /\ c.terms = {}
    BY <1>I DEF Commands, Places, Kinds
  <2>2. Begin(p, c)
    BY <1>6 DEF Purge
  <2> HIDE DEF c
  <2>3. PlaceOK(c) /\ AsLoaded(c, vault)
    BY <1>T, <2>1 DEF PlaceOK, AsLoaded, Writing
  <2> QED
    BY <2>1, <2>2, <2>3, Begins DEF Begin
<1>7. ASSUME NEW p \in Process, Approve(p) PROVE IInv'
  <2> DEFINE k == cmd[p].kind
             at == CASE k \in {"init", "rotate"} -> "mint" [] k = "pay" -> "send"
                     [] k = "refill" -> "fresh" [] k = "purge" -> "save"
             c == [cmd[p] EXCEPT !.terms = cmd[p].ask, !.at = at]
  <2>1. cmd[p].at = "approve" /\ k # "keygen" /\ k \in Kinds
    BY <1>7, <1>P DEF Approve, PlaceOK
  <2>2. /\ at \in {"mint", "send", "fresh", "save"}
        /\ at = "mint" => k \in {"init", "rotate"}
        /\ at = "send" => k = "pay"
        /\ at = "fresh" => k = "refill"
        /\ at = "save" => k = "purge"
    BY <2>1 DEF Kinds
  <2>3. Goes(p, c) /\ UNCHANGED <<vault, held, minted, begun, sent>>
    BY <1>7 DEF Approve
  <2> HIDE DEF at
  <2>4. /\ c \in Commands /\ c.at = at /\ c.kind = k /\ c.ask = cmd[p].ask /\ c.terms = cmd[p].ask
        /\ c.base = cmd[p].base /\ c.n = cmd[p].n /\ c.crossed = cmd[p].crossed /\ c.new = cmd[p].new
        /\ c.fam = cmd[p].fam
    BY <1>P, <2>2 DEF Commands, Places
  <2> HIDE DEF c
  <2>5. PlaceOK(c) /\ AsLoaded(c, vault)
    BY <1>P, <2>1, <2>2, <2>4 DEF PlaceOK, AsLoaded, Writing
  <2> QED
    BY <1>T, <2>1, <2>3, <2>4, <2>5, Moves
<1>8. ASSUME NEW p \in Process, Mint(p) PROVE IInv'
  <2> DEFINE c == [cmd[p] EXCEPT !.at = "save", !.new = minted + 1]
  <2>1. /\ cmd[p].at = "mint" /\ minted < MaxWallet /\ minted' = minted + 1 /\ Goes(p, c)
        /\ UNCHANGED <<vault, held, begun, sent>>
    BY <1>8 DEF Mint
  <2>2. minted' \in 0..MaxWallet /\ minted <= minted' /\ minted + 1 \in Wallets
    BY <1>T, <2>1, WalletsAssumption DEF Wallets, Wallet
  <2>3. /\ c \in Commands /\ c.at = "save" /\ c.kind = cmd[p].kind /\ c.ask = cmd[p].ask /\ c.terms = cmd[p].terms
        /\ c.base = cmd[p].base /\ c.n = cmd[p].n /\ c.crossed = cmd[p].crossed /\ c.new = minted + 1
        /\ c.fam = cmd[p].fam
    BY <1>P, <2>2 DEF Commands, Places
  <2> HIDE DEF c
  <2>5. PlaceOK(c)
    BY <1>P, <1>T, <2>1, <2>3 DEF PlaceOK, Writing, None
  <2>6. AsLoaded(c, vault)
    BY <1>P, <2>1, <2>3 DEF AsLoaded, PlaceOK, Writing
  <2> QED
    BY <2>1, <2>2, <2>3, <2>5, <2>6, Moves
<1>9. ASSUME NEW p \in Process, SaveKeys(p) \/ SavePurge(p) PROVE IInv'
  <2>1. /\ cmd[p].at = "save" /\ vault' = Changed(cmd[p]) /\ Crosses(p, Idle(Empty))
        /\ UNCHANGED <<held, minted, begun, sent>>
    BY <1>9 DEF SaveKeys, SavePurge, Saves
  <2>2. vault' \in Vault /\ Owned(vault')
    BY <1>P, <1>T, <2>1, ChangedOwned
  <2> QED
    BY <1>I, <2>1, <2>2, Writes
<1>10. ASSUME NEW p \in Process, SaveRotated(p) PROVE IInv'
  <2> DEFINE c == [cmd[p] EXCEPT !.at = "sweep"]
  <2>1. /\ cmd[p].at = "save" /\ cmd[p].kind = "rotate" /\ vault' = Changed(cmd[p]) /\ Crosses(p, c)
        /\ UNCHANGED <<held, minted, begun, sent>>
    BY <1>10 DEF SaveRotated, Saves
  <2>2. /\ vault' \in Vault /\ Owned(vault')
        /\ cmd[p].new \in Keys(vault')
    BY <1>P, <1>T, <2>1, ChangedOwned
  <2>3. /\ c \in Commands /\ c.at = "sweep" /\ c.kind = cmd[p].kind /\ c.ask = cmd[p].ask /\ c.terms = cmd[p].terms
        /\ c.base = cmd[p].base /\ c.n = cmd[p].n /\ c.new = cmd[p].new
    BY <1>P DEF Commands, Places
  <2> HIDE DEF c
  <2>4. c.new # None
    BY <2>2, <2>3 DEF Keys
  <2>5. PlaceOK(c) /\ AsLoaded(c, vault')
    BY <1>P, <2>1, <2>2, <2>3, <2>4 DEF PlaceOK, AsLoaded
  <2> QED
    BY <2>1, <2>2, <2>3, <2>5, Writes
<1>11. ASSUME NEW p \in Process, Sweep(p) PROVE IInv'
  <2> DEFINE old == cmd[p].from
             t == [to |-> cmd[p].new, asset |-> "eth", amount |-> held[old]["eth"] - GAS_RESERVE]
  <2>1. /\ cmd[p].at = "sweep" /\ old # None /\ held[old]["eth"] > GAS_RESERVE
        /\ castSend(p, cmd[p].key, t, Idle(Empty)) /\ UNCHANGED <<vault, minted, begun>>
    BY <1>11 DEF Sweep
  <2>2. cmd[p].kind = "rotate" /\ cmd[p].new # None /\ (~cmd[p].crossed => cmd[p].new \in Keys(vault))
    BY <1>P, <2>1 DEF PlaceOK, AsLoaded
  <2>3. held[old]["eth"] \in Nat
    BY <1>P, <1>T, <2>1 DEF TypeOK
  <2>4. held[old]["eth"] - GAS_RESERVE \in Nat
    BY <2>1, <2>3, WalletsAssumption
  <2>5. t \in Terms /\ t.to = cmd[p].new
    BY <1>P, <1>T, <2>2, <2>4 DEF Terms
  <2> HIDE DEF t
  <2> QED
    BY <1>I, <1>P, <2>1, <2>2, <2>5, Sends
<1>12. ASSUME NEW p \in Process, SendPayment(p) PROVE IInv'
  <2>1. PICK t \in cmd[p].terms : castSend(p, vault.treasury, t, Idle(Empty))
    BY <1>12 DEF SendPayment
  <2>2. cmd[p].at = "send" /\ cmd[p].kind = "pay" /\ UNCHANGED <<vault, minted, begun>>
    BY <1>12, <1>P DEF SendPayment, PlaceOK
  <2>3. ~cmd[p].crossed => t.to \in Payee \cup Keys(vault)
    BY <1>P, <2>1, <2>2 DEF AsLoaded, Writing
  <2> QED
    BY <1>I, <1>P, <1>V, <2>1, <2>2, <2>3, Sends
<1>13. ASSUME NEW p \in Process, RefillKeys(p) PROVE IInv'
  <2> DEFINE at == IF Gas(p) # {} THEN "topup" ELSE "transfer"
             c == [cmd[p] EXCEPT !.key = vault.key[cmd[p].fam], !.new = vault.treasury, !.at = at]
  <2>1. cmd[p].at = "fresh" /\ Goes(p, c) /\ UNCHANGED <<vault, held, minted, begun, sent>>
    BY <1>13 DEF RefillKeys
  <2>2. at \in {"topup", "transfer"}
    OBVIOUS
  <2> HIDE DEF at
  <2>3. /\ c \in Commands /\ c.at = at /\ c.kind = cmd[p].kind /\ c.ask = cmd[p].ask /\ c.terms = cmd[p].terms
        /\ c.base = cmd[p].base /\ c.n = cmd[p].n /\ c.crossed = cmd[p].crossed
    BY <1>P, <1>V, <2>2 DEF Commands, Places
  <2> HIDE DEF c
  <2>4. PlaceOK(c) /\ AsLoaded(c, vault)
    BY <1>P, <2>1, <2>2, <2>3 DEF PlaceOK, AsLoaded, Writing
  <2> QED
    BY <1>T, <2>1, <2>3, <2>4, Moves
<1>14. ASSUME NEW p \in Process, SendTopUp(p) PROVE IInv'
  <2> DEFINE c == [cmd[p] EXCEPT !.at = "transfer"]
  <2>1. PICK t \in Gas(p) : castSend(p, cmd[p].new, t, c)
    BY <1>14 DEF SendTopUp
  <2>2. cmd[p].at = "topup" /\ cmd[p].kind = "refill" /\ UNCHANGED <<vault, minted, begun>>
    BY <1>14, <1>P DEF SendTopUp, PlaceOK
  <2>3. t \in cmd[p].terms /\ t.asset = "eth" /\ t \in Terms
    BY <1>P, <2>1 DEF Gas
  <2>4. ~cmd[p].crossed => t.to \in Payee \cup Keys(vault)
    BY <1>P, <2>2, <2>3 DEF AsLoaded, Writing
  <2>5. /\ c \in Commands /\ c.at = "transfer" /\ c.kind = cmd[p].kind /\ c.ask = cmd[p].ask
        /\ c.terms = cmd[p].terms /\ c.base = cmd[p].base /\ c.n = cmd[p].n /\ c.crossed = cmd[p].crossed
    BY <1>P DEF Commands, Places
  <2> HIDE DEF c
  <2>6. PlaceOK(c) /\ AsLoaded(c, vault)
    BY <1>P, <2>2, <2>5 DEF PlaceOK, AsLoaded, Writing
  <2> QED
    BY <1>P, <2>1, <2>2, <2>3, <2>4, <2>5, <2>6, Sends
<1>15. ASSUME NEW p \in Process, SendRefill(p) PROVE IInv'
  <2>1. PICK t \in Usdc(p) : castSend(p, cmd[p].key, t, Idle(Empty))
    BY <1>15 DEF SendRefill
  <2>2. cmd[p].at = "transfer" /\ cmd[p].kind = "refill" /\ UNCHANGED <<vault, minted, begun>>
    BY <1>15, <1>P DEF SendRefill, PlaceOK
  <2>3. t \in cmd[p].terms /\ t.asset = "usdc" /\ t \in Terms
    BY <1>P, <2>1 DEF Usdc
  <2>4. ~cmd[p].crossed => t.to \in Payee \cup Keys(vault)
    BY <1>P, <2>2, <2>3 DEF AsLoaded, Writing
  <2> QED
    BY <1>I, <1>P, <2>1, <2>2, <2>3, <2>4, Sends
<1>16. ASSUME NEW p \in Process, Leave(p) PROVE IInv'
  BY <1>16, <1>I, <1>T, Moves DEF Leave
<1>17. CASE UNCHANGED vars
  <2>1. UNCHANGED <<vault, held, minted, cmd, begun, sent>>
    BY <1>17 DEF vars
  <2> QED
    BY <2>1 DEF IInv, TypeOK, Owned, Numbered, OnlyGas, PaidAsApproved, SentToKept
<1> QED
  BY <1>1, <1>2, <1>3, <1>4, <1>5, <1>6, <1>7, <1>8, <1>9, <1>10, <1>11, <1>12, <1>13, <1>14, <1>15,
     <1>16, <1>17 DEF Next

(***************************************************************************)
(* Amounts, wallets and commands are well formed, and no account is         *)
(* overdrawn, whatever is sent (treasury.ts, rotate-wallet.ts).             *)
(***************************************************************************)
THEOREM WalletTypes == Spec => []TypeOK
<1>1. IInv => TypeOK
  BY DEF IInv
<1> QED
  BY <1>1, InitIInv, NextIInv, PTL DEF Spec

(***************************************************************************)
(* What leaves a wallet for a payment or a refill was approved, and is sent *)
(* once for each approval, though a send that was mined may be seen to fail *)
(* (treasury.ts: payFromTreasury, refillTreasury).                          *)
(***************************************************************************)
THEOREM PaymentsAreApproved == Spec => []PaidAsApproved
<1>1. IInv => PaidAsApproved
  BY DEF IInv
<1> QED
  BY <1>1, InitIInv, NextIInv, PTL DEF Spec

(***************************************************************************)
(* Money that a payment, a refill or a sweep sends to one of our wallets    *)
(* goes to one whose key is in the vault, unless another command has        *)
(* written or sent since this one began (rotate-wallet.ts).                 *)
(***************************************************************************)
THEOREM SentIsKept == Spec => []SentToKept
<1>1. IInv => SentToKept
  BY DEF IInv
<1> QED
  BY <1>1, InitIInv, NextIInv, PTL DEF Spec

(***************************************************************************)
(* Every address in the vault is that of a wallet whose key is there, from  *)
(* every vault of which that is true, whatever a rotation rewrites, and     *)
(* though each command saves the vault as it loaded it, over what others    *)
(* wrote (detectWalletPairs, rotateWalletIntoProject).                      *)
(***************************************************************************)
THEOREM AddressesAreOwned == Spec => []AddressesOwned
<1>1. IInv => AddressesOwned
  BY DEF IInv, Owned, AddressesOwned, Family
<1> QED
  BY <1>1, InitIInv, NextIInv, PTL DEF Spec

(***************************************************************************)
(* A save drops no key but the one its command is for (rotate-wallet.ts,    *)
(* keygen.ts, treasury.ts), unless commands cross.                          *)
(***************************************************************************)
LEMMA OneSaves ==
  ASSUME IInv, [Next]_vars, NEW p \in Process, cmd[p].at = "save", cmd'[p].at # "save",
         vault' # vault
  PROVE  vault' = Changed(cmd[p])
<1>1. ASSUME NEW q \in Process, SaveKeys(q) \/ SavePurge(q) \/ SaveRotated(q)
      PROVE  vault' = Changed(cmd[p])
  <2>1. /\ vault' = Changed(cmd[q])
        /\ Crosses(q, Idle(Empty)) \/ Crosses(q, [cmd[q] EXCEPT !.at = "sweep"])
    BY <1>1 DEF SaveKeys, SavePurge, SaveRotated, Saves
  <2>2. [cmd[q] EXCEPT !.at = "sweep"] \in Commands /\ Idle(Empty) \in Commands
    <3>1. cmd[q] \in Commands
      BY DEF IInv, TypeOK
    <3>2. [cmd[q] EXCEPT !.at = "sweep"] \in Commands
      BY <3>1 DEF Commands, Places
    <3>3. Idle(Empty) \in Commands
      BY EmptyType, IdleType
    <3> QED
      BY <3>2, <3>3
  <2>3. p # q => cmd'[p].at = cmd[p].at
    BY <2>1, <2>2, CrossesBecomes DEF IInv, Becomes, Same
  <2> QED
    BY <2>1, <2>3
<1>2. ASSUME NEW q \in Process, Approve(q) \/ Mint(q) \/ RefillKeys(q) \/ Leave(q)
      PROVE  vault' = vault
  BY <1>2 DEF Approve, Mint, RefillKeys, Leave
<1>3. ASSUME NEW q \in Process, Sweep(q) \/ SendPayment(q) \/ SendTopUp(q) \/ SendRefill(q)
      PROVE  vault' = vault
  BY <1>3 DEF Sweep, SendPayment, SendTopUp, SendRefill
<1>4. ASSUME NEW q \in Process, NEW c, Begin(q, c) PROVE vault' = vault
  BY <1>4 DEF Begin
<1>5. CASE UNCHANGED vars
  BY <1>5 DEF vars
<1> QED
  BY <1>1, <1>2, <1>3, <1>4, <1>5
     DEF Next, InitTreasury, PayFromTreasury, RefillTreasury, Keygen, Rotate, Purge

THEOREM KeysOutlastSaves == Spec => WalletKeysKept
<1>1. ASSUME IInv, [Next]_vars, NEW p \in Process, cmd[p].at = "save", cmd'[p].at # "save",
             vault' # vault, ~cmd[p].crossed
      PROVE  Keys(vault) \ Keys(vault') \subseteq Dropped(cmd[p])
  <2>1. cmd[p] \in Commands /\ PlaceOK(cmd[p]) /\ AsLoaded(cmd[p], vault) /\ minted \in 0..MaxWallet
    BY <1>1 DEF IInv, TypeOK
  <2>2. cmd[p].base = vault
    BY <1>1, <2>1 DEF PlaceOK, AsLoaded
  <2> QED
    BY <1>1, <2>1, <2>2, OneSaves, ChangedOwned
<1>2. IInv /\ [Next]_vars => [\A p \in Process :
        At(p, "save") /\ cmd'[p].at # "save" /\ vault' # vault /\ ~cmd[p].crossed
          => Keys(vault) \ Keys(vault') \subseteq Dropped(cmd[p])]_vars
  BY <1>1 DEF At
<1> QED
  BY <1>2, InitIInv, NextIInv, PTL DEF Spec, WalletKeysKept

=============================================================================
