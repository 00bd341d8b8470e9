------------------------------ MODULE Wallets ------------------------------
(***************************************************************************)
(* The wallets whose keys are in the vault: the treasury's, which pays and  *)
(* is refilled (commands/treasury.ts), and a project's, which are made and  *)
(* rotated (commands/keygen.ts, commands/rotate-wallet.ts), against a chain *)
(* that other commands use, too.                                            *)
(*                                                                         *)
(* A command loads the whole vault, asks its user, and writes or sends      *)
(* later; a send can fail, and be mined although the command saw it fail.   *)
(* A wallet stands for its address and its key.  Gas itself costs nothing   *)
(* here; amounts are small whole units, and the sum of what a wallet holds  *)
(* is all that a transfer is checked against.                               *)
(***************************************************************************)
EXTENDS Naturals, Sequences, FiniteSets

CONSTANTS
  Process,       \* commands running at a time
  MaxWallet,     \* bound on wallets; those of Vaults0 come first
  Payee,         \* addresses outside
  Vaults0,       \* the vaults to start from, with what each wallet holds
  Amount,        \* what payments ask for
  MIN_SOURCE_GAS, TopUp, GAS_RESERVE,   \* MIN_SOURCE_GAS_WEI, --gas-topup, rotate's GAS_RESERVE_WEI
  MaxCommand     \* bound on the commands of a behaviour

Wallet  == 1..MaxWallet
None    == 0
Wallets == Wallet \cup {None}
Account == Wallet \cup Payee
Family  == {"EVM", "FOO"}      \* EVM_PRIVATE_KEY and a prefixed FOO_PRIVATE_KEY
Asset   == {"eth", "usdc"}

\* The treasury's variables and the project's: address, key and archive of each
\* family, and PAY_TO_ADDRESS.
Vault == [treasury : Wallets, addr : [Family -> Wallets], key : [Family -> Wallets],
          oldAddr : [Family -> Wallets], oldKey : [Family -> Wallets], payTo : Wallets]

\* Whose addresses they are: FOO's is that of FOO's key, and EVM_ADDRESS that of EVM's
\* or of FOO's (a prefixed key without an address of its own is taken to have
\* EVM_ADDRESS, and one wallet may be there under both names).
Owned(v) ==
  /\ v.addr["FOO"] \in {None, v.key["FOO"]}
  /\ v.addr["EVM"] \in {None, v.key["EVM"], v.key["FOO"]}

ASSUME WalletsAssumption ==
  /\ Payee \cap Wallets = {}
  /\ \A i \in Vaults0 : i.vault \in Vault /\ i.eth \in [Wallet -> Nat] /\ i.usdc \in [Wallet -> Nat]
  /\ \A i \in Vaults0 : i.minted \in 0..MaxWallet /\ Owned(i.vault)
  /\ Amount \subseteq Nat \ {0}
  /\ MIN_SOURCE_GAS \in Nat \ {0} /\ TopUp \in Nat \ {0} /\ GAS_RESERVE \in Nat \ {0}
  /\ MaxWallet \in Nat /\ MaxCommand \in Nat

VARIABLES
  vault,
  held,      \* what each account holds of each asset
  minted,    \* the wallets made so far
  cmd,       \* what each process is doing
  begun,     \* how many commands have begun
  sent       \* the transfers mined so far
vars == <<vault, held, minted, cmd, begun, sent>>

(***************************************************************************)
(* base: the vault as the command loaded it; from, to: the addresses it     *)
(* read then; terms: the transfers its user has approved; key: the project  *)
(* key read after that; crossed: has another command written or sent since  *)
(* this one loaded the vault.                                               *)
(***************************************************************************)
Idle(v) == [at |-> "idle", kind |-> "pay", fam |-> "EVM", base |-> v, from |-> None, to |-> None,
            ask |-> {}, terms |-> {}, key |-> None, new |-> None, n |-> 0, crossed |-> FALSE]

Empty == [treasury |-> None, addr |-> [f \in Family |-> None], key |-> [f \in Family |-> None],
          oldAddr |-> [f \in Family |-> None], oldKey |-> [f \in Family |-> None], payTo |-> None]

Init ==
  /\ \E i \in Vaults0 :
       /\ vault = i.vault
       /\ held = [a \in Account |-> IF a \in Wallet THEN [eth |-> i.eth[a], usdc |-> i.usdc[a]]
                                    ELSE [eth |-> 0, usdc |-> 0]]
       /\ minted = i.minted
  /\ cmd = [p \in Process |-> Idle(Empty)] /\ begun = 0 /\ sent = <<>>

Keys(v) == ({v.treasury} \cup {v.key[f] : f \in Family} \cup {v.oldKey[f] : f \in Family}) \ {None}

At(p, at) == cmd[p].at = at

\* Process p goes on as c; when it has written or sent, others have been crossed.
Goes(p, c) == cmd' = [cmd EXCEPT ![p] = c]
Crosses(p, c) ==
  cmd' = [q \in Process |-> IF q = p THEN c
                            ELSE IF cmd[q].at = "idle" THEN cmd[q] ELSE [cmd[q] EXCEPT !.crossed = TRUE]]

\* The command is over: done, refused, failed or dead.
Leave(p) ==
  /\ ~At(p, "idle")
  /\ Goes(p, Idle(Empty))
  /\ UNCHANGED <<vault, held, minted, begun, sent>>

\* A command starts: it loads the vault and reads the balances it plans with.
Begin(p, c) ==
  /\ At(p, "idle") /\ begun < MaxCommand
  /\ begun' = begun + 1
  /\ Goes(p, [c EXCEPT !.n = begun + 1])
  /\ UNCHANGED <<vault, held, minted, sent>>

\* authenticate(): what was asked for is approved (or the command is left).
Approve(p) ==
  /\ At(p, "approve")
  /\ Goes(p, [cmd[p] EXCEPT !.terms = cmd[p].ask,
        !.at = CASE cmd[p].kind \in {"init", "rotate"} -> "mint" [] cmd[p].kind = "pay" -> "send"
                 [] cmd[p].kind = "refill" -> "fresh" [] cmd[p].kind = "purge" -> "save"])
  /\ UNCHANGED <<vault, held, minted, begun, sent>>

(***************************************************************************)
(* cast send, signed with wallet w's key: mined or not, and seen to be or   *)
(* not.  The command goes on as c only when it has seen it mined.           *)
(***************************************************************************)
Covered(w, t) == held[w][t.asset] >= t.amount /\ (t.asset = "usdc" => held[w]["eth"] >= MIN_SOURCE_GAS)

\* What is recorded of a transfer, for the properties, and whether the receiver's key
\* is in the vault (or it is none of ours).
Record(p, w, t) ==
  [n |-> cmd[p].n, kind |-> cmd[p].kind, from |-> w, term |-> t, approved |-> cmd[p].terms,
   crossed |-> cmd[p].crossed, kept |-> t.to \in Payee \cup Keys(vault)]

Mined(p, w, t) ==
  /\ Covered(w, t)
  /\ held' = [a \in Account |->
       [held[a] EXCEPT ![t.asset] = (@ + IF a = t.to THEN t.amount ELSE 0)
                                       - IF a = w THEN t.amount ELSE 0]]
  /\ sent' = Append(sent, Record(p, w, t))

\* A command that has seen its send fail is over: nothing is sent again.  A slip: it is.
Retries(p) == cmd[p]
GivesUp(p) == Idle(Empty)

castSend(p, w, t, c) ==
  \/ Mined(p, w, t) /\ Crosses(p, c)
  \/ Mined(p, w, t) /\ Crosses(p, GivesUp(p))
  \/ Goes(p, Idle(Empty)) /\ UNCHANGED <<held, sent>>

(***************************************************************************)
(* Treasury.                                                                *)
(***************************************************************************)
InitTreasury(p, force) ==
  /\ vault.treasury # None => force
  /\ Begin(p, [Idle(vault) EXCEPT !.kind = "init",
                 !.at = IF vault.treasury = None THEN "mint" ELSE "approve"])

\* planTreasuryPayment().
PaymentFits(asset, amount) ==
  IF asset = "eth" THEN amount + MIN_SOURCE_GAS <= held[vault.treasury]["eth"]
  ELSE amount <= held[vault.treasury]["usdc"]

PayFromTreasury(p, asset, to, amount) ==
  /\ vault.treasury # None /\ to # vault.treasury
  /\ PaymentFits(asset, amount)
  /\ Begin(p, [Idle(Empty) EXCEPT !.kind = "pay", !.at = "approve",
                 !.ask = {[to |-> to, asset |-> asset, amount |-> amount]}])

\* The treasury's key is the one the vault has by now.
SendPayment(p) ==
  /\ At(p, "send") /\ vault.treasury # None
  /\ \E t \in cmd[p].terms : castSend(p, vault.treasury, t, Idle(Empty))
  /\ UNCHANGED <<vault, minted, begun>>

\* planRefill()
NeedsTopUp(from) == held[from]["eth"] < MIN_SOURCE_GAS
RefillFits(from) == NeedsTopUp(from) => held[vault.treasury]["eth"] >= 2 * TopUp

\* refillTreasury(): all of the source's USDC.
RefillTreasury(p, f) ==
  LET from == vault.addr[f]
      usdc == [to |-> vault.treasury, asset |-> "usdc", amount |-> held[from]["usdc"]]
      gas  == [to |-> from, asset |-> "eth", amount |-> TopUp]
  IN
  /\ vault.treasury # None /\ from # None /\ vault.key[f] # None
  /\ held[from]["usdc"] > 0 /\ RefillFits(from)
  /\ Begin(p, [Idle(Empty) EXCEPT !.kind = "refill", !.at = "approve", !.fam = f,
                 !.from = from, !.to = vault.treasury,
                 !.ask = {usdc} \cup IF NeedsTopUp(from) THEN {gas} ELSE {}])

\* The keys are read again, the addresses are not.
Gas(p)  == {t \in cmd[p].terms : t.asset = "eth"}
Usdc(p) == {t \in cmd[p].terms : t.asset = "usdc"}

RefillKeys(p) ==
  /\ At(p, "fresh") /\ vault.key[cmd[p].fam] # None
  /\ Goes(p, [cmd[p] EXCEPT !.key = vault.key[cmd[p].fam], !.new = vault.treasury,
                             !.at = IF Gas(p) # {} THEN "topup" ELSE "transfer"])
  /\ UNCHANGED <<vault, held, minted, begun, sent>>

SendTopUp(p) ==
  /\ At(p, "topup") /\ cmd[p].new # None
  /\ \E t \in Gas(p) : castSend(p, cmd[p].new, t, [cmd[p] EXCEPT !.at = "transfer"])
  /\ UNCHANGED <<vault, minted, begun>>

SendRefill(p) ==
  /\ At(p, "transfer")
  /\ \E t \in Usdc(p) : castSend(p, cmd[p].key, t, Idle(Empty))
  /\ UNCHANGED <<vault, minted, begun>>

(***************************************************************************)
(* Project wallets.                                                         *)
(***************************************************************************)
Keygen(p, payTo) ==
  Begin(p, [Idle(vault) EXCEPT !.kind = "keygen", !.at = "mint", !.to = IF payTo THEN 1 ELSE None])

\* detectWalletPairs(): a prefixed key without an address of its own is taken to have
\* EVM_ADDRESS.
AddressOf(v, f) ==
  IF f = "FOO" /\ v.addr["FOO"] = None /\ v.addr["EVM"] # None THEN "EVM" ELSE f

Rotate(p, f) ==
  /\ vault.key[f] # None
  /\ Begin(p, [Idle(vault) EXCEPT !.kind = "rotate", !.at = "approve", !.fam = f,
                 !.from = vault.addr[AddressOf(vault, f)], !.key = vault.key[f]])

Purge(p, f) ==
  /\ vault.key[f] # None /\ vault.oldKey[f] # None
  /\ Begin(p, [Idle(vault) EXCEPT !.kind = "purge", !.at = "approve", !.fam = f])

\* cast wallet new.
Mint(p) ==
  /\ At(p, "mint") /\ minted < MaxWallet
  /\ minted' = minted + 1
  /\ Goes(p, [cmd[p] EXCEPT !.at = "save", !.new = minted + 1])
  /\ UNCHANGED <<vault, held, begun, sent>>

\* rotateWalletIntoProject(): the old pair is archived, aliases of its address follow.
\* A slip: they do not.
RotatedOnly(v, f, w) ==
  [v EXCEPT !.oldKey[f] = v.key[f], !.key[f] = w]
\* And: nothing is archived.
RotatedAway(v, f, w) == [v EXCEPT !.key[f] = w, !.addr[AddressOf(v, f)] = w]
Rotated(v, f, w) ==
  LET af == AddressOf(v, f)
      old == v.addr[af]
      Follow(x) == IF old # None /\ x = old THEN w ELSE x
  IN [v EXCEPT !.oldKey[f] = v.key[f], !.oldAddr[f] = IF old # None THEN old ELSE @,
               !.key[f] = w, !.payTo = Follow(@),
               !.addr = [g \in Family |-> IF g = af THEN w ELSE IF f = "FOO" THEN Follow(@[g]) ELSE @[g]]]

\* generateWalletsIntoProject(), for one wallet.
Generated(v, w, payTo) ==
  [v EXCEPT !.addr["EVM"] = w, !.key["EVM"] = w, !.payTo = IF payTo THEN w ELSE @]

Purged(v, f) == [v EXCEPT !.oldKey[f] = None, !.oldAddr[f] = None]

\* What the command saves: the vault it loaded, changed.
Changed(c) ==
  CASE c.kind = "init"   -> [c.base EXCEPT !.treasury = c.new]
    [] c.kind = "keygen" -> Generated(c.base, c.new, c.to # None)
    [] c.kind = "rotate" -> Rotated(c.base, c.fam, c.new)
    [] c.kind = "purge"  -> Purged(c.base, c.fam)

Saves(p, kinds, c) ==
  /\ At(p, "save") /\ cmd[p].kind \in kinds
  /\ vault' = Changed(cmd[p])
  /\ Crosses(p, c)
  /\ UNCHANGED <<held, minted, begun, sent>>

SaveKeys(p)    == Saves(p, {"init", "keygen"}, Idle(Empty))
SavePurge(p)   == Saves(p, {"purge"}, Idle(Empty))
\* A slip: the wallet is swept although the save has failed.
SaveOrNot(p)   == At(p, "save") /\ cmd[p].kind = "rotate"
                  /\ (vault' = vault \/ vault' = Changed(cmd[p]))
                  /\ Crosses(p, [cmd[p] EXCEPT !.at = "sweep"]) /\ UNCHANGED <<held, minted, begun, sent>>
SaveRotated(p) == Saves(p, {"rotate"}, [cmd[p] EXCEPT !.at = "sweep"])

\* The ETH of the old address, as it is now, but for a reserve; with the old key.
Sweep(p) ==
  LET old == cmd[p].from IN
  /\ At(p, "sweep") /\ old # None /\ held[old]["eth"] > GAS_RESERVE
  /\ castSend(p, cmd[p].key, [to |-> cmd[p].new, asset |-> "eth", amount |-> held[old]["eth"] - GAS_RESERVE],
              Idle(Empty))
  /\ UNCHANGED <<vault, minted, begun>>

(***************************************************************************)
Next ==
  \/ \E p \in Process, force \in BOOLEAN : InitTreasury(p, force)
  \/ \E p \in Process, asset \in Asset, to \in Payee \cup ({vault.addr[f] : f \in Family} \ {None}),
        n \in Amount : PayFromTreasury(p, asset, to, n)
  \/ \E p \in Process, f \in Family : RefillTreasury(p, f)
  \/ \E p \in Process, payTo \in BOOLEAN : Keygen(p, payTo)
  \/ \E p \in Process, f \in Family : Rotate(p, f)
  \/ \E p \in Process, f \in Family : Purge(p, f)
  \/ \E p \in Process : Approve(p)
  \/ \E p \in Process : Mint(p)
  \/ \E p \in Process : SaveKeys(p)
  \/ \E p \in Process : SavePurge(p)
  \/ \E p \in Process : SaveRotated(p)
  \/ \E p \in Process : Sweep(p)
  \/ \E p \in Process : SendPayment(p)
  \/ \E p \in Process : RefillKeys(p)
  \/ \E p \in Process : SendTopUp(p)
  \/ \E p \in Process : SendRefill(p)
  \/ \E p \in Process : Leave(p)

Spec == Init /\ [][Next]_vars

(***************************************************************************)
(* Properties.                                                              *)
(***************************************************************************)
\* What leaves a wallet for a payment or a refill is what its user approved, and once
\* for each approval, whatever the command saw of the send and whoever wrote meanwhile.
PaidAsApproved ==
  /\ \A i \in 1..Len(sent) : sent[i].kind # "rotate" => sent[i].term \in sent[i].approved
  /\ \A i, j \in 1..Len(sent) : i # j /\ sent[i].n = sent[j].n => sent[i].term # sent[j].term

\* Money sent to one of our wallets, by a refill or a sweep, is not lost: the vault has
\* the wallet's key by then, unless another command has written meanwhile.
SentToKept == \A i \in 1..Len(sent) : ~sent[i].crossed => sent[i].kept

\* Every address in the vault is that of a wallet whose key the vault has, though a
\* rotation may rewrite another family's address and commands overwrite each other's
\* vaults: what is sent to it can be sent on.
AddressesOwned == \A f \in Family :
  vault.addr[f] # None => vault.addr[f] \in {vault.key[g] : g \in Family}

\* The pairs that are rotated are pairs (detectWalletPairs): where a family has an
\* address and a key, they are one wallet's, which refill reads the one of and signs with
\* the other.  TLC refutes it (README.md).
AddressesMatch == \A f \in Family :
  /\ vault.addr[f] # None /\ vault.key[f] # None => vault.addr[f] = vault.key[f]
  /\ vault.oldAddr[f] # None /\ vault.oldKey[f] # None => vault.oldAddr[f] = vault.oldKey[f]

\* A save drops no key but what its command is for: purge the archive, init --force the
\* treasury's, keygen EVM_PRIVATE_KEY, and a rotation an older archive.  Without that, a
\* rotated wallet's funds and ownerships would be gone.  (Unless commands cross.)
Dropped(c) ==
  CASE c.kind = "init"   -> {c.base.treasury}
    [] c.kind = "keygen" -> {c.base.key["EVM"]}
    [] c.kind \in {"rotate", "purge"} -> {c.base.oldKey[c.fam]}
WalletKeysKept == [][\A p \in Process :
  At(p, "save") /\ cmd'[p].at # "save" /\ vault' # vault /\ ~cmd[p].crossed
    => Keys(vault) \ Keys(vault') \subseteq Dropped(cmd[p])]_vars
=============================================================================
