# Abracadabra: TLA+ models

TLA+ models of [abracadabra](../src/README.md), a local secret manager: an
encrypted vault, the keystores its master key lives in, an agent that keeps the
key in memory, the ways vaults meet (USB sticks, LAN sessions, device pairing),
the servers that hand secrets out, and the wallets whose keys it keeps. The modules are translated from the TypeScript sources under `src/src`;
`PROJECT.json` names, for every definition, the lines it models, and lists runs,
mutants, findings, hazards and theorems.

## Inventory of the system

| Part | Source | State | Operations | What is hard | Correct when |
|---|---|---|---|---|---|
| Vault contents | `core/vault.ts`, `commands/crud.ts`, `keys.ts`, `connect.ts` | projects and connections with their variables, passkeys, API keys, device-local sync identity and peers | set, rm, project new/rm, connect, keys | read, prompt, write of the whole vault by many processes | no update is lost; device-local fields stay home |
| Merge | `core/sync.ts` | none (pure) | `threeWayMerge`, conflict picks, deletions | combinations of three vaults | nothing lost unasked, symmetric, stable on retry |
| Sync state | `core/sync.ts` | one base per partner in `sync-state.json` | load, save, forget | a base ahead of the partner | it is never ahead of what both have seen |
| USB | `commands/usb.ts`, `core/backup.ts` | bundles, `latest.json` | backup, sync, restore | three writes that can stop in between, prompts between read and write | deletions consented to, news of both sides kept |
| LAN | `usb/lan-host.ts`, `usb/lan-client.ts` | host session: PIN, TTL, scope, failures | start, pull, push, stop | handlers that wait for an approval while everything else goes on | gated deletions, scope kept, only in an open session |
| Agent | `agent/` | key, timers, reveal grants | unlock, lock, load, save, grants | coroutines, late timers, suspend | locks when it must, and grants go with the key |
| Keystores | `platform/`, `core/masterKey.ts`, `commands/keystore-migrate.ts` | key in the OS keystore or `master.key.enc` | resolve, mint, store, restore, migrate, remove | two processes, refusals, stops in the middle | the key of the vault is always where it is looked for |
| Files | `core/vault.ts` and five others | `<file>`, `<file>.tmp` | replace | death, two writers of one temporary file | replaced whole or not at all |
| Reaching the vault | `core/vault.ts`, `agent/client.ts`, `peer.ts`, `server.ts` | the call a command waits on, what the agent does with it | load, save, unlock, the peer check, fall back | time-outs against late answers, agents that lock, refuse or die | a save is done once and said to be; every command ends |
| Pairing | `sync/pair.ts`, `peers.ts`, `identity.ts`, `commands/sync.ts` | identity and peer table, sessions | listen, connect, confirm, save, whoami, unpair | two sides, lost frames, an acknowledgement that may not come | nobody writes unless both confirmed; tables well formed |
| Approvals and servers | `platform/reveal-gate.ts`, `api/`, `mcp/` | queue of approvals, grants, sessions, the one challenge | secret, dash edits, ceremonies, revoke | approvals awaited between read and use; prompts that nobody answers | no value for a grant without an approval that stands; every request is asked about; a challenge is spent once |
| Treasury payments | `commands/treasury.ts` | balances on the chain | init, pay, refill | checks before the approval, sends after it, sends not seen to be mined | what was approved is sent, once, to wallets whose key is kept |
| Safe payments | `commands/safe.ts` | owners, threshold and nonce on the chain, proposals and signatures at the service | link, create, pay, confirm, exec | several owners, stale readings, a service that may be wrong | the Safe pays what enough owners were shown and approved, each nonce once |
| Wallet rotation | `commands/rotate-wallet.ts`, `keygen.ts` | key pair and its archive | keygen, rotate, sweep, purge | the sweep after the save; saves of vaults read long before | every address is that of a key that is kept; keys are archived, not lost |
| Cartridge | `cartridge/`, `commands/cartridge.ts` | checkpoint nonce at the service | checkpoint, restore | prompts between reading and using a nonce | a checkpoint is taken once |
| Other | `license/`, `push`, `setup`, `doctor`, `tui/`, web | one licence file | - | I/O | - |

Interactions: every command goes through `loadVault`/`saveVault`, which try the
agent (a Unix socket) and fall back to the keystore. Nothing but files, the OS
keystore and the agent's socket is shared between processes, and there are no
locks between them. A LAN host and a client exchange whole sealed vaults; a stick
holds whole sealed vaults with the master key inside; restore replaces key and
vault. Two machines that pair talk over one TCP connection; browsers, programs
and MCP clients send requests to `abra serve` and the MCP server, which ask the
user through the reveal gate. Payments go to a chain, and proposals to the Safe
Transaction Service, that others use at the same time.

The components with their status are in `PROJECT.json` (`components`), the
hazards at their lines in `hazards`.

## Modules

| Module | Models | Used by |
|---|---|---|
| `Vault` | contents of a vault and the edits commands make | everything that merges |
| `ThreeWayMerge` | `mergeVarMaps`, `mergeProjects`, `mergeConnections`, `threeWayMerge`, `collectResolutions` | `Divergence`, `UsbSync`, `LanSync` |
| `Divergence` | two vaults that leave a base by edits; the contract of the merge | its proofs |
| `UsbSync` | machines at one backup directory | `MCUsbSync` |
| `ScopedMerge` | `extractScopedProjects`, `mergeScopedProjects`, `validateScope` | `LanSync` |
| `LanSync` | a LAN host and its clients | `MCLanSync` |
| `Agent` | `abra-agent` | - |
| `FileRegister` | abstract: a file that is replaced whole or not at all | `AtomicFile` |
| `AtomicFile` | write to `.tmp` and rename, which implements `FileRegister` | `VaultAccess` |
| `VaultAccess` | commands that load, save and unlock through the agent or without it, the peer check, the agent's saves; its processes replace the file as `AtomicFile` says | `MCVaultAccess` |
| `Custody` | which key the vault is sealed with and who has it | - |
| `PairPromise` | abstract: what a pairing session promises its two sides | `Pairing` |
| `PeerTable` | `planPeerUpsert`, `resolveRoles`, `removePeer` | `Pairing` |
| `Pairing` | listeners and connectors, `whoami` and `unpair` beside them | `MCPairing` |
| `Serve` | `abra serve`, its dash and passkeys, the MCP server's secrets, the reveal gate | `MCServe` |
| `Wallets` | the treasury's payments, keygen, rotate and purge | `MCWallets` |
| `Multisig` | abstract: what a Safe promises its owners | `Safe` |
| `Safe` | payments from a Safe, with the service, the contract and co-signers | `MCSafe` |
| `MC*` | the values of constants that a `.cfg` cannot write down | the runs |
| `*Proofs` | the theorems of the module they extend | - |

### State and actions

**Vault, ThreeWayMerge.** A project or a connection (a *scope*) is `Gone` or a map
from variable names to entries or `Absent`; an entry stands for a variable's JSON.
Passkeys and API keys are each one opaque `Blob`, because the code merges them as
a whole. `Edits(v)` is what the commands can make of a loaded vault. `Merge(ours,
theirs, base, res)` follows `threeWayMerge`: `MergeEntry` per variable, project
presence with `ProjectDeletions`, `Resolutions` for what a user picked. `Quiet`
is the code's test `report.length === 0`; what the report does *not* mention is
therefore in the model. Times, labels and connection metadata are left out.

**UsbSync.** Per machine `vault`, `base` (per lineage) and the step its command
stands at (`pc`, `job`); the `stick` holds the bundle `latest.json` names. A sync
reads (`OpenBundle`, `MergeLocal`, or the dashboard's `LoadLocal`, `MergeStick`),
asks (`Approve`) and writes (`SaveMerged`, `Publish`, `SaveMergedBase`), each a
step; `Stop` ends a command anywhere, which is a denial, a failure or a kill.
`Edit` is any other command of the machine; the machines in `MidSync` have such
commands run beside a sync, the others between syncs only.

**LanSync.** `session` and `active` are the host's sessions, `failures`
the wrong PINs it has counted, `handler[c]` the push it works on, `vault`, `base`, `hostBase`
as above. The push handler is four steps because the code awaits three times:
`TakePush`, `GatePush`, `ApplyPush`, `AnswerPush`. `StopHost`
(the user's, or the TTL's) and `StartHost` can come anywhere. Scoped pulls run beside.

**Agent.** `limits` (what `startAgent` reads from the environment), `key` (held, idle time left, age left), `grants` with their time left,
`req` the requests in flight: a request waits for the peer check, and an unlock
for the keystore. `Tick` lets time pass; `IdleFires`, `MaxAgeFires`, `PruneFires`
are the timers, which may be late; `Suspend` is the sleep signal. `since` (the time since
the key was unlocked afresh) and `approved` (how long what the user has approved still
covers a project and a binary) are kept for the properties and look at none of the timers.

**AtomicFile.** Inodes and two names. `Begin`, `OpenTmp`, `WriteChunk`, `Rename`
are the system calls of `writeFileSync` and `renameSync`; `Fail` is a death or an
error. The mapping to `FileRegister` takes what a reader would find for `value`.

**VaultAccess.** `cmd[p]` is how far a client's command is and which call it is in:
`load`, `save` or `key` (what `abra unlock` pushes), tried first, then after an
`unlock` once again. `req` is what the agent does with each call: the peer check
with the runs of `ss` so far and the time since the connection was made, waiting
for the keystore, writing, or its answer. `Connect`, `AnswerOk`, `AnswerLocked`,
`AnswerError`, `GiveUp` are the client's; `Unseen` and `Refuse` one run of `ss`, and
`Mismatch`, `Locked`, `Load`, `BeginSave`, `Unlock`, `TakeKey` what a handler does once
its peer is known to be abra's CLI (`IsAbraCli`). A client that gives up is gone
and the agent carries on: `landed` counts how often its vault became the file,
`unsure` says that it got no answer to a save. Keys and contents are left to
`Custody` and `Agent`.

**Custody.** `ring` (keytar or the macOS keychain), `file` (`master.key.enc`),
`vault` (the key `vault.enc` is sealed with), `agent`, what kind of `machine` it is
(chosen at the start and never changed), and per process the step
of the command that resolves, makes, pushes, restores or migrates a key. A
process keeps the backend it has picked, as the module-level singleton does.

**Pairing.** Per machine the identity and peers of its vault (`vaults`), a pairing command
(`cmd`) and another command (`edit`: whoami or unpair); `link[s]` is a connection with
the frames on their way (`to`), the sides that closed it, and for the properties who
confirmed, wrote and was told. Identities are numbers, generated one after the other;
`Stranger` are those of machines that a vault already has as peers and that stay away. A listener handles many connections until one gets
in (`TakeHello`); from `Compare` on both sides run the same actions, as both run
`confirmAndSave`. `GiveUp` is a time-out, a closed connection or a person; `Lose`
breaks a connection with some of its frames not delivered.

**Serve.** `req[r]` is one request being handled, from where it came in to its next
`await`: `identify`, `queued`, `dialog`, `load`, `save`, `answered`. `queue` and
`asking` are the promise chain `authChain`, `challenge` the one in memory, which a
client may answer with either ceremony (`Verify`). Each server has its grants
and loses them on `Restart`. An MCP client's name is what it says (`App`); the agent
is asked about the executable of the calling process, which has nothing to do with
that name and may be any (`ViaAgent`). `CanAsk` says on which backend the user can be asked, `HasTimer` which
dialogs end by themselves. `approved`, `enrolling`, `opened` and `stale` are kept for
the properties.

**Wallets.** `vault` has a wallet (or `None`) under each variable name the commands
use, `held` what each account has on the chain, `sent` every transfer mined.
A command keeps what it read when it started (`base`, `from`, `to`), what its user
approved (`terms`) and the key read later. `castSend` is one `cast send`: mined and
seen, mined and not seen, or not mined. What a command saves is `Changed`, a
function of the vault it loaded.

**Safe.** `chain` has each Safe's owners, threshold and nonce; `proposed` and
`confirmed` are the service's; a command keeps what it read (`info`, `signer`,
`tx`), what the service said it is (`fields`), the signatures it goes by and what
was asked and agreed. `Records(t)` is everything the service may answer, `Lies`
what of it may be made up. `signHash` signs with the key the vault has by then,
under the name read before. `initTreasury`, `Cosign`, `AppExecutes` and `ChangeOwners`
are everyone else. `Multisig` sees `chain`, who was `shown` which transaction, and
what was `paid`.

## Runs

Passing runs (bounds in the `.cfg` and the MC modules):

| Run | Question | Bounds, and why they are enough |
|---|---|---|
| `merge_vaults` | the contract of the merge over every base and every divergence | one project, one connection, one variable, three entries: entries are only compared and scopes and variables do not touch each other, so a base, ours and theirs that all differ need three |
| `usb_two_machines` | consent, news and identity with two machines and one stick, one machine being edited during its own commands (`MidSync`), and an old release's bundle on the stick | two edits: one per machine, or one before and one after a sync; one lineage is enough for the two to share it; one machine has an identity when the run starts, and each could get one |
| `lan_sync` | the push protocol with sessions that end at any time, and what scoped sessions share | two sessions: a push outlives the first, or a scoped one follows a whole one; two edits, one per end; two projects, one of them reserved, so that something is outside every scope; each side types an entry of its own, so that one can see where an entry comes from |
| `agent_locks` | grants, timers, ceilings, for agents started with each combination of a normal limit and one switched off | two requests race; times are 1 to 3 units, in the order of the real ones; two grants and two callers |
| `vault_access` | the file is replaced whole, saves happen once, the peer check is in time, commands end | two clients and the agent: one is abra's CLI on a loaded machine, the other is under another node, or for another vault, so that every answer of the agent occurs and a save of one can fall between two of the other; times are the real ones in tenths of a second; contents of one and two chunks, so that a torn one and a shorter rewrite of a longer one exist; two inodes, as one process saves at a time |
| `custody_keys` | the vault opens, no key is lost, a restore that ends opens, on every kind of machine (`Machine`) | three commands and the agent; three keys that can be made (what is in use at a time: keystore, file and one in the making) and one foreign one |
| `pair_two` | the pairing protocol and the peer table | one machine that listens and one that connects; two sessions, so that a second one follows the first or waits beside it; one event: a broken connection, a whoami or an unpair; two PIN failures; a listener's vault with a peer (`Stranger`) whose name clashes with the connector's; identities for both machines and one made beside a pairing |
| `wallets_two` | payments, refills and rotations against a chain | three commands, two at a time: one before two that cross; five wallets: treasury, two of the project and two that are made; projects with two wallets under their own names, with one under both, and with a prefixed key that has no address beside an EVM pair or beside `EVM_ADDRESS` alone; one unit of each asset is moved at a time, with and without gas |
| `safe_two` | a Safe pays as its owners have agreed | two commands at a time, of two; two addresses, one deployed, with one or two owners; one change of owners, one new treasury, nonces 0 and 1, a co-signer, and a service that makes up either part of a record |
| `serve_two` | whose approval a grant answers for, dialogs and their queue, ceremonies and saves | two requests at a time, of two, so that one waits behind the other's dialog; secret requests that ask for a grant (under a passphrase none is given: the case of those that do not); two callers and two projects (a grant for one must not do for the other); two challenges, so that ceremonies overlap; lives of one unit of time and a clock of two, so that everything expires |

Deadlock is not checked where the bounds on commands, sessions or events are used
up in the end, or a host may be stopped for good: `lan_sync`, `pair_two`,
`wallets_two`, `safe_two` and `serve_two`. All others check it.

Runs that show a disagreement (each is a finding, quoting the line it disagrees
with):

- `usb_own_edits`: a base that is saved while the stick is not refreshed makes a
  later sync take one's own edit back.
- `agent_lock_overtaken`: a lock undone by an unlock that was waiting.

### Provisos

What the passing properties take for granted, in their statement or in a constant:

- `NothingLostUnasked`: connections that a side has removed are left out (see
  `OneSidedChangesMerge` below).
- `DeletesNeedConsent` and `HostDeletesGated`: nobody wrote the vault between the
  reading and the save. `HostNewsSurvives`: the report was not empty.
- `Atomic` in `vault_access`: one process saves at a time (`Alone`).
- `Openable`, `KeysKept`: the first vault is made by one process at a time
  (`FirstRunAlone`).
- `pair_two`: nobody else saves the vault between a pairing's last look at it and its
  save, which is a few milliseconds (`Alone`; the pairing reads the vault again for
  this very reason). Of the safety properties, `IdentityKept` and `RolesMatch` need it;
  the others are proved without it. Identities are random keys, so no two are the same, and
  no machine that takes part has the identity of one that stays away (`PairingAssumption`).
- `SentToKept`, `WalletKeysKept`: no other command wrote or sent meanwhile
  (`crossed`). `PaidAsApproved` and `AddressesOwned` hold although they do.
- `AddressesOwned`: the vault a project starts with has no address but its keys', and no
  `EVM_ADDRESS` of a wallet that is neither EVM's nor the prefixed one's (`Owned`).
- `NothingSentInVain`: Safe, signers' key and service are as they were read (`asRead`),
  and `safe pay` was not asked for a later nonce. `IsMultisig` needs nothing of this.
- `AddedToLatest`: no save fell between the second reading and the save (`stale`).
- `EveryoneAsked`: dialogs have a time limit, or fail at once for want of a terminal (see
  `PromptsEnd` below).
- `vault_access` gives process ids to one process each (a pid that is used again
  between the connection and the look at it is left out), lets the agent be late only
  after the peer check, and lets `ss` be slow for one client.

### Other disagreements

Met while modelling; the modules contain them, or say that they leave them out,
and the passing properties step around them.

Four of them are stated as definitions that TLC refutes, with a trace, when they are
added to the `.cfg` of the run that checks their module:

- `OneSidedChangesMerge` (an invariant, `merge_vaults`): a connection that one side removed comes
  back from the other, unasked: `mergeConnections` looks at no base (`sync.ts:283-286`).
  src/README.md:617 says "Only-one-side-changed keeps auto-merging".
- `AddressesMatch` (an invariant, `wallets_two`): a rotation leaves `EVM_ADDRESS` and
  `EVM_PRIVATE_KEY` with two wallets, so that `refill` reads the balance of the one and signs with
  the other. A prefixed key without an address of its own is taken to have `EVM_ADDRESS`
  (`rotate-wallet.ts:112-118`), and where one wallet is there under both names,
  `EVM_ADDRESS` is an alias that is rewritten (`rotate-wallet.ts:119`, `203-208`). Each
  archive then has another wallet's address, or one address two archives.
- `PromptsEnd` (a property, `serve_two`): under a passphrase or password backend with a
  terminal nothing ends a prompt that nobody answers (`auth-passphrase.ts:76`,
  `auth-password.ts:18`, `prompt.ts:168`), and the requests behind it (`server.ts:46`) are never
  asked about. docs/CROSS-PLATFORM.md:155 says "Resolve when user approves; reject on
  deny/timeout."
- `EnrolledWithApproval` (an invariant, `serve_two`): one challenge is kept for registrations and
  logins alike, so `registerVerify` (`passkeys.ts:90`) enrols a passkey with the challenge of
  a login, which needed no approval. passkeys.ts:52 says "Adding a passkey is Touch ID gated",
  src/README.md:405 "Enrolling a passkey itself requires Touch ID on the server."

Merging and synchronising:

- API keys and passkeys are merged as a whole, ours first (`sync.ts:307-314`): a
  change of the other side vanishes without a conflict. `NothingLostUnasked` is
  about the variables of projects and connections.
- `usb.ts:1060` saves the merge of a vault read before the prompts, so a project
  created meanwhile goes without consent.
- `lan-client.ts:385` takes an empty report for equality and pushes over what the
  report does not count, and `lan-client.ts:386` saves the base before the push is known
  to have arrived: the LAN form of `usb_own_edits`.
- `lan-host.ts:388`: the deletion gate compares with a vault read before the
  approval, and an approval given after the session has ended still applies its push.
  README:650 says that the host stops then.
- `sync.ts:134` reads, changes and writes the file with the bases of all partners: two
  syncs at once lose one's.
- `lan-host.ts:415`: two starts of a host close together leave the first one's stop
  timer behind.

Agent, files and keys:

- `paths.ts:43`: a maximum age below a second is rounded to none; `Ceiling`
  excepts agents without a ceiling.
- All processes save through one temporary file (`vault.ts:195`): two at once can leave
  a torn vault, although README:699 says that writes are atomic.
- A save whose answer from the agent is lost is done again by the command, maybe over
  what another saved in between; or it is reported failed although the agent did it.
- `keystore-keytar.ts:60` looks for a key and stores one in two steps, so two first
  runs each make one and the second replaces the first: the refusal of line 56 does
  not keep them apart.
- `keystore-passphrase.ts:44`: with `ABRA_KEYSTORE=passphrase-file` a key is made
  without a look at the vault; `Openable` excepts machines where it is set.
- `usb.ts:805`: the agent is not told of a restore and keeps the old key;
  `RestoreOpens` is about the keystores, not about the agent.

Servers:

- The dash's edits save the vault read before the approval (`dash.ts:73-87` and its
  like), so what another command wrote meanwhile is undone; a revoked API key comes back,
  although skills/abra/SKILL.md:278 says "revoke immediately". `createApiKey` reads after
  it, which `AddedToLatest` states.
- The values `POST /secret` answers with are those read before the approval.
- The dialogs of the dash and the MCP server do not wait in the queue of `POST /secret`.
- Logging out clears the cookie; the session stays valid until it expires.

Money:

- A second rotation overwrites the key the first has archived (`rotate-wallet.ts:177`),
  though README:421 describes the archive as what is kept until ownership is moved.
- `keygen foundry` replaces `EVM_PRIVATE_KEY` unasked and leaves `PAY_TO_ADDRESS`.
- `init`, `rotate`, `purge`, `link` and `unlink` save the whole vault as they loaded it
  before their approval or their chain call: other commands' changes are lost.
- `treasury refill` reads its addresses before the approval and its keys after it.
- README:499 says that `confirm` wants the Safe's next nonce; without `--exec` it signs
  any (`safe.ts:868-913`).
- `ready` in the listing of proposals counts confirmations of non-owners
  (`safe.ts:1003`); `confirm` and `exec` do not.
- `safe pay --nonce` above the next one on a Safe with threshold 1 can only fail; two
  proposals at the same default nonce exclude each other.
- `createSafe` replaces a link made while it was deploying.

### Fairness

- `Agent` (`FairAgentSpec`): weak fairness of `Tick` (time passes) and of the three timers
  (Node's event loop runs a timer that is due and stays due). Nothing is assumed of
  requests, of the keystore or of users.
- `VaultAccess` (`AccessSpec`): a client goes on, because its calls end by an answer, a
  closed connection or its timer; the peer check and a save of the agent go on, as
  they wait for nothing but `ss`, whose runs are cut off, and for the file system. The
  keystore, a person it asks, and the rest of the agent may take for ever.
- `Pairing`: frames that have come are read, a person who compares the code answers,
  and a save that was begun is made. Connections may break, and sides give up,
  whenever they like; `BothSave` excepts those.
- `Serve`: handlers run on, and a dialog that has a time limit ends (`HasTimer`): the
  helpers' (30 seconds on macOS, 120 with polkit, `auth-polkit.ts:188`) and those that
  fail at once for want of a terminal. The prompts for a passphrase or a password
  (`auth-passphrase.ts:76`, `auth-password.ts:18`) have no timer and need never end. Weak
  fairness per slot is enough because nobody else can take a queued request's turn for
  ever: the queue is first come, first served.

Nothing else in the code is obliged to happen: commands wait for people.

## Proofs

The theorems hold for every value of the constants that satisfies the named
assumptions of the modules, and are checked by TLAPS. Every inductive invariant was
model-checked on the run of its module before it was proved. A module of proofs
holds those of one component, or of two that share no state.

- `MergeProofs`: lemmas about the merge, one variable at a time, then scopes: its
  result is a vault; what it keeps; when both ends agree. On them rest the theorems
  about `Divergence`: `MergesTyped`, `ChangesSurvive` (`NothingLostUnasked`),
  `BothEndsAgree`, `RetrySettles`, `NothingDeletedWithoutBase`. Each is a fact of
  the merge under the type invariant, so the invariant is type correctness.
  `ChangesSurvive` covers changed entries and removed projects; removed connections are
  what `OneSidedChangesMerge` is about.
- `UsbSyncProofs`: `TypeCorrect`; `IdentityIsLocal`, whose inductive invariant adds
  that what a command has read of its own vault has that machine's identity, and
  what it writes out has none; `ConsentedDeletes`, an action property that needs
  what `job` holds at each step: past `Approve`, a merge with deletions was allowed;
  `NewsKept`, from the invariant that between its merge and the stick's refresh a command
  holds the base its machine still has, and has resolved nothing but conflicts
  (`Settled`). What the merge then does to one key is `MergeCarries` of `MergeProofs`.
- `LanSyncProofs`: `TypeCorrect`; `GatedDeletes`, from the invariant that a push
  past its gate removes no project of the vault it was compared with, or its
  session allows deletions; `HostNewsKept`, from two more: a client that has merged
  deleted only what it was allowed to and resolved only conflicts (`Settled`), and the
  push it waits for at the host is the one it made (`OwnPush`); `ScopedProjectsOnly`, from the invariant that, until
  an unscoped session is started, no unscoped exchange is under way and each
  vault and each share holds only what was typed there or shared.
- `CustodyProofs`, the agent: `AgentTypes`; `GrantsEndWithLock`; `UseNeedsApproval`, that
  what the timers and the grants' clocks allow is what the histories `since` and `approved`
  allow. The invariant: while a key is held, its age left and the time since it was
  unlocked afresh make up no more than the maximum age, however often it was touched,
  and a grant has no more time left than an approval of its project and binary.
- `CustodyProofs`, keys: `VaultStaysOpenable`, `NoKeyIsLost`, `RestoresOpen`, for any
  number of processes and keys, on every kind of machine, from the hypothesis
  `FirstRunAlone` (two first runs at once each make a key: see above). That the
  vault opens is not inductive: what matters is what the commands under way are about to
  write. The invariant (`IInv`) is in three parts. On every machine (`Common`), a
  place says what its command holds; until there is a vault one actor at most looks for
  a key (`Sole`); the agent asks keytar only and makes a key only for a vault that
  is not there (`AgentOK`). Where nobody restores or overrides the keystore (`OneKey`),
  there is one key, the one the default finds, and everything in a keystore, a command or
  the agent is that key or none. On the others (`Careful`), where the model has one
  command run at a time, a migration's key is in the ring until it has been read back from
  the file, and a restored key is where the default is looked for before the command ends.
- `VaultAccessProofs`: `SavesAreAtomic`, that `AtomicFile` with one saver at a time
  implements `FileRegister`. The inductive invariant says that the saver's
  temporary file is not the file, that it holds the chunks written so far and
  nothing else, and that the file is whole. `Alone` is the theorem's hypothesis
  because two savers can tear the file. Then `AccessTypes`; `CheckIsInTime`, from the
  invariant that the time a call's peer check has used never exceeds its budget,
  because each run of `ss` is cut at what is left of it; `SavesAreOnce`, from the
  invariant that a client which neither gave up on a save nor died has its vault
  written exactly once if it was told so and else not at all, and that a save the
  agent carries out is one the client waits for, or one it gave up on;
  `AccessIsAtomic`, under `Alone`: each step of a command or of the agent is a step of
  `AtomicFile` or leaves the file alone, and `AtomicFile` implements `FileRegister`.
- `WalletsProofs`: `WalletTypes`; `PaymentsAreApproved` and `AddressesAreOwned`, whatever
  other commands do meanwhile; `SentIsKept` and `KeysOutlastSaves`, of commands that
  nobody crossed. In the invariant a command's terms are among those its user was
  asked; in the vault it loaded, as in the one there is, the prefixed wallet's address is
  that of its key and `EVM_ADDRESS` that of either key (`Owned`, which a rotation keeps
  because it rewrites an alias to the key it has just stored, and which overwriting keeps
  because a whole vault is saved); until another command crosses it, it has the vault
  as it is, or sends to wallets whose keys the vault keeps; and all that a command under
  way has sent is the gas of a refill, so that nothing is sent twice.
- `ServePairingProofs`, the servers: `ServeTypes`, `GrantsAreBacked`, `DialogsTakeTurns`,
  `ChallengesSpentOnce`, `AddingKeepsTheRest`, for any number of requests, callers,
  projects and challenges. In the invariant the dialog of a `POST /secret` is the one
  that has the turn and who queues waits, once (`Turns`, `Queued`); every grant has an
  approval for its server, caller and project, which it outlives by `MAX_TTL` at most
  (`Backed`); a challenge is kept, held by one request, or spent, whichever ceremony it
  is used for (`Once`); and what an adding request is to save is the vault and more, or the request
  is `stale` (`Latest`).
- `ServePairingProofs`, pairing, for any machines, listeners, names, numbers of sessions and
  of lost connections: `PairStructure`, `OneSession`, `PromiseKept` (the refinement of
  `PairPromise`), `TablesKept`; and, with `Alone`, `IdentityStays` and `RolesAgreed`.
  Every action is first shown to have one of a few effects on one machine's command,
  vault and connection (`NextDoes`); each part of the invariant is then shown to survive each
  effect. `Structure` says that a command is where its connection says it is, and that a
  frame saying yes or saved comes from a side that has confirmed or saved: `OnePartner`
  and the promise follow. `Identities` says that an identity belongs to one machine,
  which meets it in no peer table, frame or candidate of its own; with that, what
  `planPeerUpsert` and `removePeer` do to a well-formed table leaves it so. For the roles it
  does not suffice to look at one session, as the two machines may have got there in
  different ones. The rest of the invariant says that sessions follow each other and a
  machine confirms in its latest one (`Ordered`), that both sides of a session have the same
  of each other (`Talks`), that a command has seen every peer its vault has
  (`Remembers`) and keeps the role it has it in (`Steady`), that once the other person has
  confirmed, the other vault does not contradict this command (`Match`), and that an identity
  that has not been saved is not known outside its own session (`Fresh`, `FreshEdit`). Then
  no step makes two tables that contradict each other (`Opposed`).
- `SafeProofs`: `TypesHold`, `ExecutionsAgreed`, `SentAreAccepted`, `LinkedAreDeployed`
  and `SafeIsMultisig`, the refinement of `Multisig`, for any owners, thresholds, numbers
  of commands and lies of the service. One inductive invariant carries all five: what
  a command holds at each of its places. What it signs is what its user was asked for, a
  signature it goes by that is genuine belongs to a person who was shown the
  transaction, it has not signed before it signs, its signatures are of owners as read,
  the nonce is the next as read where it executes, and what it links is on the chain. A
  payment then needs only that as many different genuine signatures as the threshold
  name as many different owners.

Which assumptions they rest on: those named in each module (`...Assumption`), which every
run evaluates; and, for Safes, that a co-signer's key is not one of the treasury's. Of the
named ones, three say more than what is a number or a set: the vaults `Wallets` may start
from have no address but their keys' (`Owned`); `Serve` has a project
to ask for and room for the one API key it starts with; and the vaults `Pairing` may
start from have peers with one name and one key each, all of them strangers, as earlier
pairings leave them.

Only model-checked: liveness (`Ceiling`, `LeftAloneLocks`, `EveryCommandEnds`, `BothSave`,
`EveryoneAsked`), since fairness and ENABLED are out of the prover's reach. Every other property
that a passing run checks is a theorem. Induction over data and RECURSIVE operators
are out of reach, too; no module uses either.

## Not modelled

Cryptography (a sealed bundle opens with its key; transcripts, signatures and the
safety code of a pairing do their work), TLS and PIN derivation, the parsing of
`ss` and `/proc`, the OS's approval dialogs, provider calls, gas prices, encodings of
calls, who called a server, output, and the parts listed as `not_modelled` in
`PROJECT.json`. The back-off of failed unlock attempts, the stick's files and the
agent's socket are not modelled yet.

## Plan

What is left, the most important first:

1. `StickFiles`: bundles, pointer and scoped files of a stick, with writes that stop in
   the middle.
2. `AgentSocket`: start and stop of agents around one socket.
3. `UnlockAttempts`: the count of failures over concurrent attempts and the back-off.
4. `SyncState`: the file with the bases of all partners, under two syncs at once.
5. `Cartridge`: the nonce of checkpoints between two machines and the service.
