# A TLA+ model of stellar-mls

This directory holds TLA+ specifications of stellar-mls, the TLC configurations
that check them on small instances, and TLAPS proofs of results that hold for
every instance. Paths of source files are relative to the root of the
repository.

- [1. The system](#1-the-system)
- [2. The modules](#2-the-modules)
- [3. The runs](#3-the-runs)
- [4. Where code and documentation disagree](#4-where-code-and-documentation-disagree)
- [5. What is proved](#5-what-is-proved)
- [6. What is not modelled, and what could come next](#6-what-is-not-modelled-and-what-could-come-next)

## 1. The system

stellar-mls lets the members of a chat group prove in zero knowledge that they
belong to it. A group is a Merkle tree of member keys; a registry contract on
Stellar stores only a commitment to the tree and an epoch number, and every
change of a group is paid for by a proof. Around that core stand a
trusted-setup ceremony, a relayer for transactions, a push relay, and the
clients, which talk to one another over Nostr.

```
   participants ──HTTP──▶ ceremony-coordinator ──events──▶ Nostr relay
                            │  SQLite, Blossom                 ▲   │
                            ▼                                  │   ▼
                        keys for the circuits         clients ◀┘  pn-relay ──▶ push gateways
                            │                            │
                            ▼                            ▼
                     registry contracts ◀──stellar── relayer
```

| component | state | operations | interacts with |
|---|---|---|---|
| coordinator, slot queue (`ceremony-coordinator/src`) | tables `signups` and `rounds`, a mutex per tier, a reaper task | signup, claim, withdraw, contribute, seed, reap | participants by HTTP, Blossom for blobs, `ceremony_tool` as a subprocess, the event publisher |
| coordinator, event publisher (`nostr.rs`) | an unbounded channel, one websocket task | publish, connect, send, read a reply | handlers through the channel, the Nostr relay |
| coordinator, NIP-98 authentication (`auth.rs`) | table `nip98_replay` | verify, mark as seen (a prune exists and nobody calls it) | every handler that needs an identity |
| coordinator, phase 2 (`phase2.rs`) | freeze flag, beacon, table `phase2_rounds` | freeze, set beacon, record a round, upload a zkey | administrators, the tier's head round |
| powers of tau (`src/ceremony`, `ceremony_tool`, `ceremony-wasm`) | none (files) | init, contribute, verify one contribution, verify a state, verify a transcript | coordinator and participants |
| group registry (`contracts/sep-xxxx`) | groups, histories, nullifiers, tier counts, receipts, admin sets, verification keys, all with a time to live | create, update (three ways), deactivate, consume a proof, bump, reconcile, administration | clients through the relayer |
| per-type registries (`contracts/sep-{anarchy,democracy,oligarchy,tyranny,oneonone}`) | groups and histories of one governance type | create, update, verify, bump | clients, `plonk-verifier` |
| PLONK verifier (`contracts/plonk-verifier`, `src/circuit/plonk`) | none; two copies of one algorithm | parse, hash a transcript, aggregate, check a pairing | per-type registries; tests and bindings |
| circuits, commitments, trees (`src/circuit`, `src/merkle`, `src/commitment`) | none | what a proof proves | both kinds of registry, provers |
| provers and bindings (`src/prover`, `ffi.rs`, `jni_ffi.rs`, SDKs) | buffers handed out and not yet freed | build and check proofs | clients |
| relayer (`relayer/src`) | rate-limit buckets, temporary files | validate, run the stellar command line | clients by HTTP, the network |
| push relay (`pn-relay/src`) | table of subscriptions, ring of seen events, a websocket | register, update, delete, watch, dispatch | clients, the Nostr relay |
| push gateways (`apns.rs`, `fcm.rs`, `unified_push.rs`, `crypto.rs`) | key files, cached credentials | make and load keys, seal and open, push, read an answer | APNs, FCM, UnifiedPush, devices |
| client group synchronisation (`GroupListViewModel.kt`, `StellarChatApp.swift`) | per group: epoch, salt, members, commitment, pending transition, pending rekeys, ids seen | add, remove, rotate, apply an update, apply a rekey, resend | other devices over Nostr, the chain |

What is hard about each, and what makes it correct:

- **Slot queue.** Handlers are asynchronous tasks over one SQLite database. They
  hold the tier's mutex across network reads and long subprocesses, signups and
  the seed command take no mutex at all, the reaper competes with the handlers,
  and the process may die between any two statements. Correct means: one live
  slot at a time, first come first served, final statuses final, one gap-free
  chain of rounds where each is derived from the one before, and a queue that
  moves.
- **Event publisher.** A link that breaks silently, a task that can end, and
  replies waited for. Correct means: everything published arrives while nothing
  fails.
- **Authentication and phase 2.** No handler takes a lock; a signed request can
  be sent again by its sender or a proxy, and a statement can fail after the
  event is used up. Correct means: an event takes effect once, and a recorded
  round never loses its blob.
- **Powers of tau.** Four programs verify the same vectors by different rules,
  on what a participant may damage anywhere. Correct means: the secrets in a
  round are the product of what its receipts prove, and each verifier's verdict
  is known exactly.
- **Registries.** Calls are atomic, but the storage is not passive: every entry
  has a lease of its own, renewed by some calls and not by others, so related
  entries can expire at different times and an id can be used again over the
  remains of its predecessor; two storage formats coexist; keys expire too.
  Correct means: every change is authorised by a fresh proof of enough of the
  right people, epochs do not fork, the history is the run of recent epochs,
  the count that limits a tier never understates its groups.
- **Verifiers, circuits, bindings.** Everything is written twice: the verifier
  for the contract and for the core, the circuits for Groth16 and PLONK, the
  bindings for C and Java. Correct means: true proofs are accepted also at the
  exceptional points, false ones only by luck of the challenge, the copies
  agree, and every buffer is freed once.
- **Clients.** Two devices may change one group at once; messages are lost,
  delayed and reordered; a device awaits the chain while messages arrive, and
  its answer may be lost. Correct means: members agree with the chain and with
  each other, the removed lose the secret, and nothing owed is forgotten.
- **Relayer, push relay.** Requests share files by name; a watcher and the HTTP
  handlers change the same rows; credentials are cached and expire. Correct
  means: a request alone is sent as it came, a registered device is watched and
  pushed once, and what a push ends in is what the device's token deserves.

The full list of hazards, each at its line, is under `hazards` in
`PROJECT.json`, with the properties that cover it.

## 2. The modules

Modules are named for the part they model; those that start with `MC` hold the
instances for TLC, those that end in `Proofs` the theorems.

| module | what it is | code |
|---|---|---|
| `CeremonySrs` | what the coordinator can tell of an SRS: which secrets went into it, in order | `src/ceremony` |
| `CeremonyTranscript` | abstract: an append-only chain of rounds | |
| `CeremonyTier` | one tier: tables, handlers, reaper, seed, restarts | `ceremony-coordinator/src` |
| `CeremonyTierProofs` | its theorems: types, slot, chain of rounds, queue, chain of events | |
| `NostrPublisher` | the event publisher, its websocket and the relay | `nostr.rs` |
| `CeremonyAdmin` | signed requests, the replay table, freeze, beacon, phase 2 rounds | `auth.rs`, `phase2.rs`, `store.rs` |
| `CeremonyPhasesProofs` | the theorems of `CeremonyAdmin` and, below `PowersOfTau`, of the rounds | |
| `PowersOfTau` | vectors of powers in a small field, receipts, the phase 2 file, the commands over such files with their browser counterparts, and a chain of rounds with real and damaged SRSs, judged by every verifier | `src/ceremony`, `ceremony_tool.rs`, `ceremony-wasm`, `upload.rs` |
| `SorobanStorage` | persistent contract storage: entries with a time to live, and lemmas about it | (the network) |
| `GroupLedger` | abstract: what a registry promises of a group's epochs | |
| `SepRegistry` | groups of the Groth16 registry | `contracts/sep-xxxx` |
| `SepRegistryProofs` | its theorems: storage, counts, history, authorisation, the ledger | |
| `SepKeys` | its verification keys | `contracts/sep-xxxx` |
| `TypedContract` | what the five per-type contracts share | `contracts/sep-*` |
| `SepAnarchy`, `SepDemocracy`, `SepOligarchy`, `SepTyranny`, `SepOneOnOne` | one per contract | `contracts/sep-*` |
| `Poseidon` | the hash as a term, Merkle trees, commitments | `src/merkle`, `src/commitment` |
| `PoseidonProofs` | its theorems: paths lead to roots, and roots bind leaves | |
| `PlonkCircuits` | what the PLONK circuits admit | `src/circuit/plonk` |
| `Groth16Circuits` | what the Groth16 circuits admit, and their provers | `src/circuit`, `src/prover` |
| `TypedRegistry` | the per-type contracts with the circuits whose proofs they accept | |
| `TypedRegistryProofs` | its theorems: the parts of a group, its history, what its commitment binds, who changes it and who can prove membership | |
| `Groth16Groups` | one anarchy or democracy with the Groth16 circuits | `contracts/sep-xxxx`, `src/prover` |
| `PlonkField` | a field of 41 elements, groups as logarithms, bytes as digits | |
| `PlonkContract`, `PlonkCore` | the two copies of the verifier | `contracts/plonk-verifier`, `src/circuit/plonk` |
| `PlonkProtocol` | a proof from its prover, the one that `src/prover/plonk.rs` calls, to both verifiers | `src/prover/plonk.rs` |
| `CoreBindings` | the functions that clients call, the C and Java bindings over them, and their buffers | `src/prover`, `src/commitment`, `ffi.rs`, `jni_ffi.rs`, `RustBridge.swift`, `RustBridge.kt` |
| `GroupSync` | the devices of one group, the chain and the Nostr relay | `GroupListViewModel.kt` and what it calls |
| `GroupSyncProofs` | its theorems: agreement with the chain, epochs, who holds the chain's state, who gets a secret | |
| `Relayer` | overlapping requests of one relayer process | `relayer/src` |
| `PushWatcher` | registrations against the watcher of the Nostr relay | `pn-relay/src` |
| `PushGateways` | keys, sealed registrations, gateways and their credentials | `pn-relay/src` |
| `ServicesProofs` | the theorems of `Relayer`, `SepKeys`, `PushWatcher` and `PushGateways`, and of the buffers of `CoreBindings` | |
| `MCCeremonyTier`, `MCCoordinator`, `MCCeremonyPhases`, `MCSepRegistry`, `MCServices`, `MCTypedRegistry`, `MCProofSystems`, `MCGroupSync`, `MCPushWatcher` | instances | |

How components are composed. `TypedRegistry` runs a contract against every proof
that a witness of its circuits gives; `Groth16Groups` does the same for the
Groth16 registry; `PlonkProtocol` puts one prover before two verifiers;
the end of `PowersOfTau` puts `upload.rs` between participants and all verifiers;
`GroupSync` has devices, chain and relay in one state. `MCCoordinator`,
`MCCeremonyPhases`, `MCServices` and `MCProofSystems` put programs side by side
that share no state: a variable says which one a behaviour belongs to and the
others stand still. That is all their interleaving could show, and one run
serves several questions.

### CeremonyTier

`signups` and `rounds` are the two tables (a signup's index is its rowid),
`now` is the clock the handlers read, `slotSecs` the slot length read at start,
`op[t]` what request `t` is doing together with the handler's locals, `reaper`
the reaper's pass with its locals. Each SQL statement and each await is one
action:

| handler | actions |
|---|---|
| `signup` | `SignupStamp` (reads the clock), `SignupInsert` |
| `claim` | `ClaimLock` (finds the head, takes the mutex), `ClaimCheck` (is the slot free), `ClaimWrite` |
| `withdraw` | `WithdrawLock`, `WithdrawWrite` |
| `contribute` | `ContributeLock`, `ReadBody`, `VerifyUpload`, `InsertRound`, `FlipCommitted`, `PublishRound` |
| `seed` | `Seed` |
| `reap_tier` | `ReapStart`, `ReapStale` (once per overdue claim), `ReapHead`, `ReapExpire` |
| anywhere | `Fail` and `ReapFail` (an error or a disconnect ends a handler or a pass), `Restart`, `Tick` |

The mutex is not a variable: a handler holds it exactly while it is past its
`lock().await`, so `LockFree` says that no other task and no pass is. An
upload's body names a round, an SRS it was computed from, and a participant;
uploads that are stale, repeated or belong to nobody are all generated. One
participant may have several requests in progress.

Data that is left out: hashes, blobs, receipts beyond the fields that are
compared, links and e-mail addresses, server-sent events, the log table. A
request that is refused and changes nothing does not happen in the model, and
`Fail` covers the error paths taken after a handler has written something.

### NostrPublisher

Events are numbered in the order of their publication. `task` is the place of
`relay_loop`: connecting, waiting for an event, sending, waiting for a reply,
or gone. A write to a dead link either fails (`SendFails`) or is accepted by
the operating system and lost (`SendLost`). `LinkDrops` and `Reply` stand for
the network and the relay. The publisher is modelled with a signing key: without
one nothing is published.

### CeremonyAdmin

`signed` are the events that exist, `seen` is `nip98_replay`, `state` the row of
`ceremony_state`, `rounds2` the table `phase2_rounds`, `blobs` what Blossom
stores, `task[t]` a request with the statement it comes to. `Arrive` is
`verify_nip98` up to the replay table (the age on either side of the stamp, the
payload tag), `MarkSeen` the INSERT OR IGNORE, and `FreezePhase1`,
`FreezeBeacon`, `SetBeacon`, `PublishRound`, `PutZkey` and `RecordUpload` are the
statements of the handlers. The same event may arrive any number of times.
`effects` counts what each event has done. Signatures are unforgeable; the other
users of `verify_nip98` (claim and withdrawal) are in `CeremonyTier`, where they
are authenticated.

### PowersOfTau

A group element is its logarithm in a field of `Q` elements, so that scaling is
a product and a pairing the product of two logarithms; a check by pairing is
then an equation. A fault (`Faults`) replaces one part of a contribution by what
a machine that computes wrongly, or for another tier, would make of it:
`beta_g2` gets a factor, or one of the four vectors gets any length and any
factor at each of its points; beyond its end a longer vector goes on with the
next powers, so that some faults give correct powers of another number.
`SizeOfTier` says how long the vectors of the tier are; no command and no
handler compares a length with it. Each command of `ceremony_tool` is whether it
succeeds and what it leaves in its directory. `Upload` accepts what
`verify-contribution` accepts, and `VerdictsAreExact` says for each of the other
verifiers of which chains it holds. An upload is one step because of the tier's
mutex (`CeremonyTier`).

### SepRegistry and SepKeys

`store` is the contract's persistent storage, a function from keys such as
`<<"GroupV2", id>>` to a value and the ledgers it has left; `count` and
`restricted` are in instance storage. A call is atomic in Soroban, so each entry
point is one action. Failing calls change nothing and are not modelled. The
internal helpers that several entry points use (`BumpGroup`, `ArchiveEntry`,
`WriteGroupV2`, `RecordProof`) are functions from storage to storage, applied in
the order of the code.

A proof is the statement it proves and a nonce that says which of several proofs
of that statement it is; the verifier accepts a proof for its own statement
only, which is the assumption on Groth16 the model makes. Commitments are model
values; the check that a commitment is canonically encoded is built into the set
`Commitments`.

`CloseLedger` ages all entries by one ledger; an entry whose time is up is gone,
which is the view `reconcile_tier_count` and the contract's tests take. (On the
network an expired persistent entry is archived and can be restored by a
separate operation; after a restoration the entry is the one that was there
before.) `extend_ttl` acts on an entry with less than the threshold left, as the
contract's comments say. `ShortMinTtl` assumes that the network starts an entry
with less than the contract's threshold; the test environment's 4096 ledgers
are below the contract's 17 280.

The initial states are the empty registry and the registries that hold groups of
the format before `GroupV2`, counted but without a receipt, at any epoch, with
the history such a group has.

`SepKeys` is the same contract seen from its keys: which of them `initialize`
and `update_vk` write, which `bump_vks` renews, and which key each statement is
verified under. Here the network's minimum is assumed longer than the
threshold (`LongMinTtl`), as on the public network: with a shorter one the
instance storage, which `initialize` never extends, is what expires first.

### TypedContract, the five contracts, TypedRegistry

Each contract is a module of operators: what a creation and an update ask of
the public inputs and what they write. `TypedRegistry` has the actions; its
callers send the public inputs of every witness that satisfies the circuit of
the key the contract checks with (`PlonkCircuits`). `rosters` and `signers` are
history variables: the trees under the commitment and whose keys signed, neither
of which the contract sees. One behaviour is the life of one contract.

### The proof systems

`Poseidon` makes every hash a term, so equal hashes mean equal arguments. A
circuit is a predicate on a witness and the public inputs that it fixes, in the
order in which they are allocated.

`PlonkContract` and `PlonkCore` translate the two verifiers line by line: the
parsing of proof and key, the transcript, the Lagrange terms and the remainder
of the division, the aggregation of commitments, the final pairing equation.
`PlonkProtocol` starts with a prover for one circuit of four rows with every
selector and a copy constraint. A challenge is a constant of the run
(`UsualAnswer`), one of them may be any (`UnusualAnswers`), and after a change
of the bytes it is another one (`OtherAnswer`): what was hashed is compared as a
term. So the model says what each challenge does to a verdict, and does not say
how probable it is.

`CoreBindings` gives each request to a Swift caller over `ffi.rs` and to a Kotlin
caller over `jni_ffi.rs`. The C function's steps are single actions (refuse, or
compute and write each buffer, fail at an output that is null), the caller's too
(copy, free), and `heap` holds what is not freed yet.

### GroupSync

`chain` is the sequence of commitments the contract has accepted. A device has a
`group`, what its database holds (`saved`), the state that its next update is
proved from (`baseline`), a subscription (`listening`) and lists of what it has
handled and still owes. A coroutine that is suspended is a record in `tasks`:
waiting for the chain to decide, having its answer on the way, installed and yet
to announce, checking a message with the chain, resolving a fork. `ChainDecides`
is the contract's `update_commitment` (an update proved from anything but the
present state is refused) and `AnswerLost` the request whose answer never comes.
A fetch may return any earlier state, since the node that is asked may lag.
`events` are what the relay and the inboxes hold; nothing is removed, so that
everything can be late; `LoseEnvelope` loses an inbox message.

`unverified` remembers devices that went on without the chain, or followed one
that did: the code lets a device that cannot reach the chain, or whose group is
not on it, go on alone, and what is promised then is less.

### Relayer

`serving[t]` is a request with its place in `handle_invoke`; `file` is what the
temporary files hold, `Torn` while `fs::write` has truncated one. The command
reads the files after they are written, and another request may write between.

### PushWatcher and PushGateways

`PushWatcher` has the registrations, the watch channel (`signalled`), the
watcher's connection, REQs and ring, and what the Nostr relay keeps; a step is a
statement or what happens between two awaits. Encryption is left out. The
watcher awaits a connect, a REQ and a push inside its loop without a timeout
(`nostr_watcher.rs:95,415,435,448`; `unified_push.rs:83`, `apns.rs:52` and
`fcm.rs:44` build clients without one), so each of these is an action of its own
(`Connect`, `SendSubscriptions`, the three ends of a push) that may never come.
A connection that dies is either heard of or `silent`: the watcher sends no
pings, and only `Notice`, which nothing guarantees, ends that. `Panic` is the
slice `&subscription_id[..8]` of an id that has a character across its eighth
byte (`CutIds`; `apns.rs:179`, `fcm.rs:213`; UnifiedPush, whose tokens are
`Endpoints`, has none): the task ends, and nothing but a restart of the process
starts another. `SubscriptionsFor` is `db.rs:119-131`, a LIKE over the stored
JSON with a pattern from which quotes are stripped; `Like` says which stored
tags the pattern of a tag matches, so that a row may not be led to by its own
tags, and may be led to by another's.

`PushGateways` has what `PushWatcher` leaves out: the two key files, which are
created and then written (a crash between leaves them short), registrations
sealed to the public key a device has fetched, rows encrypted at rest, the JWT
and the access token with the ticks they have left, and the gateways' answers.
Encryption is ideal.

A request under way may take up to `MaxDelay` ticks, which no assumption relates
to the margins that the code keeps, since the clients have no timeout; `Prompt`
(`PromptAssumption`: `JwtRefresh + Prompt <= JwtLife`, `2 * Prompt <=
FcmMargin`) only says of which requests something is promised, and `push.waited`
and the `prompt` of a credential record which ones those were. An answer is a
status and whether the body has `UNREGISTERED` or `NOT_FOUND` in it: for FCM
every error with such a body is `Unregistered` (`fcm.rs:181-194`). What a
gateway knows of a token is in `Answers`; `GatewayErrs` is a failure of its own,
a proxy or a wrong project, whose status and body may say anything, also that a
live token is gone, and then the row is deleted.

## 3. The runs

All bounds are constants of a configuration. Times are in units in which the
interesting durations are 1, 2 or 3: what matters is which of two deadlines
comes first, and the small clocks still reach every order. For each property
`PROJECT.json` names a plausible defect, a definition marked as such next to the
one it replaces, under which the run finds the property violated.

| run | configuration | properties |
|---|---|---|
| `tier` | `CeremonyTier.cfg` | `AtMostOneLiveClaim`, `FifoClaim`, `StatusLifecycle`, `EventChain`, `ImplementsTranscript` |
| `coordinator_liveness` | `Coordinator.cfg` | `ClaimEnds`, `QueueDrains`, `EventsReachTheRelay` |
| `publisher_gone` | `CoordinatorGone.cfg` | `ReconnectsAfterFailure` (violated, section 4) |
| `ceremony_phases` | `CeremonyPhases.cfg` | `SecretsFollowReceipts`, `VerdictsAreExact`, `AppliedOnce`, `RoundKeepsItsBlob` |
| `registry_counts` | `SepRegistryCounts.cfg` | `CountCoversLive` |
| `registry_history` | `SepRegistryHistory.cfg` | `HistoryIsRecentEpochs`, `ChangesAreAuthorised`, `ImplementsLedger` |
| `typed_registry` | `TypedRegistry.cfg` | `PartsLiveTogether`, `HistoryIsRecentEpochs`, `CommitmentBindsRecord`, `MembersCanProve`, `ChangesAreAuthorised` |
| `proof_systems` | `ProofSystems.cfg` | `HonestProofIsAccepted`, `FalseProofNeedsLuck`, `ChangeIsHashed`, `CopiesAgree`, `MembersProveInAnyOrder`, `ClientsAgree`, `FreedOnce` |
| `group_sync` | `GroupSync.cfg` | `MembersAgreeWithChain`, `RemovedMembersLoseTheSecret`, `ChainStateIsKnown`, `OwedIsRemembered`, `EpochsMoveForward` |
| `push_watcher` | `PushWatcher.cfg` | `RegisteredTagsAreWatched`, `PushedOnce`, `KeptEventsAreHeard` |
| `push_reregistered` | `PushWatcherGone.cfg` | `DeletedTokensAreGone` (violated, section 4) |
| `services` | `Services.cfg` | `AloneIsSentAsItCame`, `WatchedKeysLive`, `PushesReachTheDevice` |

Deadlock is checked where something can always happen: in the registries, where
a ledger can always close. Elsewhere clocks, requests and faults are bounded, so
a behaviour stops at its bounds. Symmetry is used for safety only, over
identifiers that the specification treats alike.

**tier.** Two participants, two concurrent requests, and either of two bounds,
which the variable `bounded` of the MC module chooses at the start. *Few rounds*:
two rows, slots of length 1 or 2 (a restart may change the length, so a later
claim can end before an earlier one would have), one round of uploads beyond the
seed. Two rows are enough for the races at issue: two claimants, a claimant and a
late signup with an earlier stamp, a claimant and a withdrawal, a contribution
beside each. *Few signups*: one row, two rounds beyond the seed, with uploads on
the head, on a stale round, twice the same. The abstract chain of
`CeremonyTranscript` is a property of the run under the mapping
`chain <- [r |-> rounds[r].srs]`.

**coordinator_liveness.** In the tier's half, requests come until `Horizon`, the
clock goes on to `MaxTime`, far enough for a claim of the last moment to become
overdue and for the idle time after it to pass; in the publisher's half there
are four events, two failures of the link and a restart, at any moment. Fairness:

- *the reaper* (`SF` on its steps): it is woken by an interval timer for ever
  and waits for a FIFO mutex, so it runs if the mutex keeps becoming free;
  errors and restarts do not hit the same statement every time;
- *the clock* (`SF` on `Tick`): time passes, restarts or not;
- *handlers* (`WF` on progress or failure, for each): the runtime polls tasks
  that can move, each subprocess and query returns or fails, and every caller
  finishes its body or disconnects. The last is the caller's doing and not the
  program's: without it the queue stands still (section 4);
- *the publisher* (`WF` on its steps and on `Reply`): the task is polled, the
  relay accepts connections and answers each event it receives with one message,
  as NIP-01 asks of it.

**ceremony_phases.** Phase 1: a seed and two rounds by two participants, a field
of 5 elements and 3 powers of tau (degree 3, so that powers beyond the ones the
cheap check looks at exist), honest secrets and zero, and seven ways of damaging
a contribution: a factor on `beta_g2`, on all of a vector or on its last point,
a vector that is too short and one that is too long, some caught by
`verify-contribution` and some not. Phase 2: two signed events and two requests,
of every kind, one date limit, two zkeys that can be told apart, restarts at any
moment.

**registry_counts.** Two ids on two tiers, `LEDGER_BUMP` 3 and threshold 2: long
enough for an entry to be renewed late, renewed early, not renewed, and to
expire, with receipts that live up to 6 ledgers. Epochs are left out
(`MaxEpoch = 0`), since no update touches a count.

**registry_history.** One id, three epochs and a window of one entry, so that
the window is exceeded; members 2 and 3, two commitments, so that a commitment
is left and come back to and an old proof could match again.

**typed_registry.** Each of the five contracts with one id, trees of two leaves,
the rosters of one and of two of three people, epochs 0 to 2 and a window of
one, with expiry and renewal at any moment. An oligarchy, whose witnesses are
the most numerous, advances once.

**proof_systems.** PLONK: two satisfied statements and four that a public input,
a gate, a copied value and a copied zero falsify; zeta any of the 41 elements,
thus also the points of the domain and every zero of a remainder; every other
challenge its usual value, zero or one; one changed piece of proof, key or
inputs. In so small a field exceptional points are reached by enumeration.
Groth16: all rosters in every order in trees of depth 2, three people, epochs 0
to 2. Bindings: every function with usual arguments, numbers that are too
large, wrong lengths, null pointers, rosters of none to three members, once at
an epoch that wraps (`Width` bits).

**group_sync.** Three devices, two or three of them members at first, three
changes or faults, at most one of them a fault (a restart, a lost answer, a lost
envelope), epochs 0 to 2. Two devices that change the group at once, one that is
removed while it changes it, one that is invited while a third removes it, each
with everything delivered late or never, fit in these bounds.

**push_watcher.** One subscription, two tokens, a topic and an inbox, an event
for the topic that the relay does not keep and one for both that it does, a ring
of one, two requests and two faults (dead link, failed query, failed push,
restart, dead token, cleanup). One subscription is enough, since rows meet only
in the set of tags and in the ring. One token is an endpoint, and the id is one
that the other gateways' clients panic at; the inbox has a quote in its name, so
that its pattern finds the topic and not itself. `KeptEventsAreHeard` assumes of
the program that both tasks keep being polled and that the database answers
(`WF` on `Signal` and on `Listen`, the steps that wait for nobody), and nothing
of the relay, the gateways or the network: a behaviour in which the watcher waits
for ever for a connect, a REQ or a push, has ended by a panic, or is never told
that its connection is dead is `Stuck`, and nothing is promised of it. What is
left to show is that no order of signals, refreshes, lost connections and
restarts loses an event otherwise. A connection that keeps dying uses up the
bound on faults.

**push_reregistered.** The same bounds with plain ids and two tokens of Apple or
Google; section 4 has the trace.

**services.** Relayer: two overlapping requests of three, two clients, every
kind of function and of refusal, one request per window, a restart. Keys: two
tiers and the name of one that does not exist, keys of each length, one outside
the subgroup, two rotations, threshold 2 and bump 4. Gateways: a subscription on
each platform and two that are refused, two runs of the process, a failure at
any request, tokens that die, credentials that age by the tick, requests that
take longer than promptly (`MaxDelay` 2, `Prompt` 1).

## 4. Where code and documentation disagree

Two sentences of the repository are checked by a run and found not to hold:

| run | the sentence | what happens |
|---|---|---|
| `publisher_gone` | "nostr send failed, reconnecting" (`nostr.rs:147`) | the task returns instead, and later events are dropped silently |
| `push_reregistered` | a subscription is cleaned up when "APNs returns a `410 Gone` response (token invalidated" (`docs/push-notification-design.md:640`); with a new token "the client must re-register all subscriptions" (`:712`) | the row is deleted by its id (`nostr_watcher.rs:475`): a device that registers its new token while a push to the old one is under way loses the new registration, whose token nobody said is gone |

The other divergences were met while reading and are built into the models as
the code has them; no run has the sentence as a property. They are what a reader
of the models may stumble over.

*Ceremony.*
- A claim that becomes overdue while an upload waits for a body that never ends
  is not flipped to expired (`reaper.rs:5-9`): the upload holds the mutex
  (`upload.rs:33`) and the reaper waits with everyone else.
- Claims are said to be refused until round 0 exists (`seed.rs:3-4`); the row is
  flipped first (`slot.rs:71`) and the caller then answered 503.
- The idle time is said to count from the deadline of the last expired claim
  (`reaper.rs:13-18`); that deadline is a local of one pass (`:83`), so the next
  pass has forgotten it.
- `contribute` looks neither at the caller nor at the slot
  (`docs/ceremony-web-ui-design.md:363,475` calls it authenticated and reserved
  to the slot holder), nor at the freeze flag. A freeze can be repeated, and with
  a height it drops the beacon's hash in a second statement (`phase2.rs:137`).
- An upload is checked by `verify-contribution` only (`upload.rs:92-145`), so an
  SRS damaged in a higher power, or with a beta vector that disagrees with
  `beta_g2`, is accepted and inherited, and refused only later by
  `verify-state`, the phase 2 summary and the transcript's verifier
  (`mod.rs:28`). `VerdictsAreExact` says exactly which. None of the verifiers
  says anything of how many powers there are: `mod.rs:232-237` and `:350` ask
  for two, and neither `import_srs` nor the upload compares a length with the
  tier's degree, so an SRS with too few or too many correct powers passes all of
  them. The comment at `ceremony-wasm:113-116` says the opposite of
  `verify_contribution_js`; and `verify_state_js` treats every proof as an
  initial one, so it refuses rounds after the first.
- `import_srs` ignores trailing bytes, so an announced hash need not be the
  blob's (`upload.rs:161`).
- `cleanup_replay` is never called and `REPLAY_WINDOW_SECS` never used; a request
  refused after its event was marked has used it up; `participant_queue_position`
  counts ties.

*Registries and circuits.*
- A receipt stands for one unit of the count (`lib.rs:536,853`), yet an id that
  is created again between the expiry of its group and that of its receipt is
  counted twice under one receipt.
- Admin set and group are said to be renewed together (`lib.rs:2136-2142`); a
  rotation renews the admin set alone (`lib.rs:1640`). `lib.rs:544` says that a
  receipt outlives its group by more than `LEDGER_BUMP`; it is exactly that.
  `lib.rs:1419` says that a democracy of one is forbidden at creation, where only
  the upper bound is checked.
- A democracy can be updated only if it was created through the entry point that
  binds its count; its leaf changes and its count are tied loosely
  (`circuit/democracy.rs:584`, against
  `docs/group-governance-types-design.md:446`); one at full capacity cannot be
  updated; its first update adds a level that `verify_membership` does not know.
- A per-type contract never gives a tier's count back. It accepts thresholds of
  1 to 100 where the PLONK circuits can meet 1 and 2. The one-on-one circuit
  admits one key twice. Groth16 truncates an index to the depth where PLONK
  refuses it.
- Keys and instance storage of the registry live only while `bump_vks` is called
  more often than once in `LEDGER_THRESHOLD` ledgers.
- The contract's verifier reduces a scalar that is not canonical, the core's
  refuses it; the core panics on a bad point or key where the contract traps; the
  core hashes the key's power of the secret, the contract a constant.

*Bindings.*
- `sep_byte_buffer_free` rebuilds a vector with its length as its capacity, which
  serialised vectors may exceed (`ffi.rs:68-75,190-197`).
- An empty roster has a Merkle root in Kotlin and none in Swift; neither refuses
  trailing bytes of a proof; `epoch_old + 1` wraps in a release build, where
  Groth16 proving does not check its witness either.

*Clients.*
- Groups that are not published and cross stay forked. A device whose fetch of
  the chain fails adopts the other's fork (`GroupListViewModel.kt:2100-2112`),
  where the comment before it says chain first.
- A lost answer, or a restart before an accepted update is installed, leaves the
  group with a state on chain that no device has; a retry of it is refused.
- State updates are never sent again, against the comment at `:2148-2149`; two
  updates of a device announced out of order take the database and the
  subscription back to the older.
- No client sends a rekey, a salt request or a resend request of the old kind;
  the handlers for them are left out.

*Push relay and relayer.*
- The ring of seen events is one for all topics, where
  `docs/push-notification-design.md:307` says one each; the limits it advertises
  (`:161`) are not enforced; a failed query puts inbox tags among the topics or
  leaves filters out without a word; a failed push is never tried again; an event
  counts as seen although nobody was registered for it.
- After a `410 Gone` the topic is said to leave the aggregated filter
  (`docs/push-notification-design.md:645`); the deletion does not signal the
  watcher, whose REQs stay until the next refresh. A subscription whose token is
  a `BadDeviceToken` is said to be marked for cleanup (`:712`); it is an error
  that is logged. FCM drops a row for any error whose body names `NOT_FOUND`, a
  wrong project included.
- No push, REQ or connection has a timeout or a ping; one push that hangs stops
  all others, and a subscription id with a character across its eighth byte ends
  the watcher for good while the handlers go on.
- A tag with a quote or a backslash is not found by the LIKE pattern
  (`db.rs:119-131`), and one that is part of the JSON of others finds them.
- The key files are not written atomically, so a crash during the first start
  leaves one that keeps the relay from starting until somebody removes it.
- A notification through UnifiedPush is encrypted with the event's id as
  associated data, which the receiver does not have
  (`StellarChatUnifiedPushReceiver.kt:42-54`); the iOS inbox registration never
  stores its key (`PushNotificationManager.swift:143-165`). Both show as generic
  notifications; `PushesReachTheDevice` therefore speaks of readable content for
  the registrations of topics through Apple and Google only.
- The relayer's temporary files are named by the process id only, so requests
  that overlap can be sent with each other's proof; its window admits twice the
  limit around a boundary, its buckets are never dropped, and a transaction that
  landed while the answer was lost is reported as 502.

## 5. What is proved

Theorems hold for any sets of participants, requests, events, keys, groups,
devices, subscriptions and clients, any prime order, degree, secrets and faults
of a ceremony, and any value of the bounds. The assumptions they use are named
beside the constants they are about and say no more than that bounds are
numbers, times are positive and model values differ (`ConfigAssumption`,
`ArithmeticAssumption`, `ChainAssumption`, `AdminAssumption`,
`RegistryAssumption`, `KeysAssumption`, `TypedAssumption`, `MinTtlAssumption`,
`AbsentAssumption`, `NoRowAssumption`, `NamesAreDistinct`, `GatewaysAssumption`,
`SyncAssumption`, which also says that a group's creator is in it), with five
that are about the world: `OrderAssumption` (every scalar but 0 has an inverse:
the order of BLS12-381 is a prime), `ShortMinTtl` and `LongMinTtl` (with what
life the network starts an entry, see `SepRegistry` above), `PromptAssumption`
(which requests count as prompt: those that fit in the margins the code keeps;
it excludes no other request) and `RostersAssumption`: nobody is in a roster
twice. The tree builder refuses a repeated key and the quorum circuits say that
they rely on it (democracy.rs:262-270). No circuit checks it: an update may
commit to any new root, so a prover that does not use the builder could put a
key into two leaves and then count for two. `ChangesAreAuthorised` counts people
on the assumption that provers use the builder.

| theorem | module | statement | the run that shows it on an instance |
|---|---|---|---|
| `TypeCorrect` | `CeremonyTierProofs` | `Spec => []TypeOK` |  |
| `SlotInvariant` | `CeremonyTierProofs` | `Spec => []SlotInv` |  |
| `SlotExclusive` | `CeremonyTierProofs` | `Spec => []AtMostOneLiveClaim` | `tier` |
| `ChainInvariant` | `CeremonyTierProofs` | `Spec => []ChainInv` |  |
| `ChainRefinement` | `CeremonyTierProofs` | `Spec => ImplementsTranscript` | `tier` |
| `QueueInvariant` | `CeremonyTierProofs` | `Spec => []QueueInv` |  |
| `QueueIsFifo` | `CeremonyTierProofs` | `Spec => FifoClaim` | `tier` |
| `FinalIsFinal` | `CeremonyTierProofs` | `Spec => StatusLifecycle` | `tier` |
| `EventsChain` | `CeremonyTierProofs` | `Spec => []EventChain` | `tier` |
| `RegistryTypes` | `SepRegistryProofs` | `Spec => []StorageInv` |  |
| `RegistryTypeCorrect` | `SepRegistryProofs` | `Spec => []TypeOK` |  |
| `HistoryIsRecentEpochsAlways` | `SepRegistryProofs` | `Spec => []HistoryIsRecentEpochs` | `registry_history` |
| `CountCoversLiveAlways` | `SepRegistryProofs` | `Spec => []CountCoversLive` | `registry_counts` |
| `ChangesAreAuthorisedAlways` | `SepRegistryProofs` | `Spec => ChangesAreAuthorised` | `registry_history` |
| `ImplementsLedgerAlways` | `SepRegistryProofs` | `Spec => ImplementsLedger` | `registry_history` |
| `TypedStorage` | `TypedRegistryProofs` | `Spec => []StoreInv` |  |
| `PartsLiveTogetherAlways` | `TypedRegistryProofs` | `Spec => []PartsLiveTogether` | `typed_registry` |
| `HistoryIsRecentEpochsAlways` | `TypedRegistryProofs` | `Spec => []HistoryIsRecentEpochs` | `typed_registry` |
| `RecordsAreBound` | `TypedRegistryProofs` | `Spec => []BindInv` |  |
| `CommitmentBindsRecordAlways` | `TypedRegistryProofs` | `Spec => []CommitmentBindsRecord` | `typed_registry` |
| `ChangesAreAuthorisedAlways` | `TypedRegistryProofs` | `Spec => ChangesAreAuthorised` | `typed_registry` |
| `MembersCanProveAlways` | `TypedRegistryProofs` | `Spec => []MembersCanProve` | `typed_registry` |
| `PathLeadsToRoot` | `PoseidonProofs` | in every tree, of any depth, the path given for a leaf leads from it to the root | |
| `RootBindsLeaves` | `PoseidonProofs` | no path of the tree's depth leads to the root from anything but the leaf that is there | |
| `SyncTypeCorrect` | `GroupSyncProofs` | `Spec => []TypeOK` |  |
| `SyncInvariant` | `GroupSyncProofs` | `Spec => []SyncInv` |  |
| `MembersAgreeWithChainAlways` | `GroupSyncProofs` | `Spec => []MembersAgreeWithChain` | `group_sync` |
| `EpochsMoveForwardAlways` | `GroupSyncProofs` | `Spec => EpochsMoveForward` | `group_sync` |
| `ChainStateIsKnownAlways` | `GroupSyncProofs` | `Spec => []ChainStateIsKnown` | `group_sync` |
| `SecretsInvariant` | `GroupSyncProofs` | `Spec => []SecrecyInv` |  |
| `RemovedMembersLoseTheSecretAlways` | `GroupSyncProofs` | `Spec => []RemovedMembersLoseTheSecret` | `group_sync` |
| `PushInvariant` | `ServicesProofs` | `Spec => []PushInv` |  |
| `RegisteredTagsAreWatchedAlways` | `ServicesProofs` | `Spec => []RegisteredTagsAreWatched` | `push_watcher` |
| `PushedOnceAlways` | `ServicesProofs` | `Spec => []PushedOnce` | `push_watcher` |
| `AdminTypeCorrect` | `CeremonyPhasesProofs` | `AdminSpec => []AdminTypeOK` |  |
| `AppliedOnceAlways` | `CeremonyPhasesProofs` | `AdminSpec => []AppliedOnce` | `ceremony_phases` |
| `UploadedZkeyAlwaysStored` | `CeremonyPhasesProofs` | `AdminSpec => []UploadedZkeyIsStored` |  |
| `RoundsKeepTheirBlobs` | `CeremonyPhasesProofs` | `AdminSpec => RoundKeepsItsBlob` | `ceremony_phases` |
| `RoundsInvariant` | `CeremonyPhasesProofs` | `ChainSpec => []RoundsInv` |  |
| `HonestContributionIsAccepted` | `CeremonyPhasesProofs` | over the powers of secrets other than 0, an honest contribution passes, and is the powers of the products | |
| `SecretsAlwaysFollowReceipts` | `CeremonyPhasesProofs` | `ChainSpec => []SecretsFollowReceipts` | `ceremony_phases` |
| `VerdictsAreAlwaysExact` | `CeremonyPhasesProofs` | `ChainSpec => []VerdictsAreExact` | `ceremony_phases` |
| `RelayerInvariant` | `ServicesProofs` | `RelayerSpec => []RelayerInv` |  |
| `AloneIsSentFaithfully` | `ServicesProofs` | `RelayerSpec => []AloneIsSentAsItCame` | `services` |
| `KeysInvariant` | `ServicesProofs` | `KeysSpec => []KeysInv` |  |
| `WatchedKeysLiveAlways` | `ServicesProofs` | `KeysSpec => []WatchedKeysLive` | `services` |
| `GatewaysInvariant` | `ServicesProofs` | `GatewaysSpec => []GatewaysInv` |  |
| `PushesReachTheDeviceAlways` | `ServicesProofs` | `GatewaysSpec => []PushesReachTheDevice` | `services` |
| `BindingsInvariant` | `ServicesProofs` | `BindingsSpec => []BindingsInv` |  |
| `FreedOnceAlways` | `ServicesProofs` | `BindingsSpec => []FreedOnce` | `proof_systems` |

**Types.** The only part that is not local to one action is that a pass of the
reaper holds rows that exist (the last conjunct of `TypeOK`): `ReapStale` reads
the deadline of a row found by an earlier step, and rows are never deleted.

**Exclusiveness of the slot.** `AtMostOneLiveClaim` is not inductive: it says
nothing of a request that has seen the slot free and has not yet written.
`SlotInv` adds three facts. `MutexInv`: at most one request, or the reaper, is
past the mutex. `ClaimsOrdered`: the periods from claim to deadline of the rows
in status `claimed` do not overlap, which covers rows that are overdue and not
yet reaped, and a slot length that changes at a restart. `CheckHolds`: while a
request is between its check and its UPDATE no claimed row has a deadline ahead;
this is where the mutex is needed, since only a write to `claimed` could break
it. Requests can never gain a live claim by waiting, because the clock only
moves forward. Most steps do not add a claimed row and do not start a
`claimWrite`; the lemma `ShrinkKeeps` settles them all at once, and the proof
splits on the few that remain (`ClaimLock`, `ClaimCheck`, `ClaimWrite`, `Tick`).

Where the mutex really matters: two claims look for the head before they check,
and a second claimant is not the head while the first one's row is still queued,
unless a signup with an earlier stamp has been inserted in between. Without the
mutex it is that late signup which gets a second slot.

**One chain of rounds.** The refinement needs that the round an upload was
checked against is still the predecessor when the upload's round is inserted.
`ChainInv` says that round numbers have no gap and that a handler past its
reading of the body has the stored predecessor in hand (`PrevIsPublished`).
It does not need the mutex: rounds are never removed or overwritten, because of
the primary key (`RoundUnused`), and their SRS never changes. So every step is
`PublishSeed`, `PublishNext` or a stutter of `CeremonyTranscript`.

**The queue.** A claim looks for the head in one step and writes its row in a
later one, and `FifoClaim` speaks of the write; `StatusLifecycle` has to hold
although a withdrawal writes over whatever status its row has by then.
`QueueInv` says what the two still know when they write. A claim's row is
`First`: no queued row inserted before it has an earlier stamp. That lasts
without the mutex, since signups come last in the table and no row returns to
the queue. A withdrawal's row is `Active`, and that does need the mutex: a claim,
an upload or the reaper would end it otherwise. Two lemmas say once for all
actions what a step can do to a row (`RowsStep`) and to a handler's locals
(`LocalsStep`); from then on the proof speaks of rows and not of actions.

**The chain of events.** `EventInv` adds to `EventChain` that an upload holds its
predecessor's row as it is stored (`HoldsPrev`, so the event it names in its own
round is the published one), and that a round which is stored and not yet
published is the last (`IsLast`). Both need the mutex, which an upload keeps until
it has published, and `IsLast` needs that the rounds have no gap, from `ChainInv`.
An upload that fails, or a restart, in between leaves a round without an event,
and its successors name none; `EventChain` allows exactly that.

**An event takes effect once.** `AdminInv` is the conjunction of the types,
`Admitted`, `Once`, `AppliedOnce` and `UploadedZkeyIsStored`. `AppliedOnce` alone
is not inductive: it must be known that a request past the replay table has its
event marked (`Admitted`), and that an event with a request past the table has
no effect yet and no other request with it there (`Once`). The INSERT OR IGNORE
admits one request per event, marks are never removed, neither by time nor by a
restart, and each handler counts one effect and leaves. An upload stores the
zkey before it records it, blobs are never removed, and the upsert keeps the
blob of a row when the new one has none; from that follow the two statements
about rounds. The proof has one lemma for each conjunct that a step can disturb.

**The contents of the rounds.** `RoundsInv` says that a stored round, and a
contribution that has passed its participant's own check, is `Sound`: two powers
in each vector, generators first, no secret 0, the same tau in both groups; that
every round's directory reads back as its SRS; and that each round but the first
passed `verify_contribution` against the one before. Soundness of the
participant's work is needed because an upload compares with the predecessor
only. `AcceptedIsSound` is where faults end, whatever length and factors they
have: of a vector that passes, the points that the checks look at are what they
should be, and of the others nothing is needed. Reading an uploaded file gives
back what was written (`ImportIsInverse`). From the invariant, a receipt that
matches fixes how far each secret moved (`SecretsMove`: inverses in a prime
field are unique), and by induction over the rounds the secrets of the last one
are the products of the receipts. `verify_consistency` compares neighbours; a
vector whose neighbours have one ratio is the vector of powers
(`VectorIsPowers`), so the full check, and the four verdicts that contain it,
say exactly that the points are the powers, as many as each vector has
(`WellFormed` takes the sizes from the SRS itself). Powers, running products and
chains are recursive functions: `SetInduction`, proved from the least element of
a set of numbers, carries the inductions, with the set of numbers that satisfy a
statement in the place of the statement, and `Iteration` gives a recursive
function its equations.

**A request alone is sent as it came.** The temporary files outlive a request, a
failure and a restart, so `AloneIsSentAsItCame` is no property of one step.
`RelayerInv` says of a request that is alone that no other is in service
(`AloneExcludes`), and for each place between a write and the command's reads
which files hold what it came with (`Faithful`). Every step of a request goes
through the lemma `SlotStep`: if some other request were alone, the one that takes
the step would not be in service, so nobody else's files can be disturbed. A
request that enters makes the others lose the mark.

**The registry.** A call of the contract is a composition of writes, removals
and renewals of entries. `SorobanStorage` has the lemmas about those, each with
what it does at its keys and that it leaves all others alone; one lemma for each
helper of the contract (`BumpFacts`, `AdminFacts`, `WriteFacts`, `ArchiveFacts`,
`CountedFacts`, ...) says what the helper does to the group and to the receipt of
one id. `StorageInv` is what they need: a group and its history, in either
format, are there together and have the same time left. From it follows
`StepFacts`: every step founds a group, advances it, retires it, reconciles its
tier, lets entries expire or leaves groups and receipts alone (`StepKind`), and
the five results are proved from that, without looking at the storage again.
*The ledger*: each kind is the ledger's step of that name. *Authorisation*: a
step that advances a group or retires it has spent a new proof of the statement
that names the present state. *History*: an advance appends the state it leaves
and drops what the window cannot hold. *Counts*: `CountCoversLive` speaks of
groups that are stored and active or have a receipt; it is inductive together
with its own second half, that a receipt never contradicts a live group of its
id, since otherwise a reconciliation would take off what another group stands
for; a set that gains or loses one id changes by one in cardinality
(`CountMoves`).

**The typed contracts.** `StoreInv` says that the parts that a kind of group has
(`Entries`) are there together with the same time left, and that the history is
the window before the group's epoch. Each contract's creation and update is shown
to be an instance of the same founding and the same replacement (`AnarchySame` to
`OneOnOneSame`), which are proved once.

**Trees.** A tree is a recursive function from its last node down to its root, so
its equations come from the induction that `PowersOfTau` uses. The ancestor of a
leaf at a level is its heap index halved so often; with that the path of a leaf
and the climb along it meet the same nodes (`PathLeadsToRoot`). In the other
direction the hash is one-to-one, so two climbs to one root from one index agree
at every level down to the leaf (`RootBindsLeaves`). The circuit for two members
builds its root from the left end and the hashes of empty subtrees; that this is
the root of the tree of the two, so that they can later prove their membership in
it, is `PairIsATree`.

**What commitments bind.** The contract compares a commitment with the one it has
and never opens it. `BindInv` says that the trees of a group's last accepted call
could be built for its tier (`Fits`) and that the stored commitment is the one of
these trees and of the rest of the entry (`Binds`). Every creation and every
update is looked at once, for the entry and the trees it leaves (`Recorded`) and
for who has signed (`Authorised`). An update's first public input is the stored
commitment; commitments are one-to-one, so the tree the caller opened has the root
of the tree on record, and by `RootBindsLeaves` whoever opens a leaf of it has the
key that the roster has there (`OneVoter`). In a quorum the leaves differ, so the
people do (`QuorumVoters`, by `RostersAssumption`), and there are at least as many
as the threshold in the entry. A democracy's commitment of a creation has one
level less, unless the creator put the occupancy in the place of the salt; only
then can an update follow, since an occupancy is never a plain salt
(`DemocracyOld`). `MembersCanProve` is the converse: by `PathLeadsToRoot` the path
that the tree gives for a member leads to the root in the commitment.

**Keys.** `KeysInv`: what is stored is what was last accepted, `bump_vks` knows
every slot a key can be in, and as long as fewer than a threshold of ledgers have
passed since the last bump, every entry and the instance have at least the rest
of the threshold left (`TimeLeft`). A property that says that keys live would not
survive a ledger; the sum of what is left and what has passed does. The bump
renews an entry only below the threshold, and one above it needs no renewal,
which is why the network's minimum has to reach the threshold (`LongMinTtl`).

**The watcher.** `PushInv` has two parts. `Settled => Covered`: whatever could
have outdated the subscriptions at the relay is still to be heard of as a
signal, a refresh under way or a lost connection; so a watcher that has nothing
more to hear has asked for every tag of every row that its tags lead to.
`OncePushed`: what an event has been pushed for is in the ring, unless the ring
has forgotten it, and the watcher's list of those it is done with names every
row that the present event has reached.

**Gateways.** `GatewaysInv`: once the storage key is in its file nobody writes
that file again (a process that finds it short or missing writes it before any
row can be sealed), all rows are sealed under it, a cached credential that was
issued promptly and may be used once more is valid for longer than a prompt
request takes, and a request under way carries one that was so when it left, less
the time it has waited. A row is given up for an answer that a gateway makes of a
token it does not know, or of its own failure; the latter, and a request that was
late, are what `PushesReachTheDevice` excuses.

**Devices that agree with the chain.** The members' secret is not on chain, and
when the contract has accepted a change, only one coroutine knows what was
accepted. `SyncInv` therefore says that there are a secret for every epoch
(`sec`) and a first epoch that no true device has reached (`top`; true is who has
never gone on without the chain or followed one who did), such that: whatever a
true device has, has saved, will install, has been told by a true one or has told
others is of an epoch below `top` and has the salt that the chain and the secret
that `sec` has for that epoch; the members too, once it was checked with the
chain (a guest counts itself in before the chain does); an accepted change is of
epoch `top`; and at most one is accepted and not installed (`OneAccepted`), since
an acceptable proof starts from the chain's last state, which its device must
have. `Extends` says that a longer chain, a later `top` and secrets that agree
below it keep all that (`DeviceKeeps`), so most steps only have to account for
the one device, task or message they touch (`Quiet`, `Forward`, `OnlyOne`); what
is left is `ChainDecides`, which lengthens the chain and fixes the secret of its
last epoch, and `Install`, which moves `top` up. An installation that comes late
does not take a device back: a candidate of epoch `top` is ahead of whatever a
true device has by then, which is also why `EpochsMoveForward` holds. For
`ChainStateIsKnown` the invariant is the property itself (`Holder`) on top of
`SyncInv`: whoever lets go of the state last accepted is a coroutine that has
installed it, and its device keeps it unless it moves to a later epoch, which
there is not.

**Who gets a secret.** `RemovedMembersLoseTheSecret` looks at devices and
envelopes; the secret may be anywhere else. `Holds(x, s)` says that x has s or
may be given it: its group, the saved one, a coroutine's candidate, a record of
envelopes to send again, an envelope or an invitation. A step adds to that in
four ways only (`Gains`): the secret is fresh, x is a guest, a removal is
installed, or x held it. Three facts then make the property inductive. Nobody is
named as a member anywhere who has no group (`MembersHaveGroups`), so a guest
was in no epoch before. A removal's secret is, until the change is installed, in
one coroutine's candidate and nowhere else (`UnheardIsUnknown`); that needs
nothing of the chain, only that numbers are given out once. And since `SyncInv`
has a secret for every epoch, these come in the order of their numbers, and
while one stays members only come (`EpochsInOrder`). So whoever holds the secret
of an epoch and was a member under an earlier one is a member at that epoch
(`Entitled`): a removal that a true device installs is sent to the candidate's
members, which the chain has. A member who is counted out and in again by a
"joined" that comes late holds the later secret again, and it is entitled to it:
the property is about who is out at the epoch of the device that keeps the
secret. Nothing is assumed of devices that have gone on alone; whatever they
hand out, they can only have what they hold.

**Buffers of the C binding.** `FreedOnce` speaks of the moments between two
calls; `BindingsInv` says what is on the heap at every point of one: what the
outputs point at while the call runs and after it was refused, what the caller
has not copied yet after it returned, nothing else. Outputs are written in order
and each points at a buffer of its own number, so that the number of those
written says which is next; that needs that every C function's results are
numbered from one, which is shown function by function (`EveryCallIsNumbered`)
for any arguments, null ones included. The proof assumes only that a request
names one of the fourteen functions (`AskedAssumption`). What the results are is
not part of it: `ClientsAgree` stays with TLC.

**Only checked by TLC.**

- Liveness (`ClaimEnds`, `QueueDrains`, `EventsReachTheRelay`,
  `KeptEventsAreHeard`, `ReconnectsAfterFailure`): fairness and `ENABLED` are out
  of the prover's reach.
- The PLONK protocol (`HonestProofIsAccepted`, `FalseProofNeedsLuck`,
  `ChangeIsHashed`, `CopiesAgree`): polynomials over a small field, whose
  statements are about sums and products along a domain, and in the second case
  about how many challenges let a false proof pass.
- `MembersProveInAnyOrder` and `ClientsAgree`: sorted rosters and what each
  client's codec does to a value, by enumeration.
- `OwedIsRemembered` is a claim within the run's bound of one fault and no
  theorem: with three, an unverified device can announce two changes in the
  reverse order, restart to the older saved group, take another device's removal
  of the same epoch, strike its own record off with an old ack, and the two
  envelopes be lost.

No specification with theorems has a RECURSIVE operator.

## 6. What is not modelled, and what could come next

- The coordinator's read endpoints, the macOS participant, the clients' screens,
  media, governance display and storage, deployment, keysets and scripts: no
  state that two steps could disagree about.
- Curve and field arithmetic, pairings, the rounds of the hash, serialisation
  beyond what is canonical, the embedded SRS and its loading. The models assume
  that a pairing equation says what its logarithms say, that hashes do not
  collide and that ciphers and signatures are ideal.
- Chat messages, profile updates and media in the clients; the iOS client, which
  is the same program as the Android one again, was read beside it and is not a
  module of its own.
- The relay and contract clients built on the SDKs.

What would come next: theorems about the PLONK verifier's arithmetic and about the
circuits of the first registry, on top of the theorems about trees; a receiver
side for notifications; `GroupSync` with two groups, whose subscriptions and ring
of processed events are shared.
