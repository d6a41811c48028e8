# A TLA+ model of hopper-svm

hopper-svm runs Solana instructions against account lists that live in a test
process. This directory holds a model of its core in TLA+, the configurations
with which TLC checks it, and theorems about it with proofs for TLAPS.

Paths in this file and in comments are relative to the repository's root;
`lib.rs` is `src/lib.rs`.

## 1. Inventory

| part | source | its state | its operations |
|---|---|---|---|
| accounts, metas | `account.rs`, `builtin.rs` | account records; metas `(key, signer, writable)` | `meta_for`, `require_signer`, `require_writable` |
| system program | `system_program.rs` | none of its own; nonce states inside account data | 12 instructions: create, assign, transfer, allocate, their seed variants, five nonce instructions |
| compute budget program | `compute_budget_program.rs` | two cells shared with the harness: `pending_cu_limit`, the priority price | 5 instructions |
| built-in engine | `engine.rs`, `compute.rs` | the compute meter of one instruction | `execute`: charge, resolve, invoke, merge or roll back |
| validation | `validation.rs` | none | `validate_post_state`, six rules |
| dispatcher, fees | `lib.rs`, `fees.rs` | registry, sysvars, budget, override, price, fee calculator, policy, each behind a mutex of its own | `process_instruction`, `_chain`, `process_transaction`, `simulate_*`, the setters, the warps |
| account overlay | `lib.rs` | `account_store: Arc<Mutex<HashMap>>` | the `*_with_store` verbs, `set_account`, `airdrop`, `create_account`, `set_token_balance`, `set_mint_supply`, snapshots |
| token, ATA | `spl/token.rs`, `spl/token_2022.rs`, `spl/ata.rs` | mints and token accounts in account data | 8 + 2 instructions |
| lookup tables | `spl/alt_program.rs`, `alt.rs` | tables in account data, against the slot | create, freeze, extend, deactivate, close; resolution |
| stake, vote, config | `spl/stake_program.rs`, `spl/vote_program.rs`, `spl/config_program.rs` | states in account data, against the epoch | 5 + 5 + 1 instructions |
| Agave and BPF engines | `agave/`, `bpf/` | registries of programs, a remembered load error | register, look up, run through the validator's crates |
| foreign interface | `hopper-svm-ffi/src/lib.rs` | a harness and a cache of accounts behind one mutex | C functions over handles |
| bindings | `bindings/` | a handle | Python and TypeScript wrappers of the foreign interface |
| results, logs, fixtures | `result.rs`, `log.rs`, `error.rs`, `token.rs`, `sysvar.rs` | – | formatting, assertions, byte layouts |

How they interact. A verb of the harness takes an account list (the caller's,
or one read from the overlay) and hands it to `dispatch_one` instruction by
instruction. `dispatch_one` reads the settings under their locks, clones what it
needs and releases them, and lets the engine run the program on one clone of
an account per meta. The clones are merged back by address, last one first
served; validation compares the list before with the list after and may roll
the instruction back. A `HopperSvm` is `Clone`, and all clones share all of the
state above, so that threads meet in every setting and in the overlay.

What is hard about it:

* several critical sections make up one call, and other clones may run in between
  (`process_instruction_with_store`, the dry runs);
* a panic with a lock held poisons the overlay for everybody;
* failure half way: a chain keeps what its earlier instructions did, a
  transaction keeps its fee, the compute-budget program keeps what it wrote;
* a key that the metas repeat becomes several copies of one account;
* the settings that price a transaction may change while it runs, also by its
  own instructions;
* sequences of individually harmless instructions on one account (allocate,
  assign, initialise, withdraw) against an initialised nonce;
* six validation rules, each with an exception for fresh accounts, that must
  leave no way round;
* u64 arithmetic that subtracts after a check and saturates when it adds;
* tables, stake and votes that live against a clock which a test warps forwards and
  backwards, under a schedule and a rent it may change in between;
* programs that are found in tables behind locks of their own, which other clones
  change between one table and the next;
* one handle of the foreign interface under several threads of a host that reads
  its outcomes long afterwards.

What makes each part right: authority (nobody's lamports, owner, data or nonce
change without the signature that stands for them), conservation (lamports are
moved, never made or lost, the fee included), isolation (a failed call, a dry
run and another thread's call leave no trace; the calls on a handle are
linearizable), lookup (what was registered last is what runs), progress (every
call ends and every lock comes free).

## 2. Modules

| module | models | correspondence |
|---|---|---|
| `Accounts` | accounts, metas, u64 arithmetic | an account list is a function from addresses to accounts. `FirstMeta` is `meta_for`, `LastMeta` the merge order |
| `SystemProgram` | `system_program.rs` | per instruction a guard `…Ok` (all its checks) and a post-state `…Post` on the working copies; a nonce state is the fields its 80 bytes spell |
| `Validation` | `validation.rs` | one operator per rule, over the list before and the list after |
| `Invocation` | `engine.rs`, `apply_validation` | what every call of a program shares: one copy per meta, the merge, the roll-back, validation of the result |
| `Engine` | `dispatch_one_inner`, the budget program's checks | `Outcomes(ix, slice, slot, limit, policy)` is the set of results one instruction may have |
| `Harness` | the stateless verbs, fees, settings | a call is `Begin…`, one `Dispatch` per instruction, `Keep` or `Drop` of what it returns; every setter is an action that may come between any two of these |
| `HarnessClaims`, `TokenClaims`, `EpochClaims` | – | statements of the documentation that the code does not live up to, each with the line it is from |
| `Overlay` | what one critical section on `account_store` computes | an operator per section |
| `AtomicStore` | – | the abstract specification: each verb of the overlay in one step |
| `AccountStore` | the overlay as it is, several threads | one action per critical section: `Process`/`Collect`, `Dispatch`, `Commit`, `Restore`, …; `Poison` and `Panic` for the poisoned mutex |
| `TokenProgram` | `spl/token.rs`, `spl/token_2022.rs` | as `SystemProgram`: `…Ok` and `…Post` per instruction; a buffer is a mint, a token account or blank, according to what unpacks |
| `AssociatedToken` | `spl/ata.rs` | `Create` and `CreateIdempotent`; the address derivation is a constant function |
| `TokenHarness` | `with_spl_simulators`, `process_instruction` | a caller that runs token and associated-token instructions one by one and keeps what they return |
| `Sysvars` | `sysvar.rs`, the warps in `lib.rs` | clock, epoch schedule, rent; `WarpToSlot`, `WarpToTimestamp`, `MinimumBalance` as functions |
| `NativePrograms` | what the next four share | blank buffers, signers |
| `LookupTables` | `spl/alt_program.rs`, `alt.rs` | `…Ok` and `…Post` per instruction; `Lookup` is `resolve_address_table_lookup` |
| `StakeProgram`, `VoteProgram`, `ConfigProgram` | `spl/stake_program.rs`, `spl/vote_program.rs`, `spl/config_program.rs` | the same; a buffer is the fields of the state it holds |
| `EpochHarness` | the four programs under one caller | `Submit` and `Dispatch` of an instruction, and between any two steps the setters of policy, clock, schedule, rent and both warps |
| `ProgramRegistries` | the routing of `dispatch_one_inner`, `agave/engine.rs`, `bpf/engine.rs` | one action per critical section: `Enter` (cache, then kinds), `InsertElf`, `WithBuiltin`, `SetAgaveEngine`; `Dispatch`, `Route`, `ReadOwner`, `FindBuiltin`, `FindElf`, `Execute` |
| `ForeignCalls` | what the functions of `hopper-svm-ffi/src/lib.rs` compute | an operator per function, over the harness and the cached accounts |
| `AtomicInterface` | – | the abstract specification: every call of every thread in one step |
| `ForeignInterface` | the interface as it is, several threads, and the bindings' reading of outcomes | `Call`, `Acquire`, the work of the verb in one or two steps, `Release`; `ReadAccount` one by one, `CloseOutcome`, `Free` |
| `AccountProofs`, `EngineProofs`, `HarnessProofs`, `TokenProofs`, `StoreProofs`, `RegistryProofs`, `EpochProofs`, `ForeignProofs` | – | the theorems of section 5 and their lemmas: arithmetic and metas, one instruction, then one module per specification |
| `MCHarness`, `MCStore`, `MCToken`, `MCEpoch`, `MCRegistries`, `MCForeign` | – | the instances for TLC; those of the harness, the tokens and the epochs extend the claims |

`Harness` uses `Engine`, which uses `SystemProgram` and `Invocation`, which uses
`Validation`; `TokenHarness` puts the token programs on the same `Invocation`. `Overlay`
uses the same `Engine`, so that the threads of `AccountStore` run the same
programs. `AccountStore` instantiates `AtomicStore` with a refinement mapping:
the abstract store is the concrete one, except that while a dry run is under way
it is the snapshot the dry run took. `ForeignInterface` runs `Engine` under
the mutex of a handle and instantiates `AtomicInterface`: what the others would
see is the harness and the cache, except while a call has taken the harness out
of the handle or has not yet stored what its dispatch came to. `EpochHarness`
puts its four programs on `Invocation`, as `TokenHarness` does. `ProgramRegistries`
stands alone: it is about which program runs, the others about what it does.

A program a user registers is in the model any function at all: it may leave
each of its copies as any member of `CustomAccounts`, or fail, and ask any price of
`CustomCosts` for it.

### Abstractions

* A caller's list names no address twice, and a program does not change the
  address of a copy. The code uses the first entry of a list with duplicates.
* Data is a length and the fields of a nonce state, or of a mint or a token account in `TokenHarness`. `rent_epoch`, which nobody
  reads, the nonce's fee field, which is a constant, log lines, return data, time
  and the units consumed are left out. Errors are the variants the callers tell
  apart; all of a program's own errors are `ProgramError`.
* A program's cost is charged once, before it runs, so that the meter is one comparison: 150
  units for the built-in programs, for a user's program any member of `CustomCosts`, per call.
* One `Dispatch` reads all settings at once, where the code takes one lock
  after the other; and `process_transaction` reads the settings that make up its fee
  at once. A setting changed between two of those reads gives what a change
  just before or after gives, since each setting is read once, except that two
  settings changed together may be seen half changed.
* `TokenHarness` has the token programs alone: the system program's instructions on
  the same accounts are left to `Harness`. Their prices, 4000 and 25000 units,
  are within the budget there, and a chain is its instructions in a row, since
  a chain that fails keeps what came before the failure. The decimals, the
  freeze authority and `is_native` are written and never read.
* The slot is hashed into a nonce; the model keeps the slot.
* `get_account` changes nothing, and the public `commit` does what `set_account`
  does for several accounts in the same critical section.
* In `AccountStore` the settings of the harness do not change and no instruction
  goes to the budget program; `Harness` is about those.
* In `EpochHarness` an account's buffer belongs to one of the programs (`Home`).
  The layouts overlap, and the stake, vote and table programs ask for no owner: an
  initialised stake state also reads as a lookup table. What a program makes of
  another one's bytes is left out (`OwnBuffers`). So are the lockup, which the stake
  program stores and never enforces, the last extended slot of a table, and the
  sysvars nobody reads. A timestamp that leaves an i64 is out of reach, as are
  schedules without slots, on which a warp panics.
* `ProgramRegistries` leaves out what programs do and the stub account that stands for
  an unlisted program, but not its owner, the loader. `last` and `quiet` are
  history variables: the last registration of an id in each engine, or that two of
  them met; and whether no table has changed since a dispatch began.
* In `ForeignInterface` a handle is freed once, while no call is under way, and an
  outcome by its thread: the contract of the pointers. A panic under `extern "C"`
  aborts the host, so that no thread meets a poisoned mutex. A host reads every account of an
  outcome before it closes it, and its last answer is forgotten when it calls again.
* In `AccountStore` a harness has one of the `Crews`, the sets of threads that hold its
  clones; `crew` never changes. A thread's bit in `acks` flips when a verb that edits
  returns success to it (`Told`). Nothing in the code is like it: it is what a caller knows, and the abstract
  specification flips it in the step in which the verb takes effect.

## 3. Runs

| run | question | result |
|---|---|---|
| `authority` | any sequence of system instructions, right and wrong signers, repeated keys, both policies; and a user's program that leaves anything behind, at whatever price | `TypeOK`, `DebitsAuthorised`, `OwnersAuthorised`, `UnwritableUntouched`, `NonceAuthorityHonoured`, `InflationOnlyByCreation` hold |
| `fees` | transactions and chains while the settings change | `FeeBalances`, `QuotesMonotone` hold |
| `tokens` | any sequence of token, Token-2022 and associated-token instructions, right and wrong signers, repeated keys, both policies | `TypeOK`, `SupplyFollowsTokens`, `TokensNeedAuthority`, `AllowancesNeedOwner`, `LamportsAddUp` hold |
| `store` | one thread, every verb, beside one whose setters panic with the lock held; and two threads on different accounts | `TypeOK`; `Serialised`: the overlay implements `AtomicStore`; `PoisonFreezes`, `CallsEnd` |
| `epochs` | any sequence of table, stake, vote and config instructions against a clock, a schedule and a rent that move | `TypeOK`, `StakeBacked`, `TablesNeedAuthority`, `LookupsAreStable`, `StakesNeedAuthority`, `VotesNeedAuthority`, `LamportsAddUp`, `WarpsAgree` hold |
| `engines` | two clones that begin with the built-in system program, register, swap engines and dispatch, table by table | `RegisteredIsCached`, `LastRegistrationRuns`, `KnownIsAnswered` hold |
| `ffi` | two threads of a host on one handle, every call | `TypeOK`, `OneEntryPerAddress`, `GuardComesBack`; `Linearizable`: the interface implements `AtomicInterface` |
| `creation` | does CreateAccount work under the default policy? | no: `CreationWorks` |
| `setter` | does `set_compute_budget` end the override that a dry run left? | no: `OverrideEndsWithSetter` |
| `store_race` | are two calls that share an account serialised? | no: `Serialised` |
| `deactivated` | does a deactivated table stop resolving? | no: `DeactivatedDoNotResolve` |
| `value` | is nothing made of nothing, and nothing lost, when keys repeat? | no: `ValueKept` |

What the failing ones show, each in a few steps:

* `creation`. Rule 2 adds up the lamports of all metas before and after, and
  adds the new account's lamports to the former once more (`validation.rs:244`).
  With the funder among the metas, where the system program needs it, the
  sums differ by the new account's lamports: only an unfunded account can be made.
* `setter`. `simulate_instruction` is `process_instruction`: the budget program writes
  `pending_cu_limit` in a dry run as well (`lib.rs:909-912` says that the compute budget is untouched). That
  cell is reset by nobody: not when the chain is over (`lib.rs:211-216`), and not by
  `set_compute_budget` (`compute_budget_program.rs:28-30`), whose value no instruction then runs
  under. Another `SetComputeUnitLimit` replaces the override, as long as the limit in force pays for one.
* `store_race`. Read, run, write back, with the lock released in between: the
  later write restores what the earlier one changed.
* `deactivated`. What is asked is whether the cooldown is over (`lib.rs:748`), not
  whether the table is deactivated (`lib.rs:726-728`). `LookupsAreStable` says what does hold.
* `value`. Two metas with one key are two copies of one account, and the last one is kept
  (`engine.rs:228`), where in the runtime both are the account itself (`engine.rs:201-202`). The trace is
  a wallet that funds its own associated account: the copy that paid is dropped, and the new account's
  lamports come from nowhere. `ValueKept` rules out two more things that the code does: a token transfer from
  an account to itself, which doubles its amount under either policy, and the `InitializeMint`
  of a token account, which does not unpack as a mint, passes for uninitialised (`spl/token.rs:238-240`)
  and is overwritten, balance and all, without anybody's signature. Strict validation refuses every funded
  creation, so that the run is without it.

Some exceptions in the properties that hold stand for these cases: `SupplyFollowsTokens` is about
instructions that repeat no key and accounts that are not initialised over, `TokensNeedAuthority` leaves out `InitializeMint`
and the `InitializeAccount` of a frozen account, `LamportsAddUp` leaves out
repeated keys without validation.

More that the code does not bear out, or not as one would expect, is visible in
the model and has no run of its own:

* strict validation does not keep lamports from being created (`validation.rs:24-26` and `45-48` say it
  does): the credit of `creation` also goes to a user's program that puts lamports into an
  empty wallet and gives it data, with nobody debited. `InflationOnlyByCreation` says exactly how far
  that goes: the new lamports are in such accounts, and all the others together hold what the
  list held before;
* the fee is quoted from the limit in force before the chain (`lib.rs:1274-1276` says that of the
  chain's own instruction applies);
* a chain that fails returns what its earlier instructions did (`lib.rs:1376` and `README.md:22` call it
  atomic). `FeeBalances` and `Serialised` are stated for what it does;
* the snapshot of a dry run covers the whole overlay, and putting it back undoes what other threads
  stored meanwhile, and were told of (`lib.rs:1183-1189` calls a dry run non-mutating). `Serialised` is
  false of a crew that does that, for its bits tell a lost edit from none, and no run has one: `store_race` refutes the same property;
* new addresses of a table resolve in the slot of their addition: the slot of the last
  extension is written (`alt.rs:71-78`) and not read;
* of the token handlers only `Transfer` asks for the state of an account (`spl/token.rs:33` says every
  operation does), so that a frozen one may be approved, burnt from, minted to and closed;
* an `AuthorizeNonce` of a nonce that is its own authority, passed twice, succeeds without
  effect, for the same reason as in `value`;
* a frozen table that was deactivated before can never be closed;
* `CreateLookupTable` fails under strict validation for the reason `CreateAccount` does;
* the withdrawer's rotation asks for the withdrawer, not for either authority, active stake may
  be delegated again, and a withdrawal of zero wipes the state of an account without lamports;
* the commission is checked when it is updated and not when the vote account is initialised;
* a config account does not store the keys it was written with (`config_program.rs:6-8`), so that
  anybody overwrites it;
* one slot at a time never moves the timestamp, 400 milliseconds being no second
  (`lib.rs:847-854`), a warp back leaves it where it is, a negative timestamp is clamped but the slot
  follows the unclamped one, the epoch goes back at the end of the warm-up
  (`lib.rs:861-870`), and a new schedule leaves the epoch of the clock as it was.

In the registries and the foreign interface:

* a built-in simulator under an id that the Agave engine knows is never asked
  (`lib.rs:592-595` says it replaces the program); a load through the installed engine is lost
  when another clone installs a new one; two registrations of one id that
  overlap may leave the code of one under the kind of the other, and a dispatch that overlaps a
  registration may read one of each: `LastRegistrationRuns` is about dispatches and
  registrations that do not overlap;
* an ELF that does not load leaves the old code in the inner engine's cache, hidden behind
  the record of the failure from all but invocations by other programs;
* the Agave path takes the budget's own limit, not the override, skips the validation policy, and
  leaves the stub of an unlisted program in the list it returns (`lib.rs:1448`);
* `u64::MAX` is a legal balance and stands for an unknown account in the foreign interface;
* the TypeScript bindings' base58 turns 32 zero bytes into 33 ones and back into 33 bytes
  (`bindings/typescript/src/index.ts:504-549`), so that the system program's address does not
  survive; the Python ones get it right. `close` of the Python handle is not
  atomic: two threads that close at once free twice.

### Bounds

`authority` has three accounts beside the programs: a wallet, an address that
derives from it by a seed, and one that may become a nonce account. Two
accounts make a transfer, three a transfer with seed, and no property relates
more. Lamports run to 3, which is also the largest u64 of that run: balances at
the limit, and credits that saturate, occur. Two slots make two nonce values.
Instruction instances cover each instruction with its proper metas and with
each flag that matters taken away, with keys repeated, and amounts 0 and 1.
The user's program works on two accounts of its own world, since no property relates its accounts to the
system program's: writable or read-only, also the same one twice,
and every combination of 0..2 lamports, two lengths and two owners; its price is nothing or
more than any budget. `fees` has
chains of up to two instructions (one to change a setting or to succeed, one to
feel it or fail), limits below and above the price of an instruction, a price at
which the limit costs nothing, one lamport or seven, and one or two signers. Its largest u64
is 6,000,000, which the product of the highest limit and price exceeds, so that
quotes saturate.
`tokens` has one mint, a purse of alice's and bob's associated account, starting
empty or with one token that is free or frozen; two is the largest u64, so
that a second token fills a balance and a third overflows it. Two token accounts
make a transfer, one delegate an allowance, and the second token program
tries its hand at the first one's accounts. A wallet has one lamport, the price of an
associated account (`AtaLamports`).
The stores have two crews of two threads, chains of up to two instructions, and lamports up to 2. In
one crew a thread uses every verb, and the other can only panic; in the other crew each has an account of its own,
which it edits and runs chains on, since with one they share `Serialised` is false.

`epochs` starts from lists with one account for one of the programs and two wallets. Its
largest u64 is 6: products of the rent saturate, so that the rent of an account is
three lamports or none, and a wallet that is full loses what it is credited. Tables
hold two addresses (`MaxAddresses`) instead of 256, cool down for two slots
(`Cooldown`) instead of 513, and cost two lamports (`TableRent`). Slots are 0, 2 and 3: a cooldown,
a step more, and an epoch of two slots either way; `MaxTime` bounds the seconds of the
clock. The stake account has six lamports, three more than the reserve, of which it may also withdraw
three to itself: two copies of one account. Either wallet has one of the
two authorities and may be given the other.

`ffi` has two threads, which is what it takes to interleave, two wallets, one of which
can be empty or absent, and limits above and below the price of an instruction. `engines` has two clones that
register programs under one id, two engines to install beside the inner one, one ELF that loads and
one that does not; clones and engines are symmetric.

The longest runs are `epochs` (710,000 states), `authority` (835,000) and `engines` (2.7 million),
one to three minutes with two workers.

### Fairness

`CallsEnd` needs weak fairness on `Proceed(t)` of `AccountStore`, the steps of a call that
is under way. A thread in a call is runnable; no critical section waits for
anything but the mutex, and none holds it across anything that blocks, so that
whoever wants it gets it; a poisoned mutex answers at once. Nothing says that a
thread ever starts a call.

`GuardComesBack` needs the same of `ForeignInterface`, and that a free mutex is taken by
some thread that waits for it. Which one is not said: `std::sync::Mutex` is not fair, and a
thread that calls over and over may starve another, so that nothing is claimed about
a single call.

## 4. Mutants

Each property of a passing run is accompanied by a mutant, an operator just
before the one it stands in for, named in a comment: a check left out
(`TransferUnfunded`, `AllocateAgain`, `WithdrawBySigner`), an exception too wide
(`OwnerChangeOnFresh`), a comparison too weak (`OwnerForgotten`, `NotInflated`), a
fee taken from whatever is there (`BeginTransactionAnyway`), tokens spent beyond
the allowance or approved by a stranger, a supply that overflows or that a burn forgets,
a closed account that keeps its lamports, a price that
wraps (`PriorityFeeWrapped`), an addition that does not
saturate, a commit that replaces everything, a poisoned guard that is used
anyway, a dry run that spins on the poisoned lock, a table closed without its cooldown or extended by any
signer, a length that is not counted, stake that includes the reserve, authorities that answer
for the wrong role, elapsed slots counted from where the warp ends, a debit without its credit,
tables filled in the wrong order, a record that survives the load after it, an engine asked for
what its clone runs, an account seeded twice, an outcome that borrows the cache, a guard that an early return
keeps. With the mutant in place the
run finds the property violated.

## 5. Proofs

Each theorem holds for every value of the constants that satisfies the assumptions the
modules state on them: finitely many addresses, the system program's id among them, ids of
programs distinct, instructions, requests and account lists of the right type, and for
`EpochHarness` buffers of one program each and stake that is backed at the start.

| module | theorem | statement |
|---|---|---|
| `HarnessProofs` | `TypeCorrect` | `Spec => []TypeOK`: no subtraction goes below zero, no credit above the largest u64, and a call neither adds an account to its list nor drops one |
| | `DebitsHold` | `Spec => DebitsAuthorised` |
| | `WritesHold` | `Spec => UnwritableUntouched` |
| | `OwnersHold` | `Spec => OwnersAuthorised` |
| | `NoncesHold` | `Spec => NonceAuthorityHonoured` |
| | `QuotesHold` | `Spec => QuotesMonotone` |
| | `InflationHolds` | `Spec => InflationOnlyByCreation` |
| | `FeesBalance` | `Conserving => (Spec => []FeeBalances)` |
| `TokenProofs` | `TokenTypes` | `Spec => []TypeOK` of `TokenHarness`: balances, allowances and supplies are u64, and a buffer is one of a mint, a token account or neither |
| | `TokensKept` | `Spec => TokensNeedAuthority` |
| | `AllowancesKept` | `Spec => AllowancesNeedOwner` |
| | `SupplyHolds` | `Spec => SupplyFollowsTokens` |
| | `TokenLamportsKept` | `Spec => LamportsAddUp` of `TokenHarness` |
| `StoreProofs` | `StoreTypes` | `Spec => []TypeOK` of `AccountStore` |
| | `PoisonHolds` | `Spec => PoisonFreezes` |
| | `CallsSerialised` | `Parted` of every crew `=> (Spec => Serialised)`: the overlay implements `AtomicStore` |
| `EpochProofs` | `EpochTypes` | `Spec => []TypeOK` of `EpochHarness` |
| | `BackedStake` | `Spec => []StakeBacked` |
| | `TablesAuthorized`, `StableLookups` | `Spec => TablesNeedAuthority`, `Spec => LookupsAreStable` |
| | `StakesAuthorized`, `VotesAuthorized` | `Spec => StakesNeedAuthority`, `Spec => VotesNeedAuthority` |
| | `AgreeingWarps` | `Spec => []WarpsAgree` |
| | `EpochLamportsKept` | `Spec => LamportsAddUp` of `EpochHarness` |
| `RegistryProofs` | `TypeCorrect` | `Spec => []TypeOK` of `ProgramRegistries` |
| | `FoundIsCached` | `Spec => []RegisteredIsCached` |
| | `LastRuns` | `Spec => LastRegistrationRuns` |
| | `KnownAnswered` | `Spec => KnownIsAnswered` |
| `ForeignProofs` | `ForeignTypes` | `Spec => []TypeOK` of `ForeignInterface` |
| | `OneEntry` | `Spec => []OneEntryPerAddress` |
| | `CallsLinearizable` | `Spec => Linearizable`: the interface implements `AtomicInterface` |

**Harness.** `TypeOK` is inductive by itself: `TypeStep` takes each action in turn, and for
`Dispatch` rests on `OutcomeType`, which follows one instruction through
`Invocations`, `Merge` and validation with a lemma per group of instructions.
The action properties need no stronger invariant. They follow one argument:
`SteppingIsDispatch` (no other action takes an instruction off the list),
`StepChange` (an account that changes does so through one copy that a program
changed, and validation agreed), and then for the system program `CopyAfter`, which lists the
nine ways in which a copy may change, each with the guard that allowed it; for
a user's program the validation rules speak directly.

**Sums.** Four theorems are about the lamports of a whole list, and one about all the tokens of a
mint. The model adds them with a recursive function over subsets. An induction
theorem over predicates is out of the provers' reach, one over sets is not:
`NaturalInduction` and `CardinalInduction` say of a *set* of numbers, or of subsets, that it
has them all. From these `AddsExists` and `UnfoldsAdds` (`AccountProofs`) get that there is exactly one
function that adds, in whatever order, and `TotalSplit` takes any sum apart. The
rest is about copies. An instruction changes at most two; `PairChanged` says so, and `TwoCopies`
that the list then differs by what those two differ by, if the keys are not
passed twice; `OnePays` what happens when one of them pays for the other. Where keys
repeat, or the program is a user's, the sum speaks through rule 2 of validation instead:
`StrictTotal` says that what passed it kept the sum, created accounts apart.
`InflationHolds` follows from that, applied to the list without the newborn accounts: what the rule
credits is exactly what they hold (`NewbornIsCreated`).

**Quotes.** `QuotesMonotone` holds of every pair of states that have their types, so that `TypeOK` is
all the invariant it needs. `ProductMonotone` carries the order through a product,
`SatMulMonotone` through the saturation, the division and the sum keep it (`TotalFeeMonotone`).

**Fees.** `FeeBalances` is not inductive: a transaction that is half way through may still
create an account out of nothing. `FeeInv` adds that the policy is strict and that every
instruction still due is `Gentle`; TLC checks it on the instance of `fees`. `Gentle` excludes what breaks
the balance: a user's program, which may mint under the guise of a creation, and a creation
that pays through metas that repeat a key. Without the latter the theorem is false: the last
copy of the payer comes back unpaid, and rule 2 takes the new account's lamports for created ones.
That is the `Conserving` hypothesis, and the instance of the run satisfies it.

**Tokens.** The token theorems go the same way, without the help of validation: they hold
under either policy. `TokenPostType` and `AtaPostType` follow the post-states of the two programs
into the types, `TokenTypes` puts them together. `TokenFate` lists the five things that may
become of a copy of a token account, each with the guard that allowed it:
overwritten, received, spent by somebody who may, granted by its owner, emptied.
`TokenCopyAfter` and `AtaCopyAfter` show that there is no sixth, `Fate` carries
that from the program's copy to the caller's list, and the two theorems read it off.
For the supply each copy gets a weight, the tokens of the mint that it holds. `Rebalanced` lists
the ways in which an instruction may shift weights and supply, `WeightsAfter` shows that there is no other, and
`HoldingCopies` and `CirculatingCopies` carry that to the list. `TokenLamportsKept` is the sum argument above
under strict validation, and without it one lemma per instruction that says who pays whom.

**Overlay.** `TypeOK` becomes inductive once a call has a record type (`CallRecord`): what a
call works on between its sections is then a store like the overlay itself. `PoisonFreezes`
needs no invariant: whatever writes the overlay takes the lock.

`Serialised` is false for threads that share accounts: `store_race` shows that. It holds if
every crew is `Parted`: one thread has the harness to itself, with every verb it
knows, or several do, none of them makes dry runs, clears or restores, and none reads
what another may change (its own addresses and, under strict validation, only the writable
metas of its chains). The invariant `SInv` places every call: `Underway` says that what it
works on is what some number of instructions of one of its chains may make of the accounts
in the overlay *as they are now*, and that it has left alone what it may not write. Others' steps keep
that, since what they change is not read (`OthersStand`); a commit is then a step in which
the whole chain runs at once (`CommitSerial`). `Serial` collects what is shown of each action, and dry
runs are invisible because who makes one is alone (`WhoIsDry`). `AtomicStore` defines the course
of a chain by a recursive function on the number of instructions, which `CourseIs` unfolds
by set induction, and takes what a verb computes from a store as parameters, as
`AtomicInterface` does.

**Epochs.** The invariant is `TypeOK`, `StakeBacked` and the length of lists. An
instruction of any of the four programs changes two copies at most. `Fate` says what may
become of one: well formed and of its own program (`Sound`), a table that only grew, stopped or
was blanked by its authority (`TableFate`), stake that kept its backing and whose
lamports went no lower than its floor (`StakeFate`), a vote account likewise (`VoteFate`). The account
merged back is one of the copies, so that a list that repeats an address gets the fate of
one copy, not a mixture. `StakeBacked` is part of the induction since the fate
of stake depends on it: delegation counts what is above the reserve, and there must be something
above it. `EpochLamportsKept` is the sum argument, one lemma per program: what an instruction takes
from one copy it gives to another (`Exchanged`), or to one that is full
already. `WarpsAgree` is arithmetic on the two warps.

**Registries.** The theorems need two invariants. `IInv` says how the tables fill: a
table entry never goes away (`Grows`), a call that is past one table finds there what it or a rival has put
there (`Placed`, `Cached`, `Findable`), which is why the order cache, kinds, record matters. `HInv` ties the
history variables to the tables: what `last` says of an id is what the tables hold unless a
registration is under way (`Settled`), a registration that met nobody has the tables to
itself (`Fresh`), and a dispatch that has been quiet so far stands where the tables of now
would have sent it (`Course`).

**Foreign interface.** The invariant: who is past `Acquire` and before `Release` holds the
mutex (`GuardHeld`), a handle is open under every call, the cache has one entry per address, and what has
been read of an outcome is a prefix of it (`CallsKeep`). For the refinement `SeenAlone` shows that at most one call
is half done, so that the mapping shows that call's harness or list; `Hidden` is what every
step but the visible one of a call satisfies, and `DueStep` that a step changes what is due to one thread
only. `StepSeen` goes through the actions. `AtomicInterface` takes the computing
operators as parameters, so that both levels compute the same by construction and the
proof is about interleaving alone.

### Only model-checked

* `CallsEnd` and `GuardComesBack` are liveness properties, which need fairness and `ENABLED`; the
  proof system reasons about neither.
* `Serialised` outside of `Parted`: in one crew of `store` a second thread rewrites balances while the
  first makes dry runs, and it holds there only because those writes always panic on the
  accounts of that instance. That depends on what the accounts hold, not on who uses them.
* `FeeBalances` outside of `Conserving`, where it is false.

## 6. Not modelled, and why

* What Agave's runtime and the BPF virtual machine execute is code of the validator's crates.
  `ProgramRegistries` models how they are reached, and the two components are listed
  as partly modelled for that reason. So are the bindings: their calls, the reading of
  outcomes and the closing of handles are part of `ForeignInterface`, marshalling and base58 are not.
* Results, logs, errors and fixtures (`result.rs`, `log.rs`, `error.rs`, `token.rs`) format,
  assert and lay out bytes; they hold no state that a step could break.
* Two settings changed together may be read half changed (`lib.rs:1591`). Nothing in the
  code relates two settings, so that there is no property to state.
* The pointers' contracts (no use after free, no double free, no null) are the host's
  side of the interface and are assumed.
