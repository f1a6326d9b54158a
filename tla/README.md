# Verification of the Sovereign SDK rollup

This directory holds TLA+ models of the parts of the Sovereign SDK whose correctness depends
on the order of events: blobs that travel through a DA layer, soft confirmations, slot
numbers that advance at two speeds, crashes, retries and re-organisations. TLC checks the
models on small instances, TLAPS proves the main theorems for every value of the constants.

- [The system](#the-system): inventory
- [Modules](#modules): which module models which code, and how
- [Runs](#runs): what TLC checks, with which bounds
- [Proofs](#proofs): what TLAPS proves, and the argument
- [Findings](#findings): where code and documentation disagree
- [Not modelled](#not-modelled)

`PROJECT.json` maps every definition to the source lines it models and lists the hazards
with the properties that address them.

## The system

A rollup node reads the blocks of a data-availability (DA) layer and applies them with a
deterministic state-transition function (STF). A *preferred sequencer* confirms transactions
before they are on the DA layer: it numbers its blobs with consecutive sequence numbers and
posts them through the blob sender. The STF uses the numbers, not the DA order, to order the
preferred sequencer's blobs, and defers everybody else's blobs by slots, so that a
confirmation given early stays true.

| part | state | operations | what is hard |
|---|---|---|---|
| blob sender (`sov-blob-sender`) | tables of blobs and their status, in-flight map, one task per blob | publish, submit, timeout, ledger poll, hooks, restart | crashes between any two awaits, lost copies, re-organisations, duplicates |
| blob selection (`sov-blob-storage`) | next sequence number, index of early blobs, deferred blobs per slot | select blobs of a slot, store, discard | out-of-order and duplicate blobs, deferral, recovery mode |
| slot numbers (`sov-chain-state`, `sov-kernels`) | true slot number, visible slot number, rollup height | synchronize, begin and end of a rollup block | two clocks that must stay within a bound |
| sequencer registry (`sov-sequencer-registry`) | known sequencers, stakes, escrow, preferred sequencer | register, deposit, withdraw, slash, reserve and refund gas | a stake withdrawn while a blob is pending |
| STF blueprint (`sov-modules-stf-blueprint`) | the slot being applied | apply_slot | the order of the steps of one slot |
| runner and state manager (`sov-stf-runner`) | executed blocks that are not final | process a block, finalize, re-organise | forks, a search over a chain that changes |
| proof manager and STF info channel (`sov-stf-runner`) | window of unproven slots, bounded channel, proofs in progress | materialize, notify, read, prove, post, prune | back-pressure, restart, pruning what has no proof yet |
| preferred sequencer (`sov-sequencer`) | batch in progress, nonce buffer, event log | accept a transaction, close a batch, replay after a restart | soft confirmations across restarts |
| databases (`sov-db`) | snapshots of forks; ledger, state, accessory and archival stores | save, finalize, commit, roll back | forks in memory over one chain on disk, commits torn by a crash |
| incentives (`sov-attester-incentives`, `sov-prover-incentives`) | bonds, challenges, proofs | bond, unbond in two phases, challenge | unbonding during a challenge |

How the parts meet: the sequencer hands a closed batch to the **blob sender**, which posts it
until the node's own ledger shows it in a finalized slot. Each DA block becomes a slot; **blob
selection** decides which blobs the slot's rollup block executes, and reads from the
**registry** whether a sender is known, active and able to pay. Its choice moves the **visible
slot number**, on which the withdrawal period of the registry is counted. The **state manager**
decides on which earlier block a DA block is executed and when the result is final, the
**storage manager** keeps the results of every fork, and finalized ones go to the **group of
databases** on disk. With each slot the runner stores what a proof of it needs; once the slot is
visible, the **proof manager** proves or attests it and posts the result.

## Modules

| module | models | role |
|---|---|---|
| `BlobSender` | `sov-blob-sender/src/lib.rs`, its database | one action per await of a task, of a publish call and of `main_task` |
| `PreferredRun` | the run of preferred blobs one slot releases | declarative definition, no state |
| `PreferredTracker` | what the tracker promises | abstract specification, one step per slot |
| `PreferredSearch` | `pick_preferred_blobs_to_process`, `get_blobs_to_process_from_run` | the loop, one action per iteration; implements `PreferredTracker` |
| `SlotClock` | what the kernel promises about its slot numbers | abstract specification |
| `BlobStorage` | `sov-blob-storage/src/capabilities.rs`, `apply_slot`, the kernels | one action per slot; composes `PreferredRun`, implements `SlotClock` |
| `SequencerRegistry` | `sov-sequencer-registry`, escrow in `sov-blob-storage/src/validation.rs`, the return of bonds in `sov-capabilities` | one action per movement of gas tokens; its slots move as `SlotClock` allows |
| `StorageManager` | `sov-db/src/storage_manager/nomt_based` | snapshots of forks and the chain on disk: state and operations, no `Next` of its own |
| `StateManager` | `sov-stf-runner/src/runner.rs`, `state_manager/mod.rs` | one action per call to the DA layer and per step of a slot; composes `StorageManager`, implements `FinalizedChain` |
| `FinalizedChain` | what a node promises about its disk | abstract specification |
| `GroupCommit` | `nomt_based/groups.rs` and the databases it commits to | one action per database written or rolled back; implements `AtomicCommit` |
| `AtomicCommit` | what a node expects of the group | abstract specification |
| `ProofPipeline` | `sov-stf-runner/src/processes/` | the runner, the manager and the prover's threads, one action per await |
| `*Proofs` | | theorems about the module of that name (`BlobSenderTaskProofs` holds lemmas of `BlobSenderProofs`) |
| `MC*` | | the modules TLC runs |

**BlobSender.** The task of a blob is a program counter (`pc`), the status it holds
(`BlobSubmissionStatus`, `BlobSelectorStatus`), its number of attempts (a `u8`, so modulo
`RetryModulus`) and the slot number of its last ledger read. A crash may fall between any two
actions and clears everything but `blobs` (the two tables) and the DA layer. A ledger lookup
is up to three reads, each an action of its own, because each is an await in
`blob_finalized_or_discarded`. A publish call looks at the shutdown channel (`SubmitCheck`)
before it waits for the map's lock and does the rest under it (`SubmitLocked`). The DA layer and the
ledger are external: a mempool, a chain and a finalized prefix; copies may be lost, reordered
and included more than once, an unfinalized suffix may be replaced. What becomes of a copy
(`Selection`) is what blob selection records for it: the next sequence number is stored before the
blobs of the run are checked for room and stake, so a copy may take the number of its blob and be
dropped all the same; later copies are then too low.

**PreferredRun, PreferredTracker, PreferredSearch.** A preferred blob is its sequence number; a
number names one blob and copies are resubmissions. `PreferredSearch` follows the loop: two
peeking iterators (the sorted new blobs, the sorted index), one number taken per iteration,
`Stuck` when neither head is the number wanted. The iterators never skip, so a second copy, or
a stale index entry, hides what comes after it; `PreferredRun` says so declaratively
(`FromNew`, `FromIndex`) and the refinement shows that this is exactly what the loop computes.

**BlobStorage.** `PreferredSlot`, `RecoverySlot` (with `RecoveryLastSlot`, which catches up) and
`BasedSlot` are the three ways of a slot, each one atomic step of `apply_slot` from
`synchronize_chain` to `increment_rollup_height`. Other senders' blobs are their position on
the DA layer, the part of them that selection reads (registered, proof, well-formed, length,
decoded size) and where their gas is held. Size limits, the limit on unregistered blobs, deferral, and the release of
the slots that become visible are in the model. `InitiateWithdrawal`, `Withdraw`, `Deposit` and
`Register` change the standing of the preferred sequencer, which switches recovery on and off.

**SequencerRegistry.** A slot first selects blobs, then executes them, one batch at a time: each
transaction of the batch that runs may cost a penalty (`Penalize`), which leaves the bank at once,
and at the end the bond is returned less the penalties (`ReturnEscrowedFunds`). Where the code's
`expect`s fail the node stops (phase `panicked`). The tokens are followed
through the sequencer's stake, its account, the derived account of a deferred blob, the bank
and the module's account. What the gas price does between reservation and use is a choice
(`Needs`, the parameter `need`).

**StateManager, StorageManager, FinalizedChain.** A DA block is the path that leads to it, so
parents and forks need no hashes, and a state root is the sequence of blocks executed. The head
of the DA layer may move to any fork above the finalized block between any two calls, the two
concurrent calls of a search step (`ProbeHeader`, `ProbeHead`) included. `Decide` is one
iteration of the binary search with its check for a changed head, `Exhausted` its end. A failed
assertion ends the process (`Fail`), which starts again from its disk (`Restart`). The
refinement maps the abstract chain to `disk`.

**GroupCommit, AtomicCommit.** A database holds the number of its last block; NOMT also what one
rollback returns to. A crash may fall between any two writes of a commit and between any two
rollbacks of a recovery. `UserRoot` lets a block leave the user state as it was, so that equal
roots do not mean equal blocks. The refinement maps the committed block to the live database,
which is written last, and the view to what an open group shows.

**ProofPipeline.** `view[s]` is what the ledger shows after slot `s`; a crash returns to the last
slot on disk, a re-organisation to any slot after it. `Notify` blocks the runner on a full
channel, `Submit` waits for a thread. The manager posts first and advances the counter `next`
afterwards, and the runner stores the counter only with the next slot. Two history variables tell
the blocks of a slot apart: `posted` has the slots whose block on the node's chain has a published
proof, `replaced` those that got another block after the manager had read the old one.

Assumptions of the models, besides the bounds:

- one DA address belongs to one rollup address, and a sequencer has at most one blob in a slot
  (`SequencerRegistry`);
- rewards from users' fees are left out: a bond comes back less its penalty;
- the order in which the blobs of a block are executed is over-approximated;
- a blob dropped for capacity after its gas was moved is counted where its tokens are (bank or
  derived account), as in the code, which does not refund it;
- based sequencing (`DEFERRED_SLOTS_COUNT = 0`) is in `BlobStorage` only; there is no deferral
  and hence no escrow to follow in the registry;
- the node talks to one consistent DA node (`StateManager`); the TODO at `state_manager/mod.rs:875`
  about switching between RPC nodes is not covered;
- a crash ends the process and keeps its writes (`GroupCommit`); whether a returned write is on
  the disk is decided in RocksDB and NOMT;
- a blob of `BlobSender` has a sequence number of its own, as the blobs of the preferred sequencer
  have; a standard sequencer's blobs have none and cannot be too low;
- the STF info of a slot is its number and a fork that was left is not returned to
  (`ProofPipeline`); `next_height_to_send` is advanced with each announcement, in the code at the end of the
  loop (nothing reads it in between).

## Runs

| run | bounds | shows |
|---|---|---|
| `sender_crash` | 1 blob, 3 slots, 2 copies, one crash, re-organisation, discard or drop, error | `NoBlobGivenUp`, `HooksAtLeastOnce`, `NoBlobForgotten`, `CounterIsExact` (3.7 million states) |
| `sender_live` | 1 blob, 2 slots, one crash, re-organisation, error | every task ends (`TasksEnd`) |
| `sender_torn` | 1 blob, 2 slots | finding |
| `search_drains` | numbers 0..3, 2 copies of each | the loop implements `PreferredTracker` (`ImplementsTracker`), the code's assertions, `NothingSkipped`, `Drains` |
| `storage_slots` | 6 slots, deferral 3, increase at most 2 | `NeverOverdue`, `NoBlockNoBlobs`, `RecoveryGains`, `ImplementsClock` |
| `storage_blobs` | 3 slots, 2 blobs per slot, deferral 2 | `NoneLost`, `EscrowMatchesPlace`, `SelectionFits`, `BlockIsVisiblePart` |
| `storage_based` | 2 slots, 3 blobs per slot of nine shapes, no deferral | the same for based sequencing |
| `registry_accounts` | 2 sequencers, 6 slots, deferral 3, increase at most 3 | `ReadyIsSelected`, `RegistrySolvent`, `BankSolvent`, `Conserved` (705,000 states, symmetry of the sequencers) |
| `registry_slashed` | 2 sequencers, 4 slots, deferral 2 | finding |
| `forks` | DA chain of height 3, one re-organisation, one crash | `MapsAgree`, `AssertionsHold`, `ImplementsChain`, `Settles` (108,000 states) |
| `commit` | blocks 0..4, 4 crashes | `Recoverable`, `RecoveryFits`, `ImplementsAtomicCommit`, `Recovers` |
| `pipeline` | 6 slots, both modes, window 4, channel 1, jump 2, lag 1, one re-organisation, crash, failure | `NeverBroken`, `UnprovenIsKept`, `BatchContinues`, `NothingLeftOut`, `PanicsOnlyOnReorgs`, `Proven` (690,000 states) |

Why the bounds are enough:

- *Blob sender.* Tasks of different blobs share only the map, the counter and the publish call;
  that these stay right for any number of blobs is proved. For one blob, three slots hold a
  processed, a replaced and a finalizing slot, two copies an original and its resubmission;
  two retries let a timeout happen before the last one. One of each fault lets every pair of
  faults meet in either order.
- *Preferred numbers.* A repeated number, the number behind it and a batch behind both need
  three numbers; four leave room for a second run. Larger numbers are covered by the proof.
- *Slots.* Six slots with deferral 3 let the visible number lag fully, be pushed by the limit,
  enter recovery and catch up. Two blobs per slot and a room of 2 let a blob be dropped for
  its decoded size, and `UNREGISTERED_BLOBS_PER_SLOT = 1` lets the second newcomer be refused.
- *Registry.* With deferral 3 a blob can still be deferred when a withdrawal that waits one
  slot would be ready (with deferral 2 it cannot); six slots let a withdrawal that waits four
  end. Supply 4 and charges of 1 to 3 let every payment succeed and fail, and let
  the penalties of one batch use up the bond of another.
- *Forks.* Height 3 gives the search an interval to halve and lets a shorter fork win. Without
  crashes the safety properties were also checked once with two re-organisations (2.3 million
  states) and with height 4 (469,000 states); these are not runs of the project.
- *Databases.* A crash changes at most one block's worth of writes, so the second of two crashes
  can already interrupt the recovery of the first; four leave room for two such pairs.
- *Proof pipeline.* The window is exactly `Channel + Jump + Lag`; with 3 instead of 4 the start
  does fail, so the bound in `NeverBroken` is tight. Six slots let two aggregated proofs follow
  one another and the window slide, and a re-organisation fall before, into and after either.

Deadlock is not checked where the bound on slots or on faults lets a behaviour stop; it is
checked for `PreferredSearch`, where a slot can always follow.

**Fairness.** `sender_live`: a spawned task is polled until it ends and a publish call runs to
its end (weak fairness, the scheduler of tokio); the DA layer finalizes the slots it has (weak
fairness); the timeout of a blob that returns to polling again and again fires (strong
fairness: the deadline is fixed when polling begins and the clock advances meanwhile). No
fairness is assumed of inclusion on the DA layer, of crashes or of publishing. The run has no
discards: the number of attempts is only compared on a timeout, so the task of a blob that is
discarded each time it is submitted need not end. `search_drains`: DA blocks follow one another
and each is processed to its end (weak fairness of `Next`). `forks`: the runner's loop and the task
that polls the head are scheduled, and a node that stopped is started again; nothing is assumed of
the DA layer, whose changes the bounds make finite. `commit`: a node that went down is started
and its start goes on. `pipeline`: weak fairness of the node's tasks as a whole (`Node`), which
asks less than fairness of each task; crashes, and failures other than those of a block proof,
are not in it.

Each property of a passing run has a mutation of the modelled code (an operator commented
"Mutant" or "Plausible bug") under which TLC finds it violated.

## Proofs

All proofs hold for every value of the constants that satisfies the named assumptions of the
modules; these only say that bounds are natural numbers, sets of blobs and of sequencers finite,
the step of the visible slot number positive, charges that must be positive positive.

Sums of tokens and folds over blobs need induction over data. The library's induction rules take
a predicate, which the provers cannot instantiate, so the induction is stated over *sets*: a set
that has 0 and with every number the next one contains all of them (`NatInduct`, from the
well-foundedness of the order on the numbers), and likewise for finite sets (`SubsetInduct`) and
for the positions of a sequence (`UptoInduct`). A recursive definition of the library is a
`CHOOSE` of a table; that the table exists is shown first, by such an induction (`SumsExist`,
`TableExists`), and what it holds follows from its equations.

The modules with the longest proofs do not use `SequencesExt`: with it in scope every obligation
takes the provers several times as long. `FoldLeft` (`BlobStorage`) and `Leads`
(`StorageManager`), its fold and its prefix relation on what these modules need, are defined there.

**BlobSenderProofs** (`TypeCorrect`, `HooksDelivered`, `NothingForgotten`, `NothingGivenUp`,
`CounterExact`).
`HooksAtLeastOnce` speaks of blobs that have left the table and does not say which hooks a
*running* task has called, so it is not inductive. The invariant adds `HookInv` (hooks called
at each point of a task and behind each saved status: this is where "save, then call the
hook" matters, since a saved `Published` must not imply the hook) and `TrackInv` (where a
stored blob is: map, call or restart list, in exactly the combinations the lock allows).
`CounterIsExact` is preserved because a step changes the set of running tasks by one blob and
the counter by one (`RunningMoves`), with the library's facts on cardinality. A second task for a
running blob would be counted twice, so the theorem also says that there is none.
`NoBlobGivenUp` needs two more facts: a discard with `SequenceNumberTooLow` follows a copy on the
same chain that took the number (`ChainInv`), and a task that took its blob for finalized from
reads that were not torn did so because such a copy is below the finalized slot
(`DecidedInv`); a finalized slot is never replaced. The lemmas are in two modules:
`BlobSenderTaskProofs` (`TypeOK`, `TrackInv` and the counter) and `BlobSenderProofs` (the hooks,
the chain, the theorems).

**PreferredSearchProofs** (`StoredBlobPresent`, `AssertionsHold`, `NoneSkipped`,
`LoopImplementsTracker`). `LocalsInv` gives the loop's locals as functions of the slot's input
and of the number reached; `RunInv` says that all numbers below were reached and why the loop
stopped. `PeekNew` and its companion show that an iterator's head is the wanted number exactly
when the declarative definition says so. The commit is then one step of `PreferredTracker`,
every other action a stutter.

**BlobStorageProofs** (`DeferralIsBounded`, `SlotsImplementClock`,
`RecoveryCatchesUp`, `EveryBlobCounted`, `GasFollowsBlob`, `BlocksFit`, `BlocksAreVisibleParts`,
`NoBlobsWithoutBlock`). For the slot numbers the invariant is `SlotInv` (visible at most true, lag
below the limit) and `WaitInv` (only slots that are true and not visible hold blobs). The key
lemma, `IncreaseInRange`, shows that the clamping of the requested increase keeps the clock in
range; which blobs are kept does not matter.

For the blobs, the first part of the module shows what the loops of a selection do to any sequence
of blobs. Every fold is a run of single steps (`IsRun`), each of which takes a blob to its place, if
there is room, or discards it (`Takes`). So every blob is kept or discarded (`RunKeeps`), not both
(`RunSeparates`), the kept ones stay in order (`RunOrders`), and their size and the room that is
left add up to what they were (`RunFits`). `NoneLost` alone is not inductive: two slots might store
the same blob, and a stored blob might be of another slot. `BlobInv` adds `Waits`: the blobs stored
for a slot are of that slot, in order, with their gas in a derived account, and no blob is stored
twice. Each of the four ways of a slot then has the same `Outcome`: the stored blobs still wait,
none is lost, and what is selected is `Chosen` from the slots that become visible. The new
blobs of the slot are settled at once (`NowAccount`) or stored (`LaterAccount`); recovery from a
lag of two stores them and takes them in the same slot. For
`NoBlockNoBlobs`, the preferred part needs that without a run the next sequence number stays where
it is.

**SequencerRegistryProofs** (`WithdrawalWaits`, `TypeCorrect`, `StakesCovered`, `BondsCovered`,
`TokensConserved`). `ReadyIsSelected` needs `EscrowInv`: a blob in escrow was posted no later than
now, is not visible during execution and, if its sender is withdrawing, was posted before
`ready_at`. The last holds because a withdrawal starts when the lag is below
`DEFERRED_SLOTS_COUNT` and a withdrawing sender posts nothing that is deferred. The clock is the
one `SlotsImplementClock` proves of blob selection.

The accounts are sums over tables. `SumUpdate` says what changing one entry does to a sum, and
`Transfer` turns a step into what it adds to each table and to each module account; an action is
then a line of arithmetic. `AccountInv` joins the types to the three statements on sums, because
each needs the others: that a module account is not overdrawn is what its solvency says, and that
no account exceeds the tokens of genesis is what conservation says. `BankSolvent` allows for the
penalties of the batch that runs, which have left the bank while its bond still stands
(`PenalizeTransfer`). When the bond is returned the code subtracts them from it, and the batch of
which they exceed the bond does not end; so the gap closes with every batch that does
(`ReturnTransfer`). `SlotInv` adds that a
sequencer whose blob is not yet validated has nothing in that blob's derived account, without
which a reservation would overwrite tokens.

**StateManagerProofs** (`MapsAlwaysAgree`, `AssertionsAlwaysHold`, `DiskIsFinalizedChain`,
`StatesAreExecutions`, `DiskFollowsFinality`, `FinalityAdvances`, `NoFutureBlock`). `MapsAgree` only
speaks of the time between two slots; while transitions are finalized one by one the two managers
disagree, in a way the invariant has to say. `Base` is the last block on disk. `Forest`: the
snapshots are a tree on `Base` that has with every block all blocks between `Base` and it; the
executed blocks are what is above `lastFinalized` in that tree, each with the state of the blocks
that lead to it. `Pending`: the blocks from `Base` to `lastFinalized` are those the storage has
still to finalize, in order. So finalizing the next one moves `Base` by one block and keeps of the
tree what is above it (`LosersGo`), and the state built from the snapshots is the one recorded
(`StateOfParent`). `PlaceInv` says that a block being executed continues the tree. `SearchInv`
bounds the range of the binary search by `lastFinalized` and the highest executed block and says
that a candidate follows `lastFinalized`, even when the best fork has changed since it was read:
this is why the checks of `handle_exhausted_search` pass. What is final is on one line (`Leads` is
linear below a block, `LeadsLinear`), so a restart finds its last block again on the DA layer
(`RestartSafe`). The step that writes a transition to disk is the abstract commit, the
finalization of a block by the DA layer its counterpart, every other action a stutter. After
`MAX_GET_BLOCK_ATTEMPTS` lowered requests the code ends the process; in a chain high enough for
that, `Crash` stands for it.

**GroupCommitProofs** (`AlwaysRecoverable`, `RecoveryNeverFails`, `CommitsAtomically`). The
invariant says how far each database is at each position of a commit and of a recovery: those
before the position are done, those after it are where they were (`Progress`), and a recovery
rolls back only when genesis was committed to the end (`GenesisStarted`). `Recoverable` alone does not
say that a recovery that reaches its check has made all roots equal. The write of the live
database is the abstract commit, every other write a stutter. `UserRoot` is any function of the
blocks.

**ProofPipelineProofs** (`NodeCanStart`, `PruningIsSafe`, `ProofsAreContiguous`,
`NoSlotIsSkipped`, `NoPanicWithoutReorg`). The invariant adds to the properties what holds of a
running node (`Running`: what was announced is in the channel or was read, in order), what every
slot the node may restart from satisfies (`Startable`), and what holds until the first
re-organisation (`NoReorg`). For `NodeCanStart`: when a slot is materialized, all slots up to the
provable one, at most `Lag` behind, were announced; of these at most `Channel` are in the channel
and at most `Jump` in the proof in progress; so the counter is at most `Channel + Jump + Lag`
behind the slot that is stored with it. For `ProofsAreContiguous` and `NoSlotIsSkipped`: a
re-organisation adds to `replaced` what the manager holds or has proven above the fork point, so
whatever it reads afterwards is of the new chain.

Types are proved, not model-checked, for `BlobSender` (`TypeCorrect`), `PreferredSearch`,
`StateManager` and `ProofPipeline` (in their inductive invariants).

Only model-checked: liveness (`TasksEnd`, `Drains`, `Settles`, `Recovers`, `Proven`), which is
outside the prover. Every invariant, action property and refinement of a passing run has a theorem.

## Findings

Each is a run whose property states what a line of the repository says.

- `sender_torn` (`FinalizedIsFinal`): the slot of a batch and the latest finalized slot are two
  reads; a re-organisation in between lets the sender take a blob for finalized that is on no
  chain. `NoBlobGivenUp` holds of every behaviour without such a torn read.
- `registry_slashed` (`ReturnFindsSequencer`): a sequencer slashed while an earlier blob of it
  is deferred is unknown when the bond of that blob is to be returned, where the code expects
  it to be known.

`ReadyIsSelected` covers the *selection* of blobs: a block that advances the visible number by
several slots may select a blob and make the withdrawal ready at once, before the bond of the
blob is returned.

Observations that no run of the project states:

- A preferred blob that is dropped for lack of room or stake has already used up its sequence
  number (`capabilities.rs:1012`). The sender submits it again, the copy is discarded with
  `SequenceNumberTooLow`, documented as "an old sequencer number that we've already processed"
  (`stf/mod.rs:203`), and the blob is reported as finalized and removed, although it was never
  executed. Hence `NoBlobGivenUp` speaks of numbers that were taken, not of blobs that were executed.
- "A sequencer can never be penalized more than the amount they have escrowed"
  (`sov-capabilities/src/lib.rs:211`) does not hold of a preferred batch: its bond covers the
  checks of one transaction, and skipped transactions are not taken off what the next one may cost
  (`registered.rs:554`). The `expect` then fails; so does the transfer of a penalty when the bank is
  empty. `BankSolvent` shows that no batch ends at the cost of another blob's bond.
- An accepted proof blob has no entry in the tables the lookup of the blob sender reads
  (`BatchByHash`), so it is not recognised as finalized.
- A second copy of a stored preferred blob hides the run behind it for a slot (`PreferredRun`),
  although a block is documented to be created whenever the next batch is there. `Drains` shows
  that it is only a delay.
- The finalized height shown to readers may decrease when the block that carried the ledger entry
  is re-organised away (`state_manager/mod.rs:393`); `state_manager/tests.rs:1478` treats a decrease
  as an error. The chain on disk never shrinks (`ImplementsChain`).
- The assertion at `state_manager/mod.rs:1045` can fail when the finalized header is one the node
  has not executed; the node then restarts from its disk. `AssertionsHold` excepts it.
- `NeverBroken` has a premise the code does not check: the constructor only compares the channel
  with the window. `constants.toml:55` has `DEFERRED_SLOTS_COUNT = 120` and the demo configurations
  a window of 100, so after a visible slot that lagged by more than about 100 slots the start may
  fail with "Too many STF infos in the db", each time.
- After a re-organisation an announced slot is not announced again, since `next_height_to_send` is
  never lowered, and a block the manager had read stays in its proof. `BatchContinues`,
  `NothingLeftOut` and `Proven` except these slots (`replaced`). `PanicsOnlyOnReorgs` is the exact extent of what is excluded: with
  re-organisations the two assertions can fail, and the node restarts.
- A block proof that failed keeps its error, so retrying it cannot succeed (`GiveUp`). After a
  crash a proof may be posted twice.
- Smaller ones, on which nothing later depends: a stored preferred blob that is released from a
  newer copy stays in storage (`capabilities.rs:984`); `update_synced` reports the height that was
  asked for (`runner.rs:655`); caches of dropped forks stay in `pinned_caches`
  (`nomt_based/mod.rs:110`); when pruning of STF infos stops early, the oldest slot number still moves
  to the end of the range (`stf_info_manager.rs:300`); the bulk fetcher reserves one place more than a
  bulk, which its constructor admits as channel size (`bulk_finalized_blocks_fetcher.rs:279`).

## Not modelled

With state that interleaves, and so within reach of a model, but not modelled:

- the preferred sequencer (accepting transactions, closing batches, replay on a new node state):
  about 10,000 lines of tasks that share channels and a lock and hold the state of the whole STF;
- its nonce buffer, with a hazard in `PROJECT.json` that no property covers (a late
  timeout of a transaction that was replaced or taken for execution, and the nonces of the node
  state and of unpersisted executions that move independently);
- its replica, which follows its event log; and the standard sequencer, a mempool and a batch
  builder behind one lock;
- the fetcher of finalized blocks, which only prefetches what `StateManager` fetches.

The models stop at these: the order in which the sequencer numbers its blobs is an input of
`BlobSender` and `PreferredSearch`.

Partly modelled: chain state and kernels (the two slot numbers only), the STF blueprint (the order
of a slot's steps and what a batch is charged, not what its transactions do), gas capabilities (bonds and penalties, not users'
gas).

Sequential updates, where a model would explore nothing: transaction uniqueness, the bank's
tables, attester and prover incentives, accounts, paymaster and the other small modules. Out of
reach as data: EVM and Hyperlane, the module framework, macros and Merkle state. External: DA
and zkVM adapters. I/O and formatting: RPC and REST, metrics, configuration, CLI, wallets, SDKs and
examples. `PROJECT.json` lists each with its reason.
