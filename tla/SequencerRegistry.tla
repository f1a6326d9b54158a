------------------------- MODULE SequencerRegistry --------------------------
(***************************************************************************)
(* Stakes, escrow and withdrawal of sequencers (sov-sequencer-registry)    *)
(* and the places that move a sequencer's gas tokens: blob selection       *)
(* (sov-blob-storage) and execution (sov-capabilities).                    *)
(*                                                                         *)
(* A slot selects blobs (phase "select"), then executes them ("execute").  *)
(* A blob is its sender and its DA slot, or the slot that releases it if   *)
(* its sender is preferred: at most one blob of a sequencer in a slot.     *)
(* The slot numbers move as SlotClock says, which is what BlobStorage      *)
(* implements.  A DA address and a rollup address belong to one sequencer. *)
(***************************************************************************)
EXTENDS Integers, FiniteSets, FiniteSetsExt

CONSTANTS
    Sequencers,
    None,
    DEFERRED_SLOTS_COUNT,
    MAX_VISIBLE_HEIGHT_INCREASE_PER_SLOT,
    Parse,      \* charge to deserialize a blob
    Check,      \* pre-execution checks of a blob, when it is first validated
    Deferral,   \* account_for_deferral_costs
    Needs,      \* pre-execution checks at the gas price of a later slot
    MinimumBond,
    Supply,     \* tokens of each sequencer at genesis
    SeqBond,    \* of which the genesis sequencer stakes this
    MaxSlot     \* bound: slots

ASSUME SlotAssumption ==
    /\ DEFERRED_SLOTS_COUNT \in Nat \ {0} /\ MaxSlot \in Nat
    /\ MAX_VISIBLE_HEIGHT_INCREASE_PER_SLOT \in Nat

ASSUME CostAssumption ==
    /\ Parse \in Nat /\ Check \in Nat \ {0} /\ Deferral \in Nat
    /\ Needs \subseteq Nat \ {0}
    /\ MinimumBond \in Nat /\ SeqBond \in Nat /\ Supply \in Nat /\ SeqBond <= Supply

ASSUME SequencersAssumption == IsFiniteSet(Sequencers) /\ None \notin Sequencers

VARIABLES
    trueSlot, visible,
    phase,      \* "select" or "execute", or "panicked" in a slot the node cannot execute
    block,      \* the slot creates a rollup block
    waits,      \* the slot defers the blobs of its DA block
    running,    \* the blob that is executed, once its sequencer is penalized, or None
    penalty,    \* accumulated_penalty of that blob
    posters,    \* sequencers whose blob of this slot is not yet validated
    preferred,  \* preferred_sequencer, or None
    standing,   \* known_sequencers: "active", "pending" or "gone"
    readyAt,    \* ready_at of a pending withdrawal
    stake,      \* balance of the known sequencer
    funds,      \* tokens of the rollup address
    escrow,     \* tokens of the derived account of a deferred blob, or 0
    bond,       \* reserved_gas_tokens of a selected blob, or 0
    registry,   \* tokens of the registry module's account
    bank,       \* tokens of the bank module's account
    paid        \* history: tokens paid to provers or left in a derived account

batchVars == <<running, penalty>>
slotVars == <<trueSlot, visible, phase, block, waits, batchVars>>
standingVars == <<preferred, standing, readyAt>>
blobVars == <<escrow, bond>>
accountVars == <<registry, bank, paid>>
vars == <<slotVars, posters, standingVars, stake, funds, blobVars, accountVars>>

Clock == INSTANCE SlotClock

Slots == 1..MaxSlot
Blobs == Sequencers \X Slots

\* init_module registers one sequencer.
Init ==
    /\ trueSlot = 0 /\ visible = 0 /\ phase = "execute"
    /\ block = FALSE /\ waits = FALSE /\ posters = {} /\ running = None /\ penalty = 0
    /\ \E s \in Sequencers :
          /\ preferred \in {s, None}
          /\ standing = [t \in Sequencers |-> IF t = s THEN "active" ELSE "gone"]
          /\ stake = [t \in Sequencers |-> IF t = s THEN SeqBond ELSE 0]
          /\ funds = [t \in Sequencers |-> IF t = s THEN Supply - SeqBond ELSE Supply]
    /\ readyAt = [s \in Sequencers |-> 0]
    /\ escrow = [b \in Blobs |-> 0] /\ bond = [b \in Blobs |-> 0]
    /\ registry = SeqBond /\ bank = 0 /\ paid = 0
-----------------------------------------------------------------------------
(* Blob selection.                                                         *)

\* get_preferred_sequencer finds no known sequencer.
Recovers == preferred \notin {s \in Sequencers : standing[s] # "gone"}

\* A slot begins when the one before it is executed.  Recovery takes two slots
\* at a time and stores blobs until it is one slot behind.
BeginSlot(senders) ==
    /\ phase = "execute" /\ trueSlot < MaxSlot
    /\ \A b \in Blobs : bond[b] = 0
    /\ Clock!Tick
    /\ IF Recovers THEN visible' = IF visible = trueSlot THEN trueSlot' ELSE visible + 2
                   ELSE visible' <= visible + MAX_VISIBLE_HEIGHT_INCREASE_PER_SLOT
    /\ phase' = "select" /\ block' = (visible' > visible)
    /\ waits' = (visible' < trueSlot' \/ (Recovers /\ visible < trueSlot))
    /\ posters' = senders
    /\ UNCHANGED <<batchVars, standingVars, stake, funds, blobVars, accountVars>>

Posts(s) == phase = "select" /\ s \in posters /\ posters' = posters \ {s}

\* A sender that is not active, or cannot pay for deserialization, is ignored.
Ignore(s) ==
    /\ Posts(s)
    /\ IF s = preferred THEN standing[s] # "active" \/ ~block \/ stake[s] < Check
                        ELSE standing[s] # "active" \/ stake[s] < Parse
    /\ UNCHANGED <<slotVars, standingVars, stake, funds, blobVars, accountVars>>

\* slash_sequencer: the stake stays with the module.
Slash(s) ==
    /\ standing' = [standing EXCEPT ![s] = "gone"]
    /\ readyAt' = [readyAt EXCEPT ![s] = 0]
    /\ stake' = [stake EXCEPT ![s] = 0]
    /\ preferred' = IF preferred = s THEN None ELSE preferred

\* deserialize_or_try_slash_sender on a malformed blob.
Malformed(s) ==
    /\ Posts(s)
    /\ IF s = preferred THEN standing[s] # "gone"
                        ELSE standing[s] = "active" /\ stake[s] >= Parse
    /\ Slash(s)
    /\ UNCHANGED <<slotVars, funds, blobVars, accountVars>>

\* validate_blob: deserialization is charged, then the balance is too low.
Unfunded(s) ==
    /\ Posts(s) /\ s # preferred /\ standing[s] = "active" /\ stake[s] >= Parse
    /\ stake[s] - Parse < Check + (IF waits THEN Deferral ELSE 0)
    /\ stake' = [stake EXCEPT ![s] = @ - Parse]
    /\ UNCHANGED <<slotVars, standingVars, funds, blobVars, accountVars>>

\* Mutant: the balance is not checked.
ReserveDirectUnchecked(s, charge, fits) ==
    /\ standing[s] = "active"
    /\ stake' = [stake EXCEPT ![s] = @ - charge - Check]
    /\ registry' = registry - Check
    /\ bank' = bank + Check
    /\ bond' = [bond EXCEPT ![<<s, trueSlot>>] = IF fits THEN Check ELSE 0]
    /\ UNCHANGED <<slotVars, standingVars, funds, escrow, paid>>

\* validate_blob for a blob that is executed in this slot.  One that does not
\* fit is discarded after its tokens have moved to the bank.
ReserveDirect(s, charge, fits) ==
    /\ standing[s] = "active" /\ stake[s] >= charge + Check
    /\ stake' = [stake EXCEPT ![s] = @ - charge - Check]
    /\ registry' = registry - Check
    /\ bank' = bank + Check
    /\ bond' = [bond EXCEPT ![<<s, trueSlot>>] = IF fits THEN Check ELSE 0]
    /\ UNCHANGED <<slotVars, standingVars, funds, escrow, paid>>

SelectNow(s, fits) ==
    /\ Posts(s) /\ s # preferred /\ ~waits
    /\ ReserveDirect(s, Parse, fits)

\* validate_preferred_blob: no charge for deserialization.
SelectPreferred(s, fits) ==
    /\ Posts(s) /\ s = preferred /\ block
    /\ ReserveDirect(s, 0, fits)

\* validate_blob for a blob that waits.
Defer(s, fits) ==
    LET cost == Check + Deferral
    IN  /\ Posts(s) /\ s # preferred /\ waits
        /\ standing[s] = "active" /\ stake[s] >= Parse + cost
        /\ stake' = [stake EXCEPT ![s] = @ - Parse - cost]
        /\ registry' = registry - cost
        /\ escrow' = [escrow EXCEPT ![<<s, trueSlot>>] = IF fits THEN cost ELSE 0]
        /\ paid' = IF fits THEN paid ELSE paid + cost
        /\ UNCHANGED <<slotVars, standingVars, funds, bond, bank>>

\* retrieve_funds_from_escrow: the rest goes to the rollup address.
Retrieve(s, k, need, fits) ==
    /\ phase = "select" /\ k <= visible /\ escrow[<<s, k>>] > 0 /\ need <= escrow[<<s, k>>]
    /\ escrow' = [escrow EXCEPT ![<<s, k>>] = 0]
    /\ bond' = [bond EXCEPT ![<<s, k>>] = IF fits THEN need ELSE 0]
    /\ bank' = bank + need
    /\ funds' = [funds EXCEPT ![s] = @ + escrow[<<s, k>>] - need]
    /\ UNCHANGED <<slotVars, posters, standingVars, stake, registry, paid>>

\* Mutant: the derived account is not emptied.
RefundTwice(s, k, need) ==
    /\ phase = "select" /\ k <= visible /\ escrow[<<s, k>>] > 0 /\ need > escrow[<<s, k>>]
    /\ funds' = [funds EXCEPT ![s] = @ + escrow[<<s, k>>]]
    /\ UNCHANGED <<slotVars, posters, standingVars, stake, blobVars, accountVars>>

\* refund_all_reserved_gas: the gas price rose too much.
Refund(s, k, need) ==
    /\ phase = "select" /\ k <= visible /\ escrow[<<s, k>>] > 0 /\ need > escrow[<<s, k>>]
    /\ escrow' = [escrow EXCEPT ![<<s, k>>] = 0]
    /\ funds' = [funds EXCEPT ![s] = @ + escrow[<<s, k>>]]
    /\ UNCHANGED <<slotVars, posters, standingVars, stake, bond, accountVars>>

\* Blobs of visible slots are taken out of storage before execution.
BeginExecution ==
    /\ phase = "select" /\ posters = {}
    /\ \A b \in Blobs : b[2] <= visible => escrow[b] = 0
    /\ phase' = "execute"
    /\ UNCHANGED <<trueSlot, visible, block, waits, batchVars, posters, standingVars, stake,
                   funds, blobVars, accountVars>>
-----------------------------------------------------------------------------
(* Execution: the transactions of a blob run before its bond is returned.  *)

Executes(s) == phase = "execute" /\ block /\ \E k \in Slots : bond[<<s, k>>] > 0

Runs(b) == phase = "execute" /\ bond[b] > 0 /\ running \in {None, b}

\* penalize_sequencer, for a transaction that is not executed: the bank pays.  The bond of a
\* preferred blob is for one transaction, and skipped ones are not taken off it.
Penalize(s, k, amount) ==
    /\ Runs(<<s, k>>)
    /\ s # preferred => penalty + amount <= bond[<<s, k>>]
    /\ IF amount <= bank
       THEN /\ running' = <<s, k>> /\ penalty' = penalty + amount
            /\ bank' = bank - amount /\ paid' = paid + amount
            /\ UNCHANGED phase
       ELSE phase' = "panicked" /\ UNCHANGED <<batchVars, bank, paid>>
    /\ UNCHANGED <<trueSlot, visible, block, waits, posters, standingVars, stake, funds,
                   blobVars, registry>>

\* Mutant: nothing is returned of a bond that is used up (saturating_sub).
ReturnSaturating(s, k) ==
    LET net == IF penalty <= bond[<<s, k>>] THEN bond[<<s, k>>] - penalty ELSE 0
    IN  /\ Runs(<<s, k>>) /\ standing[s] # "gone"
        /\ running' = None /\ penalty' = 0
        /\ bond' = [bond EXCEPT ![<<s, k>>] = 0]
        /\ stake' = [stake EXCEPT ![s] = @ + net]
        /\ registry' = registry + net /\ bank' = bank - net
        /\ UNCHANGED <<trueSlot, visible, phase, block, waits, posters, standingVars, funds,
                       escrow, paid>>

\* return_escrowed_funds_to_sequencer, after the last transaction of the blob: the node
\* panics when the penalties exceed the bond or add_to_stake finds no sequencer.
ReturnEscrowedFunds(s, k) ==
    LET net == bond[<<s, k>>] - penalty
    IN  /\ Runs(<<s, k>>)
        /\ IF penalty <= bond[<<s, k>>] /\ standing[s] # "gone"
           THEN /\ running' = None /\ penalty' = 0
                /\ bond' = [bond EXCEPT ![<<s, k>>] = 0]
                /\ stake' = [stake EXCEPT ![s] = @ + net]
                /\ registry' = registry + net /\ bank' = bank - net
                /\ UNCHANGED phase
           ELSE phase' = "panicked" /\ UNCHANGED <<batchVars, bond, stake, registry, bank>>
        /\ UNCHANGED <<trueSlot, visible, block, waits, posters, standingVars, funds, escrow,
                       paid>>

\* By a transaction or by an emergency registration.
Register(s, amount) ==
    /\ phase = "execute" /\ block /\ standing[s] = "gone"
    /\ MinimumBond <= amount /\ amount <= funds[s]
    /\ standing' = [standing EXCEPT ![s] = "active"]
    /\ stake' = [stake EXCEPT ![s] = amount]
    /\ funds' = [funds EXCEPT ![s] = @ - amount]
    /\ registry' = registry + amount
    /\ UNCHANGED <<slotVars, posters, preferred, readyAt, blobVars, bank, paid>>

Deposit(s, amount) ==
    /\ \E t \in Sequencers : Executes(t)
    /\ standing[s] # "gone" /\ amount <= funds[s]
    /\ standing' = [standing EXCEPT ![s] = "active"]
    /\ readyAt' = [readyAt EXCEPT ![s] = 0]
    /\ stake' = [stake EXCEPT ![s] = @ + amount]
    /\ funds' = [funds EXCEPT ![s] = @ - amount]
    /\ registry' = registry + amount
    /\ UNCHANGED <<slotVars, posters, preferred, blobVars, bank, paid>>

\* Mutant: the withdrawal does not wait for deferred blobs.
InitiateWithdrawalAtOnce(s) ==
    /\ \E t \in Sequencers \ {s} : Executes(t)
    /\ standing[s] = "active"
    /\ standing' = [standing EXCEPT ![s] = "pending"]
    /\ readyAt' = [readyAt EXCEPT ![s] = visible + 1]
    /\ UNCHANGED <<slotVars, posters, preferred, stake, funds, blobVars, accountVars>>

\* In a batch of another sequencer.
InitiateWithdrawal(s) ==
    /\ \E t \in Sequencers \ {s} : Executes(t)
    /\ standing[s] = "active"
    /\ standing' = [standing EXCEPT ![s] = "pending"]
    /\ readyAt' = [readyAt EXCEPT ![s] = visible + DEFERRED_SLOTS_COUNT + 1]
    /\ UNCHANGED <<slotVars, posters, preferred, stake, funds, blobVars, accountVars>>

Ready(s) == standing[s] = "pending" /\ readyAt[s] <= visible

\* Mutant: the entry of the sequencer is not deleted.
WithdrawKeeping(s) ==
    /\ \E t \in Sequencers : Executes(t)
    /\ Ready(s)
    /\ funds' = [funds EXCEPT ![s] = @ + stake[s]]
    /\ registry' = registry - stake[s]
    /\ UNCHANGED <<slotVars, posters, standingVars, stake, blobVars, bank, paid>>

Withdraw(s) ==
    /\ \E t \in Sequencers : Executes(t)
    /\ Ready(s)
    /\ standing' = [standing EXCEPT ![s] = "gone"]
    /\ readyAt' = [readyAt EXCEPT ![s] = 0]
    /\ stake' = [stake EXCEPT ![s] = 0]
    /\ funds' = [funds EXCEPT ![s] = @ + stake[s]]
    /\ registry' = registry - stake[s]
    /\ UNCHANGED <<slotVars, posters, preferred, blobVars, bank, paid>>
-----------------------------------------------------------------------------
Select(s) ==
    \/ Ignore(s)
    \/ Malformed(s)
    \/ Unfunded(s)
    \/ \E fits \in BOOLEAN : SelectNow(s, fits) \/ SelectPreferred(s, fits) \/ Defer(s, fits)
    \/ \E k \in Slots, need \in Needs :
          \/ Refund(s, k, need)
          \/ \E fits \in BOOLEAN : Retrieve(s, k, need, fits)

Execute(s) ==
    \/ \E k \in Slots : ReturnEscrowedFunds(s, k) \/ \E n \in 1..Check : Penalize(s, k, n)
    \/ \E amount \in 0..Supply : Register(s, amount) \/ Deposit(s, amount)
    \/ InitiateWithdrawal(s)
    \/ Withdraw(s)

Next ==
    \/ \E senders \in SUBSET Sequencers : BeginSlot(senders)
    \/ BeginExecution
    \/ \E s \in Sequencers : Select(s) \/ Execute(s)

Spec == Init /\ [][Next]_vars
-----------------------------------------------------------------------------
Total == Supply * Cardinality(Sequencers)

SumOf(f) == MapThenSumSet(LAMBDA x : f[x], DOMAIN f)

\* Every variable has its type; no account is overdrawn.
TypeOK ==
    /\ trueSlot \in 0..MaxSlot /\ visible \in 0..MaxSlot
    /\ phase \in {"select", "execute", "panicked"} /\ block \in BOOLEAN /\ waits \in BOOLEAN
    /\ running \in Blobs \cup {None} /\ penalty \in 0..Total
    /\ posters \subseteq Sequencers /\ preferred \in Sequencers \cup {None}
    /\ standing \in [Sequencers -> {"active", "pending", "gone"}]
    /\ readyAt \in [Sequencers -> 0..(MaxSlot + DEFERRED_SLOTS_COUNT + 1)]
    /\ stake \in [Sequencers -> 0..Total] /\ funds \in [Sequencers -> 0..Total]
    /\ escrow \in [Blobs -> 0..Total] /\ bond \in [Blobs -> 0..Total]
    /\ registry \in 0..Total /\ bank \in 0..Total /\ paid \in 0..Total

\* "We force the sequencer to wait to withdraw until all of their pending blobs
\* will have been selected for processing or dropped" (initiate_withdrawal):
\* when a withdrawal is ready, no deferred blob of the sequencer is left.
ReadyIsSelected ==
    phase = "execute" =>
        \A s \in Sequencers : Ready(s) => \A k \in Slots : escrow[<<s, k>>] = 0

\* "Failed to withdraw a sequencer balance. This indicates a bug in
\* accounting!": the module holds the stakes of all sequencers.
RegistrySolvent == SumOf(stake) <= registry

\* "A sequencer can never be penalized more than the amount they have escrowed": the bank
\* holds the bonds of all selected blobs until they are returned, but for the penalties of
\* the batch that runs.  A batch that was paid for with the bond of another one never ends.
BankSolvent == SumOf(bond) <= bank + penalty

\* Gas tokens are neither created nor destroyed by selection and execution.
Conserved == SumOf(funds) + SumOf(escrow) + registry + bank + paid = Total

\* return_escrowed_funds_to_sequencer expects that the sequencer is known.
ReturnFindsSequencer ==
    phase = "execute" => \A b \in Blobs : bond[b] > 0 => standing[b[1]] # "gone"
=============================================================================
