---------------------------- MODULE PreferredRun ----------------------------
(***************************************************************************)
(* Which preferred blobs one slot releases (sov-blob-storage,              *)
(* pick_preferred_blobs_to_process), as a function of                      *)
(*   next    next_sequence_number of the tracker,                          *)
(*   copies  how many copies of each number the slot's DA block holds,     *)
(*   index   the keys of saved_sequencer_numbers,                          *)
(*   batch   the numbers that are batches; the others are proofs.          *)
(* A sequence number names one blob; copies of it are resubmissions.       *)
(***************************************************************************)
EXTENDS Integers

\* The new blobs that survive `retain`.
Fresh(next, copies) == {m \in DOMAIN copies : m >= next /\ copies[m] > 0}

Repeated(next, copies) == {m \in Fresh(next, copies) : copies[m] > 1}

\* The search peeks at the smallest unused new blob and never skips one, so a
\* second copy of d hides every new number above d.
FromNew(m, next, copies) ==
    /\ m \in Fresh(next, copies)
    /\ \A d \in Repeated(next, copies) : m <= d

\* Likewise a saved number that is stale, or that a new copy stood in for,
\* hides every saved number above it.
FromIndex(m, next, copies, index) ==
    /\ m \in index
    /\ \A s \in index : s < m => s >= next /\ ~FromNew(s, next, copies)

Reached(m, next, copies, index) ==
    FromNew(m, next, copies) \/ FromIndex(m, next, copies, index)

\* The shortest run of consecutive numbers that starts at next and ends with
\* a batch is next..m.
EndsRun(m, next, copies, index, batch) ==
    /\ m \in batch /\ next <= m
    /\ \A k \in next..m :
          Reached(k, next, copies, index) /\ (k \in batch => k = m)

HasRun(next, copies, index, batch) ==
    \E m \in batch : EndsRun(m, next, copies, index, batch)

NextNumber(next, copies, index, batch) ==
    IF HasRun(next, copies, index, batch)
    THEN 1 + CHOOSE m \in batch : EndsRun(m, next, copies, index, batch)
    ELSE next

\* The new blobs that go into storage.
Leftover(next, copies, index, batch) ==
    {m \in Fresh(next, copies) :
        \/ m >= NextNumber(next, copies, index, batch)
        \/ m \in Repeated(next, copies)
        \/ ~FromNew(m, next, copies)}

IndexAfter(next, copies, index, batch) ==
    {m \in index : m >= NextNumber(next, copies, index, batch)}
        \cup Leftover(next, copies, index, batch)

\* The stored blobs the run takes out of storage.
Consumed(next, copies, index, batch) ==
    {m \in next..(NextNumber(next, copies, index, batch) - 1) :
        ~FromNew(m, next, copies)}

StoreAfter(next, copies, index, batch, store) ==
    (store \cup Leftover(next, copies, index, batch))
        \ Consumed(next, copies, index, batch)
=============================================================================
