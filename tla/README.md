# Pigeonpost in TLA+

A verification development for Pigeonpost: the message path, that is the loft (the
relay that stores sealed messages) and the client that sends through lofts and
drains them; the keys of a client and their rotation; the directory that lists
lofts; and the registry log whose checkpoints witnesses cosign. The modules are
written from the Rust sources under `src/crates`; `PROJECT.json` maps each
definition to its lines. TLC checks the modules on small instances, TLAPS proves
the safety results named below for every value of the constants.

## The system

| Component | State | Operations | Talks to |
| --- | --- | --- | --- |
| loft store (`pigeonpost-loft/src/store.rs`) | SQLite: events with AUTOINCREMENT cursors, recipient policies, agent records, rotation records, `storage_stats`, the `trace_admission` row; in memory a batch of reserved trace slots | admit, fetch, put_policy, put_agent_record, put_rotation_record, sweep_expired, charge_trace_admission | called by the loft server; shared by processes that open the same file |
| loft server (`server.rs`, `retention.rs`, `lib.rs`) | requests in flight, blocking permits, the clock, the retention task | publish, fetch, set_policy, put_agent, put_rotation, sweep_once | clients over HTTP, the store through blocking closures |
| loft limits (`limiter.rs`, `server.rs`) | minute buckets for everyone, per source and per recipient in bounded maps, request slots, trace lanes | try_enter, charge, make_room, run_trace_blocking | loft server |
| client outbox (`pigeonpost-client/src/agent.rs`, `state.rs`) | outbox rows, retry times, quota counters | send, flush, mark_sent / failed / terminal, prune, delete | lofts; other processes on the same database |
| client inbox (same files, `spam.rs`) | cursors, messages and tombstones, scores, allowlist, quota counters | drain, store_message, allow, block, mark_spam, delete | lofts; the registry cache; other processes |
| client keys (`keystore.rs`) | operating, successor and staged key files, rotation journal, directory of retired keys, a lock file | load_or_create, rotate, recover, retired_identities | other processes on the same home |
| client rotation (`agent.rs`, `state.rs`) | record number, planned record and own rotations with the targets that took them | rotate_expected, publish_record, maintain_placement, drain | key files; lofts (records and rotations) |
| client trust (`trust.rs`, `state.rs`) | pinned checkpoint, witness roster, compliance keys | refresh, resolve | registry, witnesses |
| registry (`pigeonpost-registry`: `registry.rs`, `storage.rs`, `witness.rs`) | Merkle log of claims and mutations, committed head, a receipt for each witness, published head | claim, append, sync_once, save_witness_receipt, promote_witnessed_head | clients, witnesses |
| witness (`pigeonpost-witness/src/main.rs`) | the last checkpoint it accepted, in memory and in a file | add_checkpoint, monitoring | registry |
| directory (`pigeonpost-directory`) | rows of lofts, rival claims, mutation reservations, the accepted registry checkpoint | submit, drain, reconcile_reservations, record_probe, expire | submitters (command line), registry, lofts, clients |
| compliance trace store (`pigeonpost-compliance*`) | sealed segments, writer lease, approval ledger | capture, seal, approve | loft server |
| postbox, nests, group encryption, CLI, MCP server, apps | the hosted service and the front ends | many | the client library |

What is hard in it:

- **Several processes, one database.** Loft processes share the trace budget;
  a CLI and an MCP host share a client's tables. Rows of the outbox are not
  claimed by the process that works on them.
- **State read before an await and used after it.** A publish validates a
  policy in one closure and admits in another; a flush settles rows it read
  before its requests went out; a drain decides on a message and then stores it.
- **Deadlines that do not stop work.** A blocking closure survives its request.
- **Crashes between transactions.** A reservation and the lease made from it, a
  stored message and the cursor behind it, a delivered copy and its row.
- **Lost, repeated and late answers.** Every message is posted to several lofts
  and each copy may be posted again, fetched again, or arrive after the message
  was erased.
- **Two parties that must agree about a size.** The registry's receipt and the
  state of the witness move apart whenever an answer is lost or either side
  dies; the conflict protocol brings them together again.
- **One change, several files or services.** A key rotation is a dozen file
  operations and then a database and several lofts; an enrolment is a durable
  reservation, a leaf in the registry's log, a quorum of witnesses and a local
  transaction. Each may be the last one before a crash, and another process or
  a recovery task goes on from there.
- **Evidence that changes.** The verdict on an attribution block depends on a
  registry cache that may be stale, lag behind, or be refreshed in between.
- **Counters and limits kept incrementally**: capacity, its control share,
  rotation reservations, inbox and outbox quotas, the trace budget, rate-limit
  maps, the pending queue of the directory.

What makes each modelled component correct:

- *trace admission*: a slot of a minute is granted at most once across
  processes, restarts and limit changes; a restored database is noticed.
- *loft store*: counters equal rows; the capacity holds; an identity can always
  publish its rotation; a rotated address is frozen; cursors are never reused.
- *loft server*: a wrap is stored only under the policy in force; polling never
  skips an event; the retry loop, the sweep and polling make progress.
- *inbox*: the cursor never passes mail that was not dealt with; each message
  counts once; erased mail stays erased; no event pins its loft for good.
- *outbox*: no copy is lost or settled by another copy's answer; a loft that
  never answers does not starve the others.
- *witness*: it never forgets what it cosigned, so no two quorums certify forks.
- *registry publication*: only what a quorum cosigned is published, and every
  committed entry is published in the end.
- *loft limits*: a source cannot exceed its budget by making the map forget it, a
  key that stops sending gives its place in a full map up, and captures stay within
  their lanes.
- *key custody*: one successor for each key; every key that a journal, the signed
  chain or a grace period needs is on the disk after any crash.
- *rotation*: no record number is used twice; what the client calls placed is
  placed, the source record first.
- *directory*: a reservation can always be applied, and published if it was made
  with the command line; the tables follow the log whatever clients submit; only the key that answers at an endpoint becomes proven there,
  and stays so.

## Modules

    TraceAdmission                               TraceAdmissionProofs
    Lofts  <-- implemented by -- LoftStore       LoftStoreProofs
      |                              |
      +-- Inbox (InboxProofs)        +-- LoftServer    LoftServerProofs
      +-- Outbox (OutboxProofs)          LoftLimits      (both)

    Witness  <-- extended by -- Witnessing       WitnessingProofs
    KeyStore <-- extended by -- KeyRotation      KeyRotationProofs
    Directory (with the registry streams         DirectoryProofs
      it publishes to)

`MC*.tla` and `*.cfg` instantiate them for TLC. Three of the MC modules are sums:
`MCLoftStore` (LoftStore or TraceAdmission), `MCLoftServer` (LoftServer or
LoftLimits) and `MCNetwork` (Inbox or Directory). A variable `part`,
chosen initially, says which component the behaviour is about; the others stand
still in one initial state. The parts of a sum share no variable, so its reachable
states are those of each part by itself, and its properties hold of the sum
exactly when each holds of its own part.

**TraceAdmission** is `charge_trace_admission`. `row` is the singleton of the
`trace_admission` table; `highest`, `highWater` and `lease` are the fields of
`TraceAdmissionBatch` of each process. The call is three steps, because other
processes commit between them: `Charge` is everything up to the transaction
(one disjunct for each way it ends), `Commit`, `Refuse` and `CommitFails` are
the transaction, `Publish` the code after it. A process holds its mutexes for
the whole call, so it runs one call at a time. `Restart` loses the memory of a
process anywhere; `Rollback` puts the database back to an older row, the
failure the code's comments name. `granted` and `mine` are history variables: a
slot is a minute and a number, so "granted twice" can be said at all.

**LoftStore** has one action for each write operation of the `LoftStore` trait;
each is one IMMEDIATE transaction, so it is one step, and an operation that
fails rolls back and is a stutter. Sizes are small numbers, so that capacity,
control share and reservation are met exactly. Signatures are abstracted to the
input sets: any policy, record or rotation in them may be submitted at any time,
right or wrong. What a publish presents (proof of work, token, attribution) is
one strength, `Work`. `Reopen` is a start under another capacity that
`validate_startup` accepts.

**LoftServer** extends it with the handlers. A publish is `BeginPublish`,
`ValidatePolicy`, `StartAdmit`, `RunAdmit`; `AfterAdmit` is its retry loop,
`Fail` and `Cancel` the deadline outside and inside the admission closure. Short
closures take and return their permit in one step and only need one to be free;
the admission closure keeps it across steps, because a cancelled request leaves
it running. `Fetch` computes a page, `Deliver` and `Lose` are the fate of the
response. The sweep is a task that keeps the time it started with. The reader
(`Deliver`) is external: an agent that polls with its last cursor.

**LoftLimits** is what surrounds a handler: `Enter` takes the request slot,
`ChargeGlobal`, `ChargeSource` and `ChargeOwner` the three budgets on the way in
and again for the bytes of a response, `BeginTrace` to `TraceTimeout` the trace
lane, `BodyEnds` gives the slot back when the response is written. A charge reads
the clock before it takes the lock of its map, so it may come with a time up to
`MaxStall` behind the clock. `MakeRoom` and `NoteInsert` are the sweep of a full
map and the time of the next one. A handler may end with an error before each of
these (`HandlerFails`), and what was charged is not given back. A capture that timed
out goes on as an orphan with its lane. `admitted` is a history variable.

**Lofts** is what a loft promises its clients: a mailbox that holds a message at
most once, numbers it with the next cursor, and may remove it later. `LoftStore`
implements it (`ImplementsLofts`), and the client modules are built on it
instead of on the store.

**Inbox** is the drain of one identity. `work[l]` is the `DrainWork` of a loft
with the page that arrived; pages of all lofts are in flight together, one page
is processed at a time. `Decide` is one event of `process_fetched_events` up to
the storing transaction, `StoreMessage` that transaction, `AdjustScore` the
separate transaction after it, `PageDone` the cursor update. Between any two of
them the process may end (`CrashDrain`) and the operator may act from another
process. `evidence` is what the registry cache says of the block's key. A score
is kept as "at or below the drop threshold" or not. One sender is modelled,
since scores and the allowlist are per sender and interact only through it.

**Outbox** queues a message with one row for each loft (`Send`) and flushes.
`next_attempt_at` is abstracted to an order and to how many rows are due.
`flight[p]` is the snapshot a flush works on; `Post` is a request (stored or
not, answered well, badly or not at all), `MarkSent`, `MarkFailed` and
`MarkTerminal` the transaction that records its outcome, against whatever the
table holds by then. Row ids come from AUTOINCREMENT.

**Witness** is `add_checkpoint` under its mutex. A checkpoint is the sequence of
entries it commits to: a Merkle root determines its leaves, so "has a consistency
proof" is "is a prefix of". `Persist` is the check and `save_state`, `Respond`
the rest of the handler; between the two the witness may die
(`RestartWitness`) or its machine lose power (`PowerLoss`, for the witnesses in
`Forgetful` only). `cosigned` is a history variable.

**Witnessing** adds the registry. `log` is the committed history, `receipt` and
`published` the two tables written by the supervisor. A sync captures the head
(`StartSync`) and runs a task for each witness: `Submit`, then what the answer
asks for, `Resubmit` when the witness reports the head's own size, `Monitor` when
it reports a smaller one, and again a submission from what was found there.
Receipts from before the sync stay the same until all tasks have ended, so tasks
read them directly. `SaveReceipt` is a transaction for each receipt, `Promote`
the last one. A timeout leaves the submission on its way (`live` becomes FALSE):
it may be served at any later time. An error that makes `run` return ends the
process, which loses nothing but the memory of a finished sync, so it is the
same as `Promote` and a new `StartSync`. `Restore` is an operator who puts back
the first backup: entries appended after it fork the log. `CosignedNotes` says whether the monitoring endpoint adds the
cosignature of the witness, as C2SP witnesses do; the one of this repository does
not.

**KeyStore** is the home of a client, one step for each file operation, so that a
process can die (`Die`) or be refused a file operation (`FileError`) between any
two. Keys are numbered in the order they are generated. `lease` is the lock file:
who holds it, for what, and at which step. `Open` and `Acquire` take it, `Recover`
completes a journal that is found, the `Scan` steps read and clean the directory
of retired keys, `StageSuccessor` and `WriteJournal` prepare a rotation, `Retain`
to `Unjournal` complete it. `signed` keeps every rotation that was ever in the
journal. A rotation that finds a journal completes it first (`AfterScan`).

**KeyRotation** adds the client database, the lofts and what processes do. A task
(a drain, the maintenance of placements, a publication after a change of terms, a
rotation) is the sequence of phases of its function; each phase is one or more
transactions, file steps or requests, and other processes run between them.
`plan` is the planned record with the targets that took it, `own` the rotations
that are being placed. Attempts at the lofts of a phase run together, in any
order, each with an answer, a lost answer or none until the deadline. A loft is
reduced to `put_agent_record` and `put_rotation_record`, whose full form is in
LoftStore; the addresses, successors and sequences are the same. A task whose
phases are done is gone (`Become`), and a rotation of a source that has rotated
already is refused (`ChooseRefused`). Two merges remain: `AgentOpened` takes the
release of the lock and the database writes that follow it without the lock
(`agent.rs:290-302`) as one step, and `SaveSource` draws the number of the source
record and saves it as the plan in one step, although the code refreshes the
directory between the two (`agent.rs:801-814`). Other processes act before and after
these steps in the model, not within them.

**Directory** is one directory, its clients and the part of the registry it depends
on. Admission is open: `Submit` is any client, which signs what it likes under any
number, 0 included. The claimants in `Careful` use the command line instead:
`Command` is its submit or drain, which repeats the mutation in its state file until
it was accepted and only then signs the next number. (The command line signs only
for a loft that answers with its own key, so a rival is never careful in the runs;
the proofs do not need that.) `worker` is the
holder of the mutation permit: it reconciles reservations that are left over
(`Reconciling`, `Recover`), reserves (`WorkerReserves`), has the leaf appended
(`PostLeaf`), waits for the witnessed receipt (`Receipt`, `RegistryRefuses`) and
finalises. `Cancel` drops a request and leaves a closure that runs later
(`LooseRuns`). Reservations are taken up by age; those of one second in any order,
since their id is a digest, and no more than `MaxRecovery` in one pass (`Pending`).
There is one permit, the default of `max_concurrent_mutations`, which can be
configured up to 64; closures that outlive their request are how two mutations
overlap in the model. `leaves` and `witnessed` are the log and the cosigned head
(`Cosign` stands for module Witnessing). The prober leases due entries
(`StartSweep`) and records results much later (`RecordProbe`), for whatever the
tables hold then. Conditions on a row (`Updates`, `Reenrols`, `NewRival`, ...) are
the branches of `apply_submission` and `apply_drain`. `Owner` is the key that
really answers at an endpoint; a rival may claim it.

## Runs

| Run | Shows | Bounds |
| --- | --- | --- |
| `loft_store` | store: `CountersMatchRows`, `WithinCapacity`, `RotationExtendsRecord`, `NeverStranded`, `AddressHistoryKept`, refinement of `Lofts`; trace budget: `NoSlotGrantedTwice`, `OwnSlotsDistinct` | two addresses, three wraps, two policies, three records, three rotations (one to the wrong successor, one that skips), capacities 14 and 18: both the whole and the control share are reached. Two processes, two minutes, limits 1 and 2, batches of 2, one rollback: a batch cut short, a slot left over, a limit lowered under a lease |
| `loft_server` | handlers: `AdmittedUnderCurrentPolicy`, `NoEventSkipped`, `PermitsMatchClosures`; limits: `SourceBudget`, `RoomComesBack`, `CapturesBounded` | two publishes, one permit, two retries, one restart, page size 1. Two requests at a time of two sources, maps of one key, one trace lane, windows of 4, waits of 1 and a clock to 5, so that a budget ends, is swept and starts again while a late charge is on its way |
| `loft_liveness` | `PublishAnswered`, `ExpiredIsSwept`, `StoredIsDelivered` | two scenes. "publishing": two requests, one permit, two policy changes and two tries, so that a publish goes round its retry loop and also runs out of tries; nobody reads, and what is stored expires. "polling": one request at a time, a polling reader, page size 1, batch size 1, one restart, records and rotations |
| `network` | inbox: `NoMailSkipped`, `CountedOnce`, `ErasedStaysErased`; directory: `ReservedCanBeApplied`, `TablesFollowLog`, `ProvenIsOwner`, `ProvenStays`, `ReservationsRecoverable` | inbox: two lofts, of which one forgets, one message in both and one behind it, quota 1, one tombstone, page size 1. Directory: two scenes. In "rivals" the owner enrols its endpoint with the command line and changes or drains its entry, and a rival claims it under the numbers 0 and 1, again and again, until the owner is told that it is enrolled; the rival may be enrolled with another directory too. In "crowded" the rival is enrolled, one place is left in the pending queue, and two lofts of the owner want it. One reservation for each recovery pass, one closure that outlives its request, a clock to 1 at which pending entries expire |
| `directory_shared` | **violated**: `ReservationsRecoverable` | the same, but the owner is the one who is enrolled with another directory too, where it changes its entry |
| `inbox_liveness` | `MailNotPinned`, `DeliveredInTheEnd` with required attribution and changing evidence | two lofts, two messages, one of them unopenable, the operator may allow the sender |
| `inbox_optional` | **violated**: `DeliveredInTheEnd` with optional attribution | the same, evidence stale or known |
| `outbox` | `SentMeansStored`, `OutboxAccounting`, `CopiesAccountedFor`, `CopiesSettled` | two flushers, two messages, quota of two rows, two row ids, one row a flush, one loft that never answers well |
| `witness` | `HonestRemember`, `NoSplitView`, `PublishedIsWitnessed`, `CommittedIsPublished` | two witnesses that serve cosigned notes, quorum 2, one of which may lose power, one entry before witnessing and one after out of two; two faults, so that a crash and a restored backup can fork the log |
| `witness_own_notes` | **violated**: `CommittedIsPublished` with the repository's witness | one witness, one entry before witnessing and two after, one fault |
| `key_rotation` | `OneSuccessor`, `NoKeyLost`, `TornOnlyByRemoval`, `NumbersAreUnique`, `PlacedAsRecorded` | two processes, one loft, four keys (two rotations), one retired identity at a time, a grace period of 1 and a clock to 2, so that it ends in between; one fault; `MaxEffort` bounds keys and record numbers together |
| `key_reopens` | **violated**: `Reopens` | the same with three keys |

Page, batch and retry sizes of 1 or 2 are the smallest at which there is a next
page, a rest of a batch and a last retry; two processes, lofts or copies are the
smallest number that can disagree. Counters are bounded by `MaxCursor`,
`MaxRow`, `MaxTaken`, `MaxTime`, `MaxClock`, `MaxStall`, `MaxWindow`, `MaxLog`,
`MaxKey`, `MaxEffort`, `MaxSequence` and `MaxFaults`; at `MaxCursor` the store answers as SQLite
does when its sequence is used up. Runs of the client modules and of the
directory switch deadlock checking off: when all messages are sent and read, all
keys used up or all mutations applied, there is nothing left to do. Each module's
type invariant (`StoreTypeOK`, `InboxTypeOK`, `KeyTypeOK`, ...) holds in these
runs as well; it is stated for the proofs and not part of a configuration.
Each property has a mutant in `PROJECT.json`, a plausible bug in the code that
TLC must find with the same configuration.

### What the violations show

*Inbox.* `store_message_with_attribution` treats a message whose stored attribution
verdict differs as a conflict, an error that ends the whole drain with the
cursor where it was. Under an optional policy the verdict on one ciphertext is
Invalid while the witnessed cache is stale and Valid after a refresh. A copy read
again after the refresh (the other loft's copy, or the same one after a crash
between the store and `set_cursor`) therefore fails in every drain, and mail
behind it is not delivered until that copy expires at its loft. `docs/sds.md`
and the comments of `optional_attribution_key` and `process_fetched_events` say
that such a block does not pin ordinary traffic. With a required policy
(`inbox_liveness`) the same property holds.

*Recovery from the witness's own notes.* The registry loses a receipt (its
process dies, or the request times out after the witness has saved), an entry is
appended, and the witness now reports a size below the head. `recover_conflict`
asks the monitoring endpoint, which serves the operator's note without a
cosignature; `receipt_from_note` refuses it with an error that is not retried.
Every later sync ends the same way, so nothing is published any more, while the
comment on `WitnessSupervisor` promises recovery from a crash at any point.

Two related limits show in the bounds instead of in a run of their own. With an
endpoint that adds the cosignature the protocol recovers (`witness`),
unless the last receipt is for the empty tree: `recover_conflict` then wants a
consistency proof from size 0, and `consistency_proof` has none (`checked_proof`
makes that exception, `recover_conflict` does not); so the run starts from a log
with an entry. And `save_state` renames without a sync, so after a power loss a
witness may hold less than it has cosigned; `HonestRemember` is about the others,
and `NoSplitView` holds when fewer than `2 * threshold - |roster|` witnesses do
this, the bound `docs/sds.md` gives for equivocators.

*Reopening a home.* A retired identity is two files, and when its grace period is
over the scan unlinks the key and then the metadata; a new retired key is written
through a temporary file in the same directory. The scan, which every open of the
home and every completion of a rotation run, accepts exact pairs only (and the one
key whose journal is pending). A process that ends between the two unlinks, or
before the temporary file is renamed, therefore leaves a home that refuses to open
until someone repairs the directory by hand, while `docs/keys.md` promises that a
crash leaves the rotation resumable by running the command again.
`TornOnlyByRemoval` says that there is no third way into such a state.

*One loft, two directories.* The command line numbers the mutations of a loft for
each directory; the registry numbers them for each endpoint and key, whichever
directory sends them. While a loft says the same to both directories, the second
append is an exact repetition and accepted.
Once it has changed its entry at one, the mutation it signs for the other is a
replay to the registry. The other directory has reserved it by then; its
reconciliation fails at every readiness check and every later submission, and
`docs/sds.md` and `deploy/README.md` say that such reservations are recovered when
the registry is reachable.

A client other than the command line can get there with one directory. Admission is
open, and a pending claim that expires is deleted with its number
(`directory.rs:2451-2465`); the same key may then reserve number 1 again with other
content, or number 0 (`directory.rs:1777-1802`), which the registry refuses for good
because its stream is further (`storage.rs:1352-1368`). The pass that meets this
reservation ends with the error (`server.rs:679-684`), so mutations of others wait
behind it. `ReservationsRecoverable` is therefore about reservations made with the
command line, and the rivals of the run are free to do this to their own streams;
TLC violates the same formula for all claimants.

Four smaller limits of the rotation code show in the models without a run.
`rotate_current` places the source record, then asks whether any target of the
planned record has completed, and promotes the keys. A process that is finishing an
older rotation holds no lock and may put the target record of that rotation in the
plan in between, so the answer can be about the wrong record and the keys can be
promoted although no loft has the source record. It takes three rotations, one
unfinished in each of two processes (TLC finds it after 98 steps with `MaxKey = 5`,
`MaxEffort = 7`, `MaxLive = 3`, one setting of the terms and no faults);
`SourcePlacedFirst` therefore has an exception for it, which is a little wider than
the case: it asks for the target record of some other signed rotation at some loft,
not that it was planned just then. A
loft that already holds a newer record of the target refuses the bundle of a
rotation for good. After a rotation, changing a setting and changing it back
selects the record made for the rotation, whose number is lower than the planned
one, and `save_record_publication` refuses it. And `open_with_options` fails when
`own_rotations` is full of rows whose grace period is over, because it saves before
anything prunes.

### Fairness

- *Loft* (`ServiceFairness` and `PollingFairness`): weak fairness for the steps of a handler (the async
  runtime polls every task, and a handler always has a step: it succeeds or
  fails), for the sweep (its ticker fires again and again) and the clock. Strong
  fairness for `Fetch` and `Deliver`: the agent polls again and again, permits
  become free again and again, and not every response is lost; in the scene
  "publishing" nobody polls. None for publishing, policy changes or crashes.
- *Inbox* (`InboxFairness`): the agent wakes up again and again and every
  wake-up has a deadline (weak); a loft that is asked for ever answers in the
  end, and no step of a drain is cut short every time it is reached (strong).
  None for the operator, the senders or changes of evidence. The next-state
  relation of `FairInboxSpec` leaves out what the operator does against the mail
  (`OperatorMoves`: deleting, marking as spam, blocking), since such mail need
  not be delivered; allowing the sender stays in, and `network` has all of it.
- *Outbox* (`OutboxFairness`): flushes and deadlines happen (weak); each row's
  `next_attempt_at` passes, and a loft that is not down settles a message that
  is posted to it for ever (strong). Nothing is assumed about a loft in `Down`
  except that requests to it end.
- *Witnessing* (`Fairness`): all weak. The supervisor's loop starts a sync again
  and again, its tasks take their steps, a dead process is started again, a
  witness serves the requests that reach it, and a task whose request is gone
  reaches its timeout. `CommittedIsPublished` has the hypothesis `Sound`: no
  backup was put under what a witness holds, and a quorum remembers what it
  cosigned; a registry cannot publish a history its witnesses must refuse. None for appends or faults, of which there are at most
  `MaxFaults`: a registry that loses every answer publishes nothing.

## Proofs

**TraceAdmissionProofs** proves, for any set of processes and any limits, batch
size, number of minutes and of rollbacks: `TypeCorrect`, `SlotsGrantedOnce`,
`OwnSlotsOnce`, `RowMonotone` and `WithinLimit`. `NoSlotGrantedTwice` is not
inductive: nothing in it says which slots may still be granted. The inductive
invariant `IInv` adds three parts. `Shape`: a lease or a committed batch lies
within the limit it was reserved under. `Disjoint`: while the database was not
put back, everything granted or held (reserved and not yet granted) is at or
below the durable row, nothing held is granted, and no slot has two holders.
`Own`, which survives rollbacks: everything an incarnation was granted or keeps
in its lease is covered by the high water mark it remembers.
The only assumptions are those of
`ConstantsAssumption`.

**LoftStoreProofs** proves from `StoreAssumption`: `StoreTypeCorrect`,
`CapacityHolds`, `RotationsVerify`, `RotatedStaysFrozen`,
`PinsAndSequencesHold`, their conjunction `HistoryKept`, `CursorsAlwaysFresh`,
`CountersAreSums`, `NobodyIsStranded` and the refinement
`StoreImplementsLofts`. Its inductive invariant `SInv` joins the types, the
capacity inequalities, that a rotation extends its record, and that every
stored cursor is at most `lastCursor`: without the last part a fresh cursor
could meet a stored one, and without the types the unsigned counters could wrap
in the capacity tests. The
refinement has one step for each action: `Admit` is `TakeIn` with the next
cursor, `SweepExpired` is `Expire`, everything else is a stutter.

The counters are sums over tables, and `MapThenSumSet` is a fold in an order that
`CHOOSE` picks. The library's induction theorems take an operator the provers
cannot instantiate, so the lemmas argue by cardinality instead: among the subsets of
a finite set that have a table of partial sums (`Sums`) there is a largest one, and
it can be extended unless it is the whole set (`SumsExist`). From
the table follow that the fold has one value (`SumsUnique`, `SumIs`) and what an
element more, less or changed does to it. `CountersInv` says of each counter which
sum it is, and that a record carries its reservation until it rotates; each write
is then one changed element. `StoreAssumption` says that `Agent` is finite: the
table of a loft is. `NeverStranded` follows from the counters and the capacity.

**WitnessingProofs** proves, for every finite roster and every threshold, set of
forgetful witnesses, log and number of faults within `RosterAssumption`,
`QuorumAssumption` and `WitnessingAssumption`: `PromiseKept` and `OneView`.
`HonestRemember` is not inductive, because a crash replaces the memory by the
file. `HonestInv` adds, for each honest witness, that memory and file agree
except while a submission is being served, that the file then holds exactly that
submission, which extends the memory, and that at most one checkpoint is stored;
with it go the types of everything that holds a history. A quorum counting lemma
(`QuorumsShareHonest`) gives two certified histories an honest witness in common,
whose one memory extends both, and two prefixes of one history are ordered
(`PrefixLinear`).

`PublishedIsWitnessed` (theorem `OnlyWitnessedPublished`) needs the state of every
task as well. `PublishInv` says that what a task holds as an answer, a receipt or a
monitored checkpoint was cosigned by its witness and is a prefix of the head it was
captured for, also for a submission that is served after its task has timed out.

**KeyRotationProofs** is about the files of a home under everything KeyRotation
does with them, for any number of processes, keys, rotations, deaths and file
errors: `FilesInvariant`, `AtMostOneSuccessor`, `KeysAreKept` and
`OnlyRemovalTears`. The invariant `KInv` has four parts. `KeysInv`: keys on the
disk were made in order, and the chain of signed transitions ends at the operating
key or at the journal. `LeaseInv`: for each step of the lease, which files exist
and what they hold, which is what the next process finds when the holder dies
there. `DirectoryInv`: which pairs of the retired directory may be incomplete, and
why. `GraceKeyKept`: an address within its grace period has its key. The proof is
one step for each file operation. It found that the original order of the cases
after a scan was ambiguous when a journal was present; the code looks at the
journal first, and now so does `AfterScan`.

`RecordsInvariant`, `NumbersStayUnique` and `PlacementIsAsRecorded` are about the
database, the lofts and the tasks as well. `RInv` adds to `KInv`: a key that was in
use never comes back (`Behind`, `ChainInv`), and records and open processes know
only such keys; the number in the database is behind a signed rotation by at most
one, and only until a process opens the new key, which raises it (`NumbersInv`);
every record anywhere, also in a plan, a request or a rotation that will be sent,
has a drawn number of its own (`RecordsInv`); a task has the phases its function
has, with a source record exactly between placing it and signing (`JobOK`,
`SourceInv`); and a rotation in the lease is signed after a loft took what was
planned (`AcceptedInv`). Lofts only move forward, so what was placed stays placed.
TLC checked `RInv` first (522,664 states).

**InboxProofs** proves `InboxInvariant`, `InboxTypeCorrect`, `MailIsNeverSkipped`,
`NewOnceCreditedOnce` and `ErasedForGood`. `NoMailSkipped` is not inductive,
because `PageDone` moves the cursor over a whole page at once. `IInv` adds that
every event of a page before the position of the drain has been dealt with, that a
page is a contiguous piece of the mailbox after the cursor it was asked with, and
that the cursor has not moved since; for the counts, that a message waiting for its
score adjustment was stored by this drain and has no credit yet.

**OutboxProofs** proves `OutboxInvariant`, `SentIsStored`, `CountersExact` and
`NoCopyLost`. Rows are not claimed, so what a flush holds may be about a row that
was settled, pruned or deleted meanwhile. `OInv` says that row ids are never used
again (`RowsInv`) and that a snapshot in flight which has an answer was really
answered by that loft for that message (`FlightInv`); then a late `MarkSent` meets
its own row or none. The counters are proved with lemmas about the cardinality of a
set with one element more or less.

**LoftServerProofs** covers both server modules. `ServerRunsStore` proves
`Spec => StoreSpec`: each handler step is a transaction of LoftStore or leaves it
alone, so every theorem of LoftStoreProofs, the refinement of `Lofts` included,
holds of the loft with its handlers. `VInv` joins the invariant of the store with
the state of handlers, permits and readers. `AdmittedByCurrentPolicy` is the
argument about the race: the admission closure carries the policy it validated,
sequences of policies only grow (from the store's theorems), and the transaction
compares the two, so a policy put in between makes it go round again.
`NothingSkipped` needs that a page in flight ends where it says it does and that
cursors are fresh; `PermitsExact` that closures of dropped requests are counted.
For LoftLimits `LInv` ties lanes to captures and orphans (`CapturesStayBounded`) and
says that the next sweep of a map is planned before any key in it is two windows old
(`ScanInTime`): a sweep plans the next one a window later and keeps only keys of the
last window, an insertion brings the sweep forward, and a renewal moves a start
later. So a newcomer that is refused for want of room has either swept the map, or
comes before a sweep that no key is two windows older than (`RoomAlwaysComesBack`).
The map fails closed: keys that go on sending keep newcomers out.

`SourcesKeepToBudget` bounds a sum over the ages of what was granted. `GrantsInv`
says of each source either that it has no bucket and was granted at most one budget
in the last `Span - MaxStall`, or that what was granted since its bucket started,
but for one wait, is counted in the bucket, and that this with what was granted in
the window before, but for two waits, is at most one budget more than the bucket
counts. The proof showed that the bound cannot be claimed for a whole window:
a charge with a clock reading from before the lock can fall into a window others
have seen end, and can start the next one before the time at which a sweep dropped
the last. So the interval is `Span - 2 * MaxStall`; TLC violates the longer one when
waits are long. That a source which was dropped to make room is charged again within
an interval is covered by the theorem only: with windows of 4 and a clock to 5 the
run does not get there.

**DirectoryProofs** proves `DirectoryInvariant`, `ReservedAlwaysApplies`,
`OnlyOwnersProven`, `ProvenForGood`, `FollowInvariant`, `TablesAlwaysFollow`,
`UnsharedStaysRecoverable` and `ReservedStaysRecoverable`, for any claimants,
contents and limits, and whatever clients submit.
`ReservedCanBeApplied` is not inductive: a reservation must find room in the
bounded queue when it is consumed. The invariant `TablesOK` says of the three
tables that a reservation whose mutation will need a place in the queue
(`NeedsPlace`) holds a slot, and that rows, claims and slots together never exceed
`MaxPending`. It is kept for two reasons, each a lemma. What a reservation is for
depends only on the tables at its own endpoint (`Framed`), and expiry, leases and
probe results touch only endpoints without one (`ExpireOK`, `LeaseOK`,
`RowMoveOK`). And the load grows only where there was room (`AppliedLoad`): a slot
is freed when its mutation takes the place, and a claim that wins pays for its row
with its own place (`ClaimMoveOK`). Cancelled closures, crashes and other
directories need no argument, because they act through the same transactions.

`TablesFollowLog` needs all of them, and it holds for any clients: what is applied
was in the log. `FInv` has six parts. `SignaturesOK`: of what the command line has
signed for this directory and is kept anywhere, one mutation has each number, none
is more than one ahead of the committed number, and that one is the pending one.
`LogAscends`: numbers grow along each stream of the log, and other directories write
only the streams in `Elsewhere`. `PublishingOK`: what is queued is reserved or
logged, and what is being applied is in the log below the size of its receipt.
`FollowOK`: what the tables show is in the log under the pinned head, nothing of this
directory is later in the log than what the tables show or have reserved, and a
reservation of the command line is the last of its stream. `TimesOK` is for closures
of the command line that reserve after their request was dropped: its operator may
have moved on, and the late closure must not enrol the stream again from its first
number. It finds the stream anchored: the key has the row, or a claim that is still
fresh, or the endpoint is proven for another. `ClosuresOK` is for closures that apply
late, of any client: when a later leaf of its stream is out, the late mutation finds
the later one reserved, or its stream anchored and itself no longer reserved
(`LateFinalize`), and a reservation that took the place of one still held was made in
this very second (`SupersededNow`). Both rest on closures
ending before a claim made in their lifetime expires (a tick, which stands for days,
waits for them) and on `PendingExpire` being positive (it is seven days); with 0 they
fail. The rest is one lemma for each action (`...Follows`); expiry, leases and probes
only let the tables show less (`Fading`). TLC checked `FInv` first.

From it, a reservation of the command line in a stream that only this directory
writes is accepted by the registry (`UnsharedStaysRecoverable`): if the log has
nothing of the stream the tables show nothing either, so the mutation is an enrolment
with the first number; otherwise the last leaf is this directory's, not later than
the reservation, and if it has the same number it is the same mutation. Nothing is
assumed of the other claimants. In a stream that another directory writes too it is
false (`directory_shared`).

Assumptions on constants are those the modules state and TLC evaluates
(`StoreAssumption`, `OutboxAssumption`, `DirectoryAssumption`, ...); no proof adds
one, but `ReservedStaysRecoverable` has the hypothesis
`Careful \cap Elsewhere = {}`: those who use the command line use no other
directory. The runs check the same definitions on small instances.

Every invariant of the passing runs is proved, and so are all action properties and
the refinement. Only model-checked:

- liveness (`PublishAnswered`, `ExpiredIsSwept`, `StoredIsDelivered`,
  `MailNotPinned`, `DeliveredInTheEnd`, `CopiesSettled`, `CommittedIsPublished`): out
  of the prover's reach;
- of the type invariant of Outbox, that `order` lists each due row once.

## Not modelled

- Cryptography: who may submit what stands for it. HTTP, TLS, address parsing,
  schema migrations, permissions of files and directories.
- In the client: reading, acknowledging and listing mail, choosing routes, adding
  and removing lofts, the cache of registry evidence (`trust.rs`).
- In the registry: handle claims, key ceremonies, Merkle paths, and the age of
  cosignatures, on which readiness and the assembly of a checkpoint depend. In
  the directory: the selection of placements, a choice over the public rows.
- The compliance store, postbox, nests, the MCP server and tunnel, apps and sites.
  Most of the repository's lines are there; they are stores of records with
  request validation around them, and services that call containers, stores and
  push providers outside the repository. The components list of `PROJECT.json`
  says what each holds.

The hazards that no property covers are marked in `PROJECT.json`.

## Plan

1. *Done*: TraceAdmission, LoftStore, LoftServer, LoftLimits, Lofts, Inbox,
   Outbox, Witness, Witnessing, KeyStore, KeyRotation, Directory, each with its
   proofs: every invariant the runs check is a theorem.
2. Next, if the development grows: recoverability of reservations in shared streams
   whose entries agree; several mutation permits; the client's trust in the registry (`trust.rs`) on top of
   Witnessing; the compliance trace store behind LoftLimits.
