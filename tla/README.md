# Verification of the Photostore upload pipeline

Photostore takes photos from browsers into a library, processes each with a set
of models ("Vision": previews, EXIF, OCR, faces, geography, tags), clusters
faces and publishes search indexes. The photos of one or more *upload sessions*
travel together as a *wave*: intake fills it, a barrier closes it, Vision settles
its members, a frozen manifest is assigned to clusters and published, and only
then may the next wave publish. All coordination is optimistic concurrency over
Azure Table rows, advisory queue messages and renewable leases: no lock is held
across a call, any worker may die between two writes, and any message may be
late, repeated or lost.

This directory holds TLA+ models of that coordination, the TLC configurations
that check them and TLAPS proofs of nearly every safety property they check.

    tlc -workers 2 -config waves_live.cfg MCUploadWaves.tla
    tlapm UploadWavesBarrier.tla

## Inventory

What each part keeps, does, and must get right. Paths are under `src/backend/`
unless said otherwise.

**Upload-wave protocol** (`upload_waves.py`, `upload_session_lease.py`,
`wave_settlement.py`, `wave_no_work.py`).
State: one table partition per library with a `control` row (collecting wave,
tail of the chain, a revision), a row per wave, session and manifest item, and an
evidence row per member photo and per session; outbox rows for the next stage.
Operations: open, register, resolve, close, heartbeat, abandon and discard a
session; observe and settle members; evaluate (a paged scan that ends in a
freeze); promote a successor; probe for a wave without work; commit an
assignment; complete. Every operation is one conditional transaction, except
the scans, the probe and abandonment, which keep a cursor between calls.
Hard: scans that take many calls while rows change under their cursor; two
sessions racing for the last place of a wave; a browser that is gone; a discard
that arrives before its open; counters that shadow rows.
Correct when: frozen manifests are exact and final, waves form one line and move
in its order, no accepted photo is missing, what was stopped stays stopped, every
wave completes.

**Vision stage** (`upload_wave_execution.py`, `execution_lease.py`,
`wave_source_batch.py`, `vision_buffer.py`, the source adapter in
`wave_runtime.py`, per-photo leases in `storage_utils.py`).
State: an execution lease row (owner, epoch, status, checkpoint), an attempt
counter per member, a lease and a completion on each photo's metadata row, and
what each worker holds in memory. Operations: claim, walk members in groups,
reserve attempts, run models in threads under a lease on the photo, store
results, settle, commit pages of observations, checkpoint, evaluate, complete,
release. Hard: two deliveries of one release; stalls longer than a lease; death
between reservation, run, result and page; three tables that cannot be
written together; browsers that process the same photos.
Correct when: a replaced worker writes nothing, models run at most once per
attempt, results are not overruled by failures, the wave freezes only over
members that are done, and does freeze.

**Dispatch** (`index_work.py`, `wave_runtime.py`, `wave_recovery.py`).
State: a durable intent per (library, scope) with revision, owner, lease,
wake-up reservation, attempts, receipts of queue messages. Operations: request,
notify, claim, renew, release (yield, park, wait), finish, fail, recover, resume
after a wave. Interacts with every stage and every edit: a queue message is only a
hint, the intent is the truth. Hard: sends whose outcome is unknown, receipts
recorded late, an edit advancing a revision during a build, attempts that are
refunded, an inline merge in the core role beside the index workers. Correct when
no requested revision is lost, waiting costs no attempt and keeps its delay, no
delayed message loses its record, and every intent is built or visibly failed.

**Index coverage** (`automatic_index_updates.py`, `clustering_lease.py`, the
incremental builders). State: per artifact a coverage row (revision, ETag,
reservation counter, certified base), reservation rows of writers in progress, dirty
rows, a manifest blob, the library's catalog lease and the operator's fence. A
writer reserves, writes, finishes; a builder captures dirty rows while nobody
holds a reservation, merges them over the certified base, commits its manifest
and certifies by compare-and-swap. Hard: writers and builders killed or stalled at
any step, several pages and transactions per write, answers that are lost.
Correct when a certified base misses no row that is not still dirty, nothing is
certified while a writer is between its reservation and its finish, and a quiet
library ends certified.

**Publication** (`wave_publication.py`, `wave_catalog.py`, `wave_no_work.py`, the
cluster and index stages of `upload_wave_execution.py`).
State: the captured set of obligations of a wave, a row and a receipt for each, the
generation recorded as its proof, pages of prepared and marked members, the
execution lease of each stage. Correct when a complete wave is published in full
from all its members, captured sets and receipts are written once, prerequisites
come first, and the wave completes.

**Session directory and policy** (`upload_session_registry.py`,
`upload_session_lease.py`, `wave_policy.py`, the live routes, the cleanup of a
cancelled upload in `app.py`). State: a directory entry per live session with a
claim, a notice per expired one, the session's lease and fences, a finalize lease
per item, the photo's metadata row. Browser requests, deletion by a stop, and core
replicas that visit silent sessions race for them. Correct when the directory
knows of every session that still owes something, a write that was checked before
a stop is not cut off, the user is told of an expiry once, and a silent session is
settled.

**Clustering** (`clustering_*.py`, `wave_assignment*.py`). State: a blob lease
guard, resumable checkpoints, assignment receipts. Correct when a writer whose
lease may have lapsed fails closed and a resumed assignment equals one that ran
through.

**Cleanup and replacement** (`processing_cleanup.py`, `wave_supersession.py`,
`processing_completion.py`, `processing_fence.py`). Deletion tombstones, library
cleanup that cancels waves, replaced photos admitted to a later wave.

**Browser** (`src/frontend/src/services`). The upload client (session store, page
registration, retries), optimistic edits with out-of-order confirmation
(`pendingEdits.ts`), caches and notifications.

**Everything else**: model inference and media decoding, index contents, search,
albums, HTTP and authentication, diagnostics, deployment. `PROJECT.json` lists
each with its files and the reason it is or is not modelled.

How they interact: browser → HTTP handlers → *protocol*; a close, a promotion or
a freeze writes an outbox row in the transaction it belongs to → *dispatch* sends
a message → the *stage* claims its lease, reads the wave, writes observations
back into the *protocol*, freezes → outbox → *clustering* → outbox →
*publication* → `complete_indexing` in the *protocol* → promotion of the
successor. Recovery sweeps re-send whatever has an outbox row and no progress.

## Modules

| Module | Models | Role |
|---|---|---|
| `UploadWaves` | protocol, session lease, settlement, no-work path, shadow observations | detailed specification |
| `WaveChain` | what the protocol promises a library | abstract specification |
| `MCUploadWaves` | instantiates both, with the refinement mapping | model checking |
| `UploadWavesBarrier`, `UploadWavesChain`, `UploadWavesIntake` | — | proofs about `UploadWaves`: types and barrier; chain, releases, completion and refinement; counters, membership and stopping |
| `VisionStage` | Vision executor, execution lease, attempts, source leases | detailed specification |
| `MCVisionStage` | `VisionStage` | model checking |
| `VisionStageProofs` | — | proofs about `VisionStage` |
| `WavePublication` | capture, receipts and completion of a wave by the cluster and index stages | detailed specification |
| `IndexIntents` | one durable maintenance intent, its queue messages, workers, sweep and edits | detailed specification |
| `DurableIntent` | what an intent promises the code that asks | abstract specification |
| `IndexCoverage` | reservations, dirty rows, certified builds and the operator's fence of one artifact | detailed specification |
| `UploadSession` | one session against requests in flight, the directory and its replicas | detailed specification |
| `MCWavePublication`, `MCIndexIntents`, `MCIndexCoverage`, `MCUploadSession` | `WavePublication`, `IndexIntents`, `IndexCoverage`, `UploadSession` | model checking |
| `WavePublicationProofs`, `IndexIntentsProofs`, `IndexCoverageProofs`, `UploadSessionProofs` | — | proofs about the same four |

How they compose. `VisionStage` opens up what `UploadWaves` shows as `Observe`,
`Settle` and the evaluation of a wave behind the barrier; conversely its one-step
`Evaluate` is the paged scan of `UploadWaves`, which has shown that paging loses
nothing. `WavePublication` opens up `CommitAssignment` and `CompleteIndexing` of
`UploadWaves`. `UploadSession` opens up the lease, the stop and the finalization of
one session, each an atomic step of `UploadWaves`, and what surrounds them. The
intent that `IndexCoverage` reduces to "there, owned, moved" is `IndexIntents`.
`PROJECT.json` maps every definition to its lines.

### UploadWaves and the code

| Variable | Code |
|---|---|
| `enrolled` | the policy row, written once by `enroll_new` before intake begins; without it the code observes waves and never evaluates them, while the model may evaluate them too: it has more behaviours there, not fewer |
| `control` | `collectingWaveId`, `tailWaveId` of the control row |
| `wave` | wave row: state, predecessor, counts, epoch, frozen revision, pending release |
| `session`, `item` | session rows with lease and abandonment, item reservations |
| `evidence` | the `e!<wave>!` manifest: members first, then sessions, in key order |
| `evaluation`, `probe` | the accumulator saved in the wave row; the no-work cursor |
| `scan` | the manifest pages an `evaluate` call has read and not yet committed |
| `visionOut`, `clusterOut`, `completion` | outbox rows and completion receipts |
| `published` | which wave last published a photo |

One committed transaction is one action, because each compares the ETag of every
row it rewrites, nearly all of them including the control row. The exceptions are
what makes the model interesting and are kept: `evaluate` reads pages and commits
later, guarded by the control revision and the accumulator (`EvaluateRead`,
`EvaluateSavePage`, `EvaluateHold`, `EvaluateFreeze`, `EvaluateCrash`), and
`commit_observations` compares the wave row but not the control row
(`CommitObservations`). Every transaction that advances the control revision
discards the running scan (`Commit`), which is how a stale commit fails.
Abandonment is a fence, then one page per call, then a close (`FenceDiscard`,
`AbandonPage`, `CloseAbandoned`), with a stopping rule for finalizations in flight.

Abstractions: a replay that finds its result committed changes nothing and has no
action; random ids are numbered; a digest is what it digests; a lease is live
until it lapses; required steps and artifact checks of a member are its outcome
and whether it needs projection. One item shape and one revision per photo:
replacement is not modelled.

### VisionStage and the code

| Variable | Code |
|---|---|
| `lease` | execution lease row: status, owner, expiry, phase and cursor of the checkpoint |
| `guard` | workers whose `check()` read of that row is still its current version |
| `frozen`, `outcome`, `attempts` | the wave, its member rows, the attempt counter rows |
| `source` | photo row: who may write it, is that live, what completion it carries |
| `job`, `plan`, `attempt` | a worker's program counter and what it holds per member of its group |
| `ran` | history: model runs per attempt number, read by properties only |
| `disputed` | history: members whose stored result was leased from outside, or whose qualification raised |

Each `check()` is an action, and the transaction that compares what it read is
another: between them a lease may lapse, be taken over or be released. A lease
that lapsed after the check does not stop the write (the comparison is on the
row, not on the clock); a row rewritten since does. A member runs as
`Start`, `ClaimSource`, `CheckRun` (models run, lease checked), `Verify`, `Store`
or `StoreFailure` or `Raise`, interleaved freely with the stage's other threads
and with the other delivery; `SettleFailed`, `Settle` and `QualifyFails` follow: the last is
the handler of an exception that the qualification of a returned attempt raises
(`upload_wave_execution.py:525-529`), whatever the row carries. `OutsiderClaims` is
`claim_processing_lease`, which asks for no completion and leaves one in place; the stage
reads a leased row as one without a completion (`:279`).

Abstractions: a renewal only postpones expiry, so it is the absence of a lapse
(a commit it invalidates is retried by the code); the local deadline of
`keepalive` is never later than the row's, so passing it means the lease is still
this worker's; owner ids, UUIDs in the code, are numbers nobody holds; members
are inspected as of the snapshot the group was loaded with; the budgets for
sources that cannot be inspected, deletions and replacements during the stage,
and the cleanup fence are left out, as is the dispatcher's own budget.

### WavePublication and the code

`wave`, `manifest`, `receipt` and `proof` are the wave row, the required-set row,
the obligation rows and the recorded publications; `alias` is the serving pointer
of an index, which other builders of the library also move. `lease` is one
execution lease row per stage with its phase and cursor, `catalog` the library's
catalog lease, `offered` the `SCOPES` constant of the code that happens to run, so
that a deployment between two calls is a step (`Deploy`). The cluster stage is
`Capture`, `CreateRow`, `CommitAssignment`; the index stage `Verify`, `PreparePage`,
`SavePrepared`, then per scope `Pick`, `Upload`, `Copy`, `Bind`, `RecordReceipt`, then
`StartMembers`, `MarkPage`, `SaveMarked` and `CompleteIndexing`. A version of an
index remembers the pages of members it was built from and the versions of the
indexes it read, which is what the properties compare.

### IndexIntents and the code

`row` is the `WorkStore` row; `ready` and `deferred` are the two queues, whose
messages may be lost, late, repeated or promoted; `call` is the send, record,
cancel sequence a `notify` or `resume_wave_waits` is inside of, one per caller;
`worker` a consumer or the inline merger; `edit` the caller of `request`. Stored
times are the two or three answers the code can get from them. `marked` and `built`
number the changes of the source and what a publication is known to contain:
they are what `DurableIntent` speaks of, with an edit counted once its request has
returned.

### IndexCoverage and the code

`control`, `res`, `dirty` are the coverage, reservation and dirty rows, `manifest` the
artifact's pointer with the row versions it was built from, `source` the versions
that are true. A write is `schedule`, `begin` (page by page), `fence`, `write`,
`finish`, `reschedule`; a build is `lock`, capture (`control`, `rows`), `open`, `read` row by row,
`commit`, read back (`base`), certify (`cas`), acknowledge, drain, `finish`. A builder
that stalled (`Stall`) goes on with what it holds after it lost lease and claim.
`BeginResent`, `FinishResent` and `CertifyResent` are transactions that were stored,
answered 5xx and sent again by the table client, whose default retry policy the
application keeps (`app.py:1447`, `app.py:1517`). `complete` refuses to count below
zero (`Balanced`, `automatic_index_updates.py:384-385`): such a finish raises and its
reservation row stays. A row the operator failed to delete is not modelled: nothing
but the recovery and a finish that found no row reads them.

### UploadSession and the code

| Variable | Code |
|---|---|
| `session`, `lease`, `grace` | session row: state, `abandoning`, `discardRequestedAt`, `leaseExpiredAt`, revision, `closeId`; `leaseExpiresAt` ahead; the 30 seconds after a fence |
| `item`, `photo` | reservation with its finalize lease; metadata row, pending or active |
| `outbox` | the release a close leaves, until `_drive` relays it |
| `entry`, `current` | directory entry with its claim; replicas whose read of it is its stored version |
| `notice` | notice row |
| `handler`, `replica` | where each request and each `reconcile_one` is, and what it has read |
| `enabled` | `UPLOAD_WAVE_EXECUTION_ENABLED` |

Requests: open (`OpenRead`, `OpenTrack`, `OpenReseal` or `OpenSession`), finalize (`Admit`,
`ReadPhoto`, `CheckFinalization`, `WritePhoto`, `ResolveSource` or, of an item that
was resolved before, `Reread`), close (`RequestClose`, `CloseIntake`), stop
(`RequestStop`, `StopPage`, `CleanRead`, `CleanDelete`, `StopClose`), and the end
they share, `Drive` and `Finish`. A replica's visit is `Visit`, `Claim`, `Seal`,
`VisitPage`, `VisitClose`, `VisitDrive`, `Settle`, `Release`. Each step is one storage
call with the retries around it; what a request read is kept and may be stale by
the next. Time assumes that a source write lands within 30 seconds of its check
(`GraceEnds`, `FinalizeLeaseRuns`), and `DrainWindowHolds` rests on it. The code gives the
write one attempt of 30 seconds, counted from the write: a process that stalls between the
check and the write is outside the model. `RequestDies` and `VisitDies` can strike between any two.

## Runs

| Run | Instance | Distinct states | Question |
|---|---|---|---|
| `waves_live` | 2 sessions, 1 item each, 1 photo, manifest pages of 2, one browser may leave, the library enrolls or not, fairness | 175,337 | chain, freeze, release keys, refinement of `WaveChain`, every wave completes |
| `waves_intake` | 1 session, 2 items, 2 photos, finalize leases, pages of 2 | 113,126 | counters, membership, stopping, abandonment ends |
| `waves_markers` | 2 sessions that select the same photo, 1 item each | violation | a stated rule the code breaks, see below |
| `vision_stage` | 2 workers, 2 members in groups of 1, 1 attempt, 1 disturbance, fairness | 333,325 | all properties of the stage |
| `vision_discard` | 2 workers, 1 member, 2 disturbances | violation | a stated rule the code breaks, see below |
| `publication` | 2 workers, 3 scopes, 2 pages, 2 disturbances, fairness | 142,129 | a complete wave is published in full, and waves complete |
| `intent_races` | a worker and an inline merger, 1 edit and 1 more request, stall, loss and fault | 1,163,143 | the promise of `DurableIntent`, tracked messages |
| `intent_progress` | 1 worker, 2 edits, barriers, stall, loss and fault, fairness | 161,742 | attempts, delays, every intent settles |
| `coverage_races` | 2 writers of one row, 2 builders, one of which may stall | 1,568,540 | no late step certifies a base that misses a row |
| `coverage_progress` | 1 write over 2 rows in 2 transactions, 2 builders, a failure, crash, touch or resent call, the operator's fence, fairness | 752,129 | counter, certified base, convergence |
| `coverage_replay` | 2 writers of one row, a resent finish | violation | a stated rule the code breaks, see below |
| `session_life` | 2 requests, 2 replicas, 2 of sent requests and faults, fairness | 474,443 | directory, notices, drain window, settlement |

What they show.

*Waves.* `FrozenManifestExact` and `FrozenIsFinal`: a paged scan equals an atomic
one, and nothing changes after it. `LinearChain`, `ChainSpec`: the library sees one line
of waves that moves in order. `CountsMatchRows`: the equality `evaluate` insists on
can never fail, so it cannot wedge a wave. `AdmittedAreMembers`: nothing accepted is
dropped. `StoppedStaysStopped`, `AbandonedSessionsEnd`, `WavesComplete`: stopping is
final, and everything started ends. `CompletionJustified`: the shortcut for waves
without work is only taken when each of its photos is in a complete wave that went
through Vision, although the markers the probe reads can be taken over before their
new wave is complete. `VisionReleaseCurrent`:
epochs keep release keys apart.

*Stage.* `AttemptBudget`, `ResultsKept`, `FreezeJustified`, `SupersededNeverWrites`,
`VisionEnds`: see the inventory. `ResultsKept` excepts a member whose result was
disputed, by a lease from outside or by a qualification that raised: the remarks say
how the code loses it then. It is about members that settle by their attempts; the
budgets of sources that cannot be inspected are left out.

*Publication.* `CompletionCovers`: no crash, replaced worker or saved cursor loses a
page or a scope. `ReceiptsMatchProofs`, `WrittenOnce`: two publishers with different
proofs leave one, and the receipt names it. `BuiltInOrder`: an index is built from
what the receipts of its prerequisites name, or later. `WaveCompletes`.

*Intents.* `KeepsThePromise`: an intent is put away only when everything asked for
is in the index. `DelayedWakesTracked`, `FailedOnlyByMishaps`, `EmbargoKept`,
`EveryIntentSettles`: see the inventory. (`EmbargoKept` is about an intent that no worker
holds: a claim keeps the reason it was last released for.)

*Coverage.* `CertifiedBaseCovers`: what a later build merges over misses nothing that
is not still dirty, although builders outlive their leases, writers die and touches
overlap. `CertifiedWhileIdle`: no build is certified past an open reservation.
`ActiveIsReservations`: the counter both rest on follows the rows, but for an operator
who dies between deleting the rows and resetting the counter, which leaves it too
high. `Converges`.

*Sessions.* `NothingUnlisted`: every death leaves an entry for the next visit, also
where execution is paused. `NoticeOnce`: an open that was late and tracks a settled
session again does not renew its notice. `DrainWindowHolds`: a photo that becomes
active after its item was cancelled was checked after the fence. `Reconciled`: a
session whose browser is gone is closed or abandoned, handed on, told and
forgotten.

### Bounds

Two sessions are the least with a predecessor, a successor and a race for the
collecting wave; a third repeats the second's relation to its predecessor. The manifest
of two sessions and one photo in `waves_live` takes two pages of two. Two items and two photos in
`waves_intake` give duplicates within a page, across pages and across sessions. `Leaving` and
`Finalizing` restrict which browsers may go silent or finalize, to divide the
interleavings between runs. `MaxDisturb` counts only repeatable disturbances: in
`UploadWaves`, observations that retract, repeated finalize admissions, deletions of
settled members and crashes of an evaluation; in `VisionStage`, crashes, stalls
beyond a lease, deadlines and outside claims; in `WavePublication`, crashes, stalls,
foreign builds and deployments. One worker loses its lease and a second takes over:
two workers and one such event are the least that interfere, and in
`VisionStage` two members are the least with a second group.

In `IndexIntents` a bound per kind of fault (`MaxStalls`, `MaxLost`, `MaxFaults`,
`MaxGates`) is 0 or 1, and the two runs divide the kinds: barriers exist only for
scopes without an inline merge. Two edits are the least with an edit during the
build of another. In `IndexCoverage` a row written twice by different writers, and
read by a build in between, is the least in which an acknowledgement can land late;
two rows and pages of one are the least with a begin over several transactions and
a capture that is truncated. In `UploadSession` one photo is enough, because items
are only compared with the session and never with each other; a run starts fresh
or with an intake under way, so that two requests, or a request and a fault, are the
second and third of its life.

Every mutated definition in `PROJECT.json` breaks its property within these bounds.
`CHECK_DEADLOCK FALSE` everywhere: the systems stop when every wave is complete,
the wave of the stage is frozen, the index is current or the session forgotten.

### Fairness

`waves_live` and `waves_intake` assume weak fairness of: expiry
and the end of the drain grace (time passes); sealing, abandonment pages and
closing of silent sessions (`Sessions.reconcile` runs on user traffic and the
recovery sweeps); registering, resolving and closing by a browser that is not in
`Leaving`; promotion, evaluation, settlement of pending members, assignment,
publication (each has an outbox row, whose message the queue redelivers and
`wave_recovery.py` re-sends until the stage is done). No host runs that recovery on a
timer: it rides on user traffic, wave events and operator sweeps, so the runs say
that a library somebody still uses makes progress, not one left alone for good.
Settlement is fair only in the sense that a member does not stay pending,
`failed_exhausted` being always reachable: exactly what `VisionEnds` establishes
below. Opening a session, heartbeats and deletions are not fair.

`vision_stage` and `publication` assume weak fairness of redelivery (the dispatcher
releases a message only when the stage is done, and re-sends otherwise), of the steps
of a running worker, and of the lapse of a lease nobody keeps: time. Nothing is
assumed of crashes, deadlines and stalls except that they are finitely many. An
outside processor may never finish; its lease then lapses. `WaveCompletes` excepts a
wave that a deployment stranded (see the remarks).

`intent_progress` assumes that stored times pass, that a promoted message arrives,
that barriers fall, that the sweep runs and that workers go on; sends, edits and
messages that are lost are not fair. `coverage_progress` assumes that writers and
builders that are alive go on and that the coverage sweep runs; nobody has to write,
and a writer that died leaves its reservation for ever, which is why `Converges` is
about a ledger no orphan holds.

`session_life` assumes that requests and visits that do not die go on, that time
passes, that a pause ends and that entries are visited again: the survey walks the
directory in pages behind a stored cursor that wraps around
(`upload_session_registry.py:175-204`) on every request of a signed-in user, at most
once a minute. The browser owes nothing.

### Rules the code does not keep

`waves_markers`. `record_publication_members` is to "Record immutable source markers"
(`wave_no_work.py:11`, and again `:29`). The marker row carries the wave it was
recorded for, so a later wave with the same photo revision finds another row and
replaces it (`:27-28`). No harm comes of it, which `CompletionJustified` says and
its proof explains: a wave reads markers after its predecessor completed, and a photo
once published through Vision stays published.

`vision_discard`. `MetadataBatch` says that its snapshots "only select work" and
`reserve_attempts` that "Qualified results are checked before reaching this path"
(`wave_source_batch.py:153`, `:188`). A runnable member whose reservation is
refused is settled `failed_exhausted` from exactly that snapshot
(`upload_wave_execution.py:428`), without rereading. Trace: a delivery reserves
the only attempt and loses its lease; its replacement loads the member as
runnable; a browser completes the photo; the reservation is refused and the
member is recorded as failed, although its row carries a result. (A completed row that
another processor leases and lets lapse gets there as well.) The photo keeps
its result; the wave's manifest and what follows from it say it failed.

`coverage_replay`. `automatic_index_updates.py` says that reservations never expire
and that an overlapping writer "either makes capture busy or defeats certification"
(`:10`, `:14-15`). A finish that is stored and answered 500, 503 or 504 is sent again
by the table client; the resend finds its ETag moved, the retry finds the
reservation row gone, and `finish` counts `active` down without it (`:391-394`): twice
for one reservation. If another writer is between its begin and its finish, the
counter reads 0 and a build is certified past it. The same resend of a begin only
leaves the counter too high, which fails closed: the artifact waits for the operator.

### Remarks

Behaviour met while modelling that no run reports as a violation.

* A finalization that runs its check during the 30 seconds after a stop's fence may
  write after the item was cancelled: `check_finalization` (`wave_policy.py:66-80`) asks
  for the finalize lease and the outcome, not whether the intake stops. The row is then
  active and in no wave, and the browser's retry is refused. `wave_settlement.py:314-319`
  expects those checks to reject "any late writer". `DrainWindowHolds` is what does hold.
* `_cleanup_failed_upload` deletes a row it read as pending without comparing its
  version (`app.py:14839`), so it can remove one such late write.
* A required set that was captured under one `SCOPES` and is bound under another makes
  every retry of the commit raise (`wave_publication.py:118-119`): `Stranded`.
* `touch_user_people_embedding_index_state` overwrites the manifest without a condition
  (`storage_utils.py:3211`), unlike the touches of the other indexes. Only the legacy
  people assignment calls it (`app.py:889`, `app.py:6523`). With it,
  `CertifiedBaseCovers` fails (the mutant `WriteTouchOver`).
* A result that an attempt stored and returned can be recorded as failed in two ways,
  both kept out of `ResultsKept` by `disputed`. Another processor leases the completed row
  (`storage_utils.py:11910-11962` does not look at the completion) and its lease lapses: the
  row reads as not completed and not held (`upload_wave_execution.py:279`, `:331`), the member
  is run again, refused, and exhausted (`:428`). Or `_observe_qualified` raises for the
  attempt, for instance while the receipt cannot be read, and `exhausted` settles the
  member (`:525-529`).
* An attempt that raised is recorded as failed even when it had stored a completion
  (`upload_wave_execution.py:514`), which `tests/test_wave_source_batch.py:1109` intends.
* Finalizing an accepted item again renews a session lease that has expired and was
  not sealed yet.

## Proofs

Every invariant and action property the passing runs check, and both refinements,
are theorems: for every number of sessions, items, photos, workers, members, scopes,
writers, builders, requests and replicas, every page, group and capture size, and
every number of disturbances. Liveness is not (see below).

| Module | Theorem | States |
|---|---|---|
| `UploadWavesBarrier` | `TypeCorrect`, `TypeInvariant` | `TypeOK`; with it `openSessions` counts the open sessions |
| | `InvariantHolds` | the inductive invariant of the barrier |
| | `ScansStayExact`, `FrozenManifestsAreExact`, `FrozenWavesAreFinal` | `ScansExact`, `FrozenManifestExact`, `FrozenIsFinal` |
| `UploadWavesChain` | `ChainInvariant`, `WavesFormOneLine` | the shape of the chain; `LinearChain` |
| | `ReleasesAreCurrent`, `CompletionsAreJustified` | `VisionReleaseCurrent`, `CompletionJustified` |
| | `ImplementsChain` | refinement: `ChainSpec` |
| `UploadWavesIntake` | `CountsAlwaysMatch`, `StoppedStays`, `AdmittedStayMembers` | `CountsMatchRows`, `StoppedStaysStopped`, `AdmittedAreMembers` |
| `VisionStageProofs` | `TypeCorrect`, `OwnersKeptApart` | `TypeOK`; owners are fresh and guards belong to the owner |
| | `SupersededAreFenced`, `AttemptsAreBudgeted`, `FreezesAreJustified` | `SupersededNeverWrites`, `AttemptBudget`, `FreezeJustified` |
| | `ReturnedResultsAreKept` | `ResultsKept`, assuming `MaxAttempts = 1` |
| `WavePublicationProofs` | `PublicationInvariant`, `PublicationTypes` | the inductive invariant; `TypeOK` |
| | `CompletionIsCovered`, `ReceiptsNameProofs`, `PublishedInOrder`, `LedgerWrittenOnce` | `CompletionCovers`, `ReceiptsMatchProofs`, `BuiltInOrder`, `WrittenOnce` |
| | `NeverStuck` | a worker always finds a scope whose prerequisites are published |
| `IndexIntentsProofs` | `IntentInvariant`, `IntentTypes` | the inductive invariant; `TypeOK` |
| | `WaitingCostsNothing`, `WakesAreTracked`, `BarriersKeepTheirDelay` | `FailedOnlyByMishaps`, `DelayedWakesTracked`, `EmbargoKept` |
| | `PromiseKept` | refinement: `KeepsThePromise` |
| `IndexCoverageProofs` | `CoverageTypes`, `RowsAreCounted` | `TypeOK`, `ActiveIsReservations` |
| | `CertifiedIsIdle`, `TrustedBaseIsRight` | `CertifiedWhileIdle`, `CertifiedBaseCovers`, assuming `FinishAnswered` |
| `UploadSessionProofs` | `SessionInvariant`, `SessionTypes` | the inductive invariant; `TypeOK` |
| | `NothingGoesUnlisted`, `NoticesAreOnce`, `DrainWindow` | `NothingUnlisted`, `NoticeOnce`, `DrainWindowHolds` |

*Types of UploadWaves.* `TypeOK` is not inductive: `openSessions - 1` leaves the
naturals unless the session that closes is counted. `OpenCounted` says it is,
`SessionsPlaced` that an open session has a wave, `UnusedWaves` that a wave
number not yet used has no counts, so that a fresh one starts right.

*Barrier.* `IInv` adds `ScanInv` and `FreezeInv`. Every writer of evidence strands
or clears the scans over it, so `ScansExact` is inductive once the running scan is
known to be of a wave behind the barrier. The digest that is frozen is then the
evidence. It stays so because only two things write evidence: an open session,
but the scan counted every session row as ended and `SessionEvidenceCurrent` makes
that true of the sessions, and a settlement, which needs the wave in the barrier.
The no-work path freezes too; `ProbeBeforeOpen` is its side of the argument.

*Chain.* The n-th wave created is wave n and stands behind wave n - 1 (`Numbered`), only
a collecting wave has open sessions (`OpenCollects`), a frozen revision is there from
the freeze on and a successor is bound to it (`FrozenBound`, `PredBound`): `ChainInv`.
`VisionInv` keeps the epochs of outbox rows at or below the wave's. `CompletionInv`
follows a photo from its marker to a wave that had it settled, and the probe's cursor
over members it has found covered. Few actions touch these fields: `OnlyMoves` names
them, and what is left is one case each. The refinement maps every one of them to a
step of `WaveChain` (`Phase`, `Photos`), all others to a stutter.

*Intake.* Four transactions move sets of items from one outcome to the next and add the
set's size to one counter (`ItemSteps`); an item leaves `none` once and `reserved`
once, so no size counts twice (`CountInv`). `AdmittedInv` ties a member row to the
items that were resolved into it.

*Fencing.* A transition compares the lease row its worker checked. `GuardsNamed`:
whoever's read is current is the owner on the row; `DistinctOwners`: nobody else
carries that id. So a superseded worker has no current read, and no guarded
action is enabled for it.

*Attempts.* The counter row hands each number to one worker (`NumbersDistinct`,
`NumbersReserved`) and a number not yet started has not run (`UnusedNumbers`).

*Freezing.* `FreezeInv` follows evidence up: a settled outcome has a stored result,
a plan marked qualified or failed says so truthfully, and evaluation needs every
outcome resolved. Results are never unstored.

*Results.* With one attempt per source, the constant `MAX_SOURCE_ATTEMPTS`
(`wave_settlement.py:7`), at most one worker ever tries a member. `ResultsInv`
relates it to the worker that might fail the member instead: that one must own the
stage, so it sees the member's lease live, or the thread's check fails. A disputed
member is excepted: the stage takes its row for one without a completion. The
assumption of one attempt is needed: TLC finds `ResultsKept` violated with two attempts and three
disturbances, so raising the constant would break it.

*Publication.* Nothing in the ledger is taken back (`Kept`): what a worker found out at
one step is still true many steps later, whoever ran in between and whether or not it
still has its lease. `PublicationInv` says what each step and each saved phase and
cursor has found out. `NeverStuck` is by well-founded induction on the prerequisite
graph: the "prerequisites cannot advance" exit of `run_index_release` is unreachable.

*Intents.* `Live(w)`: worker w holds the row at the revision the row has. It begins with
a claim and ends with any request, because a request stores a revision nobody has
claimed (`Moves`). A live claim has seen everything asked for (`Seen`), which is why
`finish`, comparing revisions, never puts away an edit; every attempt counted is a
mishap, a live claim, or was refunded (`Counted`). `PromiseKept` maps the row to
`DurableIntent` step by step.

*Coverage.* Every transaction of the ledger stores an ETag no builder has seen
(`VersionInv`), so a row that still has the captured ETag is the captured row and was
idle (`CaptureInv`). While the count covers the reservation rows (`Visible`), idle
means that nobody writes: what a build reads is one snapshot (`OpenInv`, `ReadInv`), the
lease and the manifest's ETag carry it to the manifest (`BaseInv`), the compare-and-swap
to the ledger (`CasInv`). A dirty row is acknowledged at the version captured idle and
a later writer gives it another (`DeclaredInv`), so what is forgotten is in every
trusted manifest (`DrainInv`, `AckInv`). `Visible` needs the hypothesis
`FinishAnswered`, that no reply to a finish is lost: `coverage_replay` shows what
happens otherwise. Every other reply may be lost, and with `MaxLost = 0` the hypothesis
holds of itself (`AllAnswered`). `RowsAreCounted` has no hypothesis. Proving it found that
the count had to be stated as "not below the rows": an operator who dies after
deleting them leaves it above, beyond the bounds of the run.

*Sessions.* A session only moves on (`Onward`), so what a request or a visit has read is
true when it acts. An entry is removed only when nothing is owed (`EntryStays`) and
comes to be owed only after it is tracked (`DebtsGrow`). A write that was checked
before the fence keeps its item, because a stop waits for its finalize lease or, behind a fence,
for its grace (`HeldStays`).

The named assumptions on constants (`NumbersAssumption`, `SessionsAssumption`,
`StageAssumption`, `PublicationAssumption`, `IntentAssumption`, `CoverageAssumption`,
`SessionAssumption`) say that numbers have the right sign, that sets are finite where they
are counted, that special values are not members of the sets they stand beside, and
that the prerequisite graph of the indexes has no cycle. TLC evaluates them on every run.

Only model-checked: the liveness properties, because liveness and `ENABLED` are out
of the prover's reach, and the three rules the code breaks. There is no recursive
operator in any module: digests and folds over pages are abstracted to sets, so no
fact about recursion is needed.

## Plan

Done: `UploadWaves` with `WaveChain`, `VisionStage`, `IndexIntents` with
`DurableIntent`, `WavePublication`, `IndexCoverage`, `UploadSession`, and the safety
proofs of all of them. Next, in order of how much they carry:

1. The dispatcher: budget and handoff of a stage over `IndexIntents`
   (`wave_runtime.py:411`, `upload_wave_execution.py:683`).
2. Library cleanup, deletion and replacement inside `UploadWaves` (cancelled
   waves, tombstones, excluded revisions).
3. `PendingEdits` and `ClusteringLease`, each on its own.
4. That `VisionStage` and `WavePublication` implement the steps of `UploadWaves` they
   open up.

## Not modelled, and why

Media decoding, model inference, clustering mathematics, ranking and index
contents are computation over data, not control. HTTP, authentication and the UI
sit outside the protocol and can only issue the operations that are modelled in an
order that is already arbitrary. Deployment has no run-time state. What is left
out of a modelled component is named in `PROJECT.json` beside that component, and
each hazard no property covers yet has the step of this plan that will.
