# A verification of OdontoartPix

OdontoartPix checks, for the members of a dental plan, whether installments were
paid. Campaigns are imported in batches; each row of a batch is a *link* (member,
target installment). A local worker consults the ERP for every link and persists
what it answers in PostgreSQL. Operators process, pause, resume, stop and reprocess
batches and members from the web application; a general synchronization walks
over all batches on demand or on a schedule. There is no message broker: the
queue, its leases and its recovery are SQL statements and triggers, executed by a
web server and by a worker process that systemd starts again and again.

This directory holds TLA+ models of that code, configurations for TLC and proofs
for TLAPS. Paths below are relative to the repository.

## 1. Components

| Component | State | Operations | Interacts through |
|---|---|---|---|
| Queue tables and triggers (`db/migrations`) | `campaign_batch_members` (links), `processing_jobs`, replay snapshots | triggers 014 (snapshot items follow links), 015 (claim scope, exact jobs end), 018 (exhausted links settle), 022 (confirmed payments do not fail) | fire inside every statement of everybody else |
| Local worker (`src/lib/local-processing-worker.ts`, `processing-pipeline.ts`, `scripts/process-local-worker.ts`) | advisory lock; per call: workerId, the job row it read, claimed links | recover at start, pause checkpoint, recover stale, claim job, claim links, persist success / failure, release, fail | links, jobs; ERP outside transactions |
| Batch job service and routes (`src/lib/batch-job-service.ts`, `member-reprocess-queue.ts`, `src/app/api/**`) | none of its own | process, reprocess errors, pause, resume, interrupt, stop, one member, filtered errors, blocked | links, jobs |
| General synchronization (`src/lib/general-sync-*.ts`) | runs and run batches with a lease | start, claim, reconcile, advance, pause, resume, cancel | enqueues dashboard jobs, waits for manual ones |
| Dashboard error absorption | dashboard replay items | absorb errors in the active run or start an error run | general sync |
| Scheduler (`general-sync-scheduled-start.ts`, migrations 008, 017) | `processing_scheduler_state`, the interval, the switch | start when due, end of a run, change of the settings | general sync |
| Canonical installments (migrations 023-031) | one row per ERP installment, mirrored by links | bind, capture, promote, protect terminal states | triggers on links |
| ERP client and analysis (`mensalidades-api.ts`, `analysis.ts`) | the pages of one call | paginate, retry, classify the target installment, total what is pending | called by the worker; its answer is read again by the triggers |
| Import, renaming, deletion of campaigns and batches (`api/campanhas/**`, `imports.ts`) | campaigns, batches, links | import a file, remove a link, rename, delete | canonical installments, links |
| Dispatches (`dispatches.ts`, `dispatches-dashboard.tsx`) | operations and their events | register, revert, list | links, only read |
| Panel of the synchronization and event stream (`general-sync-button.tsx`, `processing-realtime.ts`, `api/processing/events`) | the run shown, timers, one stream per tab | discover, refresh, preview, start, notify | routes of the synchronization |
| Panels of the processing (`associados-processing-panel.tsx`, `campaign-batch-progress-stack.tsx`, `processing-progress-panel.tsx`, `global-processing-indicator.tsx`) | the request, batch or run shown, requests under way | poll, load at an event, show the changes, stop, dismiss | routes of progress; event stream |
| Lists (`associados-card-list.tsx`, `associados-paginated.ts`, `dispatches-dashboard.tsx`) | filters, page, selection of one tab | filter, turn the page, select, reprocess | queue requests |
| Counters and figures (`recalculate_batch_totals`, `recalculateBatch`, `metrics.ts`, `campaign-read.ts`, `campaign-detail-read.ts`, `summary-analysis.ts`) | the totals in `campaign_batches`; the queries keep none | count a batch at a result, at the end of a cycle, at a removal; add up for a screen | triggers on links; only read |
| Configuration (`processing-config.ts`, `processing-presets.ts`, settings routes) | one row, a cache in each process | read through the cache, save, show | read by the worker and the routes |
| Report of punctuality (`payment-punctuality.ts` and its page) | the address of the page | filter, submit, go back | only read |
| Exports, authentication, other screens | own tables or none | see `PROJECT.json` | |

What is hard here: every handler is one or several short transactions, the ERP is
consulted between transactions, and **whoever runs a transaction decides with rows
it read in an earlier one**. Two processes, the operators and the clock interleave
freely; a process may die anywhere; the lease of a job and the heartbeat of a claim
are never renewed, so a slow worker is treated as a dead one while it is alive. The
browser adds a second layer of the same kind: answers arrive late, in any order or not at
all, and notifications are dropped. `PROJECT.json` lists the hazards, each at its line.

What makes the parts correct: a result is published once, under a claim that still
stands; whoever is named in a row works on it or is gone; a stop or an end of a job is
never undone by a recovery, a release or a merge; counters add up; a confirmed payment is
not turned into an error; a batch is closed only when its links are; and every claim
and every job comes to an end. A general synchronization visits one batch at a time and
in order, ends only when everything it started has ended, leaves the jobs of operators
alone, and always comes to an end, a pause or a wait for an operator. The canonical
installments agree with the links that mirror them and a confirmation is not taken
back by an older answer; the ERP client answers what was true during the call; the
scheduler starts one run per due time, and only while it is switched on; a screen shows what
its filters and the server say; the counters of a batch are made good at the end of its cycle and the screens agree on the
figures; a request that arrives twice is carried out once.

## 2. Modules

```
ProcessingState      rows, time as booleans, triggers       (db/migrations)
   |         \
LocalWorker   BatchJobService    worker | requests           (scripts, src/lib | src/app/api)
   \         /
ProcessingQueue  --INSTANCE-->  ClaimProtocol               what a claim promises
   |       |     --INSTANCE-->  JobLifecycle                what a job may do
   |       |                        ^
   |   ProcessingQueueProofs        | INSTANCE
MCProcessingQueue, MCFigures    GeneralSync --- MCGeneralSync, GeneralSyncProofs

InstallmentAnalysis                      what an answer of the ERP means
   |
ErpConsultation    PipelinePools - ProcessingPipeline    CanonicalInstallment
        \                              |      \                |
         \                             |   ..Proofs            |
          +------------------- MCConsultation -----------------+ - MCConsultationProofs

CanonicalInstallment - ReceiptDetails - MCReceiptDetails
BatchTotals - Figures, PaymentReport - MCFigures - MCFiguresProofs

FilteredList - AssociatesList   Dispatches   Scheduler   CampaignImport   ProcessingConfig
                        \            |           |           |                /
                         +------------------ MCOperators ---------------------+

SyncPanel    ManualPanel    ProgressPanel    ProcessingIndicator
      \           |              |            /
       +------------------ MCScreens -----------+
```

* **ProcessingState** – a link, job, snapshot item and run are records; a trigger is an
  operator applied by every statement that fires it (`UpdateLinks`,
  `SyncReplay`, `FinalizeExact`, `SettleJob`). Timestamps are the booleans the queries
  compare them to: `due`, `old` (heartbeat), `expired` (lease).
* **LocalWorker** – one action per transaction of a call of `runLocalWorkerOnce`, and
  the start, checkpoint and end of the process around it. `runs[r]` is the memory of
  the call: the job *as it was when claimed* (`target`, `filtered`, `includeErrors`) and
  the links whose result is not persisted (`inflight`). The results of one call are
  persisted in any order, which covers both `runWithConcurrency` and the split
  pipeline. `processing_owner` and `claim_token` are one field `owner`: a workerId is a
  random value used for one claim, so a run that is gone is called `Gone` in the rows
  it left.
* **BatchJobService** – one action per request, and two for the resume of a batch, whose read (`ReadPaused`) and write
  (`WriteResumed`) other transactions can come between (section 6). The other requests lock, or test again, the rows they write. `Enqueue` is
  `enqueueBatchJobWithReuse` with all its branches: reopen, normalize, request errors,
  merge with the active job (`Merge`), insert, resume or finish.
* **ProcessingQueue** – Init (imported links), Next, properties, fairness.
* **ClaimProtocol** – the abstract specification: who holds a link, what is in
  flight, what was published. `ClaimsImplemented` is the refinement.
* **JobLifecycle** – the moves a row of `processing_jobs` can make in one transaction of
  the queue, seen by status, requested stop and origin. It has no state: it is the
  contract between two models. `JobsFollowLifecycle` shows that the queue keeps it,
  `GeneralSync` moves its jobs by it. What the synchronization itself does to jobs
  (enqueue, pause, cancel, absorb) is in `GeneralSync`.
* **GeneralSync** – runs and run batches, and `worker[w]`, the cycle
  (`runLocalGeneralSyncCycle`) of each process: `idle`, then one program counter per
  transaction (`pause`, `reconcile`, `cancel`, `wait`, `own`, `enqueue`, `attach`,
  `release`) or unlocked read (`look`, `find`), or `throw`. The enqueue, the attachment and
  the check of the ownership before them are separate transactions in the code and separate
  actions here. Any process may run a job during a cycle of another: more than the single
  locked worker does, so every safety result covers it. `Look` merges two unlocked reads:
  what they find is asked again, under a lock, by every later write. A wait for a job that
  the interruption of a campaign deletes becomes null, as the foreign key says.
* **ProcessingPipeline** (sizes in **PipelinePools**) – one call of
  `runSplitProcessingPipeline`: the refusal of a
  block longer than the buffer, consultation loops that take the items in turn, persistence
  loops that park when nothing is buffered, the wake-ups, the end of the consultations, the failure of a write, and the promise.
  JavaScript runs a loop from one `await` to the next without interruption, and an
  action of the module is such a stretch.
* **InstallmentAnalysis** – pure operators: what `analysis.ts` makes of the pages of a
  history (state and balance of each installment, the target, the totals) and
  what the triggers make of the history they stored. Amounts are cents.
* **ErpConsultation** – `listAllMensalidades` page by page, with its checks of the metadata of a page,
  retries, and incomplete paginations, while the ERP changes the history; then the answer. `witnessed`
  is every history that was true during the call: `AnswerWasTrue` compares with it.
* **CanonicalInstallment** – one canonical row, its links and the loops that consult for
  them. A transaction of a result is `Begin` (its `now()`) and `Persist` (from the lock of
  the row to the commit). The order of timestamps is the only thing the guards against late
  answers see, and is what the state keeps of them (`older`, `before`, `ahead`, `outrun`).
* **SyncPanel** – one tab with the panel of the synchronization: requests and answers of
  discovery, refresh, preview and start, effects and their cleanups, timers, the
  visibility of the tab, and the event stream with its reconnections. The server's run
  moves by itself.
* **ManualPanel** – the requests for selected associates and their panel: what it discovers,
  the progress and the changes it asks for, each ignored when another request is shown.
  **ProgressPanel** – the panel of a batch, which polls without waiting for its answers.
  **ProcessingIndicator** – the indicator of every page, which has no timer; a snapshot is two
  queries, and the errors of a run are a second request while the dialog is open.
* **FilteredList** – a list that is read again whenever a filter or the page changes,
  with the cleanup of the effect that asked before; count and rows are two queries.
  **AssociatesList** adds the selection and the two bulk requests of associates.
* **Dispatches** – registration and reversal: the transaction read by read, the
  unique key, deliveries that are repeated, answers that are lost.
* **Scheduler** – the round of the worker, the end of a run, and the settings, each cut
  at the statements between which another transaction is visible; the lock of the
  scheduler's row is what orders them.
* **CampaignImport** – the transaction of `importar-v2` statement by statement (name lock,
  batch, canonical rows in the order of the file, links, totals), renaming, removal and
  deletion, with the rows each holds until its commit.
* **ReceiptDetails** – the canonical installment with one more column, the description of its receipt, which
  another trigger of the same transaction writes (`capture_member_installment_target_details_v1`).
* **BatchTotals** – the counters of the batches at READ COMMITTED: a statement counts (`CountBatch`, `CountCycle`,
  `CountRemoval`), waits for the row and writes what it had counted. A transaction keeps the row until it
  commits, so a count is public when it is written, while its links are seen by others at the commit (`Seen`).
* **Figures** – the queries of the screens over the state of `BatchTotals`, each as the query selects, joins and groups.
  Answers are unpaid, paid, paid in part, agreed and excluded; installments may have no type.
* **PaymentReport** – the report of payment punctuality: the queries of `payment-punctuality.ts` over installments, their
  links and receipts, and the form of the page, whose address keeps the filters.
* **ProcessingConfig** – the configuration that each process caches for a time, the statements that save a preset or
  the two numbers, and the page of the administrator.
* The **...Proofs** modules extend the module they are about and hold its theorems (section 4);
  `CampaignImportProofs` and `ProcessingPipelineProofs` are instantiated by `MCOperators` and `MCConsultation` in place of the
  component, whose definitions they extend, so that `MCOperatorsProofs` and `MCConsultationProofs` can cite them.
  `MCConsultationProofs` also holds the proofs about `CanonicalInstallment`, which `MCConsultation` extends; `MCFiguresProofs` and
  `MCScreensProofs` are about `MCFigures` and `MCScreens`.
* **MCConsultation**, **MCOperators**, **MCFigures** – several components that share no state are
  instantiated side by side; in a behavior one of them moves and the others are at rest. The
  parts do not interact, so this is the union of the separate state spaces, not their product.

## 3. What TLC checks

| Run | Module, instance | Shows |
|---|---|---|
| `queue_safety` | ProcessingQueue: 2 links of one member and batch, 2 processes, 2 jobs, all 13 kinds of request (2 of them), 1 crash or failure, ERP answers unpaid/paid, 2 attempts | claims are whole, ledgers add up, confirmed payments never fail, claims stay in scope, owners know their work; successes are results; waves close drained |
| `claims_figures` | MCFigures: the queue with the locked process and one unlocked call, 1 request of any kind, 1 crash; the counters of 2 batches with 2 installments, 2 loops, 2 cycles, 1 removal or reopening; the report of punctuality with 2 installments, 6 addresses, 2 moves | refinement of ClaimProtocol; the cycle's own count is true; the screens agree with each other, but for the residuals of links paid in part and the installments without a type (`FiguresAgree`); the report means what its reference function says and its form what its page shows |
| `queue_liveness` | 1 link, 1 process, full synchronization, member, pause, stop, interruption, resume (4 of them), 1 crash | a stop survives recoveries, releases and merges; jobs follow their lifecycle, but for the late write of a resume; every claim is released; every queued or running job ends or is paused |
| `sync_safety` | GeneralSync: the locked process and one cycle outside the lock, 2 batches, 2 runs, 2 jobs, every kind of request but absorption (2 of them), leases that expire | one batch at a time and in order; late writes of a cycle that lost its claim neither reopen a run nor end it early; no cycle touches a manual job |
| `sync_liveness` | the locked process, 2 batches, 2 jobs, start, pause, resume, cancel, absorb, manual job (3 of them), 1 crash | a paused run has no job at work; every run settles or waits for an operator's job; a requested stop takes effect |
| `consultation` | MCConsultation: the ERP read page by page; the pools; one installment with 3 links and 2 loops | the answer was true during the call, totals count each installment once and the triggers store what it says (`AnswerAgrees`); the promise settles, drained; completed links mirror the canonical row, a confirmation stands, all mirrors converge |
| `screens` | MCScreens: the panel of the synchronization with 2 runs, one preview and one lost answer; 2 requests for selected associates with 2 jobs; a batch with one link that changes twice; the indicator with 2 runs and 2 changes; streams that end or are refused | one run per confirmed preview; no answer is shown for another request; each screen comes to show what the server has |
| `operators` | MCOperators: list of 2 associates, dispatches from 2 tabs, the scheduler, 2 operators who import, the cached configuration of 2 processes | the list follows its filters, one operation per request, completed links are not reprocessed, automatic starts are allowed, names are unique and links match their classification (`BatchesAgree`), nobody waits for ever, configurations are whole and no older than the cache |
| `exhausted_paid_member`, `orphan_job`, `batch_money`, `late_description` | the smallest instance of each | see section 6 |

**Bounds.** `MaxJobs`, `MaxRuns` (rows ever inserted), `MaxRequests`, `MaxCrashes` bound the
environment only; nothing in the worker or in a cycle is bounded. Two links are what the
settling trigger, the claim limit and the scope of a member job need to tell links
apart; two processes are what a stale owner needs; two jobs give a manual and a
dashboard job, or a member and a batch job, over the same link. `MaxAttempts = 2` has a
retry and a last attempt, `StaleLimit = 3` is the constant of the code. One crash and an
unbounded number of expired leases and old heartbeats already give every kind of lost
owner. Two requests of any kind, or four of those that queue, stop and resume one job, are the
interesting sequences: a resume that overwrites a cancellation takes four (member, pause, resume, stop), and so does one that overwrites
a running row (member, pause, and two resumes, of which one is late), with `"full sync"` for a dashboard job beside them. `"process"` and `"reprocess errors"` are left
to `queue_safety`, because with them this run takes too long. The proofs of section 4 have no such bound. For the synchronization two batches show the order and the step from one to the
next, and three requests are start, pause and then resume or cancel, or start, a
manual job and a stop of the run that waits for it. Links and runs are symmetric in
`queue_safety` (no temporal property that is not an action property is checked there).

*Consultation.* The histories have up to four items of two codes (the target and another)
in five kinds (open, receipt below, above the value, no receipt, agreed) and pages of two,
so that an item can be read twice, missed, or be on a page that is one too many. `MaxChanges = 1`:
two opposite changes within one call leave the number of pages and items as they were, are noticed
by nobody, and do make the answer false. A block of four items is longer than the buffer of three
and is refused; one of three has more items than there are loops of a kind, so
that loops take, park and stop at each of the places where the code can. Three links and two loops
give a confirmation that overtakes an answer of another loop while a third link only mirrors;
`MaxRequests = 4` is an import of each link and a request on top.

*Panel.* Two runs are one that ends and one that starts behind the back of the panel; one preview
and one lost answer are a repeated confirmation.

*Operators.* Three filters (all, errors, one batch) over two links and pages of one row show an answer
that belongs to another filter and to another page. `MaxCalls = 1` request of the buttons at a
time and one link that somebody else reprocesses are what the bulk requests race with. Two tabs, two keys
and one repeated delivery give two transactions with the same key and two with different ones.
Two intervals and five minutes hold a run, its end, a change of the
interval and the next due time. Two operators with two batches, two names, two installments and three files (one in the
order of the other reversed, one with another classification), three requests in all, give two
imports that deadlock, disagree or take one name, and a third that finds what they left. Two processes, two
administrators and two saves over three ticks, with a cache that lives two, have a process that still uses what another one replaced.

*Counters and figures.* Two installments, each linked by two batches, and two loops are what a count needs
to miss: another loop's answer, for the batch of the job or for the other one. An installment is named by half its amount, so that every
sum tells which installments are in it and a payment in part leaves the other half. One of the two is unpaid, paid in part or excluded, the other unpaid,
paid or agreed (`EachTruth`), and either both have a type or one has none (`WithAndWithoutType`). Two cycles let one batch be worked on after the other, or again after a
removal or a reopening (`MaxFigureRequests = 1`); `batch_money` and `late_description` need neither.
The report has two installments, with and without a receipt, and six addresses: every filter alone, and the two that the form rewrites.

The type invariants of the queue, the synchronization and the canonical installment are proved (section 4) and not
checked again by the runs.

`OneBatchInOrder`, `PausedRunsAreQuiet` and `EndedRunsAreClosed` are checked where the code keeps
them. Absorption is left out of `sync_safety` because it sets the batch of an error to
running at once, whatever the position of the run: with it two batches may be at work. No run checks
`EndedRunsAreClosed` and `EndsAreFinal` with it: there the theorems `EndedAreClosed` and `EndsFinal` (section 4), which do not restrict the requests, are
all there is.
`PausedRunsAreQuiet` is checked of the locked process only: the late enqueue of a cycle outside
the lock may resume the paused job of a run (section 1, hazards).

**Fairness.** *Queue*: the timer starts the process again (WF on `Boot`: systemd
timer), each step of a call that is alive is eventually taken (WF on
`Cycle(r)`, not on its branches: which answer the ERP gives and which job is
claimed first are not assumed), and time passes (WF on the clock actions that the
recoveries wait for; not on `LeaseExpires`, which the restart does not need).
*Consultation*: a request to the ERP and a write that have begun settle (the HTTP client and the
pool have timeouts), a loop takes its next step, and a link whose loop is gone is
recovered. *Synchronization*: the process is started
again, its cycle goes on, an abandoned lease expires (WF); a process that comes and goes
finds a run to claim at some cycle (SF, because it may leave and start between two
cycles); a queued dashboard job starts (WF) and one that runs again and again ends or
is parked for its stop (SF, because a release may queue it again). The last two are what
`JobsEnd` says of the queue. Of manual jobs nothing is assumed: `exhausted_paid_member` shows
that they may never end, and a filtered job whose link failed with a timeout never does
(`local-processing-worker.ts:248`, a hazard without a property). *Panel*: the server handles
a request it has and answers or the answer is lost, timers fire, a stream ends after its lifetime and reconnects, an
operator who left comes back to the tab; nothing makes a run of the server move. Nothing is assumed of operators,
crashes or the ERP.

Deadlock is checked in `queue_safety`, `queue_liveness` and the runs of the synchronization, which never stop. Calls,
blocks, tabs, cycles and bounded requests of the others do stop; what must not stop there is stated as a
property (`Settles`, `MirrorsConverge`, `SomeoneGoesOn`).

## 4. What is proved

`ProcessingQueueProofs` proves, for all finite sets of links, all batches, runs,
limits and bounds, with the assumptions `LinksAssumption`, `LimitsAssumption` and
`BoundsAssumption` only:

* `TypeCorrect`, `ClaimsWhole`, `LeasesOwned`, `StopSurvives`, `LedgerAdds`,
  `ConfirmedSafe`, `OwnersKnow` – the invariants of the runs above (`LeasesAreOwned`, a running
  job names a worker, is stated by the theorem alone);
* `EndedStay` – the action property that nothing but the late write of a resume, and the worker that such a write left
  holding the row, revives an ended job, and nothing at all a dashboard job or a deleted one;
* `ClaimsRefined` – `Spec => ClaimsImplemented`.

The inductive invariant `IInv` is `RowsOK` (`LinkOK` of every link, `JobOK` of every job, `RunOK`
of every run, the types, and `OwnersKnowTheirWork`) and `ResumesOK`: a job that a resume has read and not yet
written exists and is manual. The latter is what keeps the late write away from dashboard jobs. `JobOK` lets a job that
a late resume has overwritten name a worker while it is queued, paused or completed (`Overwritable`), because the
worker that holds it can leave it in each of these. The invariants on the rows
are not inductive alone: that a release may free a job, or a result a link, needs to
know that the row names this run; and that a claim may overwrite the owner of a
pending link needs `ClaimsAreWhole` (a link that is not 'processing' has no owner).
`RunOK` says that a call has links in flight only after its claim, which the
refinement needs: the abstract `Claim` starts from an empty flight.

The argument has two layers. A step of anybody but a run on its own work rewrites
rows one by one, so what it does is stated once per row: `Draft` (a consistent row
before the trigger), `LinkFollows` and `JobFollows` (it keeps the invariants, takes no
claim, publishes nothing, revives nothing; a row under a late resume is apart, `OverwrittenRow`). Each operator of the model is a lemma about
one row, each action a lemma that its rows follow (`Requested`, `Housekeeping`), and
the invariant and the action properties follow from these relations. The steps of a run
on its own job and links are proved one action at a time.

`ProcessingPipelineProofs` proves the safety properties of the pipeline for pools of any
size and blocks of any length. The inductive invariant says that each item is in exactly
one place: not taken yet, with one consulter, once in the buffer, or handed to a
persister; `PersistsOnce` is then a consequence. `LoopsOK` adds that whoever left,
parked or stopped had a reason that still stands, from which `ParksForAReason` and
`SettlesDrained` follow.

`GeneralSyncProofs` proves, for any number of batches, runs, jobs and processes, with the
assumption `SyncAssumption` only, and with crashes, failing steps and leases that expire
at any time:

* `TypeCorrect`; `EndsFinal` – a run that has ended, or was asked to cancel, is not taken
  back by a cycle that read it before; `ManualUntouched` – no cycle writes to a job of
  the operators;
* `InOrder` – one batch at work and those before it ended, if `"absorb"` is not among
  `Requests`: an absorption queues the job of a batch again out of its turn, and the
  property is false with it.

The inductive invariant `IInv` says that a claim names a cycle at work on that run
(`ClaimsNameTheirCycle`: one claim, one writer), what a cycle remembers at each step, that
runs not started have no batches, and that attached jobs belong to the dashboard
(`ManualUntouched` follows from it). `OrderInv` adds what the choice of a batch still
guarantees when it is written several steps later: a cycle *that still has its claim*
finds no batch at work and those before its own ended (`ChosenInTurn`). A cycle that lost the
claim may find anything, which is why each write asks for it again. `Moves` is what the steps
of a cycle have in common and `Calm` what the steps of the others leave alone; the
invariant is proved from them where it does not depend on the single step.

`MCConsultationProofs` proves, of `CanonicalInstallment`, for any number of links and loops and any amounts, with
`CanonicalAssumption` and `ConfirmedIsFinal` (the ERP does not take back what it confirmed; it may go
from unpaid to any confirmation):

* `TypeCorrect`; `CompletedMirror` – a completed link shows the canonical row;
* `NoLateReversal` – an answer read before a confirmation and persisted after it does not reopen
  the installment.

The inductive invariant says that nobody has a confirmation the ERP did not give (`RowIsConfirmed`,
`AnswersAreConfirmed`, `LinksAreConfirmed`), what a loop holds at each step (`ClaimsProcess`,
`OpenHolds`, `LoopsHaveLinks`, `LinksHaveRow`), and what the timestamps know of an answer that is
late: a loop that holds its claim and read something unconfirmed has a claim older than the
confirmation that is stored (`LateIsOlder`), or than the transaction about to store it (`LateIsBefore`).
This is the argument for comparing `claimed_at` with `financial_observed_at` in migrations 026 (lines 126-138) and 031, and it needs the
lock of the canonical row between the two.


`ProcessingQueueProofs` goes on, from the same assumptions, with what the requests may do to a job while a worker
has it:

* `ScopeHolds` – what a run may still persist is inside the scope its job had when it was taken. The
  invariant added is `Scoped`: the job of a run is still there, its row reaches the member the run was given or all of them, a filtered
  run has the snapshot items of its links, and the batch of a job never changes. It holds because a merge of a request only widens a
  row, and the snapshot of a job loses no link while the job exists.
* `SuccessesCounted` – a success is counted in the transaction of the worker that holds both job and link and completes
  the link, once.
* `WavesDrained` – whoever completes the job of a whole batch leaves nothing to do in it. A link that is not claimed, not due and
  not waiting for a retry has no attempts left, and trigger 018 settles it in the statement that completes the
  job (`ReleaseDrains`).
* `LifecycleFollowed` – every step moves every job as `JobLifecycle` says, which is what `GeneralSync` assumes of
  its environment. The moves that a late resume adds (`OverwrittenMove`) are possible for manual jobs only and are stated apart: the write
  itself (`Overwrites`), and what the worker still does that holds the overwritten row (`LeavesOverwritten`). Only manual jobs have the tracking of a request (`Honest`), which the triggers ask for.

`GeneralSyncProofs` goes on with what becomes of the jobs of a run:

* `EndedAreClosed` – a run that has ended has no batch open, and no job of it is in the queue, with absorptions, cycles outside
  the lock, and crashes. The invariant `ClosedInv` says why nothing can start such a job again: one run is at work at a time
  (`OneActiveRun`); no run at work has a job that an ended run had for the same batch (`EndedRunsKeepTheirJobs`), and no cycle that
  holds the claim is about to attach one (`AttachesNoOldJob`), which holds because the enqueue takes an active job of the batch and
  the job of an ended batch is not active (`EndedRowsAreQuiet`); a batch that is not at work and has not ended never had a job
  (`OpenRowsHaveNoJob`), and a job stays with its batch (`JobsInPlace`). Only an absorption revives a job (`JobGoes`), and
  only of a run that is queued or running. `RunGoes` and `RowGoes` are what one step makes of a run and of a row.
* `PausedAreQuiet` – with `FreeWorkers = {}` (every cycle under the advisory lock, as in the process of the worker), no job of a paused run is
  queued or running. `MainHolds` is added: the only cycle keeps its claim while it is at work, and the run of a batch it has
  chosen cannot be paused meanwhile, because only that cycle pauses. Without the assumption a cycle that lost its claim can enqueue
  again the paused job of a batch, and the property is false.

`MCFiguresProofs` proves `CyclesCountTrue` (`OwnTotalsAreTrue`) of the counters of the batches. Nothing is assumed of the constants. A transaction that
is open is on a link of the batch of the cycle which is processing until it commits (`OpenLinks`), so that a cycle that finds no link processing has no loop
left; and nobody but an operator then changes a link of its batch (`CountStands`). What the counters add up is not expanded.

`CampaignImportProofs` proves `ImportsAgree`, for any files, operators, campaigns, batches and
installments. The invariant says what an open import can rely on until its commit: its lines are locked, nobody else has the same
(`Apart`), a new batch has an identifier and a name of its own (`StartOK`: the advisory lock and the
guard of migration 028), and the rows it holds keep an old batch from being deleted (`TargetOK`).

`MCOperatorsProofs` proves safety properties of the operators' components, each about its own part of `OperatorsSpec` and lifted
to the whole, because a step of one part leaves the others at rest. Its assumptions are `OperatorsAssumption` (the repetitions are
counted, intervals are numbers), `ConfigAssumption` (presets are complete and within the bounds of the fields, as in
`processing-presets.ts`) and those the components declare.

* `RequestsAreCarriedOutOnce` – `OpenAlone`: the transactions that are open have different keys and none that
  is committed, which is the unique index; two deliveries of one confirmation may overlap otherwise.
* `AutomaticStartsAreAllowed` – `RowAsRead`: what the round has read of the scheduler's row is what the row says while
  the round has it locked.
* `ListIsOfItsFilters` – `RequestsAreOfScreen`: a request that was not aborted asks for what the screen shows.
* `CompletedLinksStay` – only `SelectedArrives` queues links of any status again.
* `ConfigurationsAreCurrent` – `CachesKnown`, `SavesKnown`, `PageKnown`: each value that is held, or that a save is about to
  put in the cache, is a row in force since the time it was read, as a whole.
* `CampaignBatchesAgree` – `ImportsAgree` beside the other parts.

`MCConsultationProofs` also lifts the invariant of the pipeline to `MCConsultation` (`BlocksAreDrained`). `MCScreensProofs` proves
`ConfirmationsStartOneRun` (the key of a request is looked up in the transaction that inserts the run) and
`ChangesBelongToTheScreen` (an answer with changes that is on its way is for the request that is shown), with
`PreviewsAssumption`.
## 5. Only model-checked

`AnswerAgrees` of `ErpConsultation`, `FiguresAgree` and `ReportAgrees`: these add up
sequences and sets of any length with folds, and what a fold computes is an induction over data. `AnswerWasTrue` is no
theorem: it is false when two opposite changes of the history fall within one call (section 3), and is checked for one.
`EndedWavesAreSilent` is refuted by a run. `PanelsFollow` and `ScreensSettle` of the screens,
`ClaimsEnd`, `JobsEnd`, `Settles`, `MirrorsConverge`, `RunsSettle` and `StopsTake` are liveness properties, which are out
of the reach of the proof system. `SomeoneGoesOn` uses ENABLED.

That only a late resume revives an ended job (`EndedStay`) is about the queue and its requests. The absorption of errors by an
active run (`dashboard-error-absorption.ts:109-127`) revives an ended dashboard job on
purpose; it is a request of `GeneralSync`.

## 6. Disagreements between code and documentation

Each is the counterexample of one run.

* `exhausted_paid_member` – migration 018 promises that a link without attempts left
  does not stay out of the closing of a wave; its trigger skips paid links, which a
  member job does claim. A crash on the last attempt of such a link leaves it
  `retrying`, and its job in the queue, for ever.
* `orphan_job` – the advance enqueues the job of a batch in one transaction and attaches
  it to the run in the next. A cancellation between the reading of the run and the
  enqueue is noticed only by the attachment: the run ends as cancelled, and a dashboard
  job it does not know consults the batch all the same.
* `batch_money` – the trigger that counts a batch (`recalculate_batch_totals`) is one UPDATE: it counts what is
  committed when it begins, waits for the row, and writes what it had counted. Two loops that answer two
  installments of *another* batch (one of those that mirror them) leave it with the money of one of them; the end of the cycle counts only the batch
  of its job. The migration says that the money of a batch comes from the canonical installments.
* `late_description` – the capture of a result refuses an answer that is late, but the trigger that copies the
  description of the receipt to the canonical row does not: a confirmed installment is described as open,
  and the receipts, the Pix and the summary, which go by the description, leave its money out.

*The resume of a batch.* `retomar` (`api/lotes/[id]/retomar/route.ts:29-49`) reads the latest paused job in a CTE that locks nothing
and updates on `pj.id = target.id` alone. Under READ COMMITTED the UPDATE waits for a transaction that has changed the row meanwhile and
tests again only the id. `ReadPaused` and `WriteResumed` are the two halves. No document denies what follows, and the properties say it:

* a job that was cancelled, completed or failed between the two is queued again and its stop is forgotten
  (`NeverRevived`, `JobsMove`: `Overwrites`). Only manual jobs, and not one that the interruption of a campaign has deleted;
* when another resume and a worker came between, the row of a running job becomes `queued` with `locked_by` of the worker that runs it
  (`LeasesAreOwned`, the history field `late`). That worker does not find out: it may release, finalize or fail the job
  while it waits, and put it back in the queue when an enqueue has found nothing left to do and completed it meanwhile (`LeavesOverwritten`).

What is written to links, scopes and ledgers stays consistent all the same: the other invariants of the queue hold with it.

*The figures.* The page of a batch sums `total_pending_amount_cents` of all its links (`campaign-detail-read.ts:231`), the page of the
campaign, the list and the dashboard only what is `unpaid` (`:139-141`). A payment in part is `paid` and keeps its residual, so the page of the
batch shows more: `PagesAgree` says that it is exactly the residuals. An installment with the truth `excluded` is
counted in no card, so that paid, unpaid and agreed do not add up to the installments of a finished campaign: `AnswersCover` says that the difference is
the excluded ones. An installment that migration 029 left without a type is in none of the cards of the summary, which
are therefore less than those of the dashboard by it (`SummaryAgrees`).

Behaviour that follows from the code, that no document denies, and that the models show when the property
named is checked: two removals or imports into one batch leave a total without one of them
(`TotalsCount`; nothing counts again until the batch is processed); an operator who confirms a
registration of dispatches again after a lost answer registers it twice (`RetriesCountOnce`); the answer of "select all
filtered" after a change of the filter selects what the screen does not show (`SelectionFollowsFilters`); a
list whose result shrinks shows an empty page (`LabelNamesTheRows`); the end of a run overtaken by a change
of the interval writes the old interval over the new one (`StartsKeepInterval` of `Scheduler`). A server that is stopping refuses a reconnection of the
event stream with 503, which an `EventSource` does not retry, and a tab that shows no run has no timer of its
own: it does not see a run that starts later (`RunIsAlwaysFound` of `SyncPanel`), although the comment at `events/route.ts:129` expects the
stream to reconnect. `PanelsFollow` is checked with the tab that is shown again. In the indicator of every page the errors of the run
before stay under "Tratativa de erros desta onda" of a new run until its own load is answered, because only an answer without a run clears
them (`ReplayIsOfShownRun` of `ProcessingIndicator`). Migration 017 calls a row with 50 and 50 `agressivo`, whose preset is 60 and
60 (`processing-presets.ts:49`): until it is saved again, the page shows a profile that is not the configuration at work.

## 7. Not modelled, and what is left

Authentication (session tokens and hashes), the legacy Supabase
processing (not reached by the production process), spreadsheets, and the screens that show what the server
renders (reasons in `PROJECT.json`). Of the figures, percentages, dates, details and the dispatches of the summary are left out. Whole campaigns and batches that are deleted are in `CampaignImport`, their
effect on jobs and runs at work is not; the queue has the deletion of a link. In `GeneralSync` the counters of a run, its events,
the preview and the difference between `completed` and `completed_with_errors` are left out. The column `status` of a
campaign, the older import route and members (never deleted) are left out of `CampaignImport`. Nobody
passes an abort signal to the ERP client. The technical user of the scheduler is valid.

Left for later: proofs of the parts of `ErpConsultation` that do not add up; the snapshot items of absorbed errors and of an error
run.
