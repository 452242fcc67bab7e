# Verification of the execution service

TLA+ models of the job queue scheduler: a service that takes code submissions
over HTTP, queues them in PostgreSQL, runs each in a Kubernetes pod, stores the
grade and posts it to a callback URL. TLC checks the models on small instances;
TLAPS proves what matters most for every instance. Paths below are relative to
`src/execution-service/app/services/` unless they say otherwise.

## 1. Inventory

The deployment (`src/infra/api-dispatcher-deployment.yaml`) is one pod with two
processes that share the database and a volume: the API (`ENABLE_DISPATCHER=false`)
and the dispatcher (`node ace.js dispatcher:run`). Both boot the same providers,
so both run the callback timer and the sweep and cleanup timers.

| component | state it keeps | operations | talks to |
|---|---|---|---|
| job lifecycle (`job_lifecycle_service.ts`) | rows of `jobs`, `job_results`, the counter and average of `image_configs` | submitJob, cancelJob, markCompleted, markFailed, queries | file service; starts a callback |
| scheduler (`strategies/hrrn_strategy.ts`) | none | dequeueNext: one UPDATE with SKIP LOCKED | `jobs` |
| dispatcher (`dispatcher_service.ts`) | `running`, `inflight`, the loop | start, stop, runIteration, runJob | scheduler, lifecycle, files, Kubernetes |
| Kubernetes service (`k8s_service.ts`) | none; objects named after the job id | createGradingJob, waitForJobCompletion, deleteJob, getActiveJobCount | cluster |
| file service (`file_service.ts`) | `input/`, `output/` of each job, payload directories | store, prepare, read results, extract payload, remove | volume |
| stuck-job sweep (`timeout_service.ts`) | a list, while it runs | detectStuckJobs | lifecycle |
| cleanup (`cleanup_service.ts`) | a list, while it runs | cleanupOldJobs, cleanupOrphanedFiles, cleanupOrphanedPayloads (never called) | `jobs`, files |
| callbacks (`callback_service.ts`) | `callback_log`, `jobs.result_delivered` | deliverResult, retryPendingCallbacks | receiver |
| configuration (`image_config_service.ts`, `config_controller.ts`) | `image_configs`, `system_settings` | create, update, disable | read at use by the others |
| queue reports (`queue_service.ts`, getQueuePosition) | none | counts and positions, several queries each | `jobs` |
| payload download (`jobs_controller.ts`) | none | find job, result, file; stream | `jobs`, files |
| HTTP validation, authentication, metrics | none of the above | validation, read-only aggregates | lifecycle |

What is hard here: nearly every write is *read a row, await, save the row*, with
no condition on what is overwritten and no lock; a job can have several actors
at once (a run, the run the sweep started after giving up on the first, the
sweeps of two processes, a cancellation, retention); and files, cluster objects
and rows are changed by separate steps that can each fail or be cut off by a
crash. `PROJECT.json` lists these hazards line by line.

What makes each part correct:

- lifecycle: no grade is lost, duplicated or shown without its result; the
  statistics count each graded job once; every job comes to an end; a status is
  not overwritten by a decision made on an older one;
- dispatcher: capacity, no job lost by a shutdown, progress of the queue;
- callbacks: a log that agrees with `result_delivered`, nothing marked
  delivered that was not received, a budget of attempts, an end;
- files: the submission of a waiting job is on disk, a payload that a result
  names is there, nothing is left for ever;
- queue: the order of the claims is fair and the reports agree with it, no
  estimate is 0, the statistics of an image survive edits of its row.

## 2. Modules

    GradeLedger  <-- refines --  JobLifecycle  <-- extends, implements --  GradingRun
                                      ^                                     ^
                                      |  extends                            |  extends
                               JobLifecycleProofs  <----- extends -----  GradingProofs
    JobRecord  <-- refines --  JobLifecycle,   JobRecord  <-- extends --  JobRecordProofs
    JobRecord  <-- refines --  SubmissionFiles  <-- extends --  FilesProofs
    CallbackContract  <-- refines --  CallbackDelivery  <-- extends --  CallbackProofs
    JobQueue  <-- extends --  JobQueueProofs
    DispatcherLoop  <-- extends --  DispatcherProofs

**JobLifecycle** is the core: the rows of `jobs` and `job_results`, the counter
`total_completed_jobs`, the submission directories and, for each caller, the
call it is in the middle of. A call is split at the awaits where another caller
can intervene: `markFailed` is `FailRead` (find, test, load the image
configuration) and `FailSave`; `cancelJob` is `CancelRead`, `CancelSave`,
`CancelPurge`; `submitJob` has seven steps with its catch block. The frame of a
call holds the snapshot the row had when it was read. This matters, because
Lucid's `save()` updates the columns that differ from the snapshot: a stale save
writes `retry_count = snapshot + 1` but may leave `status` or `started_at` as
another caller wrote them. `Requeued` and `Failed` model exactly that.
`CompleteCommit` is one step because it is one transaction; `CanCommit` is the
unique key and the foreign key of `job_results`, without which the check in
`markCompleted` would be worth nothing. Time is three values of `started`
(null, recent, past timeout and grace).

**GradingRun** adds the callers the system really has: dispatcher slots that go
through `runJob` await by await, the sweep with its stale list, API requests;
and what they share: the Kubernetes object, named after the job id alone, the
output directory and the payload directory. The cluster is external and modelled
by how the code uses it. Either process may crash at any step.

**DispatcherLoop** is `start`, `runLoop`, `runIteration` and `stop` on Node's
single thread: what lies between two awaits is one step. A `dispatcher:run`
process has two SIGTERM handlers that call `stop()`, a serving process one. Each
turn reads `max_concurrent_jobs` and the pods of the cluster afresh: what it is
`Told` is any value an operator may have set by then and the pods that are active
(`Listed`, those a former process left behind included), or the default of
`getMaxConcurrentJobs` in place of the setting, or no pods at all when the cluster
does not answer. `loop.sure` is history only: it remembers that neither of the two
stand-ins was used and, up to the check, that no pod was missed by the answer.

**SubmissionFiles** is the volume: for each job the directory with its input and
output, and the payload directory, and every actor that makes, fills, moves or
removes one. `Submit` goes through `storeSubmissionFiles` file by file with its
catch block and that of `submitJob`; `RunJob` through `prepareOutputDirectory`,
`readResults`, `extractPayloadFile`, the commit and both clean-ups; `Sweep` is
`cleanupOrphanedFiles` in its four steps (list, query, list again, remove);
`Retain` is `cleanupOldJobs`, rows first; `Download` is the three reads of
`GET /jobs/:id/payload`. `past` is history only: which jobs were given up by
someone (`released`), had their directory made between the two listings of a
sweep or had ended when a sweep asked which jobs are active (`exposed`), or were
claimed while another run or result of them existed (`contested`). The safety properties name these sets as their exceptions, so
they say exactly in which situations the code does lose files.

**JobQueue** is the queue as clients see it: image configurations that
administrators edit while completions update the same rows (`Saved` writes only
the columns that differ from the row as read, as `save()` does), the estimate a
job is admitted with, the order of the claims and the reports. An average
is the fraction that the UPDATE computes, an estimate the fraction it is copied
from (`Seconds`), so no runtime has to divide evenly; the rounding of a double is
left out. The HRRN score (age + estimate) / estimate is compared by cross
products (`Outranks`). `Touched`
are the rows that another statement may be writing at the moment of a claim,
which SKIP LOCKED passes over: those of a request in flight and those of a run
the stuck-job sweep gave up, which goes on (`stray`).

**CallbackDelivery** is `deliverResult` in three steps (find, POST, the
transaction under the row lock) executed by the delivery `markCompleted` starts
and forgets and by the retry loop of each process.

**GradeLedger**, **JobRecord** and **CallbackContract** are the abstract
specifications: a job is graded at most once and counted in the same step; to a
client that polls, a status may go back and forth, but a job becomes completed
once and in the step that grades it, and a deleted one does not reappear;
attempts are recorded one by one and the first that succeeds is the last.
`JobLifecycle` and `SubmissionFiles` describe the same rows for different
purposes, one with every stale save and no volume, one with the volume and few
stale saves; both implement `JobRecord`, which is what they agree on. Operators named after a defect
(`MayRetryOnceMore`, `AbortKeepingSave` ...) are mutants: each is a plausible bug
of the definition below it, used to see that a property notices it.

## 3. Runs

| run | instance | shows |
|---|---|---|
| `lifecycle` | 1 job, 3 symmetric callers, max_retries 1 | no interleaving of any calls leaves a completed job without a result, counts a grade twice, loses `completed_at`, breaks the life of a job without a stale read, or does anything the ledger or the record does not allow |
| `grading` | 1 job, 1 slot, 1 sweep, 1 client, payloads | a run, the sweep, a cancellation and the calls of an earlier run overlap; nothing is graded that was not uploaded although a job can be claimed before its upload, the composition implements `JobLifecycle`, and every submitted job settles |
| `callback` | 1 job, 1 immediate delivery, 2 retry loops, budget 3 | log, marker, budget + 1 per retry loop, contract, conclusion |
| `dispatcher` | 3 jobs, a limit of 1 or 2 that changes, 1 or 2 handlers | no claim past the setting that one of three named events does not excuse, the end of a shutdown, progress, at most one job left behind by one handler |
| `files` | 1 job of 2 files, max_retries 1, 1 request, 1 run slot, the timers of 1 process, 1 download | submissions and payloads stay while they are needed, `PAYLOAD_DELETED` is said only of deleted jobs, the record is kept, every directory goes |
| `queue` | 2 symmetric jobs, 1 image, estimates 1 and 2, runtimes 0 and 3, clock to 3, 1 client, 1 administrator, 1 reader | positive estimates, exact averages, fair order, agreeing positions, complete status |
| `cancel_race`, `completed_reverted`, `retry_without_files`, `pods_over_maximum`, `lost_at_shutdown` | as above, smaller | what the documents say and the code does not do (section 6) |
| `stranded_job` | 1 job, 1 slot, the sweeps of 2 processes, 1 client, max_retries 3 | an abandoned job that no sweep finds (section 6) |

**Bounds.** One job is enough for the lifecycle, grading and callback runs: rows
of different jobs share only the completion counter, which the proofs cover for
every set of jobs, and a stale list is as stale with one job. Three callers allow
the pattern behind all the races here: one call's read, the whole of a second
one and of a third, then the first one's save. `max_retries` 1 has both branches
of `markFailed` and a second run. With one slot and one sweep, the run that follows
a requeue still meets the calls and the cluster object of the one before; what two
runs in two slots do to each other is covered by the proofs, which hold for every
number of slots. One sweep and one retry are too few to forget a job, which
`stranded_job` does; its instance is too large for liveness (7 million states), so
`EveryJobSettles` has the forgotten job as an exception that only `stranded_job`
reaches. Three
jobs with room for one or two make a process full, nearly full, empty and, after
the limit was lowered, over it. One job is enough for the files, since no path is
shared by two jobs; two files tell a whole submission from a part of one. With
one slot two runs of a job still overlap in their effects: the stuck-job sweep
puts the job back while its run goes on. Two jobs are enough for the order, every
part of which is a statement about pairs; the proofs cover queues of any length.
The runtimes 0 and 3 make the averages 0, 3/2 and 3 for the two completions the
instance has: one that no estimate may be taken from, and one that is no integer. Callers,
slots and retry loops are symmetric sets; no symmetry is used where liveness is
checked except by the way the set is small. `CHECK_DEADLOCK FALSE` because the
systems stop when every job is done (ids are not reused) or the process is down.

**Fairness.** `grading`: a running dispatcher polls the queue and drives its
runs, every await of a run has a deadline, time passes; the sweep's interval
fires for ever, and its steps are strongly fair because its calls may throw and
its process restart, but not each time at the same await. Clients, the cluster
and crashes are not fair. `callback`: the retry timers fire for ever, with strong
fairness of the steps of a retry for the same reason; the immediate delivery is
not fair, since a crash may forget it. `dispatcher`: the loop's awaits return,
claims do not fail for ever (strong fairness of `LoopClaim`), a run ends by the hard deadline of
`waitForJobCompletion`, a pod by `activeDeadlineSeconds`, `stop()` goes on and its
deadline passes; nobody has to call it. `files`: the cleanup timer fires for ever
(`scheduler_provider.ts:53-58`); the steps of a sweep are strongly fair, because
each may throw and its process restart, but not at the same await every time; a
directory that can never be removed is thereby excluded, and with it the sweep
that throws at it (`file_service.ts:870-877`). Runs, requests, retention and
crashes are not fair. `queue` states no liveness.

## 4. Proofs

`JobLifecycleProofs` proves, for every finite set of jobs, every set of callers
and every natural `max_retries` (the assumptions `JobsAssumption` and
`MaxRetriesAssumption`, which TLC evaluates in the runs), that `Spec` implies
`[]TypeOK`, `[]CompletedHasResult`, `[]CountedOnce`, `[]FinishedRowsExpire`,
`OverwritesAreStale`, `LedgerSpec` and `RecordSpec`.

The properties are not inductive by themselves. A deletion keeps
`CompletedHasResult` and a creation keeps `CountedOnce` only because results
belong to rows that exist and a purged result to a row that is gone for good;
this is `ResultsHaveJobs`, and `Inv` is the conjunction. The argument has three
layers: lemmas on what an UPDATE, a DELETE and a commit do to the tables
(`RowsUpdated`, `RowsDeleted`, `RowsCommitted`), one lemma per service call that
its steps preserve `Inv`, and `InvNext`. The heart of `markFailed`'s case is that
a stale save can only make a row `completed` if it already was, and never takes
`completed_at` away. The refinement follows from the same lemmas: only a commit is
a step of the ledger. For the record (`ImplementsRecord`) each way to write the
tables is mapped to one of its steps (`RecordCreated`, `RecordUpdated`,
`RecordDeleted`), and `RecordFailed` shows that what `markFailed` saves, whatever
the row is by then, is an `Overwrite` or nothing. `StaleOverwrites` bounds the
findings 1 and 2: a status changes in a way that the service's checks rule out
only if its caller had read another status than the one it overwrites, so that
saves conditional on the status read would be enough. Its invariant is
`Checked`, that a call about to save has read what its check lets pass.
`TypeCorrect` includes that `retry_count` never exceeds
`max_retries`, whatever overlaps.

`JobRecordProofs` proves, for any set of jobs, what `JobRecord` and with it its two
implementations promise (`AnswersStay`): a job that is completed has its result,
becomes completed at most once, loses the result only by its deletion, and stays
deleted. Its invariant `RecordInv` is inductive; the weight is in the refinements.

`JobQueueProofs` proves, for any sets of images and requests, any finite set of
jobs, any positive defaults and any natural runtimes (`JobsAssumption`,
`RuntimesAssumption`, `BoundsAssumption`), that `JobQueue` implies:

- `QueueTypeCorrect`: `[]TypeOK`. The inductive core is that an estimate is
  positive from the check in `submitJob` on: it travels through the frame of the
  request into the row, and neither edits of the image nor completions write it.
- `FairOrder`: `NoUnfairOvertaking`. `LongerWaitLowerRank` is the arithmetic: a
  job that waited longer than another and does not outrank it, by the cross
  product of positive estimates, is expected to take more time than the other.
- `StatusIsComplete`: `StatusMissesNoJob`, by one more invariant,
  `UncountedGoOn`: what the first query did not count is processing or gone,
  unless a requeue takes it out of the set. With the queries swapped it fails,
  which is what the mutant shows.
- `MeanIsExact`: `[]AverageIsMean`. `MeanExtended` is the arithmetic of the
  UPDATE, and a save keeps the statistics because it writes the columns that
  differ from the row as read (`SaveKeepsStatistics`). What makes it inductive is
  that jobs refer to images that were created, and nothing was counted for one
  that was not (`UsedImagesAreMade`).
- `PositionsMatch`: `[]PositionsAgree`, the count of the jobs ahead against the
  place in a sorted list. `PlaceInListing` counts the entries before place k: the
  jobs that outrank the one at k are all among them, and none that it outranks.
- `QueueIsOrdered`: the score is a strict weak order (`OutranksOrders`, by
  `RatiosInOrder`), hence a finite set of jobs that is not empty has one that
  none outranks and a list in that order. So a claim succeeds unless every
  pending row is locked, and what `PositionsMatch` says of every list is said of
  some. The existence of the list is an induction over sets; it is done by a
  minimal counterexample under the well-founded order of finite subsets, since
  the induction theorems of the library cannot be instantiated.

`CallbackProofs` proves, for every set of jobs and of deliveries, any finite set
of retry loops and any positive budget (`UrlsAssumption`,
`DeliverersAssumption`, `MaxAttemptsAssumption`), that `Spec` implies
`[]TypeOK`, `[]LogIsNumbered`, `[]DeliveredByLastAttempt`,
`[]DeliveredWasReceived`, `[]AttemptsNearBudget` and `ContractSpec`. Only the
transaction under the row lock writes the log and the marker, so the first three
are inductive together (`LogInv`); the fourth needs one fact about the frames
(`SuccessWasReceived`), since the success that is recorded was seen before the
lock was taken. The budget has an invariant of its own, `BudgetInv`: the attempts
on record, the retry loops that hold the job in their list or in hand (`Held`) and
the immediate delivery, as long as nothing is on record, are together at most
the budget plus the number of loops. What makes it inductive is that a loop takes
a job into its list only while the log is below the budget, and holds it once
(`HandledOnce`).

`DispatcherProofs` proves, for any finite set of jobs and any positive limits
(`JobsAssumption`, `LimitsAssumption`), that `Spec` implies `[]TypeOK`,
`ClaimsWithinMaximum`, `[]StopEndsLoop` and `[]LeavesAtMostOne`. Until the
check every active pod is among those the cluster listed or has its run in flight;
the code adds both numbers, which is at least the size of their union
(`CheckLeavesRoom`), and from the check to the claim that union only becomes smaller,
since pods start for jobs in flight only (`RoomChecked`). At most one job is claimed and not yet in flight, at
the fork (`ClaimedAtFork`). `Drains` is what a `stop()` that has stopped waiting
for the jobs knows: the iteration that was under way may still claim one, and
none follows it because `running` stays false (`Phases`).

`GradingProofs` proves of the composition, for any sets of slots, sweeps and
requests that make up the callers (`CallersAssumption`, `ArtifactsAssumption` and
those of `JobLifecycle`), that `RunSpec` implies `Spec` of `JobLifecycle`
(`ImplementsLifecycle`): each step of a run, a sweep, a request or the cluster is
one step of the lifecycle or leaves its tables alone, and a crash is a crash of
callers. Hence the theorems of `JobLifecycleProofs` hold of the composition
(`GradingImplementsLedger`, `GradingImplementsRecord`). `[]RunTypeOK` and `[]GradedWasUploaded` need an
invariant of their own: a row whose upload is on record keeps that fact or is
deleted (`Kept`), a run that loaded such a row goes on with it
(`MountedWasUploaded`) although the row is changed behind its back, and a result
comes only from such a run (`ResultWasUploaded`). `ForgottenForGood` says of what
`stranded_job` reaches that it is final: a job that is processing without a start, by
no run and in no call or list, stays so, since every action asks for one of these.

`FilesProofs` proves, for any sets of jobs and actors, any `max_retries` and
submissions of any positive size (`RetriesAssumption`, `PartsAssumption`), that
`Spec` of `SubmissionFiles` implies `[]TypeOK`, `[]SubmissionIsWhole`,
`[]RecordedPayloadIsThere`, `DeletedPayloadIsGone` and `RecordSpec`. The invariant says what
every actor has read and still relies on. For the submissions (`FilesInv`): a job
is `Live` until it is deleted if nobody gave it up and no sweep exposed it, also
after it ended, because a stale save may put it back into the queue; a live job has one
request that uploads (`Submitters`), the files stored and those to be stored make
up the submission (`Uploads`), a run mounts what is there (`RunsMount`), a sweep
that saw the directory of a live job in its first listing spares it
(`SweepsSpare`; one that finds the job ended when it asks exposes it), and retention removes files of deleted rows only (`RowsFirst`).
The argument needs just eight ways to write a row (`RowMoves`) and four to write
to a directory (`DirMoves`), and that a step never makes a job live that was not
(`RowsGo`), whatever a stale `markFailed` does to its status. For the payloads
(`PayloadInv`): unless contested, a job has one run at a time and no result while
it is under way, and the file that run moved stays until the commit
(`RunsAlone`). The record follows from the same eight ways to write a row:
retention apart, a step writes one row at most (`OneRow`), and each of the ways is
a step of the record or none (`RecordOneRow`).

Every safety and action property that a passing run checks is proved, and every
refinement. Only model-checked is liveness, which is beyond the prover:
`EveryJobSettles`, `EveryCallbackConcludes`, `ShutdownEnds`, `PendingIsClaimed` and
`EveryDirectoryGoes`.

## 5. Abstractions and what is not modelled

- `max_retries` is a constant. The HRRN order of claims is left open (any pending
  job) in all modules but `JobQueue`; `worker_pod_name`, `error_message` and other
  columns that no guard reads are left out.
- The 30 days of `cleanupOldJobs` are "no call that was inside the service when
  the job ended is still inside".
- `GradingRun` leaves retention out and folds `prepareOutputDirectory` into the
  step that may throw. A pod may end with or without results at any moment.
- `DispatcherLoop`: a pending job stands also for one submitted later (the queue
  may look empty at any time); losing the database and exiting are one step.
- `CallbackDelivery` does not follow a job that a stale `markFailed` takes back
  from completed.
- An error of a commit means that it did not happen; a commit whose
  acknowledgement is lost is not modelled.
- `SubmissionFiles`: the files of a submission are interchangeable, so the
  directory has a count of them; a zip counts as its entries. Stale saves of rows
  are `JobLifecycle`'s matter: here only the stuck-job sweep acts on an old list.
  The early return of `cleanupOrphanedFiles` on an empty volume is left out, as
  other jobs have directories. Two sweeps of one process (`setInterval` does not
  wait) are not modelled. 30 days are `~Busy`, as above.
- `JobQueue`: tags are left out (the UNIQUE index refuses duplicates); so are
  `max_retries` and the limits of an image, which are read at the retry and at
  the start of a run. `submitted_at` and NOW() are the database's clock both.
  Averages and scores are exact fractions where the code has doubles. Rows of jobs that
  ended keep nothing that is read here. Each query sees one moment.
- Not modelled: the parsing of results.json, manifests, logs, HTTP validation
  and authentication, metrics and the averages of the queue status (pure I/O, or
  aggregates of one query each); `cleanupOrphanedPayloads`, which nothing calls,
  so that a payload directory whose row is deleted by a process that crashes
  before `cleanupPayload`, or whose run crashes before its commit, stays;
  `scheduler_strategy`, which the settings accept and the health endpoint reports
  but no scheduler reads (`src/docs/ARCHITECTURE.md:75` says it switches the
  algorithm at runtime; there is one).

## 6. Findings

Six runs expect a violation; the quotes are in `PROJECT.json`.

1. `cancel_race`: `cancelJob`'s save has no condition, so a job that was dequeued
   after the check is cancelled while it is graded (`src/tasks/task-09-job-lifecycle.md` promises 409).
2. `completed_reverted`: `markFailed` tests for completed on a stale row; the
   sweep can put a completed job back into the queue.
3. `retry_without_files`: `runJob` always removes the submission, so a retry has
   no input.
4. `stranded_job`: a job whose abandoned run is never found, because two saves of
   `markFailed` that overlap leave it processing without a start
   (`timeout_service.ts:13` looks for rows with one).
5. `pods_over_maximum`: a cluster that cannot be asked counts as empty and a
   setting that cannot be read as 10, so more pods run than `max_concurrent_jobs`,
   which `src/docs/DATABASE.md:155` calls their maximum.
6. `lost_at_shutdown`: the second of two SIGTERM handlers does not wait, and even
   one `stop()` waits for the jobs before the loop that can still claim one.

Divergences that no run shows, because a single assignment or a missing call
is behind them and no interleaving:

- `src/tasks/task-10-timeout-cleanup.md:28` has old cancelled jobs deleted, and
  `tests/unit/cleanup_service.spec.ts:76` tests it with a row whose `completed_at`
  the test sets; `cancelJob` does not, so the rows of cancelled jobs stay.
- `src/tasks/task-17-payload-file.md:260` wants `PAYLOAD_DELETED` for a payload that
  retention has removed. Retention removes the row first, so the download finds no
  job; `PAYLOAD_DELETED` is said only while a request is between the two, or of a
  contested job (`DeletedPayloadIsGone`).
- `src/tasks/task-17-payload-file.md:244/253` has payloads removed after the
  retention period; one whose row is gone or was never written stays (section 5).
- `src/docs/DATABASE.md:156` calls `callback_retry_max` the maximum of delivery
  attempts; each retry loop can add one (`AttemptsNearBudget`, which is exact).

## 7. Plan

Done: `JobLifecycle`, `GradingRun`, `JobQueue`, `CallbackDelivery`,
`DispatcherLoop` and `SubmissionFiles`, each with proofs of all its safety
properties, and the three abstract specifications with their refinements.

Next: changes of `max_retries` while jobs run, and `retry_count` then.
