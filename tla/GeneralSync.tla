---------------------------- MODULE GeneralSync ----------------------------
(***************************************************************************)
(* The general synchronization: a run visits the batches of its scope one  *)
(* after the other, each with a dashboard job of the queue.  A cycle       *)
(* (runLocalGeneralSyncCycle) claims the run for a lease, executes a       *)
(* requested pause, reconciles the batch at work, cancels, or advances to  *)
(* the next batch; it is cut here at its transactions and unlocked reads.  *)
(*                                                                         *)
(*   runs     general_sync_runs                                            *)
(*   rb       general_sync_run_batches, by run and batch                   *)
(*   jobs     processing_jobs as JobLifecycle sees them, moved by the queue*)
(*   worker   the cycle of each process                                    *)
(*                                                                         *)
(* Batches are numbered by their position.  A random workerId is used for  *)
(* one cycle: a claim left by a cycle that is gone belongs to Gone.        *)
(* completed_with_errors is not told from completed.                       *)
(***************************************************************************)
EXTENDS Naturals, FiniteSets

CONSTANTS
  LastBatch,    \* batches of the system, by position
  MaxRuns,      \* bound: runs ever started
  MaxJobs,      \* bound: jobs ever inserted
  Main,         \* the process with the advisory lock of the worker
  FreeWorkers,  \* processes that run cycles without it (process-batches-worker)
  NoWorker, Gone,
  Requests,     \* the requests of the operators in this instance
  MaxRequests,  \* bound: how many of them
  MaxCrashes    \* bound: crashes and database errors of a cycle

ASSUME SyncAssumption ==
  /\ LastBatch \in Nat /\ MaxRuns \in Nat /\ MaxJobs \in Nat
  /\ MaxRequests \in Nat /\ MaxCrashes \in Nat
  /\ Main \notin FreeWorkers
  /\ {NoWorker, Gone} \cap (FreeWorkers \cup {Main}) = {} /\ NoWorker # Gone

VARIABLES runs, rb, jobs, worker, requests, crashes

vars == <<runs, rb, jobs, worker, requests, crashes>>

Batches == 1 .. LastBatch
Runs == 1 .. MaxRuns
Jobs == 1 .. MaxJobs
Workers == FreeWorkers \cup {Main}

NoJob == 0
NoRun == 0
NoBatch == 0

Lifecycle == INSTANCE JobLifecycle

ActiveRun == {"queued", "running", "paused", "cancelling"}
EndedRun == {"completed", "cancelled"}
ActiveBatch == {"waiting", "running"}
FinalBatch == {"completed", "failed", "cancelled"}

Row(job) == [status |-> job.status, stop |-> job.stop, origin |-> job.origin]

Init ==
  /\ runs = [r \in Runs |-> [status |-> "absent", pause |-> FALSE,
                             owner |-> NoWorker, expired |-> FALSE]]
  /\ rb = [r \in Runs |-> [b \in Batches |->
             [status |-> "absent", job |-> NoJob, wait |-> NoJob]]]
  /\ jobs = [j \in Jobs |-> [status |-> "absent", stop |-> FALSE,
                             origin |-> "manual", batch |-> NoBatch]]
  /\ worker = [w \in Workers |-> [pc |-> IF w = Main THEN "off" ELSE "idle",
                 run |-> NoRun, batch |-> NoBatch, job |-> NoJob]]
  /\ requests = 0 /\ crashes = 0

JobActive(j) == j # NoJob /\ jobs[j].status \in Lifecycle!Active

Scope(r) == {b \in Batches : rb[r][b].status # "absent"}
\* Mutant: the scope is read in the opposite order.
LastOf(S) == CHOOSE b \in S : \A c \in S : c <= b

First(S) == CHOOSE b \in S : \A c \in S : b <= c

\* Jobs attached to the batches of a run, and those batches by job status.
OwnJobs(r) == {rb[r][b].job : b \in Scope(r)} \ {NoJob}
WithOwnJob(r, status) ==
  {b \in Scope(r) : rb[r][b].job # NoJob /\ jobs[rb[r][b].job].status = status}

\* The next id is the least free one: ids are the order of created_at.
NextId(free) == {i \in free : \A k \in free : i <= k}
FreeJobs == NextId({j \in Jobs : jobs[j].status = "absent"})

-----------------------------------------------------------------------------
(* Starting a run *)

\* The advisory transaction lock and the unique index single_active: no other
\* run is active.  pending: the batches with records to consult.
StartRun(S, pending) ==
  \E r \in NextId({q \in Runs : runs[q].status = "absent"}) :
    /\ \A q \in Runs : runs[q].status \notin ActiveRun
    /\ pending # {} /\ pending \subseteq S
    /\ runs' = [runs EXCEPT ![r].status = "queued"]
    /\ rb' = [rb EXCEPT ![r] = [b \in Batches |->
         IF b \in S
         THEN [@[b] EXCEPT !.status = IF b \in pending THEN "pending"
                                      ELSE "completed"]
         ELSE @[b]]]
    /\ UNCHANGED <<jobs, worker>>

\* POST dashboard/general-sync: any selection of batches, whatever their jobs do.
StartFull(S, pending) == StartRun(S, pending)

\* Batches without an active job, those with something to consult.
StartScheduled(S) ==
  /\ \A b \in S : \A j \in Jobs : jobs[j].batch = b => ~JobActive(j)
  /\ StartRun(S, S)

-----------------------------------------------------------------------------
(* Claim and release *)

Owns(w, r) == runs[r].owner = w

At(w, pc) == worker[w].pc = pc

Goto(w, pc) == worker' = [worker EXCEPT ![w].pc = pc]

\* A step that throws ends the cycle: its transaction is rolled back.
Throw(w) == Goto(w, "throw") /\ UNCHANGED <<runs, rb, jobs>>

EndCycle(w, pc) ==
  worker' = [worker EXCEPT ![w] =
    [pc |-> IF pc = "off" /\ w # Main THEN "idle" ELSE pc,
     run |-> NoRun, batch |-> NoBatch, job |-> NoJob]]

\* recoverInterruptedLocalWork, with the advisory lock.
Boot ==
  /\ At(Main, "off")
  /\ runs' = [r \in Runs |-> IF runs[r].status \in ActiveRun
       THEN [runs[r] EXCEPT !.owner = NoWorker, !.expired = FALSE]
       ELSE runs[r]]
  /\ jobs' = [j \in Jobs |->
       IF jobs[j].status # "running" THEN jobs[j]
       ELSE [jobs[j] EXCEPT !.status = IF jobs[j].stop THEN "paused"
                                       ELSE "queued"]]
  /\ Goto(Main, "idle")
  /\ UNCHANGED rb

\* Mutant: only runs with batches to consult are claimed.
ClaimableToAdvance(r) ==
  /\ runs[r].status \in {"queued", "running"}
  /\ runs[r].owner = NoWorker \/ runs[r].expired

Claimable(r) ==
  /\ runs[r].status \in {"queued", "running", "cancelling"}
  /\ runs[r].owner = NoWorker \/ runs[r].expired

\* Mutant: the claim writes the status of a run at work, whatever it was.
ClaimAsRunning(w, r) ==
  /\ At(w, "idle") /\ Claimable(r)
  /\ runs' = [runs EXCEPT ![r].owner = w, ![r].expired = FALSE,
                          ![r].status = "running"]
  /\ worker' = [worker EXCEPT ![w].pc = "pause", ![w].run = r]
  /\ UNCHANGED <<rb, jobs>>

\* claimNextLocalGeneralSyncRun
Claim(w, r) ==
  /\ At(w, "idle") /\ Claimable(r)
  /\ runs' = [runs EXCEPT ![r].owner = w, ![r].expired = FALSE,
       ![r].status = IF @ = "queued" THEN "running" ELSE @]
  /\ worker' = [worker EXCEPT ![w].pc = "pause", ![w].run = r]
  /\ UNCHANGED <<rb, jobs>>

\* releaseLocalGeneralSyncRun; the process goes on to the queue and the next
\* cycle, unless the cycle threw or the claim was lost.
Release(w) ==
  /\ worker[w].pc \in {"release", "throw"}
  /\ LET r == worker[w].run
     IN  /\ runs' = IF Owns(w, r)
                    THEN [runs EXCEPT ![r].owner = NoWorker, ![r].expired = FALSE]
                    ELSE runs
         /\ EndCycle(w, IF At(w, "release") /\ Owns(w, r) THEN "idle" ELSE "off")
  /\ UNCHANGED <<rb, jobs>>

\* No work left, or enough for one start: systemd starts the process again.
Leave == At(Main, "idle") /\ EndCycle(Main, "off") /\ UNCHANGED <<runs, rb, jobs>>

-----------------------------------------------------------------------------
(* The pause *)

\* The first batch whose own job runs: its job is asked to stop, and the cycle
\* ends.
StopOwnJob(w, r) ==
  LET b == First(WithOwnJob(r, "running"))
  IN  /\ jobs' = [jobs EXCEPT ![rb[r][b].job].stop = TRUE]
      /\ Goto(w, "release")
      /\ UNCHANGED <<runs, rb>>

\* The batch of an own job that has ended ends with it.
Outcome(r, b, otherwise) ==
  IF rb[r][b].status \in FinalBatch \cup {"absent"} THEN rb[r][b].status
  ELSE IF b \in WithOwnJob(r, "completed") THEN "completed"
  ELSE IF b \in WithOwnJob(r, "failed") THEN "failed"
  ELSE otherwise

\* Mutant: the run is paused, its queued jobs are not.
PausedRunOnly(w, r) ==
  /\ runs' = [runs EXCEPT ![r].status = "paused"]
  /\ Goto(w, "release")
  /\ UNCHANGED <<rb, jobs>>

Paused(w, r) ==
  /\ jobs' = [j \in Jobs |->
       IF j \in OwnJobs(r) /\ jobs[j].status = "queued"
       THEN [jobs[j] EXCEPT !.status = "paused", !.stop = TRUE] ELSE jobs[j]]
  /\ rb' = [rb EXCEPT ![r] = [b \in Batches |->
       [@[b] EXCEPT !.status =
          Outcome(r, b, IF b \in WithOwnJob(r, "cancelled") THEN "cancelled"
                        ELSE rb[r][b].status)]]]
  /\ runs' = [runs EXCEPT ![r].status = "paused"]
  /\ Goto(w, "release")

\* executeClaimedLocalGeneralSyncPause
ExecutePause(w) ==
  LET r == worker[w].run
      asked == Owns(w, r) /\ runs[r].status = "running" /\ runs[r].pause
  IN  /\ At(w, "pause")
      /\ \/ ~asked /\ Goto(w, "reconcile") /\ UNCHANGED <<runs, rb, jobs>>
         \/ asked /\ WithOwnJob(r, "running") # {} /\ StopOwnJob(w, r)
         \/ asked /\ WithOwnJob(r, "running") = {} /\ Paused(w, r)

-----------------------------------------------------------------------------
(* Reconciliation *)

InState(r, statuses) == {b \in Scope(r) : rb[r][b].status \in statuses}

\* finalizeRun, when the batches, with the new status of b, have all ended.
EndsBatch(w, r, b, status) ==
  /\ rb' = [rb EXCEPT ![r][b].status = status]
  /\ IF Scope(r) \ {b} \subseteq InState(r, FinalBatch)
     THEN runs' = [runs EXCEPT ![r].status = "completed"] /\ Goto(w, "release")
     ELSE UNCHANGED runs /\ Goto(w, "look")

\* reconcileClaimedLocalGeneralSyncRun, the first active batch of the run
ReconcileBatch(w, r, b) ==
  LET row == rb[r][b]
      stillActive == JobActive(IF row.status = "waiting" THEN row.wait ELSE row.job)
      lost == row.job = NoJob \/ jobs[row.job].status = "failed"
  IN  \/ stillActive /\ Goto(w, "release") /\ UNCHANGED <<runs, rb>>
      \/ /\ ~stillActive /\ row.status = "waiting"
         /\ rb' = [rb EXCEPT ![r][b].status = "pending"]
         /\ Goto(w, "look") /\ UNCHANGED runs
      \/ /\ ~stillActive /\ row.status = "running"
         /\ EndsBatch(w, r, b, IF lost THEN "failed" ELSE "completed")

Reconcile(w) ==
  LET r == worker[w].run
      active == InState(r, ActiveBatch)
  IN  /\ At(w, "reconcile")
      /\ IF ~Owns(w, r) \/ runs[r].status \notin {"running", "cancelling"}
         THEN Throw(w)
         ELSE /\ UNCHANGED jobs
              /\ \/ /\ runs[r].status = "cancelling"
                    /\ Goto(w, "cancel") /\ UNCHANGED <<runs, rb>>
                 \/ /\ runs[r].status = "running" /\ active # {}
                    /\ ReconcileBatch(w, r, First(active))
                 \/ /\ runs[r].status = "running" /\ active = {}
                    /\ UNCHANGED rb
                    /\ IF Scope(r) = InState(r, FinalBatch)
                       THEN /\ runs' = [runs EXCEPT ![r].status = "completed"]
                            /\ Goto(w, "release")
                       ELSE UNCHANGED runs /\ Goto(w, "look")

-----------------------------------------------------------------------------
(* Cancellation *)

Cancelled(w, r) ==
  /\ jobs' = [j \in Jobs |->
       IF j \in OwnJobs(r) /\ jobs[j].status \in {"queued", "paused"}
       THEN [jobs[j] EXCEPT !.status = "cancelled"] ELSE jobs[j]]
  /\ rb' = [rb EXCEPT ![r] = [b \in Batches |->
       [@[b] EXCEPT !.status = Outcome(r, b, "cancelled")]]]
  /\ runs' = [runs EXCEPT ![r].status = "cancelled"]
  /\ Goto(w, "release")

\* executeClaimedLocalGeneralSyncCancellation
ExecuteCancel(w) ==
  LET r == worker[w].run
  IN  /\ At(w, "cancel")
      /\ IF ~Owns(w, r) \/ runs[r].status # "cancelling" THEN Throw(w)
         ELSE IF WithOwnJob(r, "running") # {} THEN StopOwnJob(w, r)
         ELSE Cancelled(w, r)

-----------------------------------------------------------------------------
(* Advance *)

\* loadOwnedRun and loadRunBatches, without a lock.  The two reads are one
\* step: every later write asks for the ownership again.
Look(w) ==
  LET r == worker[w].run
      pending == InState(r, {"pending"})
  IN  /\ At(w, "look")
      /\ IF ~Owns(w, r) \/ runs[r].status \notin {"running", "cancelling"}
         THEN Throw(w)
         ELSE /\ UNCHANGED <<runs, rb, jobs>>
              /\ IF \/ runs[r].status = "cancelling"
                    \/ InState(r, ActiveBatch) # {} \/ pending = {}
                 THEN Goto(w, "release")
                 ELSE worker' = [worker EXCEPT ![w].pc = "find",
                                               ![w].batch = First(pending)]

\* findActiveProcessingJob
FindActive(w) ==
  LET found == {j \in Jobs : jobs[j].batch = worker[w].batch /\ JobActive(j)}
  IN  /\ At(w, "find")
      /\ \/ found = {} /\ Goto(w, "own")
         \/ \E j \in found :
              worker' = [worker EXCEPT ![w].pc = "wait", ![w].job = j]
      /\ UNCHANGED <<runs, rb, jobs>>

\* Mutant: the write asks for the status of the run only.
MayWriteRunning(w) == runs[worker[w].run].status = "running"

\* The tests every write of the advance repeats in its transaction.
MayWrite(w) ==
  LET r == worker[w].run
  IN  /\ Owns(w, r) /\ runs[r].status = "running"
      /\ rb[r][worker[w].batch].status = "pending"

\* The row of the job is still there (foreign key).
JobKept(w) == worker[w].job # NoJob => jobs[worker[w].job].status # "deleted"

WriteBatch(w, row) ==
  /\ rb' = [rb EXCEPT ![worker[w].run][worker[w].batch] = row]
  /\ Goto(w, "release")
  /\ UNCHANGED <<runs, jobs>>

\* markWaitingForExistingJob
MarkWaiting(w) ==
  LET row == rb[worker[w].run][worker[w].batch]
  IN  /\ At(w, "wait")
      /\ IF MayWrite(w) /\ JobKept(w)
         THEN WriteBatch(w, [row EXCEPT !.status = "waiting",
                                        !.wait = worker[w].job])
         ELSE Throw(w)

\* assertOwnershipInsideTransaction: its lock ends with its transaction.
AssertOwnership(w) ==
  LET r == worker[w].run
  IN  /\ At(w, "own")
      /\ IF Owns(w, r) /\ runs[r].status \in {"running", "cancelling"}
         THEN Goto(w, "enqueue") /\ UNCHANGED <<runs, rb, jobs>>
         ELSE Throw(w)

\* Mutant: the active job of the batch is reused whatever its origin.
JobsOfBatch(b) == {j \in Jobs : jobs[j].batch = b /\ JobActive(j)}

\* enqueueBatchJobWithReuse for the dashboard, in a transaction of its own: it
\* knows the batch and not the run.
DashboardJobs(b) == {j \in Jobs : /\ jobs[j].batch = b /\ JobActive(j)
                                  /\ jobs[j].origin = "dashboard"}

Enqueued(w, j) == worker' = [worker EXCEPT ![w].pc = "attach", ![w].job = j]

MergeJob(w, j) ==
  /\ \A k \in DashboardJobs(worker[w].batch) : k <= j
  /\ \/ /\ jobs[j].status = "paused" /\ Enqueued(w, j)
        /\ jobs' = [jobs EXCEPT ![j].status = "queued", ![j].stop = FALSE]
     \/ /\ jobs[j].status # "paused" /\ Enqueued(w, j)
        /\ UNCHANGED jobs
     \/ /\ jobs[j].status = "queued" /\ Enqueued(w, NoJob)
        /\ jobs' = [jobs EXCEPT ![j].status = "completed"]

Enqueue(w) ==
  LET b == worker[w].batch
      new == [status |-> "queued", stop |-> FALSE, origin |-> "dashboard",
              batch |-> b]
  IN  /\ At(w, "enqueue")
      /\ \/ \E j \in DashboardJobs(b) : MergeJob(w, j)
         \/ /\ DashboardJobs(b) = {}
            /\ \/ Enqueued(w, NoJob) /\ UNCHANGED jobs
               \/ \E j \in FreeJobs : /\ jobs' = [jobs EXCEPT ![j] = new]
                                      /\ Enqueued(w, j)
      /\ UNCHANGED <<runs, rb>>

\* attachProcessingJob, or markBatchCompletedWithoutJob
Attach(w) ==
  LET row == rb[worker[w].run][worker[w].batch]
      j == worker[w].job
  IN  /\ At(w, "attach")
      /\ IF ~(MayWrite(w) /\ JobKept(w)) THEN Throw(w)
         ELSE WriteBatch(w,
                IF j = NoJob
                THEN [row EXCEPT !.status = "completed", !.wait = NoJob]
                ELSE [status |-> "running", job |-> j, wait |-> NoJob])

-----------------------------------------------------------------------------
(* Requests for a run *)

RequestPause(r) ==
  /\ runs[r].status \in {"queued", "running"} /\ ~runs[r].pause
  /\ runs' = [runs EXCEPT ![r].pause = TRUE]
  /\ UNCHANGED <<rb, jobs, worker>>

\* Mutant: the run is resumed, its paused jobs are not.
ResumeRunOnly(r) ==
  /\ runs[r].status = "paused"
  /\ runs' = [runs EXCEPT ![r].status = "running", ![r].pause = FALSE]
  /\ UNCHANGED <<rb, jobs, worker>>

Resume(r) ==
  /\ runs[r].status = "paused"
  /\ runs' = [runs EXCEPT ![r].status = "running", ![r].pause = FALSE]
  /\ jobs' = [j \in Jobs |->
       IF j \in OwnJobs(r) /\ jobs[j].status = "paused"
       THEN [jobs[j] EXCEPT !.status = "queued", !.stop = FALSE] ELSE jobs[j]]
  /\ UNCHANGED <<rb, worker>>

RequestCancel(r) ==
  /\ runs[r].status \in ActiveRun \ {"cancelling"}
  /\ runs' = [runs EXCEPT ![r].status = "cancelling"]
  /\ UNCHANGED <<rb, jobs, worker>>

\* Mutant: the last run of the batch absorbs its errors, ended or not.
AbsorbingAny(r) == runs[r].status # "absent"

\* The only runs that absorb the errors of their batches.
Absorbing(r) == runs[r].status \in {"queued", "running"}

\* absorbBatchErrorsIntoActiveDashboard, for a batch that has errors: its job
\* is queued again whatever became of it, and the batch with it.
AbsorbErrors(r, b) ==
  LET old == rb[r][b].job
      requeued(job) ==
        [job EXCEPT !.stop = FALSE,
           !.status = IF @ \in {"completed", "failed", "paused"} THEN "queued"
                      ELSE @]
      attach(j) == rb' = [rb EXCEPT ![r][b] =
                            [status |-> "running", job |-> j, wait |-> NoJob]]
      new == [status |-> "queued", stop |-> FALSE, origin |-> "dashboard",
              batch |-> b]
  IN  /\ Absorbing(r) /\ b \in Scope(r)
      /\ \/ /\ old # NoJob /\ attach(old)
            /\ jobs' = [jobs EXCEPT ![old] = requeued(@)]
         \/ /\ old = NoJob
            /\ \E j \in FreeJobs : attach(j) /\ jobs' = [jobs EXCEPT ![j] = new]
      /\ UNCHANGED <<runs, worker>>

-----------------------------------------------------------------------------
(* The queue, as JobLifecycle describes it *)

MoveJob(j, new) ==
  /\ jobs' = [jobs EXCEPT ![j] = [status |-> new.status, stop |-> new.stop,
                                  origin |-> new.origin, batch |-> @.batch]]
  /\ UNCHANGED <<runs, rb, worker>>

WorkerMoves(j) ==
  \E status \in Lifecycle!Active \cup Lifecycle!Ended :
    LET new == Lifecycle!To(Row(jobs[j]), status)
    IN  Lifecycle!WorkerMove(Row(jobs[j]), new) /\ MoveJob(j, new)

OperatorMoves(j) ==
  \E new \in Lifecycle!Row :
    /\ \/ Lifecycle!OperatorMove(Row(jobs[j]), new)
       \/ jobs[j].origin = "manual" /\ Lifecycle!Resumes(Row(jobs[j]), new)
       \/ Lifecycle!OverwrittenMove(Row(jobs[j]), new)
    /\ MoveJob(j, new)

ManualJob(b) ==
  /\ \E j \in FreeJobs :
       jobs' = [jobs EXCEPT ![j] = [status |-> "queued", stop |-> FALSE,
                                    origin |-> "manual", batch |-> b]]
  /\ UNCHANGED <<runs, rb, worker>>

\* POST campanhas/[id]/pausar deletes the active jobs of both origins; the
\* references to them become null.
InterruptCampaign ==
  LET kept(j) == IF JobActive(j) THEN NoJob ELSE j
  IN  /\ \E j \in Jobs : JobActive(j)
      /\ jobs' = [j \in Jobs |-> IF JobActive(j)
                    THEN [jobs[j] EXCEPT !.status = "deleted"] ELSE jobs[j]]
      /\ rb' = [r \in Runs |-> [b \in Batches |->
           [rb[r][b] EXCEPT !.job = kept(@), !.wait = kept(@)]]]
      /\ UNCHANGED <<runs, worker>>

-----------------------------------------------------------------------------
(* The system *)

Asks(kind) ==
  /\ kind \in Requests /\ requests < MaxRequests
  /\ requests' = requests + 1 /\ UNCHANGED crashes

Operators ==
  \/ \E S, pending \in SUBSET Batches : Asks("full sync") /\ StartFull(S, pending)
  \/ \E S \in SUBSET Batches : Asks("scheduled sync") /\ StartScheduled(S)
  \/ \E r \in Runs : \/ Asks("pause") /\ RequestPause(r)
                     \/ Asks("resume") /\ Resume(r)
                     \/ Asks("cancel") /\ RequestCancel(r)
                     \/ \E b \in Batches : Asks("absorb") /\ AbsorbErrors(r, b)
  \/ \E b \in Batches : Asks("manual job") /\ ManualJob(b)
  \/ \E j \in Jobs : Asks("manual move") /\ OperatorMoves(j)
  \/ Asks("interrupt") /\ InterruptCampaign

\* The steps of a cycle in progress.
Step(w) ==
  \/ ExecutePause(w) \/ Reconcile(w) \/ ExecuteCancel(w) \/ Look(w)
  \/ FindActive(w) \/ MarkWaiting(w) \/ AssertOwnership(w) \/ Enqueue(w)
  \/ Attach(w) \/ Release(w)

Unattended == UNCHANGED <<requests, crashes>>

\* A step that fails in the database, or the death of a process.
Crash(w) ==
  /\ worker[w].pc \notin {"off", "idle"}
  /\ runs' = [r \in Runs |-> IF Owns(w, r) THEN [runs[r] EXCEPT !.owner = Gone]
                             ELSE runs[r]]
  /\ EndCycle(w, "off")
  /\ UNCHANGED <<rb, jobs>>

Fails(w) == worker[w].pc \notin {"off", "idle", "release", "throw"} /\ Throw(w)

Failure ==
  /\ crashes < MaxCrashes /\ crashes' = crashes + 1
  /\ \E w \in Workers : Crash(w) \/ Fails(w)
  /\ UNCHANGED requests

\* The lease is never renewed (refreshLocalGeneralSyncLease has no caller).
LeaseExpires(r) ==
  /\ runs[r].owner # NoWorker /\ ~runs[r].expired
  /\ runs' = [runs EXCEPT ![r].expired = TRUE]
  /\ UNCHANGED <<rb, jobs, worker>>

Next ==
  \/ Operators
  \/ /\ \/ Boot \/ Leave
        \/ \E w \in Workers : Step(w) \/ \E r \in Runs : Claim(w, r)
        \/ \E j \in Jobs : WorkerMoves(j)
        \/ \E r \in Runs : LeaseExpires(r)
     /\ Unattended
  \/ Failure

Spec == Init /\ [][Next]_vars

TypeOK ==
  /\ runs \in [Runs -> [status : ActiveRun \cup EndedRun \cup {"absent"},
                        pause : BOOLEAN, expired : BOOLEAN,
                        owner : Workers \cup {NoWorker, Gone}]]
  /\ rb \in [Runs -> [Batches ->
       [status : ActiveBatch \cup FinalBatch \cup {"absent", "pending"},
        job : Jobs \cup {NoJob}, wait : Jobs \cup {NoJob}]]]
  /\ jobs \in [Jobs ->
       [status : Lifecycle!Active \cup Lifecycle!Ended \cup {"absent"},
        stop : BOOLEAN, origin : Lifecycle!Origins, batch : Batches \cup {NoBatch}]]
  /\ worker \in [Workers ->
       [pc : {"off", "idle", "pause", "reconcile", "cancel", "look", "find",
              "wait", "own", "enqueue", "attach", "release", "throw"},
        run : Runs \cup {NoRun}, batch : Batches \cup {NoBatch},
        job : Jobs \cup {NoJob}]]
  /\ requests \in Nat /\ crashes \in Nat

-----------------------------------------------------------------------------
(* Safety *)

\* A run that has ended is closed: its batches have ended, and none of their
\* jobs is left in the queue, in whatever order the end, the attachment of the
\* last job, an absorption and a pause were written.
EndedRunsAreClosed ==
  \A r \in Runs : runs[r].status \in EndedRun =>
    \A b \in Scope(r) : rb[r][b].status \in FinalBatch /\ ~JobActive(rb[r][b].job)

\* The wave visits one batch at a time, in the order of the positions.
OneBatchInOrder ==
  \A r \in Runs : \A b \in InState(r, ActiveBatch) : \A c \in Scope(r) :
    c < b => rb[r][c].status \in FinalBatch

\* While a run is paused no job attached to it is queued or running.
PausedRunsAreQuiet ==
  \A r \in Runs : runs[r].status = "paused" =>
    \A j \in OwnJobs(r) : jobs[j].status \notin {"queued", "running"}

\* With no run active and no cycle in progress, no dashboard job is left in
\* the queue: an ended wave consults nothing more (route of the cancellation).
EndedWavesAreSilent ==
  (/\ \A r \in Runs : runs[r].status \notin ActiveRun
   /\ \A w \in Workers : worker[w].pc \in {"off", "idle"})
  => \A j \in Jobs : JobActive(j) => jobs[j].origin = "manual"

-----------------------------------------------------------------------------
(* Action properties *)

\* An ended run stays as it ended, and a cancellation ends in nothing else,
\* whoever read the run before.
FinalStep ==
  \A r \in Runs :
    /\ runs[r].status \in EndedRun => runs'[r].status = runs[r].status
    /\ runs[r].status = "cancelling" => runs'[r].status \in {"cancelling", "cancelled"}
EndsAreFinal == [][FinalStep]_vars

\* A cycle never changes a job it only waits for: pause, cancellation and
\* enqueue leave the processing of the operators alone.
UntouchedStep ==
  (\E w \in Workers : worker[w].pc \notin {"off", "idle"} /\ worker'[w] # worker[w])
    => \A j \in Jobs : jobs[j].status # "absent" /\ jobs[j].origin = "manual"
                          => jobs'[j] = jobs[j]
ExternalJobsUntouched == [][UntouchedStep]_vars

-----------------------------------------------------------------------------
(* Liveness *)

\* systemd starts the process again and again, its cycles go on, time passes,
\* a queued dashboard job starts, and one that runs again and again ends or leaves
\* its worker for a stop (ProcessingQueue!JobsEnd).  Of a manual job nothing is
\* assumed.
JobStarts(j) ==
  LET new == Lifecycle!To(Row(jobs[j]), "running")
  IN  Lifecycle!Starts(Row(jobs[j]), new) /\ MoveJob(j, new)

JobEnds(j) ==
  /\ jobs[j].status = "running"
  /\ LET new == Lifecycle!To(Row(jobs[j]),
                  IF jobs[j].stop THEN "paused" ELSE "completed")
     IN  Lifecycle!WorkerMove(Row(jobs[j]), new) /\ MoveJob(j, new)

Dashboard(j) == jobs[j].origin = "dashboard" /\ Unattended

Fairness ==
  /\ WF_vars(Boot /\ Unattended)
  /\ WF_vars(Step(Main) /\ Unattended)
  /\ SF_vars((\E r \in Runs : Claim(Main, r)) /\ Unattended)
  /\ \A r \in Runs : WF_vars(LeaseExpires(r) /\ Unattended)
  /\ \A j \in Jobs : /\ WF_vars(JobStarts(j) /\ Dashboard(j))
                      /\ SF_vars(JobEnds(j) /\ Dashboard(j))

FairSpec == Spec /\ Fairness

Settled == EndedRun \cup {"paused"}

\* A run that is started, resumed or cancelled ends, is paused, or waits for a
\* job of the operators.
WaitsForOperators(r) ==
  \E b \in InState(r, {"waiting"}) :
    JobActive(rb[r][b].wait) /\ jobs[rb[r][b].wait].origin = "manual"
RunsSettle ==
  \A r \in Runs : runs[r].status \in {"queued", "running", "cancelling"}
                  ~> runs[r].status \in Settled \/ WaitsForOperators(r)

\* A requested pause or cancellation takes effect, also of a run that waits for
\* a job that never ends.
StopRequested(r) ==
  \/ runs[r].status = "cancelling"
  \/ runs[r].status \in {"queued", "running"} /\ runs[r].pause
StopsTake == \A r \in Runs : StopRequested(r) ~> runs[r].status \in Settled
=============================================================================
