---------------------------- MODULE LocalWorker ----------------------------
(***************************************************************************)
(* The worker side of the queue: the process that holds the advisory lock  *)
(* (scripts/process-local-worker.ts) and each call of runLocalWorkerOnce,  *)
(* cut at its transactions.  The results of the claimed links are          *)
(* persisted concurrently, in any order and interleaved with everything    *)
(* else.  A run is one random workerId: since it claims once, "the owner   *)
(* of the link is this run and the run still has the link in flight" is    *)
(* what the test of processing_owner and claim_token decides.              *)
(***************************************************************************)
EXTENDS ProcessingState

Enter(r, pc) == runs' = [runs EXCEPT ![r].pc = pc]

\* The call ends; the process that holds the advisory lock releases it.
LeaveTo(r, rec) ==
  /\ runs' = [runs EXCEPT ![r] = rec]
  /\ lock' = IF lock = r THEN NoRun ELSE lock

\* Mutant of Owns: no test of processing_owner and claim_token.
OwnsInMemory(r, l) == l \in runs[r].inflight

Owns(r, l) == l \in runs[r].inflight /\ links[l].owner = r

\* Mutant of Recovered: the stop is forgotten.
RecoveredIgnoringStop(job) ==
  [job EXCEPT !.status = "queued", !.due = TRUE, !.owner = NoRun, !.expired = FALSE]

\* What a recovery writes in a job: queued again, or paused when a stop was
\* requested.
Recovered(job) ==
  [job EXCEPT !.status = IF job.stop THEN "paused" ELSE "queued",
              !.due = ~job.stop, !.owner = NoRun, !.expired = FALSE]

-----------------------------------------------------------------------------
(* Start of the process *)

\* recoverInterruptedLocalWork: every running job, and every link being
\* processed in the batches of those jobs.
InterruptedJobs == {j \in Jobs : jobs[j].status = "running"}

ReclaimInterrupted(rec) ==
  [Unclaimed(rec) EXCEPT !.status = "retrying", !.due = TRUE,
                         !.stale = @ + 1]

Boot(r) ==
  /\ r \notin FreeRuns
  /\ runs[r].pc = "off" /\ lock = NoRun
  /\ LET batches == {jobs[j].batch : j \in InterruptedJobs}
         reclaimed == {l \in Links : /\ BatchOf[l] \in batches
                                     /\ ~links[l].deleted
                                     /\ links[l].status = "processing"}
     IN  /\ links' = UpdateLinks(links, reclaimed, ReclaimInterrupted)
         /\ jobs' = [j \in Jobs |-> IF j \in InterruptedJobs
                                    THEN Recovered(jobs[j]) ELSE jobs[j]]
         /\ items' = SyncReplay(links')
  /\ lock' = r
  /\ Enter(r, "ready")

\* triggerQueuedProcessing calls the worker without the lock.
Trigger(r) ==
  /\ r \in FreeRuns
  /\ runs[r].pc = "off"
  /\ Enter(r, "cycle")
  /\ UNCHANGED <<links, jobs, items, lock>>

\* finalizeQueuedLocalProcessingPauseRequests, at the top of the drain loop
PauseCheckpoint(r) ==
  /\ runs[r].pc = "ready"
  /\ jobs' = [j \in Jobs |->
                IF jobs[j].status = "queued" /\ jobs[j].stop
                THEN [jobs[j] EXCEPT !.status = "paused", !.owner = NoRun,
                                     !.due = FALSE, !.expired = FALSE]
                ELSE jobs[j]]
  /\ Enter(r, "cycle")
  /\ UNCHANGED <<links, items, lock>>

-----------------------------------------------------------------------------
(* One call of runLocalWorkerOnce *)

ReclaimStale(rec) ==
  LET limit == rec.stale + 1 >= StaleLimit
  IN  [Unclaimed(rec) EXCEPT !.status = IF limit THEN "error" ELSE "retrying",
                             !.due = ~limit, !.stale = @ + 1]

\* Mutant of RecoverStale: only the jobs are recovered.
RecoverStaleJobs(r) ==
  /\ runs[r].pc = "cycle"
  /\ jobs' = [j \in Jobs |->
                IF jobs[j].status = "running" /\ jobs[j].expired
                THEN Recovered(jobs[j]) ELSE jobs[j]]
  /\ Enter(r, "recovered")
  /\ UNCHANGED <<links, items, lock>>

\* recoverStaleLocalWork
RecoverStale(r) ==
  /\ runs[r].pc = "cycle"
  /\ jobs' = [j \in Jobs |->
                IF jobs[j].status = "running" /\ jobs[j].expired
                THEN Recovered(jobs[j]) ELSE jobs[j]]
  /\ links' = UpdateLinks(links,
                {l \in Links : links[l].status = "processing" /\ links[l].old},
                ReclaimStale)
  /\ items' = SyncReplay(links')
  /\ Enter(r, "recovered")
  /\ UNCHANGED lock

Claimable(j) == jobs[j].status = "queued" /\ ~jobs[j].stop /\ jobs[j].due

\* claimNextJob takes the highest priority; Priority already puts a member
\* job last, and the remaining ties depend on timestamps.
ClaimJob(r, j) ==
  /\ runs[r].pc = "recovered"
  /\ Claimable(j)
  /\ \A k \in Jobs : Claimable(k) =>
       Priority[jobs[k].scope] <= Priority[jobs[j].scope]
  /\ WriteJobStatus(links, j,
       [jobs[j] EXCEPT !.status = "running", !.owner = r, !.expired = FALSE])
  /\ runs' = [runs EXCEPT ![r] =
       [pc |-> "claimed", job |-> j, target |-> jobs[j].target,
        filtered |-> jobs[j].filtered, includeErrors |-> jobs[j].includeErrors,
        inflight |-> {}, idle |-> TRUE]]
  /\ UNCHANGED lock

NoJob(r) ==
  /\ runs[r].pc = "recovered"
  /\ \A j \in Jobs : ~Claimable(j)
  /\ LeaveTo(r, OffRun)
  /\ UNCHANGED <<links, jobs, items>>

\* The link is due for the job the run has in memory.
Due(run, l) ==
  /\ links[l].attempts < MaxAttempts
  /\ \/ links[l].status = "pending"
     \/ links[l].status = "retrying" /\ links[l].due
     \/ run.includeErrors /\ links[l].status = "error" /\ links[l].errReq

\* Mutant of JobLinks: every job is given its whole batch.
JobLinksOfBatch(run, replay) == LinksOf(jobs[run.job].batch)

\* The links of the job the run has in memory; item states in replay.
JobLinks(run, replay) ==
  {l \in LinksOf(jobs[run.job].batch) :
     /\ run.target \in {NoLink, l}
     /\ run.target # NoLink \/ links[l].pay \notin TerminalPay
     /\ run.filtered => items[run.job][l] \in replay}

\* trg_enforce_processing_job_member_scope_v1: while the run holds a running
\* job, the row of the job decides which links the claim may touch.
ScopeAllows(r, l) ==
  LET job == jobs[runs[r].job]
  IN  job.status = "running" /\ job.owner = r =>
        /\ job.target \in {NoLink, l}
        /\ job.filtered => items[runs[r].job][l] \in {"queued", "processing"}

ClaimLink(rec, r) ==
  [rec EXCEPT !.status = "processing", !.owner = r, !.old = FALSE,
              !.attempts = @ + 1, !.due = FALSE, !.errReq = FALSE]

ClaimMembers(r) ==
  /\ runs[r].pc = "claimed"
  /\ LET candidates == {l \in JobLinks(runs[r], {"queued"}) : Due(runs[r], l)}
         limit == IF runs[r].target # NoLink THEN 1 ELSE ClaimLimit
     IN \E chosen \in SUBSET candidates :
          /\ Cardinality(chosen) = Least(limit, Cardinality(candidates))
          /\ LET claimed == {l \in chosen : ScopeAllows(r, l)}
             IN  /\ links' = [l \in Links |-> IF l \in claimed
                                              THEN ClaimLink(links[l], r)
                                              ELSE links[l]]
                 /\ runs' = [runs EXCEPT ![r].pc = "work",
                                         ![r].inflight = claimed,
                                         ![r].idle = claimed = {}]
  /\ items' = SyncReplay(links')
  /\ UNCHANGED <<jobs, lock>>

\* The result of l leaves the memory of the run.
Settle(r, l) == runs' = [runs EXCEPT ![r].inflight = @ \ {l}]

\* Mutant of CountResult: the job may be another worker's, or nobody's.
CountAlways(r, success, error) ==
  LET j == runs[r].job
  IN  jobs' = [jobs EXCEPT ![j].processed = @ + success + error,
                           ![j].success = @ + success, ![j].error = @ + error]

\* A counter of the job grows only while the run still holds the job.
CountResult(r, success, error) ==
  LET j == runs[r].job
  IN  jobs' = IF jobs[j].owner = r
              THEN [jobs EXCEPT ![j] = FinalizeExact(
                     [jobs[j] EXCEPT !.processed = @ + success + error,
                                     !.success = @ + success,
                                     !.error = @ + error])]
              ELSE jobs

PersistSuccess(r, l, pay) ==
  /\ runs[r].pc \in {"work", "drain"}
  /\ Owns(r, l)
  /\ links' = [links EXCEPT ![l] =
       [Unclaimed(@) EXCEPT !.status = "completed", !.pay = pay,
                            !.attempts = 0, !.stale = 0, !.due = FALSE]]
  /\ items' = SyncReplay(links')
  /\ CountResult(r, 1, 0)
  /\ Settle(r, l)
  /\ UNCHANGED lock

\* processing_attempts cannot change while the claim is valid, so the row has
\* the value the worker keeps in memory.
PersistFailure(r, l, retryable) ==
  LET terminal == ~retryable \/
                  links[l].attempts >= Least(CfgAttempts, MaxAttempts)
  IN  /\ runs[r].pc \in {"work", "drain"}
      /\ Owns(r, l)
      /\ links' = [links EXCEPT ![l] = EnforceTerminal(
           [Unclaimed(@) EXCEPT !.status = IF terminal THEN "error"
                                           ELSE "retrying",
                                !.due = FALSE])]
      /\ items' = SyncReplay(links')
      /\ IF terminal THEN CountResult(r, 0, 1) ELSE UNCHANGED jobs
      /\ Settle(r, l)
      /\ UNCHANGED lock

\* The claim was taken away: the result is dropped.
DiscardResult(r, l) ==
  /\ runs[r].pc \in {"work", "drain"}
  /\ l \in runs[r].inflight /\ ~Owns(r, l)
  /\ Settle(r, l)
  /\ UNCHANGED <<links, jobs, items, lock>>

\* Mutants of Finalized: a retry that is not due is not waited for; a cancelled
\* job keeps its lease.
FinalizedIgnoringRetries(run) ==
  LET job == jobs[run.job]
      open == JobLinks(run, {"queued", "processing"})
  IN  [job EXCEPT !.owner = NoRun, !.expired = FALSE,
         !.status = CASE job.status = "cancelled" -> "cancelled"
                      [] job.status # "cancelled" /\ job.stop -> "paused"
                      [] OTHER -> IF \E l \in open : Due(run, l)
                                  THEN "queued" ELSE "completed"]
FinalizedKeepingLock(run) ==
  LET job == jobs[run.job]
  IN  IF job.status = "cancelled" THEN job
      ELSE [job EXCEPT !.owner = NoRun, !.expired = FALSE,
                       !.status = IF job.stop THEN "paused" ELSE "queued"]

\* The row releaseAndFinalizeJob writes, from the job in the memory of the run.
Finalized(run) ==
  LET job == jobs[run.job]
      open == JobLinks(run, {"queued", "processing"})
      immediate == \E l \in open : Due(run, l)
      processing == \E l \in open : links[l].status = "processing"
      retries == {l \in open : links[l].status = "retrying"}
      done == ~immediate /\ ~processing /\ retries = {}
      freed == [job EXCEPT !.owner = NoRun, !.expired = FALSE]
  IN  IF job.status = "cancelled" THEN freed
      ELSE IF job.stop THEN [freed EXCEPT !.status = "paused"]
      ELSE IF done THEN [freed EXCEPT !.status = "completed"]
      ELSE [freed EXCEPT !.status = "queued",
                         !.due = \/ immediate
                                 \/ retries = {}
                                 \/ \E l \in retries : links[l].due]

\* recalculateBatch and releaseAndFinalizeJob, then the drain loop goes on
\* only after a cycle that claimed something.
Release(r) ==
  /\ runs[r].pc = "work" /\ runs[r].inflight = {}
  /\ IF jobs[runs[r].job].owner = r
     THEN WriteJobStatus(links, runs[r].job, Finalized(runs[r]))
     ELSE UNCHANGED <<links, jobs, items>>
  /\ \/ LeaveTo(r, OffRun)
     \/ /\ ~runs[r].idle \/ r \in FreeRuns
        /\ runs' = [runs EXCEPT ![r] =
             [OffRun EXCEPT !.pc = IF r \in FreeRuns THEN "cycle" ELSE "ready"]]
        /\ UNCHANGED lock

\* failJob: an error that is not the failure of one consultation.  The
\* process gives the lock back while tasks in flight may still persist.
FailRun(r) ==
  LET j == runs[r].job
  IN  /\ runs[r].pc \in {"claimed", "work"}
      /\ jobs' = IF jobs[j].owner = r
                 THEN [jobs EXCEPT ![j].status = "failed", ![j].owner = NoRun,
                                   ![j].expired = FALSE]
                 ELSE jobs
      /\ LeaveTo(r, [runs[r] EXCEPT !.pc = "drain"])
      /\ UNCHANGED <<links, items>>

\* The call is gone.  Its workerId stays in the rows that name it, and since
\* it is random no later call has it: Gone.
Abandon(r) ==
  /\ links' = [l \in Links |-> IF links[l].owner = r
                               THEN [links[l] EXCEPT !.owner = Gone] ELSE links[l]]
  /\ jobs' = [j \in Jobs |-> IF jobs[j].owner = r
                             THEN [jobs[j] EXCEPT !.owner = Gone] ELSE jobs[j]]
  /\ LeaveTo(r, OffRun)
  /\ UNCHANGED items

\* The tasks left behind end, or their connections are gone.
EndDrain(r) == runs[r].pc = "drain" /\ Abandon(r)

\* The process dies: its session, and with it the advisory lock, is gone.
Crash(r) == runs[r].pc \notin {"off", "drain"} /\ Abandon(r)

-----------------------------------------------------------------------------
(* Time *)

LeaseExpires(j) ==
  /\ jobs[j].status = "running" /\ ~jobs[j].expired
  /\ jobs' = [jobs EXCEPT ![j].expired = TRUE]
  /\ UNCHANGED <<links, items, runs, lock>>

HeartbeatAges(l) ==
  /\ links[l].status = "processing" /\ ~links[l].old
  /\ links' = [links EXCEPT ![l].old = TRUE]
  /\ UNCHANGED <<jobs, items, runs, lock>>

RetryComesDue(l) ==
  /\ links[l].status = "retrying" /\ ~links[l].due
  /\ links' = [links EXCEPT ![l].due = TRUE]
  /\ UNCHANGED <<jobs, items, runs, lock>>

JobComesDue(j) ==
  /\ jobs[j].status = "queued" /\ ~jobs[j].due
  /\ jobs' = [jobs EXCEPT ![j].due = TRUE]
  /\ UNCHANGED <<links, items, runs, lock>>
=============================================================================
