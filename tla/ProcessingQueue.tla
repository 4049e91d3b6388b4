-------------------------- MODULE ProcessingQueue --------------------------
(***************************************************************************)
(* The local processing queue: the application, which changes jobs and     *)
(* links on behalf of the operators (BatchJobService), and the worker,     *)
(* which claims jobs and links, consults the ERP and persists the results  *)
(* (LocalWorker), over the rows and triggers of ProcessingState.           *)
(***************************************************************************)
EXTENDS LocalWorker, BatchJobService

CONSTANTS
  Requests,     \* the requests the environment makes in this instance
  MaxRequests,  \* bound: how many of them
  MaxCrashes    \* bound: crashes of the worker process and job failures

ASSUME BoundsAssumption == MaxRequests \in Nat /\ MaxCrashes \in Nat

VARIABLES requests, crashes

vars == <<links, jobs, items, runs, lock, resumes, requests, crashes>>

AbsentJob == [NewJob(NoBatch, "manual", "batch", 0) EXCEPT !.status = "absent"]

\* Imported links wait for their first consultation; no job exists yet.
Init ==
  /\ links = [l \in Links |->
       [status |-> "pending", pay |-> "none", attempts |-> 0, stale |-> 0,
        due |-> FALSE, old |-> FALSE, errReq |-> FALSE, owner |-> NoRun,
        deleted |-> FALSE]]
  /\ jobs = [j \in Jobs |-> AbsentJob]
  /\ items = [j \in Jobs |-> [l \in Links |-> "none"]]
  /\ runs = [r \in Runs |-> OffRun]
  /\ lock = NoRun
  /\ resumes = [j \in Jobs |-> 0]
  /\ requests = 0 /\ crashes = 0

-----------------------------------------------------------------------------
(* The application *)

Asks(kind) ==
  /\ kind \in Requests
  /\ requests < MaxRequests
  /\ requests' = requests + 1
  /\ UNCHANGED crashes

BatchRequest(b) ==
  \/ \E scope \in {"batch", "campaign"} :
       \/ Asks("process") /\ Process(b, scope)
       \/ Asks("reprocess errors") /\ ReprocessErrors(b, scope)
  \/ Asks("recheck") /\ RecheckBatch(b)
  \/ Asks("prepare full sync") /\ PrepareFullSync(b)
  \/ Asks("full sync") /\ FullSyncBatch(b)
  \/ Asks("pause") /\ PauseBatch(b)
  \/ Asks("reprocess blocked") /\ ReprocessBlocked(b)
  \/ \E S \in SUBSET Links : Asks("reprocess filtered") /\ ReprocessFiltered(b, S)

MemberRequest(l) ==
  \/ Asks("reprocess member") /\ ReprocessMember(l)
  \/ Asks("delete member") /\ DeleteMember(l)

Request ==
  \/ \E b \in Batches : BatchRequest(b)
  \/ \E l \in Links : MemberRequest(l)
  \/ Asks("interrupt") /\ InterruptCampaign
  \/ \E S \in SUBSET Jobs : Asks("stop request") /\ StopRequest(S)

Application ==
  \/ Request /\ UNCHANGED resumes
  \/ \E b \in Batches : Asks("resume") /\ ReadPaused(b)
  \/ \E j \in Jobs : WriteResumed(j) /\ UNCHANGED <<requests, crashes>>

-----------------------------------------------------------------------------
(* The worker *)

Consulted(r, l) ==
  \/ \E pay \in ErpOutcomes : PersistSuccess(r, l, pay)
  \/ \E retryable \in BOOLEAN : PersistFailure(r, l, retryable)
  \/ DiscardResult(r, l)

\* The steps of a call that is running; each is taken if the process lives.
Cycle(r) ==
  \/ PauseCheckpoint(r)
  \/ RecoverStale(r)
  \/ \E j \in Jobs : ClaimJob(r, j)
  \/ NoJob(r)
  \/ ClaimMembers(r)
  \/ \E l \in Links : Consulted(r, l)
  \/ Release(r)
  \/ EndDrain(r)

Starts(r) == Boot(r) \/ Trigger(r)

Worker ==
  /\ \E r \in Runs : Starts(r) \/ Cycle(r)
  /\ UNCHANGED <<resumes, requests, crashes>>

Failure ==
  /\ crashes < MaxCrashes
  /\ crashes' = crashes + 1
  /\ \E r \in Runs : FailRun(r) \/ Crash(r)
  /\ UNCHANGED <<resumes, requests>>

Time ==
  /\ \/ \E j \in Jobs : LeaseExpires(j) \/ JobComesDue(j)
     \/ \E l \in Links : HeartbeatAges(l) \/ RetryComesDue(l)
  /\ UNCHANGED <<resumes, requests, crashes>>

Next == Application \/ Worker \/ Failure \/ Time

Spec == Init /\ [][Next]_vars

TypeOK == StateTypeOK /\ resumes \in [Jobs -> Nat] /\ requests \in Nat /\ crashes \in Nat

-----------------------------------------------------------------------------
(* Safety *)

\* A link is 'processing' exactly while some run owns its claim, and waits for
\* a retry or a heartbeat only in the state the column is about: no writer
\* leaves half of a claim behind.
ClaimsAreWhole ==
  \A l \in Links :
    /\ (links[l].status = "processing") <=> (links[l].owner # NoRun)
    /\ links[l].old => links[l].status = "processing"
    /\ links[l].due => links[l].status = "retrying"

\* locked_by outlives the state running only in a job cancelled under its
\* worker, or overwritten by a late resume; a running job always has a worker
\* that can release it.
LeasesAreOwned ==
  \A j \in Jobs :
    /\ jobs[j].status = "running" => jobs[j].owner # NoRun
    /\ jobs[j].owner # NoRun =>
         \/ jobs[j].status \in {"running", "cancelled"}
         \/ jobs[j].late /\ jobs[j].status \in {"queued", "paused", "completed"}

\* No recovery, release or merge puts a job back in the queue while a stop of
\* it is still requested.
StopSurvivesRecovery ==
  \A j \in Jobs : jobs[j].status = "queued" => ~jobs[j].stop

\* The parts of the ledger of a job add up, in whatever order the worker, the
\* settling trigger and the operators write it.
LedgerAddsUp ==
  \A j \in Jobs : jobs[j].processed = jobs[j].success + jobs[j].error

\* A technical failure never reclassifies a confirmed payment.
ConfirmedNeverFails ==
  \A l \in Links :
    links[l].pay \in {"paid", "agreed"} /\ links[l].status = "error"
      => links[l].deleted

\* Every claim a run may still persist is inside the scope its job had when
\* the run took it: one member, the items of a snapshot, or the batch.
ClaimsStayInScope ==
  \A r \in Runs, l \in Links :
    Owns(r, l) =>
      /\ jobs[runs[r].job].batch = BatchOf[l]
      /\ runs[r].target \in {NoLink, l}
      /\ runs[r].filtered => items[runs[r].job][l] # "none"

\* The worker a row names is gone, or is the one that works on it: a link it
\* has in flight, the job it claimed.
OwnersKnowTheirWork ==
  /\ \A l \in Links : links[l].owner \in Runs => l \in runs[links[l].owner].inflight
  /\ \A j \in Jobs : jobs[j].owner \in Runs => runs[jobs[j].owner].job = j

-----------------------------------------------------------------------------
(* Action properties *)

\* A job counts a success only for a link of its batch, claimed by its worker
\* and completed in the same transaction.
CountedOnce ==
  \A j \in Jobs :
    jobs'[j].success > jobs[j].success =>
      /\ jobs'[j].success = jobs[j].success + 1
      /\ \E l \in Links : /\ BatchOf[l] = jobs[j].batch
                          /\ links[l].owner = jobs[j].owner
                          /\ links[l].owner # NoRun
                          /\ links'[l].status = "completed"
SuccessesAreResults == [][CountedOnce]_vars

\* A run that was given a whole batch completes its job only when nothing is
\* left to do in the batch: every link without a terminal payment is completed
\* or in error.
DrainedBatch(b) ==
  \A l \in Links : (BatchOf[l] = b /\ ~links'[l].deleted
                     /\ links'[l].pay \notin TerminalPay)
                   => links'[l].status \in {"completed", "error"}

WaveClosed ==
  \A r \in Runs : \A j \in Jobs :
    (/\ jobs[j].owner = r /\ jobs[j].status = "running"
     /\ runs[r].pc = "work" /\ runs'[r].pc # "work"
     /\ runs[r].target = NoLink /\ ~runs[r].filtered
     /\ jobs'[j].status = "completed")
    => DrainedBatch(jobs[j].batch)
WavesCloseDrained == [][WaveClosed]_vars

\* An ended job becomes active again only when a resume that had read it paused
\* writes it, or by the worker that such a write left holding it, if it was
\* completed meanwhile.  Nothing else revives it, not the worker that holds a
\* cancelled job until it releases it, nor a recovery or another request; and
\* nothing revives a job of the general synchronization, or a deleted one.
Ended(job) == job.status \in {"cancelled", "deleted", "failed", "completed"}
Overwritten(j) == resumes'[j] < resumes[j]
StillHeld(j) == jobs[j].late /\ jobs[j].owner # NoRun
NeverRevived ==
  \A j \in Jobs :
    Ended(jobs[j]) /\ ~Ended(jobs'[j]) =>
      /\ jobs[j].origin = "manual" /\ jobs[j].status # "deleted"
      /\ Overwritten(j) \/ (StillHeld(j) /\ jobs[j].status = "completed")
EndedJobsStayEnded == [][NeverRevived]_vars

-----------------------------------------------------------------------------
(* The claims of the queue implement the protocol of ClaimProtocol: every step
   of the application, the worker, the clock or a crash is one of its steps. *)
Claims == INSTANCE ClaimProtocol WITH
  holder <- [l \in Links |-> links[l].owner],
  flight <- [r \in Runs |-> runs[r].inflight],
  pay <- [l \in Links |-> links[l].pay],
  Payments <- PayStatus,
  Unknown <- "none"

\* A result is published once, under a claim that still stands: what every
\* test of processing_owner and claim_token in the worker is for.
ClaimsImplemented == Claims!Spec

-----------------------------------------------------------------------------
(* What the general synchronization relies on *)
Lifecycle == INSTANCE JobLifecycle

Row(job) == [status |-> job.status, stop |-> job.stop, origin |-> job.origin]

\* Seen by status, stop and origin, a job only makes the moves of JobLifecycle:
\* a dashboard job is never paused, stopped or cancelled by an operator of the
\* queue, no merge, recovery or trigger takes a shortcut, and the only way out is
\* the late write of a resume, that no job but a manual one can meet.
JobsMove ==
  \A j \in Jobs :
    LET old == Row(jobs[j])
        new == Row(jobs'[j])
    IN  \/ Lifecycle!Move(old, new)
        \/ (Overwritten(j) /\ Lifecycle!Overwrites(old, new))
        \/ (StillHeld(j) /\ Lifecycle!LeavesOverwritten(old, new))
JobsFollowLifecycle == [][JobsMove]_vars

-----------------------------------------------------------------------------
(* Liveness *)

\* The timer starts the process again, a process that lives goes on, and the
\* clock moves.  Nothing is assumed of the operators, of the ERP's answers or of
\* failures.
Unattended == UNCHANGED <<resumes, requests, crashes>>

Fairness ==
  /\ WF_vars((\E r \in Runs : Boot(r)) /\ Unattended)
  /\ \A r \in Runs : WF_vars(Cycle(r) /\ Unattended)
  /\ \A l \in Links : /\ WF_vars(HeartbeatAges(l) /\ Unattended)
                       /\ WF_vars(RetryComesDue(l) /\ Unattended)
  /\ \A j \in Jobs : WF_vars(JobComesDue(j) /\ Unattended)

FairSpec == Spec /\ Fairness

\* A claimed link is always released: persisted, dropped or recovered.
ClaimsEnd ==
  \A l \in Links : links[l].status = "processing" ~> links[l].status # "processing"

\* Every job that is queued or running ends, or waits for an operator.
JobsEnd ==
  \A j \in Jobs : jobs[j].status \in {"queued", "running"}
                  ~> jobs[j].status \notin {"queued", "running"}

-----------------------------------------------------------------------------
(* What the documentation promises and the code does not keep *)

Works(j, l) == /\ jobs[j].status \in {"queued", "running"}
               /\ jobs[j].batch = BatchOf[l] /\ jobs[j].target \in {NoLink, l}

\* 018: a link that has no attempt left does not stay out of the closing of
\* the wave that covers it.
OutOfAttempts(l) == /\ links[l].status \in {"pending", "retrying"}
                    /\ links[l].attempts >= MaxAttempts
                    /\ \E j \in Jobs : Works(j, l)
ExhaustedLinksSettle == \A l \in Links : OutOfAttempts(l) ~> ~OutOfAttempts(l)
=============================================================================
