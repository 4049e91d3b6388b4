-------------------------- MODULE BatchJobService --------------------------
(***************************************************************************)
(* What the application does to the queue: the requests of the operators   *)
(* (routes under app/api) and the two statements of the general            *)
(* synchronization that touch it.  Each request is one transaction, that   *)
(* locks or tests again the rows it writes; only the resume of a batch is  *)
(* cut between its read and its write.                                     *)
(***************************************************************************)
EXTENDS ProcessingState

VARIABLE resumes  \* of each job, the resumes that read it and have yet to write

NoJobId == 0

ActiveJobs(b, origin) ==
  {j \in Jobs : /\ jobs[j].batch = b /\ jobs[j].origin = origin
                /\ jobs[j].status \in ActiveStatus}

\* The active job a request is merged with: the one of the highest priority,
\* then the latest created; or none.
MergeTargets(b, origin) ==
  IF ActiveJobs(b, origin) = {} THEN {NoJobId}
  ELSE {j \in ActiveJobs(b, origin) : \A k \in ActiveJobs(b, origin) :
          \/ Priority[jobs[k].scope] < Priority[jobs[j].scope]
          \/ Priority[jobs[k].scope] = Priority[jobs[j].scope] /\ k <= j}

NewJob(b, origin, scope, total) ==
  [status |-> "queued", batch |-> b, origin |-> origin, scope |-> scope,
   includeErrors |-> FALSE, target |-> NoLink, filtered |-> FALSE,
   tracked |-> FALSE, stop |-> FALSE, due |-> TRUE, expired |-> FALSE,
   owner |-> NoRun, late |-> FALSE, total |-> total, processed |-> 0, success |-> 0,
   error |-> 0]

\* The next id is the least free one: ids are the order of created_at.  Bound:
\* nothing is inserted when MaxJobs rows exist.
Insert(js, job) ==
  LET free == {j \in Jobs : js[j].status = "absent"}
  IN  \E next \in free : /\ \A k \in free : next <= k
                         /\ jobs' = [js EXCEPT ![next] = job]

ToPending(rec) ==
  [Unclaimed(rec) EXCEPT !.status = "pending", !.due = FALSE, !.errReq = FALSE]

\* Pending again with the counters of attempts and reclaims at zero.
Renew(rec) == [ToPending(rec) EXCEPT !.attempts = 0, !.stale = 0]

NonTerminal(rec) == rec.pay \notin TerminalPay

Stopped(job) == [job EXCEPT !.stop = TRUE]

\* stop_requested_at cleared, queued for now.
Resumed(job) ==
  [job EXCEPT !.status = "queued", !.stop = FALSE, !.due = TRUE]

WriteLinks(ls) == links' = ls /\ items' = SyncReplay(ls)

-----------------------------------------------------------------------------
(* enqueueBatchJobWithReuse *)

\* reopenUnpaidMembersForManualProcessing
Reopen(ls, b, reset, keep) ==
  LET open == {l \in LinksOf(b) \ keep : /\ ls[l].status # "processing"
                                         /\ ls[l].pay \in {"none", "unpaid"}}
      fresh(rec) == [ToPending(rec) EXCEPT !.attempts = IF reset THEN 0 ELSE @]
  IN  UpdateLinks(ls, open, fresh)

\* normalizeExhaustedMembers
NormalizeExhausted(ls, b) ==
  LET spent == {l \in LinksOf(b) : /\ NonTerminal(ls[l])
                                   /\ ls[l].status \in {"pending", "retrying"}
                                   /\ ls[l].attempts >= CfgAttempts}
      toError(rec) == [Unclaimed(rec) EXCEPT !.status = "error", !.due = FALSE]
  IN  UpdateLinks(ls, spent, toError)

\* requestErroredMembers
RequestErrored(ls, b) ==
  LET failed == {l \in LinksOf(b) : NonTerminal(ls[l]) /\ ls[l].status = "error"}
      request(rec) == [Unclaimed(rec) EXCEPT !.errReq = TRUE, !.attempts = 0]
  IN  UpdateLinks(ls, failed, request)

\* getClaimableSummary
ClaimableLinks(ls, b, includeErrors) ==
  {l \in LinksOf(b) :
     /\ NonTerminal(ls[l])
     /\ \/ ls[l].status = "pending"
        \/ ls[l].status = "retrying" /\ ls[l].due
        \/ includeErrors /\ ls[l].status = "error"}

StillWorking(ls, b) ==
  \E l \in LinksOf(b) : \/ ls[l].status = "processing"
                        \/ NonTerminal(ls[l]) /\ ls[l].status = "retrying"

\* The active job takes the request in: the mode and the total only grow, the
\* scope is that of the higher priority.
Merge(job, scope, includeErrors, claimable) ==
  LET merged == IF Priority[scope] > Priority[job.scope] THEN scope
                ELSE job.scope
  IN  [job EXCEPT !.includeErrors = @ \/ includeErrors,
                  !.scope = merged,
                  !.target = IF merged = "member" THEN @ ELSE NoLink,
                  !.total = Greatest(@, job.processed + claimable)]

\* keep: the finished results a scheduled recheck may reuse.
Enqueue(b, origin, scope, includeErrors, recheck, keep) ==
  \E j \in MergeTargets(b, origin) :
  LET merged == includeErrors \/ (j # NoJobId /\ jobs[j].includeErrors)
      ls == IF ~includeErrors
            THEN NormalizeExhausted(Reopen(links, b, recheck, keep), b)
            ELSE IF j = NoJobId \/ ~jobs[j].includeErrors
                 THEN RequestErrored(links, b) ELSE links
      claimable == Cardinality(ClaimableLinks(ls, b, merged))
      row == Merge(jobs[j], scope, includeErrors, claimable)
      finished == row.status = "queued" /\ claimable = 0 /\ ~StillWorking(ls, b)
      new == [NewJob(b, origin, scope, claimable)
                EXCEPT !.includeErrors = includeErrors]
  IN  /\ \/ /\ j = NoJobId /\ WriteLinks(ls)
            /\ IF claimable = 0 THEN UNCHANGED jobs ELSE Insert(jobs, new)
         \/ /\ j # NoJobId /\ ~finished /\ WriteLinks(ls)
            /\ jobs' = [jobs EXCEPT ![j] = IF row.status = "paused"
                                           THEN Resumed(row) ELSE row]
         \/ /\ j # NoJobId /\ finished
            /\ WriteJobStatus(ls, j, [row EXCEPT !.status = "completed"])
      /\ UNCHANGED <<runs, lock>>

\* POST lotes/[id]/processar and campanhas/[id]/processar
Process(b, scope) == Enqueue(b, "manual", scope, FALSE, FALSE, {})

\* POST lotes/[id]/reprocessar-erros and campanhas/[id]/reprocessar-erros
ReprocessErrors(b, scope) == Enqueue(b, "manual", scope, TRUE, FALSE, {})

\* The scheduled recheck of the general synchronization.
RecheckBatch(b) ==
  \E keep \in SUBSET {l \in LinksOf(b) : links[l].status = "completed"} :
    Enqueue(b, "dashboard", "dashboard", FALSE, TRUE, keep)

\* prepareBatchForFullSync: one statement, before the enqueue; agreed and
\* excluded links stay completed (trg_apply_agreed_financial_truth_v1).
PrepareFullSync(b) ==
  LET reset(rec) == [Unclaimed(rec) EXCEPT !.status = "pending", !.due = FALSE]
      prepared == {l \in LinksOf(b) :
                     /\ links[l].pay # "paid"
                     /\ links[l].pay \in TerminalPay
                          => links[l].status # "completed"}
  IN  /\ WriteLinks(UpdateLinks(links, prepared, reset))
      /\ UNCHANGED <<jobs, runs, lock>>

FullSyncBatch(b) == Enqueue(b, "dashboard", "dashboard", TRUE, FALSE, {})

-----------------------------------------------------------------------------
(* Pause, resume, interruption *)

Paused(job) ==
  CASE job.status = "running" -> Stopped(job)
    [] job.status = "queued" -> [Stopped(job) EXCEPT !.status = "paused"]
    [] OTHER -> job

\* Mutant of PauseBatch: jobs of the general synchronization are paused too.
PauseBatchOfAnyOrigin(b) ==
  /\ jobs' = [j \in Jobs |-> IF jobs[j].batch = b THEN Paused(jobs[j])
                                                 ELSE jobs[j]]
  /\ UNCHANGED <<links, items, runs, lock>>

\* POST lotes/[id]/pausar
PauseBatch(b) ==
  /\ jobs' = [j \in Jobs |->
                IF jobs[j].batch = b /\ jobs[j].origin = "manual"
                THEN Paused(jobs[j]) ELSE jobs[j]]
  /\ UNCHANGED <<links, items, runs, lock>>

\* Late, when the row is no longer paused.
ResumedLate(job) ==
  [Resumed(job) EXCEPT !.late = job.late \/ job.status # "paused"]

\* POST lotes/[id]/retomar reads the latest paused job without locking it ...
ReadPaused(b) ==
  LET paused == {j \in ActiveJobs(b, "manual") : jobs[j].status = "paused"}
  IN  \E j \in paused :
        /\ \A k \in paused : k <= j
        /\ resumes' = [resumes EXCEPT ![j] = @ + 1]
        /\ UNCHANGED <<links, jobs, items, runs, lock>>

\* ... and updates whatever row now has its id: under READ COMMITTED the update
\* waits for a concurrent transaction and tests again only pj.id = target.id.
WriteResumed(j) ==
  /\ resumes[j] > 0
  /\ resumes' = [resumes EXCEPT ![j] = @ - 1]
  /\ jobs' = IF jobs[j].status = "deleted" THEN jobs
             ELSE [jobs EXCEPT ![j] = ResumedLate(@)]
  /\ UNCHANGED <<links, items, runs, lock>>

\* POST campanhas/[id]/pausar: the active jobs are deleted, of both origins.
InterruptCampaign ==
  LET active == {j \in Jobs : jobs[j].status \in ActiveStatus}
      claimed == {l \in Links : /\ links[l].status = "processing"
                                /\ ~links[l].deleted}
      reclaim(rec) == [Unclaimed(rec) EXCEPT !.status = "retrying",
                                             !.due = TRUE]
  IN  /\ active # {}
      /\ jobs' = [j \in Jobs |-> IF j \in active
                    THEN [jobs[j] EXCEPT !.status = "deleted", !.owner = NoRun,
                                         !.expired = FALSE]
                    ELSE jobs[j]]
      /\ WriteLinks(UpdateLinks(links, claimed, reclaim))
      /\ UNCHANGED <<runs, lock>>

\* POST associados/processamento-manual/[requestId]/parar: some of the jobs
\* the items of one request refer to; a running one keeps its worker.
StopRequest(S) ==
  /\ S # {}
  /\ \A j \in S : jobs[j].tracked /\ jobs[j].status \in ActiveStatus
  /\ jobs' = [j \in Jobs |-> IF j \in S
                THEN [Stopped(jobs[j]) EXCEPT !.status = "cancelled",
                                              !.due = FALSE]
                ELSE jobs[j]]
  /\ UNCHANGED <<links, items, runs, lock>>

-----------------------------------------------------------------------------
(* One member *)

MemberJobs(js, l) ==
  {j \in Jobs : /\ js[j].target = l /\ js[j].scope = "member"
                /\ js[j].origin = "manual" /\ js[j].status \in ActiveStatus}

\* queueMemberReprocess, on the rows ls and js its transaction already wrote.
QueueMember(ls, js, l, track) ==
  LET active == MemberJobs(js, l)
      renewed == UpdateLinks(ls, {l}, Renew)
      fresh == [NewJob(BatchOf[l], "manual", "member", 1)
                  EXCEPT !.target = l, !.tracked = track]
      again(job) ==
        [Resumed(job) EXCEPT
           !.total = 1, !.processed = 0, !.success = 0, !.error = 0,
           !.owner = NoRun, !.expired = FALSE, !.tracked = job.tracked \/ track]
      kept(job) ==
        [job EXCEPT !.stop = FALSE, !.tracked = job.tracked \/ track]
  IN  \/ active = {} /\ WriteLinks(renewed) /\ Insert(js, fresh)
      \/ \E j \in active :
           /\ \A m \in active : m <= j
           /\ IF js[j].status = "running"
              THEN WriteLinks(ls) /\ jobs' = [js EXCEPT ![j] = kept(js[j])]
              ELSE WriteLinks(renewed) /\ jobs' = [js EXCEPT ![j] = again(js[j])]

\* POST associados/[id]/reprocessar and associados/reprocessar-selecionados
ReprocessMember(l) ==
  /\ ~links[l].deleted
  /\ QueueMember(links, jobs, l, TRUE)
  /\ UNCHANGED <<runs, lock>>

\* DELETE associados/[id], for a link in error because its installment was not
\* found; the only installment left of the member is consulted again.
DeleteMember(l) ==
  LET ls == [links EXCEPT ![l].deleted = TRUE]
      js == [j \in Jobs |->
               IF j \in MemberJobs(jobs, l) /\ jobs[j].status # "running"
               THEN [jobs[j] EXCEPT !.status = "cancelled", !.owner = NoRun,
                                    !.due = FALSE, !.expired = FALSE]
               ELSE jobs[j]]
      left == {m \in LinksOf(BatchOf[l]) \ {l} : MemberOf[m] = MemberOf[l]}
  IN  /\ links[l].status = "error" /\ ~links[l].deleted
      /\ IF \E m \in left : left = {m} /\ links[m].pay # "paid"
         THEN \E m \in left : QueueMember(ls, js, m, FALSE)
         ELSE links' = ls /\ jobs' = js /\ UNCHANGED items
      /\ UNCHANGED <<runs, lock>>

-----------------------------------------------------------------------------
(* Errors *)

\* POST associados/reprocessar-erros-filtrados, for the links of one batch
\* that no general synchronization is working on.
ReprocessFiltered(b, S) ==
  /\ S # {}
  /\ \A l \in S : l \in LinksOf(b) /\ links[l].status = "error"
                                   /\ NonTerminal(links[l])
  /\ links' = UpdateLinks(links, S, Renew)
  /\ Insert(jobs, [NewJob(b, "manual", "campaign", Cardinality(S))
                     EXCEPT !.filtered = TRUE])
  /\ items' = [j \in Jobs |-> IF jobs'[j] # jobs[j]
                 THEN [l \in Links |-> IF l \in S THEN "queued" ELSE "none"]
                 ELSE SyncReplay(links')[j]]
  /\ UNCHANGED <<runs, lock>>

\* POST lotes/[id]/reprocessar-bloqueados
ReprocessBlocked(b) ==
  LET blocked == {l \in LinksOf(b) :
                    /\ links[l].pay # "paid"
                    /\ links[l].status \in {"error", "pending", "retrying"}
                    /\ links[l].attempts >= MaxAttempts}
  IN  /\ ActiveJobs(b, "manual") = {}
      /\ blocked # {}
      /\ WriteLinks(UpdateLinks(links, blocked, Renew))
      /\ Insert(jobs, NewJob(b, "manual", "batch", Cardinality(blocked)))
      /\ UNCHANGED <<runs, lock>>
=============================================================================
