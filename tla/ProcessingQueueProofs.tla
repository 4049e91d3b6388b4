----------------------- MODULE ProcessingQueueProofs -----------------------
(***************************************************************************)
(* Theorems about ProcessingQueue, for every value of its constants.       *)
(*                                                                         *)
(* Every statement that is not a step of a run's own job rewrites rows one *)
(* by one: what the invariants say of a link or of a job is first proved   *)
(* of the operators that rewrite one row (sections 1 and 2), then of whole *)
(* statements (section 3), then of the actions (sections 4 and 5).         *)
(***************************************************************************)
EXTENDS ProcessingQueue, FiniteSetTheorems, TLAPS

(***************************************************************************)
(* 1. One link                                                             *)
(***************************************************************************)

\* What ClaimsAreWhole and ConfirmedNeverFails say of one row.
LinkOK(rec) ==
  /\ rec \in LinkRec
  /\ (rec.status = "processing") <=> (rec.owner # NoRun)
  /\ rec.old => rec.status = "processing"
  /\ rec.due => rec.status = "retrying"
  /\ rec.pay \in {"paid", "agreed"} /\ rec.status = "error" => rec.deleted

\* A rewriting that takes no claim and publishes nothing.
LinkFollows(new, old) ==
  /\ LinkOK(new)
  /\ new.owner \in {old.owner, NoRun}
  /\ new.pay = old.pay

LEMMA LinkFollowsItself ==
  ASSUME NEW rec, LinkOK(rec) PROVE LinkFollows(rec, rec)
BY DEF LinkFollows

LEMMA LinkFollowsTransitive ==
  ASSUME NEW a, NEW b, NEW c, LinkFollows(b, a), LinkFollows(c, b)
  PROVE  LinkFollows(c, a)
BY DEF LinkFollows

\* Unclaimed, field by field.
LEMMA UnclaimedFields ==
  ASSUME NEW rec \in LinkRec
  PROVE  /\ Unclaimed(rec) \in LinkRec
         /\ Unclaimed(rec).owner = NoRun
         /\ Unclaimed(rec).old = FALSE
         /\ Unclaimed(rec).status = rec.status
         /\ Unclaimed(rec).pay = rec.pay
         /\ Unclaimed(rec).due = rec.due
         /\ Unclaimed(rec).deleted = rec.deleted
BY DEF Unclaimed, LinkRec, Owner

\* A rewriting about to go through the trigger: consistent but for a confirmed
\* payment in error.
Draft(new, old) ==
  /\ new \in LinkRec
  /\ (new.status = "processing") <=> (new.owner # NoRun)
  /\ new.old => new.status = "processing"
  /\ new.due => new.status = "retrying"
  /\ new.owner \in {old.owner, NoRun}
  /\ new.pay = old.pay

\* The trigger makes a draft a rewriting that keeps the invariants.
LEMMA EnforceTerminalFollows ==
  ASSUME NEW old, NEW new, Draft(new, old)
  PROVE  LinkFollows(EnforceTerminal(new), old)
<1> DEFINE u == Unclaimed(new)
<1>1. /\ new \in LinkRec
      /\ u \in LinkRec /\ u.owner = NoRun /\ u.old = FALSE /\ u.pay = new.pay
  BY UnclaimedFields DEF Draft
<1> HIDE DEF u
<1>2. CASE new.pay \in {"paid", "agreed"} /\ new.status = "error" /\ ~new.deleted
  <2> DEFINE e == [u EXCEPT !.status = "completed", !.attempts = 0,
                            !.stale = 0, !.due = FALSE, !.errReq = FALSE]
  <2>1. EnforceTerminal(new) = e
    BY <1>2 DEF EnforceTerminal, u
  <2>2. /\ e \in LinkRec /\ e.owner = NoRun /\ e.old = FALSE /\ e.pay = new.pay
        /\ e.status = "completed" /\ e.due = FALSE
    BY <1>1 DEF LinkRec, LinkStatus
  <2> QED BY <2>1, <2>2 DEF LinkFollows, LinkOK, Draft
<1>3. CASE ~(new.pay \in {"paid", "agreed"} /\ new.status = "error" /\ ~new.deleted)
  BY <1>3 DEF EnforceTerminal, LinkFollows, LinkOK, Draft
<1> QED BY <1>2, <1>3

\* Every operator of the model that rewrites a link gives back its claim and
\* leaves no half of it behind.
LEMMA Rewritings ==
  ASSUME NEW rec, LinkOK(rec)
  PROVE  /\ Draft(ReclaimInterrupted(rec), rec)
         /\ Draft(ReclaimStale(rec), rec)
         /\ Draft(ToWaveError(rec), rec)
         /\ Draft(ToPending(rec), rec)
         /\ \A reset : Draft([ToPending(rec) EXCEPT
                                !.attempts = IF reset THEN 0 ELSE @], rec)
         /\ Draft(Renew(rec), rec)
         /\ Draft([Unclaimed(rec) EXCEPT !.status = "pending", !.due = FALSE], rec)
         /\ Draft([Unclaimed(rec) EXCEPT !.status = "error", !.due = FALSE], rec)
         /\ Draft([Unclaimed(rec) EXCEPT !.status = "retrying", !.due = TRUE], rec)
<1> DEFINE u == Unclaimed(rec)
<1>1. /\ u \in LinkRec /\ u.owner = NoRun /\ u.old = FALSE /\ u.pay = rec.pay
  BY UnclaimedFields DEF LinkOK
<1>2. u.stale + 1 \in Nat
  BY <1>1 DEF LinkRec
<1> HIDE DEF u
<1>3. Draft([u EXCEPT !.status = "retrying", !.due = TRUE, !.stale = u.stale + 1], rec)
  BY <1>1, <1>2 DEF Draft, LinkRec, LinkStatus
<1>4. ASSUME NEW limit \in BOOLEAN
      PROVE  Draft([u EXCEPT !.status = IF limit THEN "error" ELSE "retrying",
                             !.due = ~limit, !.stale = u.stale + 1], rec)
  BY <1>1, <1>2 DEF Draft, LinkRec, LinkStatus
<1>5. Draft([u EXCEPT !.status = "error", !.due = FALSE, !.errReq = FALSE], rec)
  BY <1>1 DEF Draft, LinkRec, LinkStatus
<1> DEFINE p == [u EXCEPT !.status = "pending", !.due = FALSE, !.errReq = FALSE]
<1>6. /\ p \in LinkRec /\ p.status = "pending" /\ p.owner = NoRun
      /\ p.old = FALSE /\ p.due = FALSE /\ p.pay = rec.pay
  BY <1>1 DEF LinkRec, LinkStatus
<1>7. p = ToPending(rec)
  BY DEF ToPending, u
<1> HIDE DEF p
<1>8. /\ Draft(p, rec)
      /\ \A reset : Draft([p EXCEPT !.attempts = IF reset THEN 0 ELSE @], rec)
      /\ Draft([p EXCEPT !.attempts = 0, !.stale = 0], rec)
  BY <1>6 DEF Draft, LinkRec
<1>9. /\ Draft([u EXCEPT !.status = "pending", !.due = FALSE], rec)
      /\ Draft([u EXCEPT !.status = "error", !.due = FALSE], rec)
      /\ Draft([u EXCEPT !.status = "retrying", !.due = TRUE], rec)
  BY <1>1 DEF Draft, LinkRec, LinkStatus
<1>10. Draft(ReclaimInterrupted(rec), rec)
  BY <1>3 DEF ReclaimInterrupted, u
<1>11. Draft(ReclaimStale(rec), rec)
  BY <1>4 DEF ReclaimStale, u
<1>12. Draft(ToWaveError(rec), rec)
  BY <1>5 DEF ToWaveError, u
<1>13. /\ Draft(ToPending(rec), rec)
       /\ \A reset : Draft([ToPending(rec) EXCEPT
                              !.attempts = IF reset THEN 0 ELSE @], rec)
       /\ Draft(Renew(rec), rec)
  BY <1>7, <1>8 DEF Renew
<1> QED BY <1>9, <1>10, <1>11, <1>12, <1>13 DEF u

LEMMA RequestDraft ==
  ASSUME NEW rec, LinkOK(rec), rec.status = "error"
  PROVE  Draft([Unclaimed(rec) EXCEPT !.errReq = TRUE, !.attempts = 0], rec)
<1> DEFINE u == Unclaimed(rec)
<1>1. /\ u \in LinkRec /\ u.owner = NoRun /\ u.old = FALSE /\ u.pay = rec.pay
      /\ u.status = "error" /\ u.due = rec.due /\ rec.due = FALSE
  BY UnclaimedFields DEF LinkOK, LinkRec
<1> HIDE DEF u
<1>2. Draft([u EXCEPT !.errReq = TRUE, !.attempts = 0], rec)
  BY <1>1 DEF Draft, LinkRec
<1> QED BY <1>2 DEF u

(***************************************************************************)
(* 2. One job                                                              *)
(***************************************************************************)

\* Where a worker may still hold a job that a resume wrote over.
Overwritable == {"queued", "paused", "completed"}

USE DEF Overwritable

\* What LeasesAreOwned, StopSurvivesRecovery and LedgerAddsUp say of one row.
JobOK(job) ==
  /\ job \in JobRec
  /\ job.status = "running" => job.owner # NoRun
  /\ job.owner # NoRun => \/ job.status \in {"running", "cancelled"}
                          \/ job.late /\ job.status \in Overwritable
  /\ job.late => job.origin = "manual"
  /\ job.status = "queued" => ~job.stop
  /\ job.processed = job.success + job.error

\* A job stays, with its batch and its origin, and with its link unless a wider
\* request took it in.
JobStays(new, old) ==
  old.status # "absent" =>
    /\ new.status # "absent" /\ new.batch = old.batch /\ new.origin = old.origin
    /\ new.target \in {old.target, NoLink}

\* A rewriting that takes no job and revives none ...
JobKept(new, old) ==
  /\ JobOK(new)
  /\ new.owner \in {old.owner, NoRun}
  /\ Ended(old) => Ended(new)
  /\ JobStays(new, old)

\* ... and counts no success.
JobFollows(new, old) == JobKept(new, old) /\ new.success \in {0, old.success}

USE DEF JobStays, JobKept

LEMMA JobFollowsItself ==
  ASSUME NEW job, JobOK(job) PROVE JobFollows(job, job)
BY DEF JobFollows

LEMMA GreatestNat ==
  ASSUME NEW a \in Nat, NEW b \in Nat
  PROVE  Greatest(a, b) \in Nat /\ Greatest(a, b) >= a /\ Greatest(a, b) >= b
BY DEF Greatest

LEMMA FinalizeExactFollows ==
  ASSUME NEW job, JobOK(job)
  PROVE  JobFollows(FinalizeExact(job), job)
<1>1. CASE job.status = "running"
  <2> DEFINE e == [job EXCEPT !.status = "completed", !.owner = NoRun,
                              !.expired = FALSE, !.due = TRUE]
  <2>1. /\ JobOK(e) /\ e.owner = NoRun /\ ~Ended(job) /\ e.status = "completed"
        /\ e.batch = job.batch /\ e.target = job.target /\ e.success = job.success
        /\ e.origin = job.origin
    BY <1>1 DEF JobOK, JobRec, JobStatus, ActiveStatus, Owner, Ended
  <2>2. FinalizeExact(job) \in {e, job}
    BY DEF FinalizeExact
  <2> HIDE DEF e
  <2>3. JobFollows(e, job)
    BY <2>1 DEF JobFollows
  <2> QED BY <2>2, <2>3, JobFollowsItself
<1>2. CASE job.status # "running"
  BY <1>2, JobFollowsItself DEF FinalizeExact
<1> QED BY <1>1, <1>2

LEMMA ExhaustedCounts ==
  ASSUME NEW ls, NEW old, NEW new
  PROVE  /\ Exhausted(ls, old, new) \subseteq Links
         /\ Cardinality(Exhausted(ls, old, new)) \in Nat
<1>1. Exhausted(ls, old, new) \subseteq Links
  BY DEF Exhausted
<1> QED BY <1>1, LinksAssumption, FS_Subset, FS_CardinalityType DEF LinksAssumption

\* The settling of a wave keeps the ledger: the errors it adds are exactly
\* what it adds to the processed links.
LEMMA SettleJobFollows ==
  ASSUME NEW ls, NEW old, NEW new, JobOK(new)
  PROVE  JobFollows(SettleJob(ls, old, new), new)
<1> DEFINE n == Cardinality(Exhausted(ls, old, new))
           settled == Greatest(new.processed, new.success + new.error + n)
           total == Greatest(new.total, settled)
           e == [new EXCEPT !.error = new.error + n, !.processed = settled,
                            !.total = total]
<1>1. n \in Nat
  BY ExhaustedCounts
<1>2. SettleJob(ls, old, new) \in {new, e}
  BY DEF SettleJob
<1> HIDE DEF n
<1>3. /\ new.processed \in Nat /\ new.success \in Nat /\ new.error \in Nat
      /\ new.total \in Nat /\ new.processed = new.success + new.error
  BY DEF JobOK, JobRec
<1>4. settled = new.success + (new.error + n) /\ settled \in Nat /\ total \in Nat
  BY <1>1, <1>3 DEF Greatest
<1> HIDE DEF settled, total
<1>5. new.error + n \in Nat /\ settled = new.success + (new.error + n)
  BY <1>1, <1>3, <1>4
<1>6. /\ e \in JobRec /\ e.status = new.status /\ e.owner = new.owner
      /\ e.stop = new.stop /\ e.processed = e.success + e.error
      /\ e.batch = new.batch /\ e.target = new.target /\ e.success = new.success
      /\ e.origin = new.origin /\ e.late = new.late
  <2> DEFINE m == new.error + n
  <2>1. m \in Nat /\ settled = new.success + m /\ new \in JobRec
    BY <1>5 DEF JobOK
  <2> HIDE DEF m
  <2>2. /\ e \in JobRec /\ e.status = new.status /\ e.owner = new.owner
        /\ e.stop = new.stop /\ e.success = new.success /\ e.error = m
        /\ e.processed = settled /\ e.batch = new.batch /\ e.target = new.target
        /\ e.origin = new.origin /\ e.late = new.late
    BY <2>1, <1>4 DEF JobRec, m
  <2> QED BY <2>1, <2>2
<1> HIDE DEF e
<1>7. JobFollows(e, new)
  BY <1>6 DEF JobFollows, JobOK, Ended
<1> QED BY <1>2, <1>7, JobFollowsItself

LEMMA RunningJobRewritings ==
  ASSUME NEW job, JobOK(job), job.status = "running"
  PROVE  /\ JobFollows(Recovered(job), job)
         /\ JobFollows(Stopped(job), job)
         /\ JobFollows([job EXCEPT !.expired = TRUE], job)
         /\ \A t \in BOOLEAN :
              JobFollows([job EXCEPT !.stop = FALSE, !.tracked = t], job)
<1>1. JobFollows(Recovered(job), job)
  BY DEF JobOK, JobRec, JobStatus, ActiveStatus, Owner, Ended, JobFollows, Recovered
<1>2. JobFollows(Stopped(job), job)
  BY DEF JobOK, JobRec, Ended, JobFollows, Stopped
<1>3. JobFollows([job EXCEPT !.expired = TRUE], job)
  BY DEF JobOK, JobRec, Ended, JobFollows
<1>4. ASSUME NEW t \in BOOLEAN
      PROVE  JobFollows([job EXCEPT !.stop = FALSE, !.tracked = t], job)
  BY DEF JobOK, JobRec, Ended, JobFollows
<1> QED BY <1>1, <1>2, <1>3, <1>4

LEMMA QueuedJobRewritings ==
  ASSUME NEW job, JobOK(job), job.status = "queued"
  PROVE  /\ JobFollows([job EXCEPT !.status = "paused", !.owner = NoRun,
                                   !.due = FALSE, !.expired = FALSE], job)
         /\ JobFollows([Stopped(job) EXCEPT !.status = "paused"], job)
         /\ JobFollows([job EXCEPT !.due = TRUE], job)
         /\ JobFollows([job EXCEPT !.status = "completed"], job)
BY DEF JobOK, JobRec, JobStatus, ActiveStatus, Owner, Ended, JobFollows,
       Stopped

LEMMA PausedJobRewritings ==
  ASSUME NEW job, JobOK(job), job.status = "paused"
  PROVE  JobFollows(Resumed(job), job)
BY DEF JobOK, JobRec, JobStatus, ActiveStatus, Owner, Ended, JobFollows,
       Resumed

\* The late write of a resume leaves the row to the worker that may hold it.
LEMMA OverwrittenRow ==
  ASSUME NEW job, JobOK(job), job.origin = "manual",
         job.status \notin {"absent", "deleted"}
  PROVE  LET row == ResumedLate(job) IN
         /\ JobOK(row) /\ JobStays(row, job)
         /\ row.owner = job.owner /\ row.success = job.success
         /\ row.origin = job.origin /\ row.tracked = job.tracked
         /\ row.status = "queued" /\ row.stop = FALSE
<1> DEFINE late == job.late \/ job.status # "paused"
           row == [Resumed(job) EXCEPT !.late = late]
<1>1. late \in BOOLEAN
  BY DEF JobOK, JobRec
<1>2. late \/ job.owner = NoRun
  BY DEF JobOK
<1> HIDE DEF late
<1>3. /\ row \in JobRec /\ row.status = "queued" /\ row.stop = FALSE
      /\ row.late = late /\ row.owner = job.owner /\ row.origin = job.origin
      /\ row.batch = job.batch /\ row.target = job.target
      /\ row.tracked = job.tracked /\ row.processed = job.processed
      /\ row.success = job.success /\ row.error = job.error
  BY <1>1 DEF Resumed, JobOK, JobRec, JobStatus, ActiveStatus
<1> HIDE DEF row
<1>4. JobOK(row) /\ JobStays(row, job)
  BY <1>2, <1>3 DEF JobOK
<1> QED BY <1>3, <1>4 DEF row, late, ResumedLate

LEMMA ActiveJobRewritings ==
  ASSUME NEW job, JobOK(job), job.status \in ActiveStatus
  PROVE  /\ JobFollows([job EXCEPT !.status = "deleted", !.owner = NoRun,
                                   !.expired = FALSE], job)
         /\ JobFollows([Stopped(job) EXCEPT !.status = "cancelled",
                                            !.due = FALSE], job)
         /\ JobFollows([job EXCEPT !.status = "cancelled", !.owner = NoRun,
                                   !.due = FALSE, !.expired = FALSE], job)
         /\ \A t \in BOOLEAN :
              JobFollows([Resumed(job) EXCEPT
                            !.total = 1, !.processed = 0, !.success = 0,
                            !.error = 0, !.owner = NoRun, !.expired = FALSE,
                            !.tracked = t], job)
<1>1. /\ JobFollows([job EXCEPT !.status = "deleted", !.owner = NoRun,
                                !.expired = FALSE], job)
      /\ JobFollows([Stopped(job) EXCEPT !.status = "cancelled",
                                         !.due = FALSE], job)
      /\ JobFollows([job EXCEPT !.status = "cancelled", !.owner = NoRun,
                                !.due = FALSE, !.expired = FALSE], job)
  BY DEF JobOK, JobRec, JobStatus, ActiveStatus, Owner, Ended, JobFollows,
         Stopped
<1>2. ASSUME NEW t \in BOOLEAN
      PROVE  JobFollows([Resumed(job) EXCEPT
                            !.total = 1, !.processed = 0, !.success = 0,
                            !.error = 0, !.owner = NoRun, !.expired = FALSE,
                            !.tracked = t], job)
  <2> DEFINE a == [Resumed(job) EXCEPT
                     !.total = 1, !.processed = 0, !.success = 0, !.error = 0,
                     !.owner = NoRun, !.expired = FALSE, !.tracked = t]
  <2>1. /\ a \in JobRec /\ a.status = "queued" /\ a.owner = NoRun
        /\ a.stop = FALSE /\ a.processed = 0 /\ a.success = 0 /\ a.error = 0
        /\ a.batch = job.batch /\ a.target = job.target
        /\ a.origin = job.origin /\ a.late = job.late
    BY DEF JobOK, JobRec, JobStatus, ActiveStatus, Owner, Resumed
  <2> HIDE DEF a
  <2>2. JobFollows(a, job)
    BY <2>1 DEF JobOK, JobFollows, Ended, ActiveStatus
  <2> QED BY <2>2 DEF a
<1> QED BY <1>1, <1>2

\* A request taken in by an active job leaves its status, its stop and its
\* ledger alone.
LEMMA MergeFollows ==
  ASSUME NEW job, JobOK(job), NEW scope \in Scopes,
         NEW includeErrors \in BOOLEAN, NEW claimable \in Nat
  PROVE  /\ JobFollows(Merge(job, scope, includeErrors, claimable), job)
         /\ Merge(job, scope, includeErrors, claimable).status = job.status
<1> DEFINE merged == IF Priority[scope] > Priority[job.scope] THEN scope
                     ELSE job.scope
           target == IF merged = "member" THEN job.target ELSE NoLink
           total == Greatest(job.total, job.processed + claimable)
           mode == job.includeErrors \/ includeErrors
           e == [job EXCEPT !.includeErrors = mode, !.scope = merged,
                            !.target = target, !.total = total]
<1>1. job \in JobRec
  BY DEF JobOK
<1>2. /\ merged \in Scopes /\ target \in Links \cup {NoLink}
      /\ mode \in BOOLEAN /\ target \in {job.target, NoLink}
  BY <1>1 DEF JobRec
<1>3. total \in Nat
  <2>1. job.total \in Nat /\ job.processed + claimable \in Nat
    BY <1>1 DEF JobRec
  <2> QED BY <2>1, GreatestNat
<1>4. Merge(job, scope, includeErrors, claimable) = e
  BY DEF Merge
<1> HIDE DEF merged, target, total, mode
<1>5. /\ e \in JobRec /\ e.status = job.status /\ e.owner = job.owner
      /\ e.stop = job.stop /\ e.processed = job.processed
      /\ e.success = job.success /\ e.error = job.error
      /\ e.batch = job.batch /\ e.target = target
      /\ e.origin = job.origin /\ e.late = job.late
  BY <1>1, <1>2, <1>3 DEF JobRec
<1> HIDE DEF e
<1>6. JobFollows(e, job)
  BY <1>2, <1>5 DEF JobFollows, JobOK, Ended
<1> QED BY <1>4, <1>5, <1>6

LEMMA NewJobOK ==
  ASSUME NEW b \in Batches \cup {NoBatch}, NEW origin \in Origins,
         NEW scope \in Scopes, NEW total \in Nat
  PROVE  /\ NewJob(b, origin, scope, total) \in JobRec
         /\ JobOK(NewJob(b, origin, scope, total))
         /\ NewJob(b, origin, scope, total).owner = NoRun
         /\ NewJob(b, origin, scope, total).success = 0
BY DEF NewJob, JobOK, JobRec, JobStatus, ActiveStatus, Owner

(***************************************************************************)
(* 3. The inductive invariant, and statements that rewrite many rows       *)
(***************************************************************************)

\* What a call keeps in memory: links in flight only between the claim of the
\* links and the end of the call, a job only after it was claimed.
RunOK(run) ==
  /\ run \in RunRec
  /\ run.pc \notin {"work", "drain"} => run.inflight = {}
  /\ run.pc \in {"off", "ready", "cycle", "recovered"} => run.job = 0
  /\ run.pc \in {"claimed", "work", "drain"} => run.job \in Jobs

ItemsOK(is) == is \in [Jobs -> [Links -> ItemStatus]]

\* The rows and the runs: the invariants on the rows need to know which run
\* holds a row, and that a run that is not working holds none.
RowsOK ==
  /\ links \in [Links -> LinkRec] /\ \A l \in Links : LinkOK(links[l])
  /\ jobs \in [Jobs -> JobRec] /\ \A j \in Jobs : JobOK(jobs[j])
  /\ ItemsOK(items)
  /\ runs \in [Runs -> RunRec] /\ \A r \in Runs : RunOK(runs[r])
  /\ lock \in Runs \cup {NoRun}
  /\ OwnersKnowTheirWork

\* Whatever became of a job a resume read, it is a manual one that was inserted.
ResumesOK ==
  /\ resumes \in [Jobs -> Nat]
  /\ \A j \in Jobs : resumes[j] > 0 =>
       jobs[j].status # "absent" /\ jobs[j].origin = "manual"

\* The inductive invariant.
IInv == RowsOK /\ ResumesOK

LinksFollow(ls) ==
  ls \in [Links -> LinkRec] /\ \A l \in Links : LinkFollows(ls[l], links[l])

JobsFollow(js) ==
  js \in [Jobs -> JobRec] /\ \A j \in Jobs : JobFollows(js[j], jobs[j])

JobsKept == jobs' \in [Jobs -> JobRec] /\ \A j \in Jobs : JobKept(jobs'[j], jobs[j])

\* A step of anybody else than a run on its own work.
Housekeeping ==
  /\ LinksFollow(links') /\ JobsFollow(jobs') /\ ItemsOK(items')
  /\ runs' \in [Runs -> RunRec]
  /\ \A r \in Runs : /\ RunOK(runs'[r])
                      /\ runs'[r].job = runs[r].job
                      /\ runs'[r].inflight = runs[r].inflight
  /\ lock' \in Runs \cup {NoRun}

LEMMA HousekeepingKeepsInvariant ==
  ASSUME RowsOK, Housekeeping PROVE RowsOK'
<1>1. \A l \in Links : LinkOK(links'[l]) /\ links'[l].owner \in {links[l].owner, NoRun}
  BY DEF Housekeeping, LinksFollow, LinkFollows
<1>2. \A j \in Jobs : JobOK(jobs'[j]) /\ jobs'[j].owner \in {jobs[j].owner, NoRun}
  BY DEF Housekeeping, JobsFollow, JobFollows
<1>3. OwnersKnowTheirWork'
  <2>1. ASSUME NEW l \in Links, links'[l].owner \in Runs
        PROVE  l \in runs'[links'[l].owner].inflight
    BY <1>1, <2>1, LinksAssumption
    DEF RowsOK, OwnersKnowTheirWork, Housekeeping, LinksAssumption
  <2>2. ASSUME NEW j \in Jobs, jobs'[j].owner \in Runs
        PROVE  runs'[jobs'[j].owner].job = j
    BY <1>2, <2>2, LinksAssumption
    DEF RowsOK, OwnersKnowTheirWork, Housekeeping, LinksAssumption
  <2> QED BY <2>1, <2>2 DEF OwnersKnowTheirWork
<1> QED BY <1>1, <1>2, <1>3 DEF RowsOK, Housekeeping, LinksFollow, JobsFollow, ItemsOK

LEMMA SyncReplayType ==
  ASSUME RowsOK, NEW new PROVE ItemsOK(SyncReplay(new))
<1>1. \A old, status : \A item \in ItemStatus : SyncItem(old, status, item) \in ItemStatus
  BY DEF SyncItem, ItemStatus
<1>2. \A j \in Jobs, l \in Links : items[j][l] \in ItemStatus
  BY DEF RowsOK, ItemsOK
<1> QED BY <1>1, <1>2 DEF SyncReplay, ItemsOK

LEMMA LinksFollowThemselves ==
  ASSUME RowsOK PROVE LinksFollow(links)
BY LinkFollowsItself DEF RowsOK, LinksFollow

LEMMA JobsFollowThemselves ==
  ASSUME RowsOK PROVE JobsFollow(jobs)
BY JobFollowsItself DEF RowsOK, JobsFollow

\* The links the trigger settles.
LEMMA SettledLinksFollow ==
  ASSUME RowsOK, NEW ls, LinksFollow(ls), NEW S
  PROVE  LinksFollow(UpdateLinks(ls, S, ToWaveError))
<1>1. ASSUME NEW l \in Links
      PROVE  LinkFollows(EnforceTerminal(ToWaveError(ls[l])), links[l])
  BY Rewritings, EnforceTerminalFollows, LinkFollowsTransitive
  DEF LinksFollow, LinkFollows
<1> QED BY <1>1 DEF UpdateLinks, LinksFollow, LinkFollows, LinkOK

\* A statement on the column status of a job writes one row of jobs that
\* follows the row it was given, and links that follow theirs.
LEMMA WriteJobStatusRows ==
  ASSUME RowsOK, NEW ls, LinksFollow(ls), NEW j \in Jobs, NEW new, JobOK(new),
         WriteJobStatus(ls, j, new)
  PROVE  /\ LinksFollow(links') /\ ItemsOK(items')
         /\ \E row : /\ jobs' = [jobs EXCEPT ![j] = row]
                     /\ JobFollows(row, new)
<1> DEFINE final == FinalizeExact(new)
           row == SettleJob(ls, jobs[j], final)
<1>1. JobFollows(final, new)
  BY FinalizeExactFollows
<1>2. JobFollows(row, final)
  BY <1>1, SettleJobFollows DEF JobFollows
<1>3. JobFollows(row, new)
  BY <1>1, <1>2 DEF JobFollows
<1>4. jobs' = [jobs EXCEPT ![j] = row]
  BY DEF WriteJobStatus
<1>5. LinksFollow(links')
  BY SettledLinksFollow DEF WriteJobStatus
<1>6. ItemsOK(items')
  BY SyncReplayType DEF WriteJobStatus
<1> QED BY <1>3, <1>4, <1>5, <1>6

(***************************************************************************)
(* 4. The application                                                      *)
(***************************************************************************)

LEMMA ReopenFollows ==
  ASSUME RowsOK, NEW b, NEW reset, NEW keep
  PROVE  LinksFollow(Reopen(links, b, reset, keep))
<1>1. \A l \in Links : LinkFollows(EnforceTerminal(
        [ToPending(links[l]) EXCEPT !.attempts = IF reset THEN 0 ELSE @]), links[l])
  BY Rewritings, EnforceTerminalFollows DEF RowsOK
<1> QED BY <1>1, LinksFollowThemselves
        DEF Reopen, UpdateLinks, LinksFollow, LinkFollows, LinkOK

LEMMA NormalizeExhaustedFollows ==
  ASSUME RowsOK, NEW ls, LinksFollow(ls), NEW b
  PROVE  LinksFollow(NormalizeExhausted(ls, b))
<1>1. ASSUME NEW l \in Links
      PROVE  LinkFollows(EnforceTerminal(
               [Unclaimed(ls[l]) EXCEPT !.status = "error", !.due = FALSE]), links[l])
  <2> DEFINE d == [Unclaimed(ls[l]) EXCEPT !.status = "error", !.due = FALSE]
  <2>1. LinkFollows(ls[l], links[l]) /\ LinkOK(ls[l])
    BY DEF LinksFollow, LinkFollows
  <2>2. Draft(d, ls[l])
    BY <2>1, Rewritings
  <2> HIDE DEF d
  <2>3. LinkFollows(EnforceTerminal(d), ls[l])
    BY <2>2, EnforceTerminalFollows
  <2>4. LinkFollows(EnforceTerminal(d), links[l])
    BY <2>1, <2>3, LinkFollowsTransitive
  <2> QED BY <2>4 DEF d
<1> QED BY <1>1 DEF NormalizeExhausted, UpdateLinks, LinksFollow, LinkFollows, LinkOK

LEMMA RequestErroredFollows ==
  ASSUME RowsOK, NEW b
  PROVE  LinksFollow(RequestErrored(links, b))
<1>1. \A l \in Links : links[l].status = "error" =>
        LinkFollows(EnforceTerminal(
          [Unclaimed(links[l]) EXCEPT !.errReq = TRUE, !.attempts = 0]), links[l])
  BY RequestDraft, EnforceTerminalFollows DEF RowsOK
<1> QED BY <1>1, LinksFollowThemselves
        DEF RequestErrored, UpdateLinks, LinksFollow, LinkFollows, LinkOK

LEMMA WriteLinksRows ==
  ASSUME RowsOK, NEW ls, LinksFollow(ls), WriteLinks(ls)
  PROVE  LinksFollow(links') /\ ItemsOK(items')
BY SyncReplayType DEF WriteLinks

\* A new job takes the place of a row nobody used.
LEMMA InsertFollows ==
  ASSUME RowsOK, NEW js, JobsFollow(js),
         \A j \in Jobs : js[j].status = "absent" => js[j] = jobs[j],
         NEW job, JobOK(job), job.owner = NoRun, job.success = 0,
         Insert(js, job)
  PROVE  JobsFollow(jobs')
<1>1. PICK next \in Jobs : js[next].status = "absent" /\ jobs' = [js EXCEPT ![next] = job]
  BY DEF Insert
<1>2. JobFollows(job, jobs[next])
  BY <1>1 DEF JobFollows, Ended
<1>3. ASSUME NEW j \in Jobs PROVE JobFollows(jobs'[j], jobs[j])
  BY <1>1, <1>2 DEF JobsFollow
<1> QED BY <1>1, <1>3 DEF JobsFollow, JobFollows, JobOK

\* One row is replaced by one that follows it.
LEMMA OneJobFollows ==
  ASSUME RowsOK, NEW j \in Jobs, NEW row, JobFollows(row, jobs[j]),
         jobs' = [jobs EXCEPT ![j] = row]
  PROVE  JobsFollow(jobs')
BY JobFollowsItself DEF RowsOK, JobsFollow, JobFollows, JobOK

\* What every request leaves behind.
Requested == /\ LinksFollow(links') /\ JobsFollow(jobs') /\ ItemsOK(items')
             /\ UNCHANGED <<runs, lock>>

LEMMA RequestedIsHousekeeping ==
  ASSUME RowsOK, Requested PROVE Housekeeping
BY DEF RowsOK, Requested, Housekeeping

LEMMA EnqueueRequested ==
  ASSUME RowsOK, NEW b \in Batches, NEW origin \in Origins, NEW scope \in Scopes,
         NEW includeErrors \in BOOLEAN, NEW recheck, NEW keep,
         Enqueue(b, origin, scope, includeErrors, recheck, keep)
  PROVE  Requested
<1> DEFINE merged(j) == includeErrors \/ (j # NoJobId /\ jobs[j].includeErrors)
           ls(j) == IF ~includeErrors
                    THEN NormalizeExhausted(Reopen(links, b, recheck, keep), b)
                    ELSE IF j = NoJobId \/ ~jobs[j].includeErrors
                         THEN RequestErrored(links, b) ELSE links
           claimable(j) == Cardinality(ClaimableLinks(ls(j), b, merged(j)))
           row(j) == Merge(jobs[j], scope, includeErrors, claimable(j))
           new(j) == [NewJob(b, origin, scope, claimable(j))
                        EXCEPT !.includeErrors = includeErrors]
           finished(j) == /\ row(j).status = "queued" /\ claimable(j) = 0
                          /\ ~StillWorking(ls(j), b)
<1>1. PICK j \in MergeTargets(b, origin) :
        \/ /\ j = NoJobId /\ WriteLinks(ls(j))
           /\ IF claimable(j) = 0 THEN UNCHANGED jobs ELSE Insert(jobs, new(j))
        \/ /\ j # NoJobId /\ ~finished(j) /\ WriteLinks(ls(j))
           /\ jobs' = [jobs EXCEPT ![j] = IF row(j).status = "paused"
                                          THEN Resumed(row(j)) ELSE row(j)]
        \/ /\ j # NoJobId /\ finished(j)
           /\ WriteJobStatus(ls(j), j, [row(j) EXCEPT !.status = "completed"])
  BY DEF Enqueue
<1>2. UNCHANGED <<runs, lock>>
  BY DEF Enqueue
<1>3. LinksFollow(ls(j))
  BY ReopenFollows, NormalizeExhaustedFollows, RequestErroredFollows,
     LinksFollowThemselves
<1>4. claimable(j) \in Nat
  <2>1. ClaimableLinks(ls(j), b, merged(j)) \subseteq Links
    BY DEF ClaimableLinks, LinksOf
  <2> QED BY <2>1, LinksAssumption, FS_Subset, FS_CardinalityType DEF LinksAssumption
<1> HIDE DEF ls, claimable, merged
<1>5. CASE j = NoJobId
  <2>1. LinksFollow(links') /\ ItemsOK(items')
    BY <1>1, <1>3, <1>5, WriteLinksRows
  <2>2. JobOK(new(j)) /\ new(j).owner = NoRun /\ new(j).success = 0
    BY <1>4, NewJobOK DEF JobOK, JobRec
  <2> HIDE DEF new
  <2>3. CASE claimable(j) = 0
    BY <1>1, <1>2, <1>5, <2>1, <2>3, JobsFollowThemselves DEF Requested
  <2>4. CASE claimable(j) # 0
    <3>1. Insert(jobs, new(j))
      BY <1>1, <1>5, <2>4
    <3>2. JobsFollow(jobs')
      BY <2>2, <3>1, InsertFollows, JobsFollowThemselves
    <3> QED BY <1>2, <2>1, <3>2 DEF Requested
  <2> QED BY <2>3, <2>4
<1>6. CASE j # NoJobId
  <2>1. j \in Jobs /\ JobOK(jobs[j])
    BY <1>1, <1>6 DEF MergeTargets, ActiveJobs, RowsOK
  <2>2. JobFollows(row(j), jobs[j]) /\ JobOK(row(j))
    BY <1>4, <2>1, MergeFollows DEF JobFollows
  <2> HIDE DEF row
  <2>3. CASE ~finished(j)
    <3>1. LinksFollow(links') /\ ItemsOK(items')
      BY <1>1, <1>3, <1>6, <2>3, WriteLinksRows
    <3> DEFINE r == IF row(j).status = "paused" THEN Resumed(row(j)) ELSE row(j)
    <3>2. JobFollows(r, row(j))
      BY <2>2, PausedJobRewritings, JobFollowsItself
    <3>3. JobFollows(r, jobs[j])
      BY <2>2, <3>2 DEF JobFollows
    <3>4. jobs' = [jobs EXCEPT ![j] = r]
      BY <1>1, <1>6, <2>3
    <3> HIDE DEF r
    <3>5. JobsFollow(jobs')
      BY <2>1, <3>3, <3>4, OneJobFollows
    <3> QED BY <1>2, <3>1, <3>5 DEF Requested
  <2>4. CASE finished(j)
    <3> DEFINE r == [row(j) EXCEPT !.status = "completed"]
    <3>1. JobFollows(r, row(j))
      BY <2>2, <2>4, QueuedJobRewritings
    <3>2. WriteJobStatus(ls(j), j, r)
      BY <1>1, <1>6, <2>4
    <3>3. JobOK(r)
      BY <3>1 DEF JobFollows
    <3> HIDE DEF r
    <3>4. /\ LinksFollow(links') /\ ItemsOK(items')
          /\ \E final : jobs' = [jobs EXCEPT ![j] = final] /\ JobFollows(final, r)
      BY <1>3, <2>1, <3>2, <3>3, WriteJobStatusRows
    <3>5. PICK final : jobs' = [jobs EXCEPT ![j] = final] /\ JobFollows(final, r)
      BY <3>4
    <3>6. JobFollows(final, jobs[j])
      BY <2>2, <3>1, <3>5 DEF JobFollows
    <3>7. JobsFollow(jobs')
      BY <2>1, <3>5, <3>6, OneJobFollows
    <3> QED BY <1>2, <3>4, <3>7 DEF Requested
  <2> QED BY <2>3, <2>4
<1> QED BY <1>5, <1>6

LEMMA JobFollowsTransitive ==
  ASSUME NEW a, NEW b, NEW c, JobFollows(b, a), JobFollows(c, b)
  PROVE  JobFollows(c, a)
BY DEF JobFollows

\* The operators that rewrite the rows of a set of links in one statement.
LEMMA RenewFollows ==
  ASSUME RowsOK, NEW ls, LinksFollow(ls), NEW S
  PROVE  LinksFollow(UpdateLinks(ls, S, Renew))
<1>1. ASSUME NEW l \in Links
      PROVE  LinkFollows(EnforceTerminal(Renew(ls[l])), links[l])
  BY Rewritings, EnforceTerminalFollows, LinkFollowsTransitive
  DEF LinksFollow, LinkFollows
<1> QED BY <1>1 DEF UpdateLinks, LinksFollow, LinkFollows, LinkOK

LEMMA PrepareFullSyncRequested ==
  ASSUME RowsOK, NEW b \in Batches, PrepareFullSync(b) PROVE Requested
<1> DEFINE reset(rec) == [Unclaimed(rec) EXCEPT !.status = "pending", !.due = FALSE]
<1>1. \A l \in Links : LinkFollows(EnforceTerminal(reset(links[l])), links[l])
  BY Rewritings, EnforceTerminalFollows DEF RowsOK
<1>2. \A S : LinksFollow(UpdateLinks(links, S, reset))
  BY <1>1, LinksFollowThemselves DEF UpdateLinks, LinksFollow, LinkFollows, LinkOK
<1>3. \E S : WriteLinks(UpdateLinks(links, S, reset))
  BY DEF PrepareFullSync
<1>4. LinksFollow(links') /\ ItemsOK(items')
  BY <1>2, <1>3, WriteLinksRows
<1> QED BY <1>4, JobsFollowThemselves DEF PrepareFullSync, Requested

LEMMA PauseBatchRequested ==
  ASSUME RowsOK, NEW b \in Batches, PauseBatch(b) PROVE Requested
<1>1. ASSUME NEW j \in Jobs PROVE JobFollows(jobs'[j], jobs[j])
  <2>1. JobOK(jobs[j])
    BY DEF RowsOK
  <2>2. \/ jobs'[j] = jobs[j]
        \/ jobs[j].status = "running" /\ jobs'[j] = Stopped(jobs[j])
        \/ /\ jobs[j].status = "queued"
           /\ jobs'[j] = [Stopped(jobs[j]) EXCEPT !.status = "paused"]
    <3>1. jobs'[j] = jobs[j] \/ jobs'[j] = Paused(jobs[j])
      BY DEF PauseBatch
    <3>2. \/ Paused(jobs[j]) = jobs[j]
          \/ jobs[j].status = "running" /\ Paused(jobs[j]) = Stopped(jobs[j])
          \/ /\ jobs[j].status = "queued"
             /\ Paused(jobs[j]) = [Stopped(jobs[j]) EXCEPT !.status = "paused"]
      BY DEF Paused
    <3> QED BY ONLY <3>1, <3>2
  <2> QED BY <2>1, <2>2, RunningJobRewritings, QueuedJobRewritings, JobFollowsItself
<1>2. jobs' = [j \in Jobs |-> jobs'[j]]
  BY DEF PauseBatch
<1>3. JobsFollow(jobs')
  BY <1>1, <1>2 DEF JobsFollow, JobFollows, JobOK
<1> QED BY <1>3, LinksFollowThemselves DEF PauseBatch, Requested, RowsOK

LEMMA InterruptCampaignRequested ==
  ASSUME RowsOK, InterruptCampaign PROVE Requested
<1> DEFINE reclaim(rec) == [Unclaimed(rec) EXCEPT !.status = "retrying", !.due = TRUE]
           deleted(job) == [job EXCEPT !.status = "deleted", !.owner = NoRun,
                                       !.expired = FALSE]
<1>1. \A l \in Links : LinkFollows(EnforceTerminal(reclaim(links[l])), links[l])
  BY Rewritings, EnforceTerminalFollows DEF RowsOK
<1>2. \A S : LinksFollow(UpdateLinks(links, S, reclaim))
  BY <1>1, LinksFollowThemselves DEF UpdateLinks, LinksFollow, LinkFollows, LinkOK
<1>3. \E S : WriteLinks(UpdateLinks(links, S, reclaim))
  BY DEF InterruptCampaign
<1>4. LinksFollow(links') /\ ItemsOK(items')
  BY <1>2, <1>3, WriteLinksRows
<1>5. jobs' = [j \in Jobs |-> IF jobs[j].status \in ActiveStatus
                               THEN deleted(jobs[j]) ELSE jobs[j]]
  BY DEF InterruptCampaign
<1>6. \A j \in Jobs : jobs[j].status \in ActiveStatus => JobFollows(deleted(jobs[j]), jobs[j])
  BY ActiveJobRewritings DEF RowsOK
<1> HIDE DEF deleted
<1>7. JobsFollow(jobs')
  BY <1>5, <1>6, JobsFollowThemselves DEF JobsFollow, JobFollows, JobOK
<1> QED BY <1>4, <1>7 DEF InterruptCampaign, Requested

LEMMA StopRequestRequested ==
  ASSUME RowsOK, NEW S \in SUBSET Jobs, StopRequest(S) PROVE Requested
<1> DEFINE cancelled(job) == [Stopped(job) EXCEPT !.status = "cancelled", !.due = FALSE]
<1>1. jobs' = [j \in Jobs |-> IF j \in S THEN cancelled(jobs[j]) ELSE jobs[j]]
  BY DEF StopRequest
<1>2. \A j \in S : JobFollows(cancelled(jobs[j]), jobs[j])
  BY ActiveJobRewritings DEF RowsOK, StopRequest
<1> HIDE DEF cancelled
<1>3. JobsFollow(jobs')
  BY <1>1, <1>2, JobsFollowThemselves DEF JobsFollow, JobFollows, JobOK
<1> QED BY <1>3, LinksFollowThemselves DEF StopRequest, Requested, RowsOK

LEMMA QueueMemberRequested ==
  ASSUME RowsOK, NEW ls, LinksFollow(ls), NEW js, JobsFollow(js),
         \A j \in Jobs : js[j].status = "absent" => js[j] = jobs[j],
         NEW l \in Links, NEW track \in BOOLEAN, QueueMember(ls, js, l, track),
         UNCHANGED <<runs, lock>>
  PROVE  Requested
<1> DEFINE fresh == [NewJob(BatchOf[l], "manual", "member", 1)
                       EXCEPT !.target = l, !.tracked = track]
           again(job) ==
             [Resumed(job) EXCEPT
                !.total = 1, !.processed = 0, !.success = 0, !.error = 0,
                !.owner = NoRun, !.expired = FALSE, !.tracked = job.tracked \/ track]
           kept(job) ==
             [job EXCEPT !.stop = FALSE, !.tracked = job.tracked \/ track]
<1>1. LinksFollow(UpdateLinks(ls, {l}, Renew))
  BY RenewFollows
<1>2. LinksFollow(links') /\ ItemsOK(items')
  BY <1>1, WriteLinksRows DEF QueueMember
<1>3. JobOK(fresh) /\ fresh.owner = NoRun /\ fresh.success = 0
  <2>1. BatchOf[l] \in Batches
    BY LinksAssumption DEF LinksAssumption
  <2>2. LET n == NewJob(BatchOf[l], "manual", "member", 1)
        IN  JobOK(n) /\ n \in JobRec /\ n.owner = NoRun /\ n.success = 0
    BY <2>1, NewJobOK DEF Origins, Scopes
  <2> QED BY <2>2 DEF JobOK, JobRec
<1> HIDE DEF fresh
<1>4. \/ Insert(js, fresh)
      \/ \E j \in MemberJobs(js, l) :
           jobs' = [js EXCEPT ![j] = IF js[j].status = "running"
                                     THEN kept(js[j]) ELSE again(js[j])]
  BY DEF QueueMember, fresh
<1>5. CASE Insert(js, fresh)
  <2>1. JobsFollow(jobs')
    BY <1>3, <1>5, InsertFollows
  <2> QED BY <1>2, <2>1 DEF Requested
<1>6. ASSUME NEW j \in MemberJobs(js, l),
             jobs' = [js EXCEPT ![j] = IF js[j].status = "running"
                                       THEN kept(js[j]) ELSE again(js[j])]
      PROVE  Requested
  <2> DEFINE row == IF js[j].status = "running" THEN kept(js[j]) ELSE again(js[j])
  <2>1. /\ j \in Jobs /\ js[j].status \in ActiveStatus
        /\ JobOK(js[j]) /\ JobFollows(js[j], jobs[j])
    BY DEF MemberJobs, JobsFollow, JobFollows
  <2>2. js[j].tracked \/ track \in BOOLEAN
    OBVIOUS
  <2>3. JobFollows(row, js[j])
    BY <2>1, <2>2, RunningJobRewritings, ActiveJobRewritings
  <2>4. JobFollows(row, jobs[j])
    BY <2>1, <2>3, JobFollowsTransitive
  <2> HIDE DEF row
  <2>5. jobs' = [js EXCEPT ![j] = row]
    BY <1>6 DEF row
  <2>6. JobsFollow(jobs')
    BY <2>1, <2>4, <2>5 DEF JobsFollow, JobFollows, JobOK
  <2> QED BY <1>2, <2>6 DEF Requested
<1> QED BY <1>4, <1>5, <1>6

LEMMA DeleteMemberRequested ==
  ASSUME RowsOK, NEW l \in Links, DeleteMember(l) PROVE Requested
<1> DEFINE ls == [links EXCEPT ![l].deleted = TRUE]
           cancelled(job) == [job EXCEPT !.status = "cancelled", !.owner = NoRun,
                                         !.due = FALSE, !.expired = FALSE]
           js == [j \in Jobs |->
                    IF j \in MemberJobs(jobs, l) /\ jobs[j].status # "running"
                    THEN cancelled(jobs[j]) ELSE jobs[j]]
<1>1. LinksFollow(ls)
  <2>1. LinkFollows([links[l] EXCEPT !.deleted = TRUE], links[l])
    BY DEF RowsOK, LinkOK, LinkRec, LinkFollows
  <2> QED BY <2>1, LinksFollowThemselves DEF LinksFollow, LinkFollows, LinkOK
<1>2. /\ \A j \in MemberJobs(jobs, l) : JobFollows(cancelled(jobs[j]), jobs[j])
      /\ \A j \in MemberJobs(jobs, l) : cancelled(jobs[j]).status = "cancelled"
  BY ActiveJobRewritings DEF RowsOK, MemberJobs, JobOK, JobRec
<1> HIDE DEF cancelled
<1>3. JobsFollow(js)
  BY <1>2, JobsFollowThemselves DEF JobsFollow, JobFollows, JobOK
<1>4. \A j \in Jobs : js[j].status = "absent" => js[j] = jobs[j]
  BY <1>2
<1> HIDE DEF ls, js
<1>5. /\ UNCHANGED <<runs, lock>>
      /\ \/ \E m \in Links : QueueMember(ls, js, m, FALSE)
         \/ links' = ls /\ jobs' = js /\ UNCHANGED items
  BY DEF DeleteMember, ls, js, LinksOf, cancelled
<1> QED BY <1>1, <1>3, <1>4, <1>5, QueueMemberRequested DEF Requested, RowsOK

LEMMA ReprocessFilteredRequested ==
  ASSUME RowsOK, NEW b \in Batches, NEW S \in SUBSET Links, ReprocessFiltered(b, S)
  PROVE  Requested
<1> DEFINE new == [NewJob(b, "manual", "campaign", Cardinality(S)) EXCEPT !.filtered = TRUE]
<1>1. LinksFollow(links')
  BY RenewFollows, LinksFollowThemselves DEF ReprocessFiltered
<1>2. ItemsOK(items')
  BY SyncReplayType DEF ReprocessFiltered, ItemsOK, ItemStatus
<1>3. Cardinality(S) \in Nat
  BY LinksAssumption, FS_Subset, FS_CardinalityType DEF LinksAssumption
<1>4. JobOK(new) /\ new.owner = NoRun /\ new.success = 0
  <2> DEFINE n == NewJob(b, "manual", "campaign", Cardinality(S))
  <2>1. JobOK(n) /\ n \in JobRec /\ n.owner = NoRun /\ n.success = 0
    BY <1>3, NewJobOK DEF Origins, Scopes
  <2> HIDE DEF n
  <2>2. LET m == [n EXCEPT !.filtered = TRUE]
        IN  JobOK(m) /\ m.owner = NoRun /\ m.success = 0
    BY <2>1 DEF JobOK, JobRec
  <2> QED BY <2>2 DEF n
<1>5. Insert(jobs, new)
  BY DEF ReprocessFiltered
<1> HIDE DEF new
<1>6. JobsFollow(jobs')
  BY <1>4, <1>5, InsertFollows, JobsFollowThemselves
<1> QED BY <1>1, <1>2, <1>6 DEF ReprocessFiltered, Requested

LEMMA ReprocessBlockedRequested ==
  ASSUME RowsOK, NEW b \in Batches, ReprocessBlocked(b) PROVE Requested
<1>1. PICK blocked \in SUBSET Links :
        /\ WriteLinks(UpdateLinks(links, blocked, Renew))
        /\ Insert(jobs, NewJob(b, "manual", "batch", Cardinality(blocked)))
  BY DEF ReprocessBlocked, LinksOf
<1>2. LinksFollow(links') /\ ItemsOK(items')
  BY <1>1, RenewFollows, LinksFollowThemselves, WriteLinksRows
<1>3. Cardinality(blocked) \in Nat
  BY LinksAssumption, FS_Subset, FS_CardinalityType DEF LinksAssumption
<1>4. JobsFollow(jobs')
  BY <1>1, <1>3, NewJobOK, InsertFollows, JobsFollowThemselves DEF Origins, Scopes
<1> QED BY <1>2, <1>4 DEF ReprocessBlocked, Requested

LEMMA RequestRequested ==
  ASSUME RowsOK, Request PROVE Requested
<1>1. ASSUME NEW b \in Batches, BatchRequest(b) PROVE Requested
  BY <1>1, EnqueueRequested, PrepareFullSyncRequested, PauseBatchRequested,
     ReprocessBlockedRequested, ReprocessFilteredRequested
  DEF BatchRequest, Process, ReprocessErrors, RecheckBatch, FullSyncBatch,
      Origins, Scopes
<1>2. ASSUME NEW l \in Links, ReprocessMember(l) PROVE Requested
  BY <1>2, QueueMemberRequested, LinksFollowThemselves, JobsFollowThemselves
  DEF ReprocessMember
<1> QED BY <1>1, <1>2, DeleteMemberRequested, InterruptCampaignRequested,
           StopRequestRequested
        DEF Request, MemberRequest

(***************************************************************************)
(* 5. What every step keeps                                                *)
(***************************************************************************)

\* No success is counted but by a run that completes a link it owns.
Counted(j) ==
  \/ jobs'[j].success \in {0, jobs[j].success}
  \/ /\ jobs'[j].success = jobs[j].success + 1
     /\ \E r \in Runs, l \in Links :
          /\ runs[r].job = j /\ jobs[j].owner = r /\ Owns(r, l)
          /\ links'[l].status = "completed"

\* What a step does to the jobs.
JobsGoOn == NeverRevived /\ \A j \in Jobs : JobStays(jobs'[j], jobs[j]) /\ Counted(j)

\* The invariant, the jobs, and the protocol of the claims.
Lawful == RowsOK' /\ JobsGoOn /\ (Claims!Next \/ UNCHANGED Claims!vars)

LEMMA FollowingGoesOn == ASSUME JobsFollow(jobs') PROVE JobsGoOn
BY DEF JobsFollow, JobFollows, JobsGoOn, NeverRevived, Counted

\* Rewriting links while every run keeps its results in flight revokes claims
\* and does nothing else to them.
LEMMA RewritingRevokes ==
  ASSUME LinksFollow(links'), \A r \in Runs : runs'[r].inflight = runs[r].inflight
  PROVE  Claims!Next
<1>1. PICK S \in SUBSET Links :
        \A l \in Links : l \in S <=> links'[l].owner # links[l].owner
  <2>1. WITNESS {l \in Links : links'[l].owner # links[l].owner} \in SUBSET Links
  <2> QED OBVIOUS
<1>2. \A l \in Links : /\ links'[l].owner = IF l \in S THEN NoRun ELSE links[l].owner
                       /\ links'[l].pay = links[l].pay
  BY <1>1 DEF LinksFollow, LinkFollows
<1>3. Claims!Revoke(S)
  BY <1>2 DEF Claims!Revoke
<1> QED BY <1>3 DEF Claims!Next

LEMMA HousekeepingIsLawful ==
  ASSUME RowsOK, Housekeeping PROVE Lawful
<1>1. RowsOK'
  BY HousekeepingKeepsInvariant
<1>2. JobsGoOn
  BY FollowingGoesOn DEF Housekeeping
<1>3. \A r \in Runs : runs'[r].inflight = runs[r].inflight
  BY DEF Housekeeping
<1>4. Claims!Next
  BY <1>3, RewritingRevokes DEF Housekeeping
<1> QED BY <1>1, <1>2, <1>4 DEF Lawful

LEMMA ReadPausedLawful ==
  ASSUME RowsOK, NEW b \in Batches, ReadPaused(b) PROVE Lawful
<1>1. Requested
  BY LinksFollowThemselves, JobsFollowThemselves DEF ReadPaused, Requested, RowsOK
<1> QED BY <1>1, RequestedIsHousekeeping, HousekeepingIsLawful

\* The late write of a resume: the one step that may revive a job whoever holds it.
LEMMA WriteResumedLawful ==
  ASSUME IInv, NEW j \in Jobs, WriteResumed(j) PROVE Lawful
<1> DEFINE row == ResumedLate(jobs[j])
<1>1. /\ RowsOK /\ JobOK(jobs[j]) /\ resumes[j] \in Nat /\ resumes[j] > 0
      /\ jobs[j].status # "absent" /\ jobs[j].origin = "manual"
      /\ resumes' = [resumes EXCEPT ![j] = resumes[j] - 1]
      /\ links' = links /\ items' = items /\ runs' = runs /\ lock' = lock
      /\ jobs' = IF jobs[j].status = "deleted" THEN jobs ELSE [jobs EXCEPT ![j] = row]
  BY DEF WriteResumed, IInv, RowsOK, ResumesOK
<1>2. CASE jobs[j].status = "deleted"
  <2>1. Requested
    BY <1>1, <1>2, LinksFollowThemselves, JobsFollowThemselves DEF Requested, RowsOK
  <2> QED BY <1>1, <2>1, RequestedIsHousekeeping, HousekeepingIsLawful
<1>3. CASE jobs[j].status # "deleted"
  <2>1. /\ JobOK(row) /\ JobStays(row, jobs[j])
        /\ row.owner = jobs[j].owner /\ row.success = jobs[j].success
    BY <1>1, <1>3, OverwrittenRow
  <2> HIDE DEF row
  <2>2. \A k \in Jobs : jobs'[k] = IF k = j THEN row ELSE jobs[k]
    BY <1>1, <1>3 DEF RowsOK
  <2>3. RowsOK'
    <3>1. /\ jobs' \in [Jobs -> JobRec] /\ \A k \in Jobs : JobOK(jobs'[k])
          /\ \A k \in Jobs : jobs'[k].owner = jobs[k].owner
      BY <1>1, <1>3, <2>1, <2>2 DEF RowsOK, JobOK
    <3>2. OwnersKnowTheirWork'
      BY <1>1, <3>1 DEF RowsOK, OwnersKnowTheirWork
    <3> QED BY <1>1, <3>1, <3>2 DEF RowsOK, ItemsOK
  <2>4. JobsGoOn
    <3>1. Overwritten(j)
      BY <1>1 DEF Overwritten, ResumesOK, IInv
    <3>2. NeverRevived
      BY <1>1, <1>3, <2>2, <3>1 DEF NeverRevived
    <3>3. \A k \in Jobs : JobStays(jobs'[k], jobs[k]) /\ Counted(k)
      BY <2>1, <2>2 DEF Counted
    <3> QED BY <3>2, <3>3 DEF JobsGoOn
  <2>5. UNCHANGED Claims!vars
    BY <1>1 DEF Claims!vars
  <2> QED BY <2>3, <2>4, <2>5 DEF Lawful
<1> QED BY <1>2, <1>3

LEMMA ApplicationLawful ==
  ASSUME IInv, Application PROVE Lawful
<1>1. RowsOK
  BY DEF IInv
<1>2. ASSUME Request PROVE Lawful
  BY <1>1, <1>2, RequestRequested, RequestedIsHousekeeping, HousekeepingIsLawful
<1> QED BY <1>1, <1>2, ReadPausedLawful, WriteResumedLawful DEF Application

LEMMA TimeLawful ==
  ASSUME RowsOK, Time PROVE Lawful
<1>1. ASSUME NEW j \in Jobs, LeaseExpires(j) \/ JobComesDue(j) PROVE Requested
  <2>1. PICK row : JobFollows(row, jobs[j]) /\ jobs' = [jobs EXCEPT ![j] = row]
    BY <1>1, RunningJobRewritings, QueuedJobRewritings
    DEF LeaseExpires, JobComesDue, RowsOK
  <2>2. JobsFollow(jobs')
    BY <2>1, OneJobFollows
  <2> QED BY <1>1, <2>2, LinksFollowThemselves
          DEF LeaseExpires, JobComesDue, Requested, RowsOK
<1>2. ASSUME NEW l \in Links, HeartbeatAges(l) \/ RetryComesDue(l) PROVE Requested
  <2>1. CASE HeartbeatAges(l)
    <3>1. LinkFollows([links[l] EXCEPT !.old = TRUE], links[l])
      BY <2>1 DEF HeartbeatAges, RowsOK, LinkOK, LinkRec, LinkFollows
    <3>2. links' = [links EXCEPT ![l] = [links[l] EXCEPT !.old = TRUE]]
      BY <2>1 DEF HeartbeatAges
    <3>3. LinksFollow(links')
      BY <3>1, <3>2, LinksFollowThemselves DEF LinksFollow, LinkFollows, LinkOK
    <3> QED BY <2>1, <3>3, JobsFollowThemselves DEF HeartbeatAges, Requested, RowsOK
  <2>2. CASE RetryComesDue(l)
    <3>1. LinkFollows([links[l] EXCEPT !.due = TRUE], links[l])
      BY <2>2 DEF RetryComesDue, RowsOK, LinkOK, LinkRec, LinkFollows
    <3>2. links' = [links EXCEPT ![l] = [links[l] EXCEPT !.due = TRUE]]
      BY <2>2 DEF RetryComesDue
    <3>3. LinksFollow(links')
      BY <3>1, <3>2, LinksFollowThemselves DEF LinksFollow, LinkFollows, LinkOK
    <3> QED BY <2>2, <3>3, JobsFollowThemselves DEF RetryComesDue, Requested, RowsOK
  <2> QED BY <1>2, <2>1, <2>2
<1> QED BY <1>1, <1>2, RequestedIsHousekeeping, HousekeepingIsLawful DEF Time

(***************************************************************************)
(* 6. The worker                                                           *)
(***************************************************************************)

\* Only the place in its code changes in a run that enters the next section.
LEMMA EnterKeepsWork ==
  ASSUME RowsOK, NEW r \in Runs, NEW pc \in {"ready", "cycle", "recovered"},
         runs[r].pc \in {"off", "ready", "cycle"}, Enter(r, pc)
  PROVE  /\ runs' \in [Runs -> RunRec]
         /\ \A s \in Runs : /\ RunOK(runs'[s])
                             /\ runs'[s].job = runs[s].job
                             /\ runs'[s].inflight = runs[s].inflight
<1> DEFINE e == [runs[r] EXCEPT !.pc = pc]
<1>1. runs' = [runs EXCEPT ![r] = e]
  BY DEF Enter
<1>2. /\ e \in RunRec /\ RunOK(e)
      /\ e.job = runs[r].job /\ e.inflight = runs[r].inflight
  BY DEF RowsOK, RunOK, RunRec, RunPc
<1> HIDE DEF e
<1> QED BY <1>1, <1>2 DEF RowsOK

LEMMA RecoveredFollow ==
  ASSUME RowsOK, NEW S, \A j \in S : jobs[j].status = "running",
         jobs' = [j \in Jobs |-> IF j \in S THEN Recovered(jobs[j]) ELSE jobs[j]]
  PROVE  JobsFollow(jobs')
<1>1. \A j \in Jobs : JobFollows(jobs'[j], jobs[j])
  BY RunningJobRewritings, JobFollowsItself DEF RowsOK
<1> QED BY <1>1 DEF JobsFollow, JobFollows, JobOK

LEMMA BootLawful ==
  ASSUME RowsOK, NEW r \in Runs, Boot(r) PROVE Lawful
<1>1. \A l \in Links : LinkFollows(EnforceTerminal(ReclaimInterrupted(links[l])), links[l])
  BY Rewritings, EnforceTerminalFollows DEF RowsOK
<1>2. \A S : LinksFollow(UpdateLinks(links, S, ReclaimInterrupted))
  BY <1>1, LinksFollowThemselves DEF UpdateLinks, LinksFollow, LinkFollows, LinkOK
<1>3. LinksFollow(links') /\ ItemsOK(items')
  BY <1>2, SyncReplayType DEF Boot
<1>4. JobsFollow(jobs')
  <2>1. jobs' = [j \in Jobs |-> IF j \in InterruptedJobs
                               THEN Recovered(jobs[j]) ELSE jobs[j]]
    BY DEF Boot
  <2>2. \A j \in InterruptedJobs : jobs[j].status = "running"
    BY DEF InterruptedJobs
  <2> QED BY <2>1, <2>2, RecoveredFollow
<1>5. Housekeeping
  BY <1>3, <1>4, EnterKeepsWork DEF Boot, Housekeeping
<1> QED BY <1>5, HousekeepingIsLawful

LEMMA TriggerLawful ==
  ASSUME RowsOK, NEW r \in Runs, Trigger(r) PROVE Lawful
<1>1. Housekeeping
  BY EnterKeepsWork, LinksFollowThemselves, JobsFollowThemselves
  DEF Trigger, Housekeeping, RowsOK
<1> QED BY <1>1, HousekeepingIsLawful

LEMMA PauseCheckpointLawful ==
  ASSUME RowsOK, NEW r \in Runs, PauseCheckpoint(r) PROVE Lawful
<1> DEFINE paused(job) == [job EXCEPT !.status = "paused", !.owner = NoRun,
                                      !.due = FALSE, !.expired = FALSE]
<1>1. jobs' = [j \in Jobs |-> IF jobs[j].status = "queued" /\ jobs[j].stop
                               THEN paused(jobs[j]) ELSE jobs[j]]
  BY DEF PauseCheckpoint
<1>2. \A j \in Jobs : jobs[j].status = "queued" => JobFollows(paused(jobs[j]), jobs[j])
  BY QueuedJobRewritings DEF RowsOK
<1> HIDE DEF paused
<1>3. JobsFollow(jobs')
  BY <1>1, <1>2, JobsFollowThemselves DEF JobsFollow, JobFollows, JobOK
<1>4. Housekeeping
  BY <1>3, EnterKeepsWork, LinksFollowThemselves DEF PauseCheckpoint, Housekeeping, RowsOK
<1> QED BY <1>4, HousekeepingIsLawful

LEMMA RecoverStaleLawful ==
  ASSUME RowsOK, NEW r \in Runs, RecoverStale(r) PROVE Lawful
<1>1. \A l \in Links : LinkFollows(EnforceTerminal(ReclaimStale(links[l])), links[l])
  BY Rewritings, EnforceTerminalFollows DEF RowsOK
<1>2. \A S : LinksFollow(UpdateLinks(links, S, ReclaimStale))
  BY <1>1, LinksFollowThemselves DEF UpdateLinks, LinksFollow, LinkFollows, LinkOK
<1>3. LinksFollow(links') /\ ItemsOK(items')
  BY <1>2, SyncReplayType DEF RecoverStale
<1> DEFINE S == {j \in Jobs : jobs[j].status = "running" /\ jobs[j].expired}
<1>4. /\ jobs' = [j \in Jobs |-> IF j \in S THEN Recovered(jobs[j]) ELSE jobs[j]]
      /\ \A j \in S : jobs[j].status = "running"
  BY DEF RecoverStale
<1> HIDE DEF S
<1>5. JobsFollow(jobs')
  BY <1>4, RecoveredFollow
<1>6. Housekeeping
  BY <1>3, <1>5, EnterKeepsWork DEF RecoverStale, Housekeeping, RowsOK
<1> QED BY <1>6, HousekeepingIsLawful

LEMMA ClaimJobLawful ==
  ASSUME RowsOK, NEW r \in Runs, NEW j \in Jobs, ClaimJob(r, j) PROVE Lawful
<1> DEFINE new == [jobs[j] EXCEPT !.status = "running", !.owner = r, !.expired = FALSE]
           run == [pc |-> "claimed", job |-> j, target |-> jobs[j].target,
                   filtered |-> jobs[j].filtered,
                   includeErrors |-> jobs[j].includeErrors,
                   inflight |-> {}, idle |-> TRUE]
<1>1. /\ WriteJobStatus(links, j, new) /\ runs' = [runs EXCEPT ![r] = run]
      /\ lock' = lock
      /\ runs[r].pc = "recovered" /\ jobs[j].status = "queued"
  BY DEF ClaimJob, Claimable
<1>2. r \in Owner /\ r # NoRun
  BY LinksAssumption DEF LinksAssumption, Owner
<1>3. /\ JobOK(new) /\ new.owner = r /\ new.status = "running"
      /\ new.batch = jobs[j].batch /\ new.target = jobs[j].target
      /\ new.success = jobs[j].success /\ new.origin = jobs[j].origin
  BY <1>1, <1>2 DEF RowsOK, JobOK, JobRec, JobStatus, ActiveStatus
<1>4. RunOK(run) /\ run \in RunRec
  BY DEF RowsOK, RunOK, RunRec, RunPc, JobRec
<1>5. run.job = j /\ run.inflight = {}
  OBVIOUS
<1> HIDE DEF new, run
<1>6. LinksFollow(links') /\ ItemsOK(items')
  BY <1>1, <1>3, LinksFollowThemselves, WriteJobStatusRows
<1>7. PICK row : jobs' = [jobs EXCEPT ![j] = row] /\ JobFollows(row, new)
  BY <1>1, <1>3, LinksFollowThemselves, WriteJobStatusRows
<1>8. row \in JobRec /\ JobOK(row) /\ row.owner \in {r, NoRun}
  BY <1>3, <1>7 DEF JobFollows, JobOK
<1>9. runs[r].job = 0 /\ runs[r].inflight = {}
  BY <1>1 DEF RowsOK, RunOK
<1>10. \A s \in Runs : runs'[s].inflight = runs[s].inflight
  BY <1>1, <1>5, <1>9 DEF RowsOK
<1>11. OwnersKnowTheirWork'
  <2>1. ASSUME NEW l \in Links, links'[l].owner \in Runs
        PROVE  l \in runs'[links'[l].owner].inflight
    <3>1. links'[l].owner = links[l].owner
      BY <1>6, <2>1, LinksAssumption DEF LinksFollow, LinkFollows, LinksAssumption
    <3> QED BY <1>10, <2>1, <3>1 DEF RowsOK, OwnersKnowTheirWork
  <2>2. ASSUME NEW k \in Jobs, jobs'[k].owner \in Runs
        PROVE  runs'[jobs'[k].owner].job = k
    <3>1. CASE k = j
      <4>1. jobs'[k].owner = r
        BY <1>7, <1>8, <2>2, <3>1, LinksAssumption DEF RowsOK, LinksAssumption
      <4> QED BY <1>1, <1>5, <3>1, <4>1 DEF RowsOK
    <3>2. CASE k # j
      <4>1. jobs'[k] = jobs[k] /\ runs[jobs[k].owner].job = k
        BY <1>7, <2>2, <3>2 DEF RowsOK, OwnersKnowTheirWork
      <4>2. jobs[k].owner # r
        BY <1>9, <4>1 DEF Jobs
      <4> QED BY <1>1, <2>2, <4>1, <4>2 DEF RowsOK
    <3> QED BY <3>1, <3>2
  <2> QED BY <2>1, <2>2 DEF OwnersKnowTheirWork
<1>12. RowsOK'
  BY <1>1, <1>4, <1>6, <1>7, <1>8, <1>11
  DEF RowsOK, LinksFollow, LinkFollows, ItemsOK
<1>13. JobsGoOn
  BY <1>1, <1>3, <1>7 DEF JobsGoOn, NeverRevived, Ended, Counted, JobFollows, RowsOK
<1>14. Claims!Next
  BY <1>6, <1>10, RewritingRevokes
<1> QED BY <1>12, <1>13, <1>14 DEF Lawful

LEMMA NoJobLawful ==
  ASSUME RowsOK, NEW r \in Runs, NoJob(r) PROVE Lawful
<1>1. OffRun \in RunRec /\ RunOK(OffRun) /\ OffRun.job = 0 /\ OffRun.inflight = {}
  BY DEF OffRun, RunRec, RunPc, RunOK
<1>2. runs[r].job = 0 /\ runs[r].inflight = {}
  BY DEF NoJob, RowsOK, RunOK
<1>3. runs' = [runs EXCEPT ![r] = OffRun] /\ lock' \in Runs \cup {NoRun}
  BY DEF NoJob, LeaveTo, RowsOK
<1>4. LinksFollow(links') /\ JobsFollow(jobs') /\ ItemsOK(items')
  BY LinksFollowThemselves, JobsFollowThemselves DEF NoJob, RowsOK
<1>5. Housekeeping
  BY <1>1, <1>2, <1>3, <1>4 DEF Housekeeping, RowsOK
<1> QED BY <1>5, HousekeepingIsLawful

LEMMA ClaimLinkOK ==
  ASSUME NEW rec, LinkOK(rec), NEW r \in Owner, r # NoRun
  PROVE  /\ LinkOK(ClaimLink(rec, r)) /\ ClaimLink(rec, r).owner = r
         /\ ClaimLink(rec, r).pay = rec.pay
<1> DEFINE n == rec.attempts + 1
           c == [rec EXCEPT !.status = "processing", !.owner = r, !.old = FALSE,
                            !.attempts = n, !.due = FALSE, !.errReq = FALSE]
<1>1. rec \in LinkRec /\ n \in Nat
  BY DEF LinkOK, LinkRec
<1> HIDE DEF n
<1>2. /\ c \in LinkRec /\ c.status = "processing" /\ c.owner = r
      /\ c.old = FALSE /\ c.due = FALSE /\ c.pay = rec.pay
  BY <1>1 DEF LinkRec, LinkStatus
<1>3. ClaimLink(rec, r) = c
  BY DEF ClaimLink, n
<1> HIDE DEF c
<1> QED BY <1>2, <1>3 DEF LinkOK

\* Claiming takes only links that nobody holds: a link that is due is not
\* 'processing'.
LEMMA ClaimMembersLawful ==
  ASSUME RowsOK, NEW r \in Runs, ClaimMembers(r) PROVE Lawful
<1>1. PICK claimed \in SUBSET Links :
        /\ \A l \in claimed : Due(runs[r], l)
        /\ links' = [l \in Links |-> IF l \in claimed THEN ClaimLink(links[l], r)
                                                      ELSE links[l]]
        /\ runs' = [runs EXCEPT ![r].pc = "work", ![r].inflight = claimed,
                                 ![r].idle = claimed = {}]
  <2>1. PICK chosen \in SUBSET {l \in JobLinks(runs[r], {"queued"}) : Due(runs[r], l)} :
          LET claimed == {l \in chosen : ScopeAllows(r, l)}
          IN  /\ links' = [l \in Links |-> IF l \in claimed THEN ClaimLink(links[l], r)
                                                            ELSE links[l]]
              /\ runs' = [runs EXCEPT ![r].pc = "work", ![r].inflight = claimed,
                                       ![r].idle = claimed = {}]
    BY DEF ClaimMembers
  <2>2. {l \in chosen : ScopeAllows(r, l)} \in SUBSET Links
    BY DEF JobLinks, LinksOf
  <2>3. \A l \in {m \in chosen : ScopeAllows(r, m)} : Due(runs[r], l)
    OBVIOUS
  <2> QED BY <2>1, <2>2, <2>3
<1>2. /\ jobs' = jobs /\ lock' = lock /\ ItemsOK(items')
      /\ runs[r].pc = "claimed" /\ runs[r].inflight = {} /\ runs[r].job \in Jobs
  BY SyncReplayType DEF ClaimMembers, RowsOK, RunOK
<1>3. r \in Owner /\ r # NoRun
  BY LinksAssumption DEF LinksAssumption, Owner
<1>4. ASSUME NEW l \in claimed
      PROVE  links[l].owner = NoRun /\ links[l].status # "processing"
  BY <1>1, <1>4 DEF Due, RowsOK, LinkOK
<1>5. ASSUME NEW l \in claimed
      PROVE  /\ LinkOK(ClaimLink(links[l], r)) /\ ClaimLink(links[l], r).owner = r
             /\ ClaimLink(links[l], r).pay = links[l].pay
  <2>1. LinkOK(links[l])
    BY DEF RowsOK
  <2> QED BY <1>3, <2>1, ClaimLinkOK
<1>6. \A l \in Links : /\ LinkOK(links'[l]) /\ links'[l].pay = links[l].pay
                       /\ links'[l].owner = IF l \in claimed THEN r ELSE links[l].owner
  BY <1>1, <1>5 DEF RowsOK
<1> DEFINE run == [runs[r] EXCEPT !.pc = "work", !.inflight = claimed,
                                  !.idle = claimed = {}]
<1>7. run \in RunRec /\ RunOK(run) /\ run.inflight = claimed /\ run.job = runs[r].job
  BY <1>2 DEF RowsOK, RunOK, RunRec, RunPc
<1>8. runs' = [runs EXCEPT ![r] = run]
  BY <1>1
<1> HIDE DEF run
<1>9. OwnersKnowTheirWork'
  <2>1. ASSUME NEW l \in Links, links'[l].owner \in Runs
        PROVE  l \in runs'[links'[l].owner].inflight
    <3>1. CASE l \in claimed
      BY <1>6, <1>7, <1>8, <3>1 DEF RowsOK
    <3>2. CASE l \notin claimed
      <4>1. l \in runs[links[l].owner].inflight /\ links'[l].owner = links[l].owner
        BY <1>6, <2>1, <3>2 DEF RowsOK, OwnersKnowTheirWork
      <4> QED BY <1>2, <1>8, <2>1, <4>1 DEF RowsOK
    <3> QED BY <3>1, <3>2
  <2>2. ASSUME NEW j \in Jobs, jobs'[j].owner \in Runs
        PROVE  runs'[jobs'[j].owner].job = j
    BY <1>2, <1>7, <1>8, <2>2 DEF RowsOK, OwnersKnowTheirWork
  <2> QED BY <2>1, <2>2 DEF OwnersKnowTheirWork
<1>10. RowsOK'
  <2>1. links' \in [Links -> LinkRec]
    BY <1>1, <1>6 DEF LinkOK
  <2> QED BY <1>2, <1>6, <1>7, <1>8, <1>9, <2>1 DEF RowsOK, ItemsOK
<1>11. JobsGoOn
  BY <1>2, JobsFollowThemselves, FollowingGoesOn
<1>12. Claims!Claim(r, claimed)
  <2>1. \A l \in claimed : [m \in Links |-> links[m].owner][l] = NoRun
    BY <1>4
  <2>2. [s \in Runs |-> runs'[s].inflight]
          = [[s \in Runs |-> runs[s].inflight] EXCEPT ![r] = claimed]
    BY <1>7, <1>8 DEF RowsOK
  <2> QED BY <1>2, <1>6, <2>1, <2>2 DEF Claims!Claim
<1>13. Claims!Next
  BY <1>12 DEF Claims!Next
<1> QED BY <1>10, <1>11, <1>13 DEF Lawful

\* The run keeps its job and one result less; the links it still owns are still
\* in flight.
LEMMA SettleKeepsWork ==
  ASSUME RowsOK, NEW r \in Runs, NEW l \in Links, runs[r].pc \in {"work", "drain"},
         Settle(r, l), links'[l].owner # r,
         links' \in [Links -> LinkRec],
         \A m \in Links : /\ LinkOK(links'[m])
                          /\ links'[m].owner \in {links[m].owner, NoRun},
         JobsKept, ItemsOK(items'), lock' = lock
  PROVE  /\ RowsOK' /\ NeverRevived
         /\ [s \in Runs |-> runs'[s].inflight]
              = [[s \in Runs |-> runs[s].inflight] EXCEPT ![r] = @ \ {l}]
<1> DEFINE run == [runs[r] EXCEPT !.inflight = runs[r].inflight \ {l}]
<1>1. /\ run \in RunRec /\ RunOK(run) /\ run.job = runs[r].job
      /\ run.inflight = runs[r].inflight \ {l}
  BY DEF RowsOK, RunOK, RunRec
<1>2. runs' = [runs EXCEPT ![r] = run]
  BY DEF Settle
<1> HIDE DEF run
<1>3. OwnersKnowTheirWork'
  <2>1. ASSUME NEW m \in Links, links'[m].owner \in Runs
        PROVE  m \in runs'[links'[m].owner].inflight
    <3>1. links'[m].owner = links[m].owner
      BY <2>1, LinksAssumption DEF LinksAssumption
    <3>2. m \in runs[links[m].owner].inflight
      BY <2>1, <3>1 DEF RowsOK, OwnersKnowTheirWork
    <3>3. CASE links[m].owner = r
      BY <1>1, <1>2, <3>1, <3>2, <3>3 DEF RowsOK
    <3>4. CASE links[m].owner # r
      BY <1>2, <2>1, <3>1, <3>2, <3>4 DEF RowsOK
    <3> QED BY <3>3, <3>4
  <2>2. ASSUME NEW j \in Jobs, jobs'[j].owner \in Runs
        PROVE  runs'[jobs'[j].owner].job = j
    <3>1. jobs'[j].owner = jobs[j].owner
      BY <2>2, LinksAssumption DEF JobsKept, LinksAssumption
    <3>2. runs[jobs[j].owner].job = j
      BY <2>2, <3>1 DEF RowsOK, OwnersKnowTheirWork
    <3> QED BY <1>1, <1>2, <2>2, <3>1, <3>2 DEF RowsOK
  <2> QED BY <2>1, <2>2 DEF OwnersKnowTheirWork
<1>4. RowsOK'
  BY <1>1, <1>2, <1>3
  DEF RowsOK, JobsKept, ItemsOK
<1>5. NeverRevived
  BY DEF NeverRevived, JobsKept
<1>6. [s \in Runs |-> runs'[s].inflight]
        = [[s \in Runs |-> runs[s].inflight] EXCEPT ![r] = @ \ {l}]
  BY <1>1, <1>2 DEF RowsOK
<1> QED BY <1>4, <1>5, <1>6

LEMMA CountResultFollows ==
  ASSUME RowsOK, NEW r \in Runs, runs[r].pc \in {"work", "drain"},
         NEW success \in {0, 1}, NEW error \in {0, 1}, CountResult(r, success, error)
  PROVE  /\ JobsKept
         /\ \A k \in Jobs : jobs'[k].success # jobs[k].success =>
              /\ runs[r].job = k /\ jobs[k].owner = r
              /\ jobs'[k].success = jobs[k].success + success
<1> DEFINE j == runs[r].job
           job == jobs[j]
           counted == [job EXCEPT !.processed = job.processed + success + error,
                                  !.success = job.success + success,
                                  !.error = job.error + error]
<1>1. j \in Jobs
  BY DEF RowsOK, RunOK
<1>2. JobOK(job)
  BY <1>1 DEF RowsOK
<1>3. \/ jobs' = jobs
      \/ job.owner = r /\ jobs' = [jobs EXCEPT ![j] = FinalizeExact(counted)]
  BY DEF CountResult
<1>4. JobKept(counted, job) /\ counted.success = job.success + success
  <2> HIDE DEF j, job
  <2> DEFINE p == job.processed + success + error
             s == job.success + success
             e == job.error + error
  <2>1. p \in Nat /\ s \in Nat /\ e \in Nat /\ p = s + e
    BY <1>2 DEF JobOK, JobRec
  <2> HIDE DEF p, s, e
  <2> DEFINE c == [job EXCEPT !.processed = p, !.success = s, !.error = e]
  <2>2. /\ c \in JobRec /\ c.status = job.status /\ c.owner = job.owner
        /\ c.batch = job.batch /\ c.target = job.target
        /\ c.origin = job.origin /\ c.late = job.late
        /\ c.stop = job.stop /\ c.processed = p /\ c.success = s /\ c.error = e
    BY <1>2, <2>1 DEF JobOK, JobRec
  <2> HIDE DEF c
  <2>3. JobKept(c, job)
    BY <1>2, <2>1, <2>2 DEF JobOK, Ended
  <2>4. c.success = s
    BY <2>2
  <2> QED BY <2>3, <2>4 DEF c, p, s, e
<1> HIDE DEF counted
<1>5. /\ JobKept(FinalizeExact(counted), job)
      /\ FinalizeExact(counted).success = job.success + success
  <2>1. JobOK(counted)
    BY <1>4
  <2>2. JobFollows(FinalizeExact(counted), counted)
    BY <2>1, FinalizeExactFollows
  <2>3. FinalizeExact(counted).success = counted.success
    BY <2>1 DEF FinalizeExact, JobOK, JobRec
  <2> QED BY <1>4, <2>2, <2>3 DEF JobFollows
<1> HIDE DEF j
<1>6. CASE jobs' = jobs
  BY <1>6, JobsFollowThemselves DEF JobsFollow, JobFollows, JobsKept
<1>7. CASE job.owner = r /\ jobs' = [jobs EXCEPT ![j] = FinalizeExact(counted)]
  <2>1. \A k \in Jobs : jobs'[k] = IF k = j THEN FinalizeExact(counted) ELSE jobs[k]
    BY <1>7 DEF RowsOK
  <2>2. \A k \in Jobs : JobKept(jobs'[k], jobs[k])
    BY <1>5, <2>1, JobFollowsItself DEF RowsOK, JobFollows
  <2>3. JobsKept
    BY <1>1, <1>5, <1>7, <2>2 DEF JobsKept, RowsOK, JobOK
  <2> QED BY <1>5, <1>7, <2>1, <2>3 DEF j
<1> QED BY <1>3, <1>6, <1>7

LEMMA PersistSuccessLawful ==
  ASSUME RowsOK, NEW r \in Runs, NEW l \in Links, NEW pay \in ErpOutcomes,
         PersistSuccess(r, l, pay)
  PROVE  Lawful
<1> DEFINE u == Unclaimed(links[l])
           new == [u EXCEPT !.status = "completed", !.pay = pay,
                            !.attempts = 0, !.stale = 0, !.due = FALSE]
<1>1. /\ runs[r].pc \in {"work", "drain"}
      /\ l \in runs[r].inflight /\ links[l].owner = r
      /\ links' = [links EXCEPT ![l] = new]
      /\ Settle(r, l) /\ lock' = lock
  BY DEF PersistSuccess, Owns
<1>2. pay \in PayStatus
  BY LimitsAssumption DEF LimitsAssumption, PayStatus
<1>3. u \in LinkRec /\ u.owner = NoRun /\ u.old = FALSE
  BY UnclaimedFields DEF RowsOK, LinkOK
<1> HIDE DEF u
<1>4. /\ new \in LinkRec /\ new.owner = NoRun /\ new.old = FALSE
      /\ new.status = "completed" /\ new.due = FALSE /\ new.pay = pay
  BY <1>2, <1>3 DEF LinkRec, LinkStatus
<1> HIDE DEF new
<1>5. LinkOK(new)
  BY <1>4 DEF LinkOK
<1>6. /\ links' \in [Links -> LinkRec] /\ links'[l] = new
      /\ \A m \in Links : m # l => links'[m] = links[m]
  BY <1>1, <1>4 DEF RowsOK
<1>7. \A m \in Links : LinkOK(links'[m]) /\ links'[m].owner \in {links[m].owner, NoRun}
  BY <1>4, <1>5, <1>6 DEF RowsOK
<1>8. /\ JobsKept
      /\ \A j \in Jobs : jobs'[j].success # jobs[j].success =>
           /\ runs[r].job = j /\ jobs[j].owner = r
           /\ jobs'[j].success = jobs[j].success + 1
  BY <1>1, CountResultFollows DEF PersistSuccess
<1>9. ItemsOK(items')
  BY SyncReplayType DEF PersistSuccess
<1>10. links'[l].owner # r
  BY <1>4, <1>6, LinksAssumption DEF LinksAssumption
<1>11. /\ RowsOK' /\ NeverRevived
       /\ [s \in Runs |-> runs'[s].inflight]
            = [[s \in Runs |-> runs[s].inflight] EXCEPT ![r] = @ \ {l}]
  BY <1>1, <1>6, <1>7, <1>8, <1>9, <1>10, SettleKeepsWork
<1>12. Claims!Publish(r, l, pay)
  <2>1. [m \in Links |-> links'[m].owner]
          = [[m \in Links |-> links[m].owner] EXCEPT ![l] = NoRun]
    BY <1>4, <1>6
  <2>2. [m \in Links |-> links'[m].pay]
          = [[m \in Links |-> links[m].pay] EXCEPT ![l] = pay]
    BY <1>4, <1>6
  <2> QED BY <1>1, <1>11, <2>1, <2>2 DEF Claims!Publish
<1>13. Claims!Next
  BY <1>2, <1>12 DEF Claims!Next
<1>14. JobsGoOn
  <2>1. Owns(r, l) /\ links'[l].status = "completed"
    BY <1>1, <1>4, <1>6 DEF Owns
  <2>2. \A j \in Jobs : Counted(j)
    BY <1>8, <2>1 DEF Counted
  <2> QED BY <1>8, <1>11, <2>2 DEF JobsGoOn, JobsKept
<1> QED BY <1>11, <1>13, <1>14 DEF Lawful

LEMMA PersistFailureLawful ==
  ASSUME RowsOK, NEW r \in Runs, NEW l \in Links, NEW retryable \in BOOLEAN,
         PersistFailure(r, l, retryable)
  PROVE  Lawful
<1>1. PICK terminal \in BOOLEAN :
        links' = [links EXCEPT ![l] = EnforceTerminal(
          [Unclaimed(links[l]) EXCEPT !.status = IF terminal THEN "error" ELSE "retrying",
                                      !.due = FALSE])]
  <2>1. (~retryable \/ links[l].attempts >= Least(CfgAttempts, MaxAttempts)) \in BOOLEAN
    OBVIOUS
  <2> QED BY <2>1 DEF PersistFailure
<1> DEFINE u == Unclaimed(links[l])
           draft == [u EXCEPT !.status = IF terminal THEN "error" ELSE "retrying",
                              !.due = FALSE]
           new == EnforceTerminal(draft)
<1>2. /\ runs[r].pc \in {"work", "drain"}
      /\ l \in runs[r].inflight /\ links[l].owner = r
      /\ Settle(r, l) /\ lock' = lock
      /\ CountResult(r, 0, 1) \/ UNCHANGED jobs
  BY DEF PersistFailure, Owns
<1>3. u \in LinkRec /\ u.owner = NoRun /\ u.old = FALSE /\ u.pay = links[l].pay
  BY UnclaimedFields DEF RowsOK, LinkOK
<1>4. LinkFollows(new, links[l]) /\ new.owner = NoRun
  <2>1. new = EnforceTerminal(draft)
    OBVIOUS
  <2> HIDE DEF u, new
  <2>2. Draft(draft, links[l]) /\ draft.owner = NoRun /\ draft \in LinkRec
    BY <1>3 DEF Draft, LinkRec, LinkStatus
  <2> HIDE DEF draft
  <2>3. LinkFollows(new, links[l])
    BY <2>1, <2>2, EnforceTerminalFollows
  <2>4. Draft(draft, draft)
    BY <2>2 DEF Draft
  <2>5. LinkFollows(new, draft)
    BY <2>1, <2>4, EnforceTerminalFollows
  <2> QED BY <2>2, <2>3, <2>5 DEF LinkFollows
<1>5. links' = [links EXCEPT ![l] = new]
  BY <1>1
<1> HIDE DEF new
<1>6. /\ links' \in [Links -> LinkRec] /\ links'[l] = new
      /\ \A m \in Links : m # l => links'[m] = links[m]
  BY <1>4, <1>5 DEF RowsOK, LinkFollows, LinkOK
<1>7. \A m \in Links : LinkOK(links'[m]) /\ links'[m].owner \in {links[m].owner, NoRun}
  BY <1>4, <1>6 DEF RowsOK, LinkFollows
<1>8. JobsKept /\ \A j \in Jobs : jobs'[j].success = jobs[j].success
  <2>1. CASE UNCHANGED jobs
    BY <2>1, JobsFollowThemselves DEF JobsKept, JobsFollow, JobFollows
  <2>2. CASE CountResult(r, 0, 1)
    <3>1. \A j \in Jobs : jobs[j].success \in Nat
      BY DEF RowsOK, JobRec
    <3> QED BY <1>2, <2>2, <3>1, CountResultFollows
  <2> QED BY <1>2, <2>1, <2>2
<1>9. ItemsOK(items')
  BY SyncReplayType DEF PersistFailure
<1>10. links'[l].owner # r
  BY <1>4, <1>6, LinksAssumption DEF LinksAssumption
<1>11. /\ RowsOK' /\ NeverRevived
       /\ [s \in Runs |-> runs'[s].inflight]
            = [[s \in Runs |-> runs[s].inflight] EXCEPT ![r] = @ \ {l}]
  BY <1>2, <1>6, <1>7, <1>8, <1>9, <1>10, SettleKeepsWork
<1>12. Claims!GiveBack(r, l)
  <2>1. [m \in Links |-> links'[m].owner]
          = [[m \in Links |-> links[m].owner] EXCEPT ![l] = NoRun]
    BY <1>4, <1>6
  <2>2. [m \in Links |-> links'[m].pay] = [m \in Links |-> links[m].pay]
    BY <1>4, <1>6 DEF LinkFollows
  <2> QED BY <1>2, <1>11, <2>1, <2>2 DEF Claims!GiveBack
<1>13. Claims!Next
  BY <1>12 DEF Claims!Next
<1>14. JobsGoOn
  BY <1>8, <1>11 DEF JobsGoOn, JobsKept, Counted
<1> QED BY <1>11, <1>13, <1>14 DEF Lawful

LEMMA DiscardResultLawful ==
  ASSUME RowsOK, NEW r \in Runs, NEW l \in Links, DiscardResult(r, l) PROVE Lawful
<1>1. /\ runs[r].pc \in {"work", "drain"}
      /\ l \in runs[r].inflight /\ links[l].owner # r
      /\ Settle(r, l) /\ links' = links /\ jobs' = jobs /\ items' = items
      /\ lock' = lock
  BY DEF DiscardResult, Owns
<1>2. JobsFollow(jobs') /\ JobsKept /\ ItemsOK(items')
  BY <1>1, JobsFollowThemselves DEF RowsOK, JobsFollow, JobFollows, JobsKept
<1>3. /\ links' \in [Links -> LinkRec]
      /\ \A m \in Links : LinkOK(links'[m]) /\ links'[m].owner \in {links[m].owner, NoRun}
  BY <1>1 DEF RowsOK
<1>4. /\ RowsOK' /\ NeverRevived
      /\ [s \in Runs |-> runs'[s].inflight]
           = [[s \in Runs |-> runs[s].inflight] EXCEPT ![r] = @ \ {l}]
  BY <1>1, <1>2, <1>3, SettleKeepsWork
<1>5. Claims!Discard(r, l)
  BY <1>1, <1>4 DEF Claims!Discard
<1>6. Claims!Next
  BY <1>5 DEF Claims!Next
<1>7. JobsGoOn
  BY <1>2, FollowingGoesOn
<1> QED BY <1>4, <1>6, <1>7 DEF Lawful

\* What the worker that holds a job writes when it gives it back: ended, if the
\* job was ended, but for one completed behind its back after a late resume.
Freed(new, old) ==
  /\ JobOK(new) /\ new.owner = NoRun
  /\ JobStays(new, old) /\ new.success \in {0, old.success}
  /\ Ended(old) /\ ~Ended(new) =>
       old.late /\ old.owner # NoRun /\ old.status = "completed"

LEMMA FreedJobGoesOn ==
  ASSUME RowsOK, NEW j \in Jobs, NEW row, Freed(row, jobs[j]),
         jobs' = [jobs EXCEPT ![j] = row]
  PROVE  /\ JobsGoOn /\ jobs' \in [Jobs -> JobRec]
         /\ jobs'[j].owner = NoRun
         /\ \A k \in Jobs : JobOK(jobs'[k]) /\ jobs'[k].owner \in {jobs[k].owner, NoRun}
<1>1. \A k \in Jobs : JobOK(jobs[k]) /\ jobs'[k] = IF k = j THEN row ELSE jobs[k]
  BY DEF RowsOK
<1>2. /\ jobs' \in [Jobs -> JobRec] /\ jobs'[j].owner = NoRun
      /\ \A k \in Jobs : JobOK(jobs'[k]) /\ jobs'[k].owner \in {jobs[k].owner, NoRun}
  BY <1>1 DEF Freed, RowsOK, JobOK
<1>3. NeverRevived
  <2> SUFFICES ASSUME NEW k \in Jobs, Ended(jobs[k]), ~Ended(jobs'[k])
               PROVE  /\ jobs[k].origin = "manual" /\ jobs[k].status # "deleted"
                      /\ StillHeld(k) /\ jobs[k].status = "completed"
    BY DEF NeverRevived
  <2>1. k = j
    BY <1>1
  <2>2. jobs[j].late /\ jobs[j].owner # NoRun /\ jobs[j].status = "completed"
    BY <1>1, <2>1 DEF Freed
  <2> QED BY <1>1, <2>1, <2>2 DEF StillHeld, JobOK
<1>4. \A k \in Jobs : JobStays(jobs'[k], jobs[k]) /\ Counted(k)
  BY <1>1 DEF Freed, Counted
<1> QED BY <1>2, <1>3, <1>4 DEF JobsGoOn

\* A run that ends or starts over has nothing in flight and no job any more.
LEMMA FinalizedFreed ==
  ASSUME RowsOK, NEW r \in Runs, runs[r].pc = "work",
         jobs[runs[r].job].owner = r
  PROVE  Freed(Finalized(runs[r]), jobs[runs[r].job])
<1> DEFINE job == jobs[runs[r].job]
           freed == [job EXCEPT !.owner = NoRun, !.expired = FALSE]
<1> SUFFICES Freed(Finalized(runs[r]), job)
  OBVIOUS
<1>1. /\ JobOK(job) /\ job.owner # NoRun
      /\ \/ job.status \in {"running", "cancelled"}
         \/ job.late /\ job.status \in Overwritable
  BY LinksAssumption DEF RowsOK, RunOK, JobOK, LinksAssumption
<1>2. PICK due \in BOOLEAN, done \in BOOLEAN :
        Finalized(runs[r]) =
          IF job.status = "cancelled" THEN freed
          ELSE IF job.stop THEN [freed EXCEPT !.status = "paused"]
          ELSE IF done THEN [freed EXCEPT !.status = "completed"]
          ELSE [freed EXCEPT !.status = "queued", !.due = due]
  <2> DEFINE open == JobLinks(runs[r], {"queued", "processing"})
             immediate == \E l \in open : Due(runs[r], l)
             processing == \E l \in open : links[l].status = "processing"
             retries == {l \in open : links[l].status = "retrying"}
             d == \/ immediate
                  \/ retries = {}
                  \/ \E l \in retries : links[l].due
             f == ~immediate /\ ~processing /\ retries = {}
  <2>1. Finalized(runs[r]) =
          IF job.status = "cancelled" THEN freed
          ELSE IF job.stop THEN [freed EXCEPT !.status = "paused"]
          ELSE IF f THEN [freed EXCEPT !.status = "completed"]
          ELSE [freed EXCEPT !.status = "queued", !.due = d]
    BY DEF Finalized
  <2>2. d \in BOOLEAN /\ f \in BOOLEAN
    OBVIOUS
  <2> QED BY <2>1, <2>2
<1> HIDE DEF job
<1>3. /\ freed \in JobRec /\ freed.owner = NoRun /\ freed.status = job.status
      /\ freed.stop = job.stop /\ freed.processed = freed.success + freed.error
      /\ freed.batch = job.batch /\ freed.target = job.target
      /\ freed.success = job.success /\ freed.origin = job.origin
      /\ freed.late = job.late /\ (freed.late => freed.origin = "manual")
  BY <1>1 DEF JobOK, JobRec, Owner
<1> HIDE DEF freed
<1>4. CASE job.status = "cancelled"
  BY <1>1, <1>2, <1>3, <1>4 DEF Freed, JobOK, Ended
<1>5. CASE job.status = "running" \/ (job.late /\ job.status \in Overwritable)
  <2>1. \A st \in {"paused", "completed"} :
          LET new == [freed EXCEPT !.status = st] IN Freed(new, job)
    BY <1>1, <1>3, <1>5 DEF Freed, JobOK, JobRec, JobStatus, ActiveStatus, Ended
  <2>2. ~job.stop =>
          LET new == [freed EXCEPT !.status = "queued", !.due = due] IN Freed(new, job)
    BY <1>1, <1>3, <1>5 DEF Freed, JobOK, JobRec, JobStatus, ActiveStatus, Ended
  <2> QED BY <1>2, <1>5, <2>1, <2>2
<1> QED BY <1>1, <1>4, <1>5

LEMMA ReleaseLawful ==
  ASSUME RowsOK, NEW r \in Runs, Release(r) PROVE Lawful
<1> DEFINE j == runs[r].job
<1>1. /\ runs[r].pc = "work" /\ runs[r].inflight = {} /\ j \in Jobs
  BY DEF Release, RowsOK, RunOK
<1>2. /\ LinksFollow(links') /\ ItemsOK(items')
      /\ JobsGoOn /\ jobs' \in [Jobs -> JobRec] /\ jobs'[j].owner # r
      /\ \A k \in Jobs : JobOK(jobs'[k]) /\ jobs'[k].owner \in {jobs[k].owner, NoRun}
  <2>1. CASE jobs[j].owner = r
    <3>1. Freed(Finalized(runs[r]), jobs[j])
      BY <1>1, <2>1, FinalizedFreed
    <3>2. WriteJobStatus(links, j, Finalized(runs[r]))
      BY <2>1 DEF Release
    <3>3. /\ LinksFollow(links') /\ ItemsOK(items')
          /\ \E row : /\ jobs' = [jobs EXCEPT ![j] = row]
                      /\ JobFollows(row, Finalized(runs[r]))
      BY <1>1, <3>1, <3>2, LinksFollowThemselves, WriteJobStatusRows DEF Freed
    <3>4. PICK row : /\ jobs' = [jobs EXCEPT ![j] = row]
                     /\ JobFollows(row, Finalized(runs[r]))
      BY <3>3
    <3>5. Freed(row, jobs[j])
      BY <3>1, <3>4 DEF JobFollows, Freed
    <3> HIDE DEF j
    <3>6. /\ JobsGoOn /\ jobs' \in [Jobs -> JobRec] /\ jobs'[j].owner # r
          /\ \A k \in Jobs : JobOK(jobs'[k]) /\ jobs'[k].owner \in {jobs[k].owner, NoRun}
      BY <1>1, <3>4, <3>5, FreedJobGoesOn, LinksAssumption DEF LinksAssumption
    <3> QED BY <3>3, <3>6
  <2>2. CASE jobs[j].owner # r
    <3>1. JobsFollow(jobs')
      BY <2>2, JobsFollowThemselves DEF Release
    <3> QED BY <2>2, <3>1, LinksFollowThemselves, FollowingGoesOn
            DEF Release, RowsOK, JobsFollow, JobFollows
  <2> QED BY <2>1, <2>2
<1>3. PICK run \in RunRec :
        /\ run.inflight = {} /\ RunOK(run)
        /\ runs' = [runs EXCEPT ![r] = run]
        /\ lock' \in Runs \cup {NoRun}
  <2>1. \A pc \in {"off", "cycle", "ready"} :
          /\ [OffRun EXCEPT !.pc = pc] \in RunRec
          /\ [OffRun EXCEPT !.pc = pc].inflight = {}
          /\ RunOK([OffRun EXCEPT !.pc = pc])
    BY DEF OffRun, RunRec, RunPc, RunOK
  <2>2. OffRun \in RunRec /\ OffRun.inflight = {} /\ RunOK(OffRun)
    BY DEF OffRun, RunRec, RunPc, RunOK
  <2>3. \/ LeaveTo(r, OffRun)
        \/ \E pc \in {"cycle", "ready"} :
             runs' = [runs EXCEPT ![r] = [OffRun EXCEPT !.pc = pc]] /\ lock' = lock
    BY DEF Release
  <2> QED BY <2>1, <2>2, <2>3 DEF LeaveTo, RowsOK
<1> HIDE DEF j
<1>4. \A s \in Runs : runs'[s].inflight = runs[s].inflight
  BY <1>1, <1>3 DEF RowsOK
<1>5. OwnersKnowTheirWork'
  <2>1. ASSUME NEW l \in Links, links'[l].owner \in Runs
        PROVE  l \in runs'[links'[l].owner].inflight
    <3>1. links'[l].owner = links[l].owner
      BY <1>2, <2>1, LinksAssumption DEF LinksFollow, LinkFollows, LinksAssumption
    <3> QED BY <1>4, <2>1, <3>1 DEF RowsOK, OwnersKnowTheirWork
  <2>2. ASSUME NEW k \in Jobs, jobs'[k].owner \in Runs
        PROVE  runs'[jobs'[k].owner].job = k
    <3>1. jobs'[k].owner = jobs[k].owner
      BY <1>2, <2>2, LinksAssumption DEF LinksAssumption
    <3>2. runs[jobs[k].owner].job = k
      BY <2>2, <3>1 DEF RowsOK, OwnersKnowTheirWork
    <3>3. jobs[k].owner # r
      BY <1>2, <3>1, <3>2 DEF j
    <3> QED BY <1>3, <2>2, <3>1, <3>2, <3>3 DEF RowsOK
  <2> QED BY <2>1, <2>2 DEF OwnersKnowTheirWork
<1>6. RowsOK'
  BY <1>2, <1>3, <1>5
  DEF RowsOK, LinksFollow, LinkFollows, ItemsOK
<1>7. Claims!Next
  BY <1>2, <1>4, RewritingRevokes
<1> QED BY <1>2, <1>6, <1>7 DEF Lawful

LEMMA FailRunLawful ==
  ASSUME RowsOK, NEW r \in Runs, FailRun(r) PROVE Lawful
<1> DEFINE j == runs[r].job
           failed == [jobs[j] EXCEPT !.status = "failed", !.owner = NoRun,
                                     !.expired = FALSE]
           run == [runs[r] EXCEPT !.pc = "drain"]
<1>1. runs[r].pc \in {"claimed", "work"} /\ j \in Jobs
  BY DEF FailRun, RowsOK, RunOK
<1>2. JobsFollow(jobs')
  <2>1. CASE jobs[j].owner = r
    <3>1. JobOK(jobs[j]) /\ jobs[j].status \in {"running", "cancelled"} \cup Overwritable
      BY <1>1, <2>1, LinksAssumption DEF RowsOK, JobOK, LinksAssumption
    <3>2. JobFollows(failed, jobs[j])
      BY <3>1 DEF JobFollows, JobOK, JobRec, JobStatus, ActiveStatus, Owner, Ended
    <3>3. jobs' = [jobs EXCEPT ![j] = failed]
      BY <2>1 DEF FailRun
    <3> HIDE DEF failed, j
    <3> QED BY <1>1, <3>2, <3>3, OneJobFollows
  <2>2. CASE jobs[j].owner # r
    BY <2>2, JobsFollowThemselves DEF FailRun
  <2> QED BY <2>1, <2>2
<1>3. /\ run \in RunRec /\ RunOK(run) /\ run.job = runs[r].job
      /\ run.inflight = runs[r].inflight
  BY <1>1 DEF RowsOK, RunOK, RunRec, RunPc
<1>4. runs' = [runs EXCEPT ![r] = run] /\ lock' \in Runs \cup {NoRun}
  BY DEF FailRun, LeaveTo, RowsOK
<1> HIDE DEF run
<1>5. LinksFollow(links') /\ ItemsOK(items')
  BY LinksFollowThemselves DEF FailRun, RowsOK
<1>6. Housekeeping
  BY <1>2, <1>3, <1>4, <1>5 DEF Housekeeping, RowsOK
<1> QED BY <1>6, HousekeepingIsLawful

\* The rows that named a call keep naming it: nobody who is left owns them.
LEMMA AbandonLawful ==
  ASSUME RowsOK, NEW r \in Runs, Abandon(r) PROVE Lawful
<1>1. /\ links' = [l \in Links |-> IF links[l].owner = r
                     THEN [links[l] EXCEPT !.owner = Gone] ELSE links[l]]
      /\ jobs' = [j \in Jobs |-> IF jobs[j].owner = r
                     THEN [jobs[j] EXCEPT !.owner = Gone] ELSE jobs[j]]
      /\ runs' = [runs EXCEPT ![r] = OffRun] /\ lock' \in Runs \cup {NoRun}
      /\ items' = items
  BY DEF Abandon, LeaveTo, RowsOK
<1>2. r # NoRun /\ r # Gone /\ Gone \in Owner /\ Gone # NoRun /\ Gone \notin Runs
  BY LinksAssumption DEF LinksAssumption, Owner
<1>3. \A l \in Links : /\ LinkOK(links'[l]) /\ links'[l].pay = links[l].pay
                       /\ links'[l].owner = IF links[l].owner = r THEN Gone
                                            ELSE links[l].owner
  BY <1>1, <1>2 DEF RowsOK, LinkOK, LinkRec
<1>4. \A j \in Jobs : /\ JobOK(jobs'[j]) /\ jobs'[j].status = jobs[j].status
                      /\ jobs'[j].batch = jobs[j].batch /\ jobs'[j].target = jobs[j].target
                      /\ jobs'[j].success = jobs[j].success
                      /\ jobs'[j].origin = jobs[j].origin
                      /\ jobs'[j].owner = IF jobs[j].owner = r THEN Gone
                                          ELSE jobs[j].owner
  BY <1>1, <1>2 DEF RowsOK, JobOK, JobRec
<1>5. OffRun \in RunRec /\ RunOK(OffRun) /\ OffRun.inflight = {}
  BY DEF OffRun, RunRec, RunPc, RunOK
<1>6. OwnersKnowTheirWork'
  BY <1>1, <1>2, <1>3, <1>4 DEF RowsOK, OwnersKnowTheirWork
<1>7. RowsOK'
  <2>1. links' \in [Links -> LinkRec] /\ jobs' \in [Jobs -> JobRec]
    BY <1>1, <1>3, <1>4 DEF LinkOK, JobOK
  <2> QED BY <1>1, <1>3, <1>4, <1>5, <1>6, <2>1 DEF RowsOK, ItemsOK
<1>8. JobsGoOn
  BY <1>4 DEF JobsGoOn, NeverRevived, Ended, Counted
<1>9. Claims!Vanish(r)
  <2>1. [s \in Runs |-> runs'[s].inflight]
          = [[s \in Runs |-> runs[s].inflight] EXCEPT ![r] = {}]
    BY <1>1, <1>5 DEF RowsOK
  <2>2. [l \in Links |-> links'[l].pay] = [l \in Links |-> links[l].pay]
    BY <1>3
  <2> QED BY <1>3, <2>1, <2>2 DEF Claims!Vanish
<1>10. Claims!Next
  BY <1>9 DEF Claims!Next
<1> QED BY <1>7, <1>8, <1>10 DEF Lawful

(***************************************************************************)
(* 7. The specification                                                    *)
(***************************************************************************)

LEMMA CycleLawful ==
  ASSUME RowsOK, NEW r \in Runs, Cycle(r) PROVE Lawful
<1>1. ASSUME NEW l \in Links, Consulted(r, l) PROVE Lawful
  BY <1>1, PersistSuccessLawful, PersistFailureLawful, DiscardResultLawful
  DEF Consulted
<1> QED BY <1>1, PauseCheckpointLawful, RecoverStaleLawful, ClaimJobLawful,
           NoJobLawful, ClaimMembersLawful, ReleaseLawful, AbandonLawful
        DEF Cycle, EndDrain

LEMMA NextLawful ==
  ASSUME IInv, [Next]_vars PROVE Lawful
<1> RowsOK
  BY DEF IInv
<1>1. CASE Application
  BY <1>1, ApplicationLawful
<1>2. CASE Worker
  BY <1>2, CycleLawful, BootLawful, TriggerLawful DEF Worker, Starts
<1>3. CASE Failure
  BY <1>3, FailRunLawful, AbandonLawful DEF Failure, Crash
<1>4. CASE Time
  BY <1>4, TimeLawful
<1>5. CASE UNCHANGED vars
  BY <1>5 DEF vars, Lawful, RowsOK, ItemsOK, OwnersKnowTheirWork, JobsGoOn,
              NeverRevived, Counted, Claims!vars
<1> QED BY <1>1, <1>2, <1>3, <1>4, <1>5 DEF Next

\* A resume that is still to write keeps a manual job in front of it.
LEMMA NextResumes ==
  ASSUME IInv, [Next]_vars PROVE ResumesOK'
<1>1. \A j \in Jobs : JobStays(jobs'[j], jobs[j])
  BY NextLawful DEF Lawful, JobsGoOn
<1>2. CASE UNCHANGED resumes
  BY <1>1, <1>2 DEF IInv, ResumesOK
<1>3. ASSUME NEW b \in Batches, ReadPaused(b) PROVE ResumesOK'
  <2>1. PICK j \in Jobs : /\ jobs[j].status = "paused" /\ jobs[j].origin = "manual"
                          /\ resumes' = [resumes EXCEPT ![j] = resumes[j] + 1]
    BY <1>3 DEF ReadPaused, ActiveJobs
  <2> QED BY <1>3, <2>1 DEF ReadPaused, IInv, ResumesOK
<1>4. ASSUME NEW j \in Jobs, WriteResumed(j) PROVE ResumesOK'
  <2>1. /\ resumes' = [resumes EXCEPT ![j] = resumes[j] - 1]
        /\ resumes[j] \in Nat /\ resumes[j] > 0
    BY <1>4 DEF WriteResumed, IInv, ResumesOK
  <2>2. /\ resumes' \in [Jobs -> Nat]
        /\ \A k \in Jobs : resumes'[k] > 0 => resumes[k] > 0
    BY <2>1 DEF IInv, ResumesOK
  <2> QED BY <1>1, <2>2 DEF IInv, ResumesOK
<1>5. UNCHANGED resumes \/ (\E b \in Batches : ReadPaused(b)) \/ \E j \in Jobs : WriteResumed(j)
  BY DEF Next, Application, Worker, Failure, Time, vars
<1> QED BY <1>2, <1>3, <1>4, <1>5

LEMMA InitInvariant ==
  ASSUME Init PROVE IInv /\ Claims!Init
<1> DEFINE fresh == [status |-> "pending", pay |-> "none", attempts |-> 0,
                     stale |-> 0, due |-> FALSE, old |-> FALSE, errReq |-> FALSE,
                     owner |-> NoRun, deleted |-> FALSE]
<1>1. fresh \in LinkRec /\ LinkOK(fresh) /\ fresh.owner = NoRun /\ fresh.pay = "none"
  BY DEF LinkOK, LinkRec, LinkStatus, PayStatus, Owner
<1>2. links = [l \in Links |-> fresh]
  BY DEF Init
<1> HIDE DEF fresh
<1>3. AbsentJob \in JobRec /\ JobOK(AbsentJob) /\ AbsentJob.owner = NoRun
  <2> DEFINE n == NewJob(NoBatch, "manual", "batch", 0)
  <2>1. JobOK(n) /\ n \in JobRec /\ n.owner = NoRun
    BY NewJobOK DEF Origins, Scopes
  <2> HIDE DEF n
  <2>2. LET absent == [n EXCEPT !.status = "absent"]
        IN  absent \in JobRec /\ JobOK(absent) /\ absent.owner = NoRun
    BY <2>1 DEF JobOK, JobRec, JobStatus
  <2> QED BY <2>2 DEF AbsentJob, n
<1>4. OffRun \in RunRec /\ RunOK(OffRun) /\ OffRun.inflight = {}
  BY DEF OffRun, RunRec, RunPc, RunOK
<1>5. OwnersKnowTheirWork
  BY <1>1, <1>2, <1>3, LinksAssumption DEF Init, OwnersKnowTheirWork, LinksAssumption
<1>6. IInv
  <2>1. RowsOK
    BY <1>1, <1>2, <1>3, <1>4, <1>5 DEF Init, RowsOK, ItemsOK, ItemStatus
  <2>2. ResumesOK
    BY DEF Init, ResumesOK
  <2> QED BY <2>1, <2>2 DEF IInv
<1>7. Claims!Init
  BY <1>1, <1>2, <1>4 DEF Init, Claims!Init
<1> QED BY <1>6, <1>7

THEOREM Invariance == Spec => []IInv
<1>1. Init => IInv
  BY InitInvariant
<1>2. IInv /\ [Next]_vars => IInv'
  BY NextLawful, NextResumes DEF Lawful, IInv
<1> QED BY <1>1, <1>2, PTL DEF Spec

\* Every row and every run has its type in every reachable state.
THEOREM TypeCorrect == Spec => []TypeOK
<1> DEFINE Counters == requests \in Nat /\ crashes \in Nat
<1>1. Init => Counters
  BY DEF Init
<1>2. Counters /\ [Next]_vars => Counters'
  <2> SUFFICES ASSUME Counters, [Next]_vars PROVE Counters'
    OBVIOUS
  <2>1. ASSUME NEW kind, Asks(kind) PROVE Counters'
    BY <2>1 DEF Asks
  <2>2. CASE Application
    BY <2>1, <2>2 DEF Application, Request, BatchRequest, MemberRequest
  <2>3. CASE Worker \/ Failure \/ Time \/ UNCHANGED vars
    BY <2>3 DEF Worker, Failure, Time, vars
  <2> QED BY <2>2, <2>3 DEF Next
<1>3. IInv /\ Counters => TypeOK
  BY DEF IInv, RowsOK, ResumesOK, ItemsOK, TypeOK, StateTypeOK
<1> HIDE DEF Counters
<1> QED BY <1>1, <1>2, <1>3, Invariance, PTL DEF Spec

\* A link is 'processing' exactly while a run owns it: no statement of the
\* worker, of the operators or of a trigger leaves half of a claim.
THEOREM ClaimsWhole == Spec => []ClaimsAreWhole
<1>1. IInv => ClaimsAreWhole
  BY DEF IInv, RowsOK, LinkOK, ClaimsAreWhole
<1> QED BY <1>1, Invariance, PTL

\* Only running jobs have an owner, and jobs that were cancelled, or written over
\* by a late resume, while a worker held them.
THEOREM LeasesOwned == Spec => []LeasesAreOwned
<1>1. IInv => LeasesAreOwned
  BY DEF IInv, RowsOK, JobOK, LeasesAreOwned
<1> QED BY <1>1, Invariance, PTL

\* No writer queues a job again while a stop of it is requested.
THEOREM StopSurvives == Spec => []StopSurvivesRecovery
<1>1. IInv => StopSurvivesRecovery
  BY DEF IInv, RowsOK, JobOK, StopSurvivesRecovery
<1> QED BY <1>1, Invariance, PTL

\* processed = success + error, with the settling trigger in between.
THEOREM LedgerAdds == Spec => []LedgerAddsUp
<1>1. IInv => LedgerAddsUp
  BY DEF IInv, RowsOK, JobOK, LedgerAddsUp
<1> QED BY <1>1, Invariance, PTL

\* A technical failure never reclassifies a confirmed payment.
THEOREM ConfirmedSafe == Spec => []ConfirmedNeverFails
<1>1. IInv => ConfirmedNeverFails
  BY DEF IInv, RowsOK, LinkOK, ConfirmedNeverFails
<1> QED BY <1>1, Invariance, PTL

\* A run that a row names and that is still there has the row in its memory.
THEOREM OwnersKnow == Spec => []OwnersKnowTheirWork
<1>1. IInv => OwnersKnowTheirWork
  BY DEF IInv, RowsOK
<1> QED BY <1>1, Invariance, PTL

\* No step makes an ended job active again but the late write of a resume that had
\* read it paused, and the worker that such a write left holding it.
THEOREM EndedStay == Spec => EndedJobsStayEnded
<1>1. IInv /\ [Next]_vars => [NeverRevived]_vars
  BY NextLawful DEF Lawful, JobsGoOn
<1> QED BY <1>1, Invariance, PTL DEF Spec, EndedJobsStayEnded

\* The queue implements the claim protocol: a result is published at most once,
\* by the run whose claim still stands.
THEOREM ClaimsRefined == Spec => ClaimsImplemented
<1>1. Init => Claims!Init
  BY InitInvariant
<1>2. IInv /\ [Next]_vars => [Claims!Next]_Claims!vars
  BY NextLawful DEF Lawful
<1> QED BY <1>1, <1>2, Invariance, PTL DEF Spec, ClaimsImplemented, Claims!Spec

(***************************************************************************)
(* 8. The scope of a claim                                                 *)
(***************************************************************************)

\* What a run keeps in memory agrees with the rows js and is: its job is still
\* there, reaches no link the run would not take, and every link in flight was
\* in the scope the run was given.
RunScoped(run, js, is) ==
  run.job \in Jobs =>
    /\ js[run.job].status # "absent"
    /\ js[run.job].target \in {run.target, NoLink}
    /\ \A l \in run.inflight :
         /\ js[run.job].batch = BatchOf[l]
         /\ run.target \in {NoLink, l}
         /\ run.filtered => is[run.job][l] # "none"

Scoped == \A r \in Runs : RunScoped(runs[r], jobs, items)

\* A link stays in the snapshot of a job that exists.
ItemsStay ==
  \A j \in Jobs, l \in Links :
    jobs[j].status # "absent" /\ items[j][l] # "none" => items'[j][l] # "none"

\* A run drops its job, takes one, or keeps it and claims links of its scope.
RunGoesOn(r) ==
  \/ runs'[r].job = 0
  \/ /\ runs'[r].job \in Jobs /\ jobs[runs'[r].job].status # "absent"
     /\ runs'[r].target = jobs[runs'[r].job].target
     /\ runs'[r].inflight = {}
  \/ /\ runs'[r].job = runs[r].job
     /\ runs'[r].target = runs[r].target /\ runs'[r].filtered = runs[r].filtered
     /\ runs'[r].inflight \subseteq
          runs[r].inflight \cup JobLinks(runs[r], {"queued"})

LEMMA ReplayStays ==
  ASSUME NEW new, items' = SyncReplay(new) PROVE ItemsStay
<1>1. \A old, status, item : item # "none" => SyncItem(old, status, item) # "none"
  BY DEF SyncItem
<1> QED BY <1>1 DEF SyncReplay, ItemsStay

LEMMA UnchangedItemsStay == ASSUME items' = items PROVE ItemsStay
BY DEF ItemsStay

\* The snapshot of a filtered request is that of the job it inserts.
LEMMA FilteredItemsStay ==
  ASSUME RowsOK, NEW b \in Batches, NEW S \in SUBSET Links, ReprocessFiltered(b, S)
  PROVE  ItemsStay
<1>1. PICK next \in Jobs : /\ jobs[next].status = "absent"
                           /\ \A j \in Jobs : j # next => jobs'[j] = jobs[j]
  BY DEF ReprocessFiltered, Insert, RowsOK
<1>2. \A j \in Jobs : jobs[j].status # "absent" => items'[j] = SyncReplay(links')[j]
  BY <1>1 DEF ReprocessFiltered
<1>3. \A old, status, item : item # "none" => SyncItem(old, status, item) # "none"
  BY DEF SyncItem
<1>4. ASSUME NEW j \in Jobs, NEW l \in Links,
             jobs[j].status # "absent", items[j][l] # "none"
      PROVE  items'[j][l] # "none"
  <2>1. items'[j][l] = SyncItem(links[l].status, links'[l].status, items[j][l])
    BY <1>2, <1>4 DEF SyncReplay
  <2> QED BY <1>3, <1>4, <2>1
<1> QED BY <1>4 DEF ItemsStay

\* Everybody but a filtered request leaves the items to the trigger.
LEMMA ItemsReplayed ==
  /\ \A ls, j, new : WriteJobStatus(ls, j, new) => items' = SyncReplay(links')
  /\ \A ls : WriteLinks(ls) => items' = SyncReplay(links')
  /\ \A b, origin, scope, includeErrors, recheck, keep :
       Enqueue(b, origin, scope, includeErrors, recheck, keep)
         => items' = SyncReplay(links')
  /\ \A ls, js, l, track : QueueMember(ls, js, l, track) => items' = SyncReplay(links')
<1>1. \A ls, j, new : WriteJobStatus(ls, j, new) => items' = SyncReplay(links')
  BY DEF WriteJobStatus
<1>2. \A ls : WriteLinks(ls) => items' = SyncReplay(links')
  BY DEF WriteLinks
<1>3. ASSUME NEW b, NEW origin, NEW scope, NEW includeErrors, NEW recheck, NEW keep,
             Enqueue(b, origin, scope, includeErrors, recheck, keep)
      PROVE  items' = SyncReplay(links')
  BY <1>1, <1>2, <1>3 DEF Enqueue
<1>4. ASSUME NEW ls, NEW js, NEW l, NEW track, QueueMember(ls, js, l, track)
      PROVE  items' = SyncReplay(links')
  BY <1>2, <1>4 DEF QueueMember
<1> QED BY <1>1, <1>2, <1>3, <1>4

LEMMA ApplicationItemsStay ==
  ASSUME RowsOK, Application PROVE ItemsStay
<1>1. ASSUME NEW b \in Batches, BatchRequest(b) PROVE ItemsStay
  <2>1. CASE \E S \in SUBSET Links : ReprocessFiltered(b, S)
    BY <2>1, FilteredItemsStay
  <2>2. ASSUME \/ \E scope : Process(b, scope) \/ ReprocessErrors(b, scope)
               \/ RecheckBatch(b) \/ FullSyncBatch(b)
        PROVE  items' = SyncReplay(links')
    BY <2>2, ItemsReplayed DEF Process, ReprocessErrors, RecheckBatch, FullSyncBatch
  <2>3. CASE PrepareFullSync(b) \/ ReprocessBlocked(b)
    <3>1. items' = SyncReplay(links')
      BY <2>3, ItemsReplayed DEF PrepareFullSync, ReprocessBlocked
    <3> QED BY <3>1, ReplayStays
  <2>4. CASE PauseBatch(b)
    BY <2>4, UnchangedItemsStay DEF PauseBatch
  <2> QED BY <1>1, <2>1, <2>2, <2>3, <2>4, ReplayStays DEF BatchRequest
<1>2. ASSUME NEW l \in Links, MemberRequest(l) PROVE ItemsStay
  <2>1. items' = items \/ items' = SyncReplay(links')
    BY <1>2, ItemsReplayed DEF MemberRequest, ReprocessMember, DeleteMember
  <2> QED BY <2>1, ReplayStays, UnchangedItemsStay
<1>3. ASSUME InterruptCampaign PROVE ItemsStay
  <2>1. items' = SyncReplay(links')
    BY <1>3, ItemsReplayed DEF InterruptCampaign
  <2> QED BY <2>1, ReplayStays
<1>4. ASSUME NEW S, StopRequest(S) PROVE ItemsStay
  BY <1>4, UnchangedItemsStay DEF StopRequest
<1>5. ASSUME \/ \E b \in Batches : ReadPaused(b)
             \/ \E j \in Jobs : WriteResumed(j)
      PROVE  ItemsStay
  BY <1>5, UnchangedItemsStay DEF ReadPaused, WriteResumed
<1> QED BY <1>1, <1>2, <1>3, <1>4, <1>5 DEF Application, Request

LEMMA CycleItemsStay ==
  ASSUME NEW r \in Runs, Cycle(r) \/ Starts(r) \/ FailRun(r) \/ Crash(r)
  PROVE  ItemsStay
<1>1. CASE \/ PauseCheckpoint(r) \/ NoJob(r) \/ EndDrain(r) \/ Crash(r)
           \/ Trigger(r) \/ FailRun(r) \/ \E l \in Links : DiscardResult(r, l)
  BY <1>1, UnchangedItemsStay
  DEF PauseCheckpoint, NoJob, EndDrain, Crash, Abandon, Trigger, FailRun, DiscardResult
<1>2. CASE RecoverStale(r) \/ ClaimMembers(r) \/ Boot(r)
  <2>1. items' = SyncReplay(links')
    BY <1>2 DEF RecoverStale, ClaimMembers, Boot
  <2> QED BY <2>1, ReplayStays
<1>3. ASSUME NEW j \in Jobs, ClaimJob(r, j) PROVE ItemsStay
  BY <1>3, ItemsReplayed, ReplayStays DEF ClaimJob
<1>4. ASSUME NEW l \in Links, \/ \E pay \in ErpOutcomes : PersistSuccess(r, l, pay)
                              \/ \E t \in BOOLEAN : PersistFailure(r, l, t)
      PROVE  ItemsStay
  <2>1. items' = SyncReplay(links')
    BY <1>4 DEF PersistSuccess, PersistFailure
  <2> QED BY <2>1, ReplayStays
<1>5. CASE Release(r)
  <2>1. items' = items \/ items' = SyncReplay(links')
    BY <1>5, ItemsReplayed DEF Release
  <2> QED BY <2>1, ReplayStays, UnchangedItemsStay
<1> QED BY <1>1, <1>2, <1>3, <1>4, <1>5 DEF Cycle, Consulted, Starts

LEMMA NextItemsStay ==
  ASSUME RowsOK, [Next]_vars PROVE ItemsStay
<1>1. CASE Worker \/ Failure
  BY <1>1, CycleItemsStay DEF Worker, Failure
<1>2. CASE Time \/ UNCHANGED vars
  BY <1>2, UnchangedItemsStay
  DEF Time, LeaseExpires, JobComesDue, HeartbeatAges, RetryComesDue, vars
<1> QED BY <1>1, <1>2, ApplicationItemsStay DEF Next

\* What the steps of the run r do to the memory of the runs.
LEMMA CycleRunsGoOn ==
  ASSUME RowsOK, NEW r \in Runs, Cycle(r) \/ Starts(r) \/ FailRun(r) \/ Crash(r)
  PROVE  \A s \in Runs : RunGoesOn(s)
<1>1. ASSUME NEW run, runs' = [runs EXCEPT ![r] = run],
             \/ run.job = 0
             \/ /\ run.job \in Jobs /\ jobs[run.job].status # "absent"
                /\ run.target = jobs[run.job].target /\ run.inflight = {}
             \/ /\ run.job = runs[r].job /\ run.target = runs[r].target
                /\ run.filtered = runs[r].filtered
                /\ run.inflight \subseteq
                     runs[r].inflight \cup JobLinks(runs[r], {"queued"})
      PROVE  \A s \in Runs : RunGoesOn(s)
  BY <1>1 DEF RunGoesOn, RowsOK
<1>2. ASSUME NEW pc, Enter(r, pc) PROVE \A s \in Runs : RunGoesOn(s)
  BY <1>2 DEF RunGoesOn, Enter, RowsOK, RunRec
<1>3. CASE PauseCheckpoint(r) \/ RecoverStale(r) \/ Boot(r) \/ Trigger(r)
  BY <1>2, <1>3 DEF PauseCheckpoint, RecoverStale, Boot, Trigger
<1>4. CASE NoJob(r) \/ EndDrain(r) \/ Crash(r)
  <2>1. runs' = [runs EXCEPT ![r] = OffRun]
    BY <1>4 DEF NoJob, EndDrain, Crash, Abandon, LeaveTo
  <2> QED BY <1>1, <2>1 DEF OffRun
<1>5. CASE Release(r)
  <2>1. \/ runs' = [runs EXCEPT ![r] = OffRun]
        \/ \E pc : runs' = [runs EXCEPT ![r] = [OffRun EXCEPT !.pc = pc]]
    BY <1>5 DEF Release, LeaveTo
  <2>2. OffRun.job = 0 /\ \A pc : [OffRun EXCEPT !.pc = pc].job = 0
    BY DEF OffRun
  <2> QED BY <1>1, <2>1, <2>2
<1>6. CASE FailRun(r)
  <2>1. runs' = [runs EXCEPT ![r].pc = "drain"]
    BY <1>6 DEF FailRun, LeaveTo
  <2> QED BY <1>2, <2>1 DEF Enter
<1>7. ASSUME NEW j \in Jobs, ClaimJob(r, j) PROVE \A s \in Runs : RunGoesOn(s)
  <2> DEFINE run == [pc |-> "claimed", job |-> j, target |-> jobs[j].target,
                     filtered |-> jobs[j].filtered,
                     includeErrors |-> jobs[j].includeErrors,
                     inflight |-> {}, idle |-> TRUE]
  <2>1. runs' = [runs EXCEPT ![r] = run] /\ jobs[j].status = "queued"
    BY <1>7 DEF ClaimJob, Claimable
  <2>2. run.job = j /\ run.target = jobs[j].target /\ run.inflight = {}
    OBVIOUS
  <2> HIDE DEF run
  <2> QED BY <1>1, <2>1, <2>2
<1>8. CASE ClaimMembers(r)
  <2>1. PICK claimed \in SUBSET JobLinks(runs[r], {"queued"}) :
          runs' = [runs EXCEPT ![r].pc = "work", ![r].inflight = claimed,
                               ![r].idle = claimed = {}]
    BY <1>8 DEF ClaimMembers
  <2> DEFINE run == [runs[r] EXCEPT !.pc = "work", !.inflight = claimed,
                                    !.idle = claimed = {}]
  <2>2. runs' = [runs EXCEPT ![r] = run]
    BY <2>1
  <2>3. /\ run.job = runs[r].job /\ run.target = runs[r].target
        /\ run.filtered = runs[r].filtered /\ run.inflight = claimed
    BY DEF RowsOK, RunRec
  <2> HIDE DEF run
  <2> QED BY <1>1, <2>2, <2>3
<1>9. ASSUME NEW l \in Links, Consulted(r, l) PROVE \A s \in Runs : RunGoesOn(s)
  <2>1. runs' = [runs EXCEPT ![r].inflight = runs[r].inflight \ {l}]
    BY <1>9 DEF Consulted, PersistSuccess, PersistFailure, DiscardResult, Settle
  <2> QED BY <2>1 DEF RunGoesOn, RowsOK, RunRec
<1> QED BY <1>3, <1>4, <1>5, <1>6, <1>7, <1>8, <1>9 DEF Cycle, Starts

\* A request knows nothing of the memory of the runs.
LEMMA ApplicationLeavesRuns == ASSUME Application PROVE UNCHANGED runs
<1>1. ASSUME NEW b \in Batches, BatchRequest(b) PROVE UNCHANGED runs
  <2>1. ASSUME NEW origin, NEW scope, NEW includeErrors, NEW recheck, NEW keep,
               Enqueue(b, origin, scope, includeErrors, recheck, keep)
        PROVE  UNCHANGED runs
    BY <2>1 DEF Enqueue
  <2>2. CASE PrepareFullSync(b) \/ PauseBatch(b)
    BY <2>2 DEF PrepareFullSync, PauseBatch
  <2>3. CASE ReprocessBlocked(b) \/ \E S \in SUBSET Links : ReprocessFiltered(b, S)
    BY <2>3 DEF ReprocessBlocked, ReprocessFiltered
  <2> QED BY <1>1, <2>1, <2>2, <2>3
          DEF BatchRequest, Process, ReprocessErrors, RecheckBatch, FullSyncBatch
<1>2. ASSUME NEW l \in Links, MemberRequest(l) PROVE UNCHANGED runs
  BY <1>2 DEF MemberRequest, ReprocessMember, DeleteMember
<1>3. ASSUME InterruptCampaign \/ \E S \in SUBSET Jobs : StopRequest(S)
      PROVE  UNCHANGED runs
  BY <1>3 DEF InterruptCampaign, StopRequest
<1>4. ASSUME \/ \E b \in Batches : ReadPaused(b)
             \/ \E j \in Jobs : WriteResumed(j)
      PROVE  UNCHANGED runs
  BY <1>4 DEF ReadPaused, WriteResumed
<1> QED BY <1>1, <1>2, <1>3, <1>4 DEF Application, Request

LEMMA NextRunsGoOn ==
  ASSUME RowsOK, [Next]_vars PROVE \A s \in Runs : RunGoesOn(s)
<1>1. ASSUME UNCHANGED runs PROVE \A s \in Runs : RunGoesOn(s)
  BY <1>1 DEF RunGoesOn
<1>2. CASE Worker \/ Failure
  BY <1>2, CycleRunsGoOn DEF Worker, Failure
<1>3. CASE Time \/ UNCHANGED vars
  BY <1>1, <1>3
  DEF Time, LeaseExpires, JobComesDue, HeartbeatAges, RetryComesDue, vars
<1> QED BY <1>1, <1>2, <1>3, ApplicationLeavesRuns DEF Next

LEMMA ScopeKept ==
  ASSUME IInv, Scoped, [Next]_vars PROVE Scoped'
<1> RowsOK
  BY DEF IInv
<1>1. JobsGoOn /\ ItemsStay /\ (\A r \in Runs : RunGoesOn(r)) /\ RowsOK'
  BY NextLawful, NextItemsStay, NextRunsGoOn DEF Lawful
<1> SUFFICES ASSUME NEW r \in Runs PROVE RunScoped(runs'[r], jobs', items')
  BY DEF Scoped
<1> DEFINE run == runs[r]
           new == runs'[r]
<1> SUFFICES RunScoped(new, jobs', items')
  OBVIOUS
<1> HIDE DEF run, new
<1>2. \A j \in Jobs : jobs[j].status # "absent" =>
        /\ jobs'[j].status # "absent" /\ jobs'[j].batch = jobs[j].batch
        /\ jobs'[j].target \in {jobs[j].target, NoLink}
  BY <1>1 DEF JobsGoOn
<1>3. CASE new.job = 0
  BY <1>3 DEF RunScoped, Jobs
<1>4. CASE /\ new.job \in Jobs /\ jobs[new.job].status # "absent"
           /\ new.target = jobs[new.job].target /\ new.inflight = {}
  BY <1>2, <1>4 DEF RunScoped
<1>5. CASE /\ new.job = run.job /\ new.target = run.target
           /\ new.filtered = run.filtered
           /\ new.inflight \subseteq run.inflight \cup JobLinks(run, {"queued"})
  <2> SUFFICES ASSUME new.job \in Jobs PROVE RunScoped(new, jobs', items')
    BY DEF RunScoped
  <2>1. RunScoped(run, jobs, items)
    BY DEF Scoped, run
  <2>2. /\ jobs[run.job].status # "absent"
        /\ jobs[run.job].target \in {run.target, NoLink}
    BY <1>5, <2>1 DEF RunScoped
  <2>3. ASSUME NEW l \in new.inflight
        PROVE  /\ jobs[run.job].batch = BatchOf[l] /\ l \in Links
               /\ run.target \in {NoLink, l}
               /\ run.filtered => items[run.job][l] # "none"
    <3>1. CASE l \in run.inflight
      <4>1. l \in Links
        BY <3>1 DEF run, RowsOK, RunRec
      <4> QED BY <1>5, <2>1, <3>1, <4>1 DEF RunScoped
    <3>2. CASE l \in JobLinks(run, {"queued"})
      BY <3>2 DEF JobLinks, LinksOf
    <3> QED BY <1>5, <3>1, <3>2
  <2>4. ASSUME NEW l \in new.inflight, new.filtered
        PROVE  items'[new.job][l] # "none"
    BY <1>1, <1>5, <2>2, <2>3, <2>4 DEF ItemsStay
  <2> QED BY <1>2, <1>5, <2>2, <2>3, <2>4 DEF RunScoped
<1> QED BY <1>1, <1>3, <1>4, <1>5 DEF RunGoesOn, run, new

LEMMA InitScoped ==
  ASSUME Init PROVE Scoped
BY DEF Init, Scoped, RunScoped, OffRun, Jobs

\* The memory of a run agrees with the row of its job, whatever requests rewrite
\* the row after the claim: same batch, same member or all of them, same snapshot.
THEOREM ScopeInvariance == Spec => []Scoped
<1>1. Init => Scoped
  BY InitScoped
<1>2. IInv /\ Scoped /\ [Next]_vars => Scoped'
  BY ScopeKept
<1> QED BY <1>1, <1>2, Invariance, PTL DEF Spec

\* Whatever a run may still persist is inside the scope its job had when the run
\* took it: one member, the items of a snapshot, or the batch.
THEOREM ScopeHolds == Spec => []ClaimsStayInScope
<1>1. IInv /\ Scoped => ClaimsStayInScope
  <2> SUFFICES ASSUME IInv, Scoped, NEW r \in Runs, NEW l \in Links, Owns(r, l)
               PROVE  /\ jobs[runs[r].job].batch = BatchOf[l]
                      /\ runs[r].target \in {NoLink, l}
                      /\ runs[r].filtered => items[runs[r].job][l] # "none"
    BY DEF ClaimsStayInScope
  <2>1. l \in runs[r].inflight /\ runs[r].job \in Jobs
    BY DEF Owns, IInv, RowsOK, RunOK
  <2> QED BY <2>1 DEF Scoped, RunScoped
<1> QED BY <1>1, Invariance, ScopeInvariance, PTL

(***************************************************************************)
(* 9. What the ledger counts, and what a closed wave leaves                *)
(***************************************************************************)

\* A success is counted once, for a link of the batch of the job, by the worker
\* that held both, in the transaction that completed the link.
THEOREM SuccessesCounted == Spec => SuccessesAreResults
<1>1. ASSUME IInv, Scoped, [Next]_vars PROVE CountedOnce
  <2>1. JobsGoOn
    BY <1>1, NextLawful DEF Lawful
  <2> SUFFICES ASSUME NEW j \in Jobs, jobs'[j].success > jobs[j].success
               PROVE  /\ jobs'[j].success = jobs[j].success + 1
                      /\ \E l \in Links : /\ BatchOf[l] = jobs[j].batch
                                          /\ links[l].owner = jobs[j].owner
                                          /\ links[l].owner # NoRun
                                          /\ links'[l].status = "completed"
    BY DEF CountedOnce
  <2>2. jobs[j].success \in Nat
    BY <1>1 DEF IInv, RowsOK, JobRec
  <2>3. PICK r \in Runs : \E l \in Links :
          /\ runs[r].job = j /\ jobs[j].owner = r /\ Owns(r, l)
          /\ jobs'[j].success = jobs[j].success + 1
          /\ links'[l].status = "completed"
    BY <2>1, <2>2 DEF JobsGoOn, Counted
  <2>4. PICK l \in Links :
          /\ runs[r].job = j /\ jobs[j].owner = r /\ Owns(r, l)
          /\ jobs'[j].success = jobs[j].success + 1
          /\ links'[l].status = "completed"
    BY <2>3
  <2>5. BatchOf[l] = jobs[j].batch
    BY <1>1, <2>4 DEF Owns, Scoped, RunScoped
  <2> QED BY <2>4, <2>5, LinksAssumption DEF Owns, LinksAssumption
<1>2. IInv /\ Scoped /\ [Next]_vars => [CountedOnce]_vars
  BY <1>1
<1> QED BY <1>2, Invariance, ScopeInvariance, PTL DEF Spec, SuccessesAreResults

\* Only the release, the failure or the end of a call leaves the work.
LEMMA WorkIsLeft ==
  ASSUME RowsOK, NEW r \in Runs, [Next]_vars,
         runs[r].pc = "work", runs'[r].pc # "work"
  PROVE  Release(r) \/ FailRun(r) \/ Abandon(r)
<1>1. ~UNCHANGED runs
  OBVIOUS
<1>2. ASSUME NEW s \in Runs, NEW pc, Enter(s, pc), runs[s].pc # "work" PROVE FALSE
  BY <1>2 DEF Enter, RowsOK
<1>3. ASSUME NEW s \in Runs, NEW run, runs' = [runs EXCEPT ![s] = run]
      PROVE  s = r
  BY <1>3 DEF RowsOK
<1>4. ASSUME NEW s \in Runs, Cycle(s) \/ Starts(s) \/ FailRun(s) \/ Crash(s)
      PROVE  Release(r) \/ FailRun(r) \/ Abandon(r)
  <2>1. CASE PauseCheckpoint(s) \/ RecoverStale(s) \/ Boot(s) \/ Trigger(s)
    BY <1>2, <2>1 DEF PauseCheckpoint, RecoverStale, Boot, Trigger
  <2>2. ASSUME NEW j \in Jobs, ClaimJob(s, j) PROVE FALSE
    BY <1>3, <2>2 DEF ClaimJob
  <2>3. CASE NoJob(s)
    BY <1>3, <2>3 DEF NoJob, LeaveTo
  <2>4. CASE ClaimMembers(s)
    <3>1. runs[s].pc = "claimed" /\ s # r
      BY <2>4 DEF ClaimMembers
    <3>2. runs'[r] = runs[r]
      BY <2>4, <3>1 DEF ClaimMembers, RowsOK
    <3> QED BY <3>2
  <2>5. ASSUME NEW l \in Links, Consulted(s, l) PROVE FALSE
    <3>1. runs' = [runs EXCEPT ![s].inflight = runs[s].inflight \ {l}]
      BY <2>5 DEF Consulted, PersistSuccess, PersistFailure, DiscardResult, Settle
    <3>2. runs'[r].pc = runs[r].pc
      BY <3>1 DEF RowsOK, RunRec
    <3> QED BY <3>2
  <2>6. CASE Release(s)
    <3>1. \E run : runs' = [runs EXCEPT ![s] = run]
      BY <2>6 DEF Release, LeaveTo
    <3> QED BY <1>3, <2>6, <3>1
  <2>7. CASE FailRun(s) \/ EndDrain(s) \/ Crash(s)
    <3>1. \E run : runs' = [runs EXCEPT ![s] = run]
      BY <2>7 DEF FailRun, EndDrain, Crash, Abandon, LeaveTo
    <3> QED BY <1>3, <2>7, <3>1 DEF EndDrain, Crash
  <2> QED BY <1>4, <2>1, <2>2, <2>3, <2>4, <2>5, <2>6, <2>7 DEF Cycle, Starts
<1>5. CASE Worker \/ Failure
  BY <1>4, <1>5 DEF Worker, Failure
<1>6. CASE Time \/ UNCHANGED vars
  BY <1>1, <1>6
  DEF Time, LeaseExpires, JobComesDue, HeartbeatAges, RetryComesDue, vars
<1> QED BY <1>1, <1>5, <1>6, ApplicationLeavesRuns DEF Next

\* What the wave of a whole batch writes when it ends.
LEMMA FinalizedCompletes ==
  ASSUME RowsOK, NEW r \in Runs, NEW j \in Jobs, runs[r].job = j,
         jobs[j].status = "running", runs[r].target = NoLink, ~runs[r].filtered,
         Finalized(runs[r]).status = "completed"
  PROVE  \A l \in LinksOf(jobs[j].batch) : links[l].pay \notin TerminalPay =>
           /\ ~Due(runs[r], l)
           /\ links[l].status \notin {"processing", "retrying"}
<1> DEFINE open == JobLinks(runs[r], {"queued", "processing"})
           freed == [jobs[j] EXCEPT !.owner = NoRun, !.expired = FALSE]
           immediate == \E l \in open : Due(runs[r], l)
           processing == \E l \in open : links[l].status = "processing"
           retries == {l \in open : links[l].status = "retrying"}
           due == \/ immediate \/ retries = {} \/ \E l \in retries : links[l].due
           done == ~immediate /\ ~processing /\ retries = {}
<1>1. Finalized(runs[r]) =
        IF jobs[j].stop THEN [freed EXCEPT !.status = "paused"]
        ELSE IF done THEN [freed EXCEPT !.status = "completed"]
        ELSE [freed EXCEPT !.status = "queued", !.due = due]
  BY DEF Finalized
<1>2. jobs[j] \in JobRec
  BY DEF RowsOK
<1>3. /\ [freed EXCEPT !.status = "paused"].status = "paused"
      /\ [freed EXCEPT !.status = "queued", !.due = due].status = "queued"
  BY <1>2 DEF JobRec
<1> HIDE DEF freed, due
<1>4. done
  <2> HIDE DEF done
  <2> QED BY <1>1, <1>3
<1>5. \A l \in LinksOf(jobs[j].batch) : links[l].pay \notin TerminalPay => l \in open
  BY DEF JobLinks
<1> QED BY <1>4, <1>5

LEMMA FinalizedFields ==
  ASSUME RowsOK, NEW r \in Runs, NEW j \in Jobs, runs[r].job = j,
         jobs[j].status = "running"
  PROVE  LET f == Finalized(runs[r]) IN
         /\ f.batch = jobs[j].batch /\ f.target = jobs[j].target
         /\ f.status # "running"
<1>1. jobs[j] \in JobRec
  BY DEF RowsOK
<1> QED BY <1>1 DEF Finalized, JobRec

LEMMA SettledStatus ==
  ASSUME NEW ls, NEW old, NEW new \in JobRec
  PROVE  SettleJob(ls, old, new).status = new.status
BY DEF SettleJob, JobRec

\* The settling trigger turns a link without attempts into an error, and leaves
\* everything else of the links alone.
LEMMA WaveErrorFields ==
  ASSUME NEW rec \in LinkRec
  PROVE  LET new == EnforceTerminal(ToWaveError(rec)) IN
         /\ new.deleted = rec.deleted /\ new.pay = rec.pay
         /\ rec.pay \notin TerminalPay => new.status = "error"
<1> DEFINE u == Unclaimed(rec)
           e == [u EXCEPT !.status = "error", !.due = FALSE, !.errReq = FALSE]
<1>1. u \in LinkRec /\ u.deleted = rec.deleted /\ u.pay = rec.pay
  BY UnclaimedFields
<1>2. ToWaveError(rec) = e
  BY DEF ToWaveError
<1> HIDE DEF u
<1>3. /\ e \in LinkRec /\ e.deleted = rec.deleted /\ e.pay = rec.pay
      /\ e.status = "error"
  BY <1>1 DEF LinkRec, LinkStatus
<1> HIDE DEF e
<1> DEFINE v == Unclaimed(e)
           c == [v EXCEPT !.status = "completed", !.attempts = 0,
                          !.stale = 0, !.due = FALSE, !.errReq = FALSE]
<1>4. v \in LinkRec /\ v.deleted = rec.deleted /\ v.pay = rec.pay
  BY <1>3, UnclaimedFields
<1>5. EnforceTerminal(e) = IF e.pay \in {"paid", "agreed"} /\ e.status = "error" /\ ~e.deleted
                           THEN c ELSE e
  BY DEF EnforceTerminal
<1> HIDE DEF v
<1>6. c.deleted = rec.deleted /\ c.pay = rec.pay
  BY <1>4 DEF LinkRec
<1> HIDE DEF c
<1> QED BY <1>2, <1>3, <1>5, <1>6 DEF TerminalPay

\* The worker completes the job of a whole batch only when nothing is left to do
\* in the batch: what is not claimed, not waiting for a retry and not due has no
\* attempt left, and the trigger settles it in the same statement.
LEMMA ReleaseDrains ==
  ASSUME RowsOK, Scoped, NEW r \in Runs, NEW j \in Jobs, Release(r),
         jobs[j].owner = r, jobs[j].status = "running",
         runs[r].target = NoLink, ~runs[r].filtered,
         jobs'[j].status = "completed"
  PROVE  DrainedBatch(jobs[j].batch)
<1>1. runs[r].job = j /\ runs[r].pc = "work"
  BY DEF RowsOK, OwnersKnowTheirWork, Release
<1>2. WriteJobStatus(links, j, Finalized(runs[r]))
  BY <1>1 DEF Release
<1> DEFINE f == Finalized(runs[r])
<1>3. /\ f.batch = jobs[j].batch /\ f.target = jobs[j].target
      /\ f.status # "running" /\ f \in JobRec
  BY <1>1, FinalizedFields, FinalizedFreed DEF Freed, JobOK
<1>4. jobs[j].target = NoLink
  BY <1>1 DEF Scoped, RunScoped
<1>5. FinalizeExact(f) = f
  BY <1>3 DEF FinalizeExact
<1>6. f.status = "completed"
  <2>1. jobs'[j] = SettleJob(links, jobs[j], f)
    BY <1>2, <1>5 DEF WriteJobStatus, RowsOK
  <2> HIDE DEF f
  <2> QED BY <1>3, <2>1, SettledStatus
<1>7. \A l \in LinksOf(jobs[j].batch) : links[l].pay \notin TerminalPay =>
        /\ ~Due(runs[r], l)
        /\ links[l].status \notin {"processing", "retrying"}
  BY <1>1, <1>6, FinalizedCompletes
<1>8. links' = UpdateLinks(links, Exhausted(links, jobs[j], f), ToWaveError)
  BY <1>2, <1>5 DEF WriteJobStatus
<1> HIDE DEF f
<1> SUFFICES ASSUME NEW l \in Links, BatchOf[l] = jobs[j].batch,
                    ~links'[l].deleted, links'[l].pay \notin TerminalPay
             PROVE  links'[l].status \in {"completed", "error"}
  BY DEF DrainedBatch
<1>9. links[l] \in LinkRec
  BY DEF RowsOK
<1>10. CASE l \in Exhausted(links, jobs[j], f)
  <2>1. links'[l] = EnforceTerminal(ToWaveError(links[l]))
    BY <1>8, <1>10 DEF UpdateLinks
  <2> QED BY <1>9, <2>1, WaveErrorFields
<1>11. CASE l \notin Exhausted(links, jobs[j], f)
  <2>1. links'[l] = links[l]
    BY <1>8, <1>11 DEF UpdateLinks
  <2>2. /\ ~Due(runs[r], l)
        /\ links[l].status \notin {"processing", "retrying"}
    BY <1>7, <2>1 DEF LinksOf
  <2>3. ASSUME links[l].status = "pending" PROVE FALSE
    <3>1. links[l].attempts >= MaxAttempts
      BY <1>9, <2>2, <2>3, LimitsAssumption DEF Due, LinkRec, LimitsAssumption
    <3> QED BY <1>3, <1>4, <1>6, <1>11, <2>1, <2>3, <3>1 DEF Exhausted, TerminalPay
  <2> QED BY <1>9, <2>1, <2>2, <2>3 DEF LinkRec, LinkStatus
<1> QED BY <1>10, <1>11

\* When the release of a worker completes the job of a whole batch, no link of
\* the batch is left to be worked on by it (releaseJob and trigger 018).
THEOREM WavesDrained == Spec => WavesCloseDrained
<1>1. ASSUME IInv, Scoped, [Next]_vars PROVE WaveClosed
  <2> RowsOK
    BY <1>1 DEF IInv
  <2> SUFFICES ASSUME NEW r \in Runs, NEW j \in Jobs,
                      jobs[j].owner = r, jobs[j].status = "running",
                      runs[r].pc = "work", runs'[r].pc # "work",
                      runs[r].target = NoLink, ~runs[r].filtered,
                      jobs'[j].status = "completed"
               PROVE  DrainedBatch(jobs[j].batch)
    BY DEF WaveClosed
  <2>1. runs[r].job = j
    BY <1>1 DEF RowsOK, OwnersKnowTheirWork
  <2>2. CASE FailRun(r)
    <3>1. jobs'[j].status = "failed"
      BY <1>1, <2>1, <2>2 DEF FailRun, RowsOK, JobRec
    <3> QED BY <3>1
  <2>3. CASE Abandon(r)
    <3>1. jobs'[j].status = "running"
      BY <1>1, <2>3 DEF Abandon, RowsOK, JobRec
    <3> QED BY <3>1
  <2> QED BY <1>1, <2>2, <2>3, ReleaseDrains, WorkIsLeft
<1>2. IInv /\ Scoped /\ [Next]_vars => [WaveClosed]_vars
  BY <1>1
<1> QED BY <1>2, Invariance, ScopeInvariance, PTL DEF Spec, WavesCloseDrained

(***************************************************************************)
(* 10. The lifecycle of a job                                              *)
(***************************************************************************)

\* Only the requests of members are followed by associados_processing_items:
\* what makes the stop of a request a stop of manual jobs.
Honest(job) == job.tracked => job.origin = "manual"

Alike(new, old) ==
  /\ new.origin = old.origin /\ new.tracked = old.tracked
  /\ new.stop = old.stop /\ new.status = old.status

\* The moves of JobLifecycle, by the columns of the row.
Goes(new, old) ==
  \/ old.status = "absent" /\ new.status = "queued" /\ ~new.stop
  \/ /\ new.origin = old.origin
     /\ \/ new.status = old.status /\ new.stop = old.stop
        \/ /\ old.status = "queued" /\ new.stop = old.stop
           /\ new.status \in {"running", "completed"}
        \/ /\ old.status = "running" /\ new.stop = old.stop
           /\ new.status \in {"completed", "failed",
                              IF old.stop THEN "paused" ELSE "queued"}
        \/ /\ old.status = "cancelled" /\ new.stop = old.stop
           /\ new.status = "failed"
        \/ old.status = "paused" /\ new.status = "queued" /\ ~new.stop
        \/ /\ old.status \in ActiveStatus /\ new.stop = old.stop
           /\ new.status = "deleted"
        \/ /\ old.origin = "manual"
           /\ \/ old.status = "running" /\ new.status = "running"
              \/ old.status = "queued" /\ new.status = "paused" /\ new.stop
              \/ /\ old.status \in ActiveStatus /\ new.status = "cancelled"
                 /\ old.stop => new.stop

\* What the worker may do to a job it holds after a late resume wrote over it.
Leaves(new, old) ==
  /\ old.late /\ old.owner # NoRun /\ old.status \in Overwritable
  /\ new.origin = old.origin /\ new.stop = old.stop
  /\ new.status \in Overwritable \cup {"failed"}

GoesOn(new, old) ==
  (Goes(new, old) \/ Leaves(new, old)) /\ (Honest(old) => Honest(new))

AllGoOn == \A j \in Jobs : GoesOn(jobs'[j], jobs[j])

LEMMA GoesMoves ==
  ASSUME NEW old, NEW new, JobOK(old), JobOK(new), Goes(new, old)
  PROVE  Lifecycle!Move(Row(old), Row(new))
<1> DEFINE o == Row(old)
           n == Row(new)
<1> SUFFICES Lifecycle!Move(o, n)
  OBVIOUS
<1>1. /\ o.status = old.status /\ o.stop = old.stop /\ o.origin = old.origin
      /\ n.status = new.status /\ n.stop = new.stop /\ n.origin = new.origin
      /\ o.stop \in BOOLEAN /\ n.stop \in BOOLEAN
  BY DEF Row, JobOK, JobRec
<1>2. o.status = "queued" => ~o.stop
  BY <1>1 DEF JobOK
<1>3. \A status : n.status = status /\ n.stop = o.stop /\ n.origin = o.origin
        => n = [o EXCEPT !.status = status]
  BY DEF Row
<1>4. \A stop : n.status = o.status /\ n.stop = stop /\ n.origin = o.origin
        => n = [o EXCEPT !.stop = stop]
  BY DEF Row
<1>5. \A status, stop : n.status = status /\ n.stop = stop /\ n.origin = o.origin
        => n = [o EXCEPT !.status = status, !.stop = stop]
  BY DEF Row
<1>6. n.status = o.status /\ n.stop = o.stop /\ n.origin = o.origin => n = o
  BY DEF Row
<1> HIDE DEF o, n
<1>7. CASE o.status = "absent" /\ n.status = "queued" /\ ~n.stop
  BY <1>7 DEF Lifecycle!Move, Lifecycle!Inserts
<1>8. CASE n.status = o.status /\ n.stop = o.stop /\ n.origin = o.origin
  BY <1>6, <1>8 DEF Lifecycle!Move
<1>9. CASE /\ o.status = "queued" /\ n.stop = o.stop /\ n.origin = o.origin
           /\ n.status \in {"running", "completed"}
  BY <1>2, <1>3, <1>9
  DEF Lifecycle!Move, Lifecycle!WorkerMove, Lifecycle!Starts, Lifecycle!Completes,
      Lifecycle!To
<1>10. CASE /\ o.status = "running" /\ n.stop = o.stop /\ n.origin = o.origin
            /\ n.status \in {"completed", "failed",
                             IF o.stop THEN "paused" ELSE "queued"}
  BY <1>3, <1>10
  DEF Lifecycle!Move, Lifecycle!WorkerMove, Lifecycle!Completes, Lifecycle!Fails,
      Lifecycle!Parks, Lifecycle!Requeues, Lifecycle!To
<1>11. CASE /\ o.status = "cancelled" /\ n.stop = o.stop /\ n.origin = o.origin
            /\ n.status = "failed"
  BY <1>3, <1>11
  DEF Lifecycle!Move, Lifecycle!WorkerMove, Lifecycle!Fails, Lifecycle!To
<1>12. CASE /\ o.status = "paused" /\ n.status = "queued" /\ ~n.stop
            /\ n.origin = o.origin
  <2>1. n.stop = FALSE
    BY <1>1, <1>12
  <2>2. n = [o EXCEPT !.status = "queued", !.stop = FALSE]
    BY <1>5, <1>12, <2>1
  <2> QED BY <1>12, <2>2 DEF Lifecycle!Move, Lifecycle!Resumes
<1>13. CASE /\ o.status \in ActiveStatus /\ n.stop = o.stop /\ n.status = "deleted"
            /\ n.origin = o.origin
  BY <1>3, <1>13
  DEF Lifecycle!Move, Lifecycle!Deletes, Lifecycle!To, Lifecycle!Active, ActiveStatus
<1>14. CASE /\ o.origin = "manual" /\ o.status = "running" /\ n.status = "running"
            /\ n.origin = o.origin
  <2>1. CASE n.stop = TRUE
    <3>1. n = [o EXCEPT !.status = "running", !.stop = TRUE]
      BY <1>5, <1>14, <2>1
    <3> QED BY <1>14, <3>1
            DEF Lifecycle!Move, Lifecycle!OperatorMove, Lifecycle!AskedToStop,
                Lifecycle!StoppedTo
  <2>2. CASE n.stop = FALSE
    <3>1. n = [o EXCEPT !.stop = FALSE]
      BY <1>4, <1>14, <2>2
    <3> QED BY <1>14, <3>1
            DEF Lifecycle!Move, Lifecycle!OperatorMove, Lifecycle!Unstops
  <2> QED BY <1>1, <2>1, <2>2
<1>15. CASE /\ o.origin = "manual" /\ o.status = "queued" /\ n.status = "paused"
            /\ n.stop /\ n.origin = o.origin
  <2>1. n = [o EXCEPT !.status = "paused", !.stop = TRUE]
    BY <1>1, <1>5, <1>15
  <2> QED BY <1>15, <2>1
          DEF Lifecycle!Move, Lifecycle!OperatorMove, Lifecycle!Pauses,
              Lifecycle!StoppedTo
<1>16. CASE /\ o.origin = "manual" /\ o.status \in ActiveStatus
            /\ n.status = "cancelled" /\ n.origin = o.origin /\ (o.stop => n.stop)
  <2>1. \/ n = [o EXCEPT !.status = "cancelled", !.stop = TRUE]
        \/ n = [o EXCEPT !.status = "cancelled"]
    <3>1. CASE n.stop = TRUE
      BY <1>5, <1>16, <3>1
    <3>2. CASE n.stop = FALSE
      BY <1>1, <1>3, <1>16, <3>2
    <3> QED BY <1>1, <3>1, <3>2
  <2> QED BY <1>16, <2>1
          DEF Lifecycle!Move, Lifecycle!OperatorMove, Lifecycle!Cancels,
              Lifecycle!StoppedTo, Lifecycle!To, Lifecycle!Active, ActiveStatus
<1>17. Goes(n, o)
  BY <1>1 DEF Goes
<1> QED BY <1>7, <1>8, <1>9, <1>10, <1>11, <1>12, <1>13, <1>14, <1>15, <1>16, <1>17
        DEF Goes

LEMMA LeavesMoves ==
  ASSUME NEW old, NEW new, JobOK(old), Leaves(new, old)
  PROVE  Lifecycle!LeavesOverwritten(Row(old), Row(new))
<1>1. old.origin = "manual"
  BY DEF Leaves, JobOK
<1>2. Row(new) = [Row(old) EXCEPT !.status = new.status]
  BY DEF Leaves, Row
<1>3. Row(old).origin = "manual" /\ Row(old).status \in {"queued", "paused", "completed"}
  BY <1>1 DEF Leaves, Row
<1>4. new.status \in {"queued", "paused", "completed", "failed"}
  BY DEF Leaves
<1> QED BY <1>2, <1>3, <1>4 DEF Lifecycle!LeavesOverwritten, Lifecycle!To

LEMMA AlikeGoesOn ==
  ASSUME NEW old, NEW new, Alike(new, old) PROVE GoesOn(new, old)
BY DEF Alike, GoesOn, Goes, Honest

\* What the triggers of a job write, seen by these columns.
LEMMA TriggersMove ==
  ASSUME NEW ls, NEW old, NEW new, JobOK(new)
  PROVE  LET row == SettleJob(ls, old, FinalizeExact(new)) IN
         /\ row.origin = new.origin /\ row.tracked = new.tracked
         /\ row.stop = new.stop
         /\ \/ row.status = new.status
            \/ new.status = "running" /\ row.status = "completed"
<1>1. new \in JobRec
  BY DEF JobOK
<1> DEFINE f == FinalizeExact(new)
<1>2. /\ f \in JobRec /\ f.origin = new.origin /\ f.tracked = new.tracked
      /\ f.stop = new.stop
      /\ \/ f.status = new.status
         \/ new.status = "running" /\ f.status = "completed"
  <2>1. f \in JobRec
    BY FinalizeExactFollows DEF JobFollows, JobOK
  <2> QED BY <1>1, <2>1 DEF FinalizeExact, JobRec
<1> HIDE DEF f
<1>3. /\ SettleJob(ls, old, f).origin = f.origin
      /\ SettleJob(ls, old, f).tracked = f.tracked
      /\ SettleJob(ls, old, f).stop = f.stop
      /\ SettleJob(ls, old, f).status = f.status
  <2> DEFINE n == Cardinality(Exhausted(ls, old, f))
             settled == Greatest(f.processed, f.success + f.error + n)
             total == Greatest(f.total, settled)
             m == f.error + n
             e == [f EXCEPT !.error = m, !.processed = settled, !.total = total]
  <2>1. SettleJob(ls, old, f) = IF n = 0 THEN f ELSE e
    BY DEF SettleJob
  <2> HIDE DEF n, settled, total, m
  <2>2. /\ e.origin = f.origin /\ e.tracked = f.tracked /\ e.stop = f.stop
        /\ e.status = f.status
    BY <1>2 DEF JobRec
  <2> HIDE DEF e
  <2> QED BY <2>1, <2>2
<1> QED BY <1>2, <1>3 DEF f

\* One row is written, the others stay.
LEMMA OneGoesOn ==
  ASSUME RowsOK, NEW j \in Jobs, NEW row, GoesOn(row, jobs[j]),
         jobs' = [jobs EXCEPT ![j] = row]
  PROVE  AllGoOn
<1>1. \A k \in Jobs : GoesOn(jobs[k], jobs[k])
  BY AlikeGoesOn DEF Alike
<1> QED BY <1>1 DEF AllGoOn, RowsOK

LEMMA StatusWritten ==
  ASSUME RowsOK, NEW ls, NEW j \in Jobs, NEW new, JobOK(new),
         WriteJobStatus(ls, j, new), GoesOn(new, jobs[j]),
         new.status = "running" =>
           /\ jobs[j].status \in {"queued", "running"}
           /\ new.stop = jobs[j].stop /\ new.origin = jobs[j].origin
  PROVE  AllGoOn
<1> DEFINE row == SettleJob(ls, jobs[j], FinalizeExact(new))
<1>1. jobs' = [jobs EXCEPT ![j] = row]
  BY DEF WriteJobStatus
<1>2. /\ row.origin = new.origin /\ row.tracked = new.tracked
      /\ row.stop = new.stop
      /\ \/ row.status = new.status
         \/ new.status = "running" /\ row.status = "completed"
  BY TriggersMove
<1> HIDE DEF row
<1>3. GoesOn(row, jobs[j])
  <2>1. CASE row.status = new.status
    BY <1>2, <2>1 DEF GoesOn, Goes, Leaves, Honest
  <2>2. CASE new.status = "running" /\ row.status = "completed"
    BY <1>2, <2>2 DEF GoesOn, Goes, Leaves, Honest
  <2> QED BY <1>2, <2>1, <2>2
<1> QED BY <1>1, <1>3, OneGoesOn

LEMMA UnchangedGoOn == ASSUME jobs' = jobs PROVE AllGoOn
BY AlikeGoesOn DEF Alike, AllGoOn

LEMMA InsertGoesOn ==
  ASSUME NEW js, js \in [Jobs -> JobRec],
         \A j \in Jobs : GoesOn(js[j], jobs[j]),
         \A j \in Jobs : js[j].status = "absent" => js[j] = jobs[j],
         NEW new, Insert(js, new), new.status = "queued", ~new.stop, Honest(new)
  PROVE  AllGoOn
<1>1. PICK next \in Jobs : js[next].status = "absent" /\ jobs' = [js EXCEPT ![next] = new]
  BY DEF Insert
<1>2. GoesOn(new, jobs[next])
  BY <1>1 DEF GoesOn, Goes
<1> QED BY <1>1, <1>2 DEF AllGoOn

LEMMA NewJobFields ==
  ASSUME NEW b, NEW origin, NEW scope, NEW total
  PROVE  LET new == NewJob(b, origin, scope, total) IN
         /\ new.status = "queued" /\ ~new.stop /\ ~new.tracked
         /\ new.origin = origin
BY DEF NewJob

LEMMA JobsAreLike ==
  ASSUME RowsOK
  PROVE  /\ jobs \in [Jobs -> JobRec]
         /\ \A j \in Jobs : JobOK(jobs[j]) /\ GoesOn(jobs[j], jobs[j])
BY AlikeGoesOn DEF Alike, RowsOK

LEMMA EnqueueGoesOn ==
  ASSUME RowsOK, NEW b \in Batches, NEW origin \in Origins, NEW scope \in Scopes,
         NEW includeErrors \in BOOLEAN, NEW recheck, NEW keep,
         Enqueue(b, origin, scope, includeErrors, recheck, keep)
  PROVE  AllGoOn
<1> DEFINE merged(j) == includeErrors \/ (j # NoJobId /\ jobs[j].includeErrors)
           ls(j) == IF ~includeErrors
                    THEN NormalizeExhausted(Reopen(links, b, recheck, keep), b)
                    ELSE IF j = NoJobId \/ ~jobs[j].includeErrors
                         THEN RequestErrored(links, b) ELSE links
           claimable(j) == Cardinality(ClaimableLinks(ls(j), b, merged(j)))
           row(j) == Merge(jobs[j], scope, includeErrors, claimable(j))
           base(j) == NewJob(b, origin, scope, claimable(j))
           new(j) == [base(j) EXCEPT !.includeErrors = includeErrors]
           finished(j) == /\ row(j).status = "queued" /\ claimable(j) = 0
                          /\ ~StillWorking(ls(j), b)
<1>1. PICK j \in MergeTargets(b, origin) :
        \/ jobs' = jobs
        \/ Insert(jobs, new(j))
        \/ /\ j # NoJobId
           /\ jobs' = [jobs EXCEPT ![j] = IF row(j).status = "paused"
                                          THEN Resumed(row(j)) ELSE row(j)]
        \/ /\ j # NoJobId /\ finished(j)
           /\ WriteJobStatus(ls(j), j, [row(j) EXCEPT !.status = "completed"])
  BY DEF Enqueue
<1>2. CASE jobs' = jobs
  BY <1>2, UnchangedGoOn
<1>3. CASE Insert(jobs, new(j))
  <2>1. new(j).status = "queued" /\ ~new(j).stop /\ ~new(j).tracked
    <3>1. /\ base(j).status = "queued" /\ ~base(j).stop /\ ~base(j).tracked
      BY NewJobFields
    <3>2. /\ new(j).status = base(j).status /\ new(j).stop = base(j).stop
          /\ new(j).tracked = base(j).tracked
      BY DEF NewJob
    <3> QED BY <3>1, <3>2
  <2> HIDE DEF new
  <2> QED BY <1>3, <2>1, InsertGoesOn, JobsAreLike DEF Honest
<1>4. ASSUME j # NoJobId
      PROVE  /\ j \in Jobs /\ JobOK(jobs[j]) /\ row(j) \in JobRec /\ JobOK(row(j))
             /\ row(j).origin = jobs[j].origin /\ row(j).tracked = jobs[j].tracked
             /\ row(j).stop = jobs[j].stop /\ row(j).status = jobs[j].status
             /\ jobs[j].status \in ActiveStatus
  <2>1. j \in Jobs /\ JobOK(jobs[j]) /\ jobs[j] \in JobRec /\ jobs[j].status \in ActiveStatus
    BY <1>4 DEF MergeTargets, ActiveJobs, RowsOK
  <2>2. claimable(j) \in Nat
    <3>1. ClaimableLinks(ls(j), b, merged(j)) \subseteq Links
      BY DEF ClaimableLinks, LinksOf
    <3> QED BY <3>1, LinksAssumption, FS_Subset, FS_CardinalityType DEF LinksAssumption
  <2> HIDE DEF claimable
  <2>3. JobFollows(row(j), jobs[j]) /\ row(j).status = jobs[j].status
    BY <2>1, <2>2, MergeFollows
  <2>4. /\ row(j).origin = jobs[j].origin /\ row(j).tracked = jobs[j].tracked
        /\ row(j).stop = jobs[j].stop
    <3> DEFINE m == IF Priority[scope] > Priority[jobs[j].scope] THEN scope
                    ELSE jobs[j].scope
               target == IF m = "member" THEN jobs[j].target ELSE NoLink
               total == Greatest(jobs[j].total, jobs[j].processed + claimable(j))
               mode == jobs[j].includeErrors \/ includeErrors
               e == [jobs[j] EXCEPT !.includeErrors = mode, !.scope = m,
                                    !.target = target, !.total = total]
    <3>1. row(j) = e
      BY DEF Merge
    <3> HIDE DEF m, target, total, mode
    <3>2. e.origin = jobs[j].origin /\ e.tracked = jobs[j].tracked /\ e.stop = jobs[j].stop
      BY <2>1 DEF JobRec
    <3> HIDE DEF e, row
    <3> QED BY <3>1, <3>2
  <2> QED BY <2>1, <2>3, <2>4 DEF JobFollows, JobOK
<1> HIDE DEF row
<1>5. CASE /\ j # NoJobId
           /\ jobs' = [jobs EXCEPT ![j] = IF row(j).status = "paused"
                                          THEN Resumed(row(j)) ELSE row(j)]
  <2> DEFINE r == IF row(j).status = "paused" THEN Resumed(row(j)) ELSE row(j)
  <2>1. GoesOn(r, jobs[j])
    <3>1. CASE row(j).status = "paused"
      <4>1. /\ r.status = "queued" /\ ~r.stop /\ r.origin = row(j).origin
            /\ r.tracked = row(j).tracked
        BY <1>4, <1>5, <3>1 DEF Resumed, JobRec
      <4> QED BY <1>4, <1>5, <3>1, <4>1 DEF GoesOn, Goes, Honest
    <3>2. CASE row(j).status # "paused"
      BY <1>4, <1>5, <3>2 DEF GoesOn, Goes, Honest
    <3> QED BY <3>1, <3>2
  <2>2. jobs' = [jobs EXCEPT ![j] = r]
    BY <1>5
  <2> HIDE DEF r
  <2> QED BY <1>4, <1>5, <2>1, <2>2, OneGoesOn
<1>6. CASE /\ j # NoJobId /\ finished(j)
           /\ WriteJobStatus(ls(j), j, [row(j) EXCEPT !.status = "completed"])
  <2> DEFINE r == [row(j) EXCEPT !.status = "completed"]
  <2>1. row(j).status = "queued" /\ JobOK(row(j))
    BY <1>4, <1>6
  <2>2. /\ r.status = "completed" /\ r.stop = row(j).stop
        /\ r.origin = row(j).origin /\ r.tracked = row(j).tracked
    BY <1>4, <1>6 DEF JobRec
  <2>3. JobOK(r)
    BY <2>1, QueuedJobRewritings DEF JobFollows
  <2>4. WriteJobStatus(ls(j), j, r)
    BY <1>6
  <2> HIDE DEF r, ls
  <2>5. GoesOn(r, jobs[j])
    BY <1>4, <1>6, <2>1, <2>2 DEF GoesOn, Goes, Honest
  <2> QED BY <1>4, <1>6, <2>2, <2>3, <2>4, <2>5, StatusWritten
<1> QED BY <1>1, <1>2, <1>3, <1>5, <1>6

\* Rewritings whose columns say what they do.
LEMMA ColumnsGoOn ==
  ASSUME NEW job \in JobRec
  PROVE  /\ GoesOn(Paused(job), job) \/ job.origin # "manual"
         /\ job.status = "paused" => GoesOn(Resumed(job), job)
         /\ job.status \in ActiveStatus =>
              /\ GoesOn([job EXCEPT !.status = "deleted", !.owner = NoRun,
                                    !.expired = FALSE], job)
              /\ job.origin = "manual" =>
                   /\ GoesOn([Stopped(job) EXCEPT !.status = "cancelled",
                                                  !.due = FALSE], job)
                   /\ GoesOn([job EXCEPT !.status = "cancelled", !.owner = NoRun,
                                         !.due = FALSE, !.expired = FALSE], job)
         /\ job.status = "running" => GoesOn(Recovered(job), job)
         /\ GoesOn([job EXCEPT !.expired = TRUE], job)
         /\ GoesOn([job EXCEPT !.due = TRUE], job)
         /\ GoesOn([job EXCEPT !.owner = Gone], job)
<1>1. /\ \A flag \in BOOLEAN : /\ GoesOn([job EXCEPT !.expired = flag], job)
                               /\ GoesOn([job EXCEPT !.due = flag], job)
      /\ GoesOn([job EXCEPT !.owner = Gone], job)
  BY AlikeGoesOn DEF Alike, JobRec
<1>2. GoesOn(Paused(job), job) \/ job.origin # "manual"
  BY DEF Paused, Stopped, GoesOn, Goes, Honest, JobRec
<1>3. job.status = "paused" => GoesOn(Resumed(job), job)
  BY DEF Resumed, GoesOn, Goes, Honest, JobRec
<1>4. ASSUME job.status \in ActiveStatus
      PROVE  GoesOn([job EXCEPT !.status = "deleted", !.owner = NoRun,
                                !.expired = FALSE], job)
  BY <1>4 DEF GoesOn, Goes, Honest, JobRec
<1>5. ASSUME job.status \in ActiveStatus, job.origin = "manual"
      PROVE  /\ GoesOn([Stopped(job) EXCEPT !.status = "cancelled",
                                            !.due = FALSE], job)
             /\ GoesOn([job EXCEPT !.status = "cancelled", !.owner = NoRun,
                                   !.due = FALSE, !.expired = FALSE], job)
  BY <1>5 DEF Stopped, GoesOn, Goes, Honest, JobRec
<1>6. job.status = "running" => GoesOn(Recovered(job), job)
  BY DEF Recovered, GoesOn, Goes, Honest, JobRec
<1> QED BY <1>1, <1>2, <1>3, <1>4, <1>5, <1>6

LEMMA QueueMemberGoesOn ==
  ASSUME RowsOK, NEW ls, NEW js \in [Jobs -> JobRec],
         \A j \in Jobs : GoesOn(js[j], jobs[j]),
         \A j \in Jobs : js[j] = jobs[j] \/ js[j].status = "cancelled",
         NEW l \in Links, NEW track \in BOOLEAN, QueueMember(ls, js, l, track)
  PROVE  AllGoOn
<1> DEFINE base == NewJob(BatchOf[l], "manual", "member", 1)
           fresh == [base EXCEPT !.target = l, !.tracked = track]
           again(job) ==
             [Resumed(job) EXCEPT
                !.total = 1, !.processed = 0, !.success = 0, !.error = 0,
                !.owner = NoRun, !.expired = FALSE, !.tracked = job.tracked \/ track]
           kept(job) ==
             [job EXCEPT !.stop = FALSE, !.tracked = job.tracked \/ track]
<1>1. \/ Insert(js, fresh)
      \/ \E j \in MemberJobs(js, l) :
           jobs' = [js EXCEPT ![j] = IF js[j].status = "running"
                                     THEN kept(js[j]) ELSE again(js[j])]
  BY DEF QueueMember
<1>2. CASE Insert(js, fresh)
  <2>1. fresh.status = "queued" /\ ~fresh.stop /\ fresh.origin = "manual"
    BY DEF NewJob
  <2>2. \A j \in Jobs : js[j].status = "absent" => js[j] = jobs[j]
    OBVIOUS
  <2> HIDE DEF fresh
  <2> QED BY <1>2, <2>1, <2>2, InsertGoesOn DEF Honest
<1>3. ASSUME NEW j \in MemberJobs(js, l),
             jobs' = [js EXCEPT ![j] = IF js[j].status = "running"
                                       THEN kept(js[j]) ELSE again(js[j])]
      PROVE  AllGoOn
  <2> DEFINE job == jobs[j]
             row == IF job.status = "running" THEN kept(job) ELSE again(job)
  <2>1. /\ j \in Jobs /\ js[j] = job /\ job.status \in ActiveStatus
        /\ job.origin = "manual" /\ job \in JobRec /\ JobOK(job)
    BY DEF MemberJobs, ActiveStatus, RowsOK
  <2>2. GoesOn(row, job)
    <3> HIDE DEF job
    <3>1. CASE job.status = "running"
      <4>1. /\ kept(job).status = "running" /\ kept(job).origin = "manual"
        BY <2>1, <3>1 DEF JobRec
      <4> QED BY <2>1, <3>1, <4>1 DEF GoesOn, Goes, Honest
    <3>2. CASE job.status # "running"
      <4>1. /\ again(job).status = "queued" /\ again(job).stop = FALSE
            /\ again(job).origin = "manual"
        BY <2>1 DEF Resumed, JobRec
      <4> DEFINE new == again(job)
      <4> HIDE DEF again
      <4>2. job.stop \in BOOLEAN /\ (job.status = "queued" => ~job.stop)
        BY <2>1 DEF JobOK, JobRec
      <4> QED BY <2>1, <3>2, <4>1, <4>2 DEF GoesOn, Goes, Honest, ActiveStatus
    <3> QED BY <3>1, <3>2
  <2>3. jobs' = [js EXCEPT ![j] = row]
    BY <1>3, <2>1
  <2> HIDE DEF row, job
  <2> QED BY <2>1, <2>2, <2>3 DEF AllGoOn, job
<1> QED BY <1>1, <1>2, <1>3

LEMMA DeleteMemberGoesOn ==
  ASSUME RowsOK, NEW l \in Links, DeleteMember(l) PROVE AllGoOn
<1> DEFINE ls == [links EXCEPT ![l].deleted = TRUE]
           cancelled(job) == [job EXCEPT !.status = "cancelled", !.owner = NoRun,
                                         !.due = FALSE, !.expired = FALSE]
           js == [j \in Jobs |->
                    IF j \in MemberJobs(jobs, l) /\ jobs[j].status # "running"
                    THEN cancelled(jobs[j]) ELSE jobs[j]]
<1>1. /\ \A j \in MemberJobs(jobs, l) :
           /\ JobFollows(cancelled(jobs[j]), jobs[j])
           /\ cancelled(jobs[j]).status = "cancelled"
           /\ GoesOn(cancelled(jobs[j]), jobs[j])
      /\ \A j \in Jobs : jobs[j] \in JobRec
  BY ActiveJobRewritings, ColumnsGoOn DEF RowsOK, MemberJobs, JobOK, JobRec
<1> HIDE DEF cancelled
<1>2. /\ js \in [Jobs -> JobRec]
      /\ \A j \in Jobs : GoesOn(js[j], jobs[j])
      /\ \A j \in Jobs : js[j] = jobs[j] \/ js[j].status = "cancelled"
  BY <1>1, JobsAreLike DEF JobFollows, JobOK
<1> HIDE DEF ls, js
<1>3. \/ \E m \in Links : QueueMember(ls, js, m, FALSE)
      \/ jobs' = js
  BY DEF DeleteMember, ls, js, LinksOf, cancelled
<1>4. CASE jobs' = js
  BY <1>2, <1>4 DEF AllGoOn
<1> QED BY <1>2, <1>3, <1>4, QueueMemberGoesOn

LEMMA InsertedGoesOn ==
  ASSUME RowsOK, NEW new, Insert(jobs, new), new.status = "queued", ~new.stop, ~new.tracked
  PROVE  AllGoOn
BY InsertGoesOn, JobsAreLike DEF Honest

LEMMA RequestGoesOn ==
  ASSUME RowsOK, \A j \in Jobs : Honest(jobs[j]), Request PROVE AllGoOn
<1>1. ASSUME NEW b \in Batches, BatchRequest(b) PROVE AllGoOn
  <2>1. ASSUME NEW scope \in {"batch", "campaign"},
               Process(b, scope) \/ ReprocessErrors(b, scope)
        PROVE  AllGoOn
    BY <2>1, EnqueueGoesOn DEF Process, ReprocessErrors, Origins, Scopes
  <2>2. CASE RecheckBatch(b) \/ FullSyncBatch(b)
    BY <2>2, EnqueueGoesOn DEF RecheckBatch, FullSyncBatch, Origins, Scopes
  <2>3. CASE PrepareFullSync(b)
    BY <2>3, UnchangedGoOn DEF PrepareFullSync
  <2>4. CASE PauseBatch(b)
    <3>1. \A j \in Jobs : /\ jobs'[j] = IF jobs[j].batch = b /\ jobs[j].origin = "manual"
                                        THEN Paused(jobs[j]) ELSE jobs[j]
                          /\ jobs[j] \in JobRec /\ GoesOn(jobs[j], jobs[j])
      BY <2>4, JobsAreLike DEF PauseBatch
    <3> QED BY <3>1, ColumnsGoOn DEF AllGoOn
  <2>5. CASE ReprocessBlocked(b)
    <3>1. PICK n : Insert(jobs, NewJob(b, "manual", "batch", n))
      BY <2>5 DEF ReprocessBlocked
    <3> QED BY <3>1, NewJobFields, InsertedGoesOn
  <2>6. ASSUME NEW S \in SUBSET Links, ReprocessFiltered(b, S) PROVE AllGoOn
    <3> DEFINE base == NewJob(b, "manual", "campaign", Cardinality(S))
               new == [base EXCEPT !.filtered = TRUE]
    <3>1. new.status = "queued" /\ ~new.stop /\ ~new.tracked
      BY DEF NewJob
    <3>2. Insert(jobs, new)
      BY <2>6 DEF ReprocessFiltered
    <3> HIDE DEF new
    <3> QED BY <3>1, <3>2, InsertedGoesOn
  <2> QED BY <1>1, <2>1, <2>2, <2>3, <2>4, <2>5, <2>6 DEF BatchRequest
<1>2. ASSUME NEW l \in Links, MemberRequest(l) PROVE AllGoOn
  <2>1. ASSUME ReprocessMember(l) PROVE AllGoOn
    BY <2>1, JobsAreLike, QueueMemberGoesOn DEF ReprocessMember
  <2> QED BY <1>2, <2>1, DeleteMemberGoesOn DEF MemberRequest
<1>3. ASSUME InterruptCampaign PROVE AllGoOn
  <2>1. \A j \in Jobs :
          /\ jobs'[j] = IF jobs[j].status \in ActiveStatus
                        THEN [jobs[j] EXCEPT !.status = "deleted", !.owner = NoRun,
                                             !.expired = FALSE]
                        ELSE jobs[j]
          /\ jobs[j] \in JobRec /\ GoesOn(jobs[j], jobs[j])
    BY <1>3, JobsAreLike DEF InterruptCampaign
  <2> QED BY <2>1, ColumnsGoOn DEF AllGoOn
<1>4. ASSUME NEW S \in SUBSET Jobs, StopRequest(S) PROVE AllGoOn
  <2>1. \A j \in Jobs :
          /\ jobs'[j] = IF j \in S
                        THEN [Stopped(jobs[j]) EXCEPT !.status = "cancelled",
                                                      !.due = FALSE]
                        ELSE jobs[j]
          /\ jobs[j] \in JobRec /\ GoesOn(jobs[j], jobs[j])
          /\ j \in S => jobs[j].status \in ActiveStatus /\ jobs[j].origin = "manual"
    BY <1>4, JobsAreLike DEF StopRequest, Honest
  <2> QED BY <2>1, ColumnsGoOn DEF AllGoOn
<1> QED BY <1>1, <1>2, <1>3, <1>4 DEF Request

LEMMA RecoveredGoOn ==
  ASSUME RowsOK, NEW S, \A j \in S : jobs[j].status = "running",
         jobs' = [j \in Jobs |-> IF j \in S THEN Recovered(jobs[j]) ELSE jobs[j]]
  PROVE  AllGoOn
<1>1. \A j \in Jobs : jobs[j] \in JobRec /\ GoesOn(jobs[j], jobs[j])
  BY JobsAreLike
<1> QED BY <1>1, ColumnsGoOn DEF AllGoOn

\* The worker counts a result: an exact job may be complete with it.
LEMMA CountResultGoesOn ==
  ASSUME RowsOK, NEW r \in Runs, runs[r].pc \in {"work", "drain"},
         NEW success \in {0, 1}, NEW error \in {0, 1}, CountResult(r, success, error)
  PROVE  AllGoOn
<1> DEFINE j == runs[r].job
           job == jobs[j]
           p == job.processed + success + error
           s == job.success + success
           e == job.error + error
           counted == [job EXCEPT !.processed = p, !.success = s, !.error = e]
<1>1. j \in Jobs /\ job \in JobRec
  BY DEF RowsOK, RunOK
<1>2. jobs' = jobs \/ jobs' = [jobs EXCEPT ![j] = FinalizeExact(counted)]
  BY DEF CountResult
<1> HIDE DEF p, s, e
<1>3. GoesOn(FinalizeExact(counted), job)
  <2> HIDE DEF job
  <2>1. /\ counted.status = job.status /\ counted.stop = job.stop
        /\ counted.origin = job.origin /\ counted.tracked = job.tracked
    BY <1>1 DEF JobRec
  <2> DEFINE f == [counted EXCEPT !.status = "completed", !.owner = NoRun,
                                  !.expired = FALSE, !.due = TRUE]
  <2>2. /\ f.status = "completed" /\ f.stop = job.stop
        /\ f.origin = job.origin /\ f.tracked = job.tracked
    BY <1>1 DEF JobRec
  <2>3. \/ FinalizeExact(counted) = counted
        \/ counted.status = "running" /\ FinalizeExact(counted) = f
    BY DEF FinalizeExact
  <2> HIDE DEF counted, f
  <2> QED BY <2>1, <2>2, <2>3 DEF GoesOn, Goes, Honest
<1> HIDE DEF counted, j
<1> QED BY <1>1, <1>2, <1>3, UnchangedGoOn, OneGoesOn

\* The release writes what the job in the memory of the run asks for.
LEMMA FinalizedGoesOn ==
  ASSUME RowsOK, NEW r \in Runs, NEW j \in Jobs, runs[r].job = j,
         jobs[j].owner # NoRun
  PROVE  /\ GoesOn(Finalized(runs[r]), jobs[j])
         /\ Finalized(runs[r]).status # "running"
<1> DEFINE job == jobs[j]
           freed == [job EXCEPT !.owner = NoRun, !.expired = FALSE]
<1>1. PICK due \in BOOLEAN, done \in BOOLEAN :
        Finalized(runs[r]) =
          IF job.status = "cancelled" THEN freed
          ELSE IF job.stop THEN [freed EXCEPT !.status = "paused"]
          ELSE IF done THEN [freed EXCEPT !.status = "completed"]
          ELSE [freed EXCEPT !.status = "queued", !.due = due]
  <2> DEFINE open == JobLinks(runs[r], {"queued", "processing"})
             immediate == \E l \in open : Due(runs[r], l)
             processing == \E l \in open : links[l].status = "processing"
             retries == {l \in open : links[l].status = "retrying"}
             d == \/ immediate
                  \/ retries = {}
                  \/ \E l \in retries : links[l].due
             f == ~immediate /\ ~processing /\ retries = {}
  <2>1. Finalized(runs[r]) =
          IF job.status = "cancelled" THEN freed
          ELSE IF job.stop THEN [freed EXCEPT !.status = "paused"]
          ELSE IF f THEN [freed EXCEPT !.status = "completed"]
          ELSE [freed EXCEPT !.status = "queued", !.due = d]
    BY DEF Finalized
  <2>2. d \in BOOLEAN /\ f \in BOOLEAN
    OBVIOUS
  <2> QED BY <2>1, <2>2
<1>2. /\ job \in JobRec /\ job.owner # NoRun
      /\ \/ job.status \in {"running", "cancelled"}
         \/ job.late /\ job.status \in Overwritable
  BY DEF RowsOK, JobOK
<1> HIDE DEF job
<1>3. /\ freed.status = job.status /\ freed.stop = job.stop
      /\ freed.origin = job.origin /\ freed.tracked = job.tracked /\ freed \in JobRec
  BY <1>2 DEF JobRec, Owner
<1> HIDE DEF freed
<1>4. CASE job.status = "cancelled"
  BY <1>1, <1>3, <1>4, AlikeGoesOn DEF Alike, job
<1>5. CASE job.status = "running" \/ (job.late /\ job.status \in Overwritable)
  <2> DEFINE f == Finalized(runs[r])
  <2>1. /\ f.stop = job.stop /\ f.origin = job.origin /\ f.tracked = job.tracked
        /\ f.status \in {"completed", IF job.stop THEN "paused" ELSE "queued"}
    BY <1>1, <1>3, <1>5 DEF JobRec
  <2> HIDE DEF f
  <2>2. GoesOn(f, job) /\ f.status # "running"
    BY <1>2, <1>5, <2>1 DEF GoesOn, Goes, Leaves, Honest
  <2> QED BY <2>2 DEF f, job
<1> QED BY <1>2, <1>4, <1>5 DEF job

LEMMA WorkerGoesOn ==
  ASSUME RowsOK, NEW r \in Runs, Cycle(r) \/ Starts(r) \/ FailRun(r) \/ Crash(r)
  PROVE  AllGoOn
<1>1. CASE Boot(r)
  <2>1. jobs' = [j \in Jobs |-> IF j \in InterruptedJobs
                               THEN Recovered(jobs[j]) ELSE jobs[j]]
    BY <1>1 DEF Boot
  <2>2. \A j \in InterruptedJobs : jobs[j].status = "running"
    BY DEF InterruptedJobs
  <2> QED BY <2>1, <2>2, RecoveredGoOn
<1>2. CASE RecoverStale(r)
  <2> DEFINE S == {j \in Jobs : jobs[j].status = "running" /\ jobs[j].expired}
  <2>1. jobs' = [j \in Jobs |-> IF j \in S THEN Recovered(jobs[j]) ELSE jobs[j]]
    BY <1>2 DEF RecoverStale
  <2>2. \A j \in S : jobs[j].status = "running"
    OBVIOUS
  <2> HIDE DEF S
  <2> QED BY <2>1, <2>2, RecoveredGoOn
<1>3. CASE PauseCheckpoint(r)
  <2>1. \A j \in Jobs : ~(jobs[j].status = "queued" /\ jobs[j].stop)
    BY DEF RowsOK, JobOK
  <2>2. \A j \in Jobs : jobs'[j] = jobs[j]
    BY <1>3, <2>1 DEF PauseCheckpoint
  <2> QED BY <2>2, JobsAreLike DEF AllGoOn
<1>4. CASE Trigger(r) \/ NoJob(r) \/ ClaimMembers(r)
  BY <1>4, UnchangedGoOn DEF Trigger, NoJob, ClaimMembers
<1>5. ASSUME NEW j \in Jobs, ClaimJob(r, j) PROVE AllGoOn
  <2> DEFINE new == [jobs[j] EXCEPT !.status = "running", !.owner = r,
                                    !.expired = FALSE]
  <2>1. /\ WriteJobStatus(links, j, new) /\ jobs[j].status = "queued"
        /\ jobs[j] \in JobRec /\ JobOK(jobs[j])
    BY <1>5 DEF ClaimJob, Claimable, RowsOK
  <2>2. r \in Owner /\ r # NoRun
    BY LinksAssumption DEF LinksAssumption, Owner
  <2>3. /\ JobOK(new) /\ new.status = "running" /\ new.stop = jobs[j].stop
        /\ new.origin = jobs[j].origin /\ new.tracked = jobs[j].tracked
    BY <2>1, <2>2 DEF JobOK, JobRec, JobStatus, ActiveStatus
  <2> HIDE DEF new
  <2>4. GoesOn(new, jobs[j])
    BY <2>1, <2>3 DEF GoesOn, Goes, Honest
  <2> QED BY <2>1, <2>3, <2>4, StatusWritten
<1>6. ASSUME NEW l \in Links, Consulted(r, l) PROVE AllGoOn
  <2>1. ASSUME NEW pay \in ErpOutcomes, PersistSuccess(r, l, pay) PROVE AllGoOn
    BY <2>1, CountResultGoesOn DEF PersistSuccess
  <2>2. ASSUME NEW retryable \in BOOLEAN, PersistFailure(r, l, retryable) PROVE AllGoOn
    <3>1. CountResult(r, 0, 1) \/ jobs' = jobs
      BY <2>2 DEF PersistFailure
    <3> QED BY <2>2, <3>1, CountResultGoesOn, UnchangedGoOn DEF PersistFailure
  <2>3. CASE DiscardResult(r, l)
    BY <2>3, UnchangedGoOn DEF DiscardResult
  <2> QED BY <1>6, <2>1, <2>2, <2>3 DEF Consulted
<1>7. CASE Release(r)
  <2> DEFINE j == runs[r].job
             f == Finalized(runs[r])
  <2>1. CASE jobs[j].owner = r
    <3>1. j \in Jobs /\ runs[r].pc = "work"
      BY <1>7 DEF Release, RowsOK, RunOK
    <3>2. jobs[j].owner # NoRun
      BY <2>1, LinksAssumption DEF LinksAssumption
    <3>3. GoesOn(f, jobs[j]) /\ f.status # "running" /\ JobOK(f)
      BY <2>1, <3>1, <3>2, FinalizedGoesOn, FinalizedFreed DEF Freed
    <3>4. WriteJobStatus(links, j, f)
      BY <1>7, <2>1 DEF Release
    <3> HIDE DEF f, j
    <3> QED BY <3>1, <3>3, <3>4, StatusWritten
  <2>2. CASE jobs[j].owner # r
    BY <1>7, <2>2, UnchangedGoOn DEF Release
  <2> QED BY <2>1, <2>2
<1>8. CASE FailRun(r)
  <2> DEFINE j == runs[r].job
             failed == [jobs[j] EXCEPT !.status = "failed", !.owner = NoRun,
                                       !.expired = FALSE]
  <2>1. CASE jobs[j].owner = r
    <3>1. j \in Jobs /\ jobs[j] \in JobRec
      BY <1>8 DEF FailRun, RowsOK, RunOK
    <3>2. /\ jobs[j].owner # NoRun
          /\ \/ jobs[j].status \in {"running", "cancelled"}
             \/ jobs[j].late /\ jobs[j].status \in Overwritable
      BY <2>1, <3>1, LinksAssumption DEF RowsOK, JobOK, LinksAssumption
    <3>3. /\ failed.status = "failed" /\ failed.stop = jobs[j].stop
          /\ failed.origin = jobs[j].origin /\ failed.tracked = jobs[j].tracked
      BY <3>1 DEF JobRec
    <3>4. jobs' = [jobs EXCEPT ![j] = failed]
      BY <1>8, <2>1 DEF FailRun
    <3> HIDE DEF failed, j
    <3>5. GoesOn(failed, jobs[j])
      BY <3>2, <3>3 DEF GoesOn, Goes, Leaves, Honest
    <3> QED BY <3>1, <3>4, <3>5, OneGoesOn
  <2>2. CASE jobs[j].owner # r
    BY <1>8, <2>2, UnchangedGoOn DEF FailRun
  <2> QED BY <2>1, <2>2
<1>9. CASE Abandon(r)
  <2>1. \A j \in Jobs : /\ jobs'[j] = IF jobs[j].owner = r
                                      THEN [jobs[j] EXCEPT !.owner = Gone] ELSE jobs[j]
                        /\ jobs[j] \in JobRec /\ GoesOn(jobs[j], jobs[j])
    BY <1>9, JobsAreLike DEF Abandon
  <2> QED BY <2>1, ColumnsGoOn DEF AllGoOn
<1> QED BY <1>1, <1>2, <1>3, <1>4, <1>5, <1>6, <1>7, <1>8, <1>9
        DEF Cycle, Starts, EndDrain, Crash

\* One step moves the jobs as the life cycle allows, and keeps the origin of the
\* tracked ones.
AllMove == JobsMove /\ \A j \in Jobs : Honest(jobs[j]) => Honest(jobs'[j])

LEMMA GoesOnMoves ==
  ASSUME RowsOK, RowsOK', AllGoOn PROVE AllMove
<1> SUFFICES ASSUME NEW j \in Jobs
             PROVE  /\ \/ Lifecycle!Move(Row(jobs[j]), Row(jobs'[j]))
                       \/ /\ StillHeld(j)
                          /\ Lifecycle!LeavesOverwritten(Row(jobs[j]), Row(jobs'[j]))
                    /\ Honest(jobs[j]) => Honest(jobs'[j])
  BY DEF AllMove, JobsMove
<1>1. JobOK(jobs[j]) /\ JobOK(jobs'[j]) /\ GoesOn(jobs'[j], jobs[j])
  BY DEF RowsOK, AllGoOn
<1>2. CASE Goes(jobs'[j], jobs[j])
  BY <1>1, <1>2, GoesMoves DEF GoesOn
<1>3. CASE Leaves(jobs'[j], jobs[j])
  <2>1. StillHeld(j)
    BY <1>3 DEF Leaves, StillHeld
  <2> QED BY <1>1, <1>3, <2>1, LeavesMoves DEF GoesOn
<1> QED BY <1>1, <1>2, <1>3 DEF GoesOn

LEMMA WriteResumedMoves ==
  ASSUME IInv, NEW j \in Jobs, WriteResumed(j) PROVE AllMove
<1> DEFINE row == ResumedLate(jobs[j])
<1>1. /\ JobOK(jobs[j]) /\ resumes[j] \in Nat /\ resumes[j] > 0
      /\ jobs[j].status # "absent" /\ jobs[j].origin = "manual"
      /\ resumes' = [resumes EXCEPT ![j] = resumes[j] - 1]
      /\ jobs' = IF jobs[j].status = "deleted" THEN jobs ELSE [jobs EXCEPT ![j] = row]
  BY DEF WriteResumed, IInv, RowsOK, ResumesOK
<1>2. CASE jobs[j].status = "deleted"
  BY <1>1, <1>2 DEF AllMove, JobsMove, Lifecycle!Move
<1>3. CASE jobs[j].status # "deleted"
  <2>1. /\ row.origin = jobs[j].origin /\ row.tracked = jobs[j].tracked
        /\ row.status = "queued" /\ row.stop = FALSE
    BY <1>1, <1>3, OverwrittenRow
  <2> HIDE DEF row
  <2>2. \A k \in Jobs : jobs'[k] = IF k = j THEN row ELSE jobs[k]
    BY <1>1, <1>3 DEF IInv, RowsOK
  <2>3. Overwritten(j)
    BY <1>1 DEF Overwritten, ResumesOK, IInv
  <2>4. Lifecycle!Overwrites(Row(jobs[j]), Row(row))
    <3> DEFINE o == Row(jobs[j])
               n == Row(row)
    <3>1. \A status, stop : n.status = status /\ n.stop = stop /\ n.origin = o.origin
            => n = [o EXCEPT !.status = status, !.stop = stop]
      BY DEF Row
    <3>2. /\ n.status = "queued" /\ n.stop = FALSE /\ n.origin = o.origin
          /\ o.origin = "manual" /\ o.status \notin {"absent", "deleted"}
      BY <1>1, <1>3, <2>1 DEF Row
    <3> HIDE DEF o, n
    <3>3. n = [o EXCEPT !.status = "queued", !.stop = FALSE]
      BY <3>1, <3>2
    <3>4. Lifecycle!Overwrites(o, n)
      BY <3>2, <3>3 DEF Lifecycle!Overwrites
    <3> QED BY <3>4 DEF o, n
  <2> QED BY <2>1, <2>2, <2>3, <2>4 DEF AllMove, JobsMove, Lifecycle!Move, Honest
<1> QED BY <1>2, <1>3

LEMMA NextMoves ==
  ASSUME IInv, \A j \in Jobs : Honest(jobs[j]), [Next]_vars PROVE AllMove
<1> RowsOK /\ RowsOK'
  BY NextLawful DEF Lawful, IInv
<1>1. CASE Application
  <2>1. ASSUME NEW b \in Batches, ReadPaused(b) PROVE AllGoOn
    BY <2>1, UnchangedGoOn DEF ReadPaused
  <2> QED BY <1>1, <2>1, RequestGoesOn, GoesOnMoves, WriteResumedMoves DEF Application
<1>2. CASE Worker \/ Failure
  BY <1>2, WorkerGoesOn, GoesOnMoves DEF Worker, Failure
<1>3. CASE Time
  <2>1. ASSUME NEW j \in Jobs, LeaseExpires(j) \/ JobComesDue(j) PROVE AllGoOn
    <3>1. PICK row : GoesOn(row, jobs[j]) /\ jobs' = [jobs EXCEPT ![j] = row]
      BY <2>1, ColumnsGoOn DEF LeaseExpires, JobComesDue, RowsOK
    <3> QED BY <3>1, OneGoesOn
  <2>2. ASSUME NEW l \in Links, HeartbeatAges(l) \/ RetryComesDue(l) PROVE AllGoOn
    BY <2>2, UnchangedGoOn DEF HeartbeatAges, RetryComesDue
  <2> QED BY <1>3, <2>1, <2>2, GoesOnMoves DEF Time
<1>4. CASE UNCHANGED vars
  BY <1>4, UnchangedGoOn, GoesOnMoves DEF vars
<1> QED BY <1>1, <1>2, <1>3, <1>4 DEF Next

\* Seen by status, stop and origin, every job makes only the moves of
\* JobLifecycle, the environment of the general synchronization, unless a resume
\* wrote over it late; that only a manual job can meet.
THEOREM LifecycleFollowed == Spec => JobsFollowLifecycle
<1> DEFINE AllHonest == \A j \in Jobs : Honest(jobs[j])
<1>1. Init => AllHonest
  BY DEF Init, AbsentJob, NewJob, Honest
<1>2. IInv /\ AllHonest /\ [Next]_vars => AllHonest' /\ [JobsMove]_vars
  BY NextMoves DEF AllMove
<1> HIDE DEF AllHonest
<1> QED BY <1>1, <1>2, Invariance, PTL DEF Spec, JobsFollowLifecycle
=============================================================================
