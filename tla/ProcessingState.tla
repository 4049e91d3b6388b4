-------------------------- MODULE ProcessingState --------------------------
(***************************************************************************)
(* The rows the local processing queue works on and the PostgreSQL         *)
(* triggers that fire inside every statement that changes them.            *)
(*                                                                         *)
(*   links   campaign_batch_members: one installment of one member in one  *)
(*           batch ("vinculo"), the unit of work                           *)
(*   jobs    processing_jobs: a request to process a batch, one member or  *)
(*           the snapshot of a filtered error request                      *)
(*   items   filtered_error_reprocess_items, one row per closed job and    *)
(*           member of its snapshot                                        *)
(*   runs    the memory of the calls of runLocalWorkerOnce in progress     *)
(*   lock    the session that holds the worker's advisory lock             *)
(*                                                                         *)
(* Time is abstracted to booleans: "due" says that next_run_at (or         *)
(* next_retry_at) is not in the future, "expired" that lease_expires_at is *)
(* in the past, "old" that the heartbeat is older than staleHeartbeatMs.   *)
(* A pending link is always due: every statement that writes 'pending'     *)
(* sets next_check_at to null or now().  Job ids grow with created_at.     *)
(***************************************************************************)
EXTENDS Naturals, FiniteSets

CONSTANTS
  Links,        \* rows of campaign_batch_members
  Batches,      \* rows of campaign_batches, all of one campaign
  BatchOf,      \* the batch of each link
  MemberOf,     \* the member of each link
  MaxJobs,      \* bound: rows ever inserted in processing_jobs
  Runs,         \* slots for calls of runLocalWorkerOnce in progress
  FreeRuns,     \* those started without the advisory lock (triggerQueuedProcessing)
  MaxAttempts,  \* campaign_batch_members.max_attempts
  CfgAttempts,  \* ProcessingConfig.maxAttemptsPerItem
  StaleLimit,   \* the constant 3 of recoverStaleLocalWork
  ClaimLimit,   \* links claimed by one cycle
  ErpOutcomes,  \* payment states the ERP may answer with
  NoLink, NoRun, NoBatch,
  Gone          \* the workerId of a call whose process is gone

ASSUME LinksAssumption ==
  /\ IsFiniteSet(Links)
  /\ BatchOf \in [Links -> Batches]
  /\ DOMAIN MemberOf = Links
  /\ NoLink \notin Links
  /\ NoRun \notin Runs /\ Gone \notin Runs /\ Gone # NoRun
  /\ NoBatch \notin Batches
  /\ FreeRuns \subseteq Runs

ASSUME LimitsAssumption ==
  /\ MaxJobs \in Nat
  /\ MaxAttempts \in Nat \ {0}
  /\ CfgAttempts \in Nat \ {0}
  /\ StaleLimit \in Nat \ {0}
  /\ ClaimLimit \in Nat \ {0}
  /\ ErpOutcomes \subseteq {"unpaid", "paid", "agreed", "excluded"}

VARIABLES links, jobs, items, runs, lock

Jobs == 1 .. MaxJobs

Owner == Runs \cup {NoRun, Gone}

PayStatus == {"none", "unpaid", "paid", "agreed", "excluded"}
TerminalPay == {"paid", "agreed", "excluded"}

\* 'queued' and 'aguardando' are treated as 'pending' by every query, and no
\* active statement writes them.
LinkStatus == {"pending", "processing", "retrying", "completed", "error"}

LinkRec ==
  [status : LinkStatus, pay : PayStatus, attempts : Nat, stale : Nat,
   due : BOOLEAN, old : BOOLEAN, errReq : BOOLEAN,
   owner : Owner, deleted : BOOLEAN]

\* "deferred" is read by several queries but written by none.
ActiveStatus == {"queued", "running", "paused"}
JobStatus == ActiveStatus \cup
             {"absent", "completed", "failed", "cancelled", "deleted"}
Origins == {"manual", "dashboard"}
Scopes == {"dashboard", "campaign", "batch", "member"}

\* "tracked": a row of associados_processing_items refers to the job.  "late" is
\* history and no column: a resume wrote over the row when it was no longer paused.
JobRec ==
  [status : JobStatus, batch : Batches \cup {NoBatch}, origin : Origins,
   scope : Scopes, includeErrors : BOOLEAN, target : Links \cup {NoLink},
   filtered : BOOLEAN, tracked : BOOLEAN, stop : BOOLEAN, due : BOOLEAN,
   expired : BOOLEAN, owner : Owner, late : BOOLEAN,
   total : Nat, processed : Nat, success : Nat, error : Nat]

ItemStatus == {"none", "queued", "processing", "resolved", "failed"}

\* What a call keeps in memory: the job row as claimNextJob returned it and
\* the links whose result is not persisted yet.
RunPc == {"off", "ready", "cycle", "recovered", "claimed", "work", "drain"}
RunRec ==
  [pc : RunPc, job : Jobs \cup {0}, target : Links \cup {NoLink},
   filtered : BOOLEAN, includeErrors : BOOLEAN,
   inflight : SUBSET Links, idle : BOOLEAN]

OffRun == [pc |-> "off", job |-> 0, target |-> NoLink, filtered |-> FALSE,
           includeErrors |-> FALSE, inflight |-> {}, idle |-> TRUE]

\* PROCESSING_PRIORITIES
Priority == [dashboard |-> 100, campaign |-> 80, batch |-> 60, member |-> 40]

Greatest(a, b) == IF a >= b THEN a ELSE b
Least(a, b) == IF a <= b THEN a ELSE b

LinksOf(b) == {l \in Links : BatchOf[l] = b /\ ~links[l].deleted}

-----------------------------------------------------------------------------
(* Link rows *)

\* Mutant of Unclaimed: the heartbeat of the claim stays.
UnclaimedButHeartbeat(rec) == [rec EXCEPT !.owner = NoRun]

\* The columns of a claim go back to null together.
Unclaimed(rec) == [rec EXCEPT !.owner = NoRun, !.old = FALSE]

\* Mutant of EnforceTerminal: only agreements are protected.
EnforceAgreed(rec) ==
  IF rec.pay = "agreed" /\ rec.status = "error"
  THEN [Unclaimed(rec) EXCEPT !.status = "completed", !.due = FALSE] ELSE rec

\* trg_enforce_terminal_financial_processing_state_v1: a technical failure
\* does not reclassify a confirmed payment.
EnforceTerminal(rec) ==
  IF rec.pay \in {"paid", "agreed"} /\ rec.status = "error" /\ ~rec.deleted
  THEN [Unclaimed(rec) EXCEPT !.status = "completed", !.attempts = 0,
                              !.stale = 0, !.due = FALSE, !.errReq = FALSE]
  ELSE rec

\* Applies f to the links of S, then the BEFORE trigger.
UpdateLinks(ls, S, f(_)) ==
  [l \in Links |-> IF l \in S THEN EnforceTerminal(f(ls[l])) ELSE ls[l]]

\* trg_sync_local_error_replay_snapshots_v1: the snapshot items follow the
\* status changes of their link, whichever job caused them.
SyncItem(old, new, item) ==
  CASE new = old -> item
    [] new = "processing" /\ item = "queued" -> "processing"
    [] new = "completed" /\ item \in {"queued", "processing"} -> "resolved"
    [] new = "error" /\ item = "processing" -> "failed"
    [] OTHER -> item

SyncReplay(new) ==
  [j \in Jobs |-> [l \in Links |->
     SyncItem(links[l].status, new[l].status, items[j][l])]]

-----------------------------------------------------------------------------
(* Job rows *)

\* trg_finalize_exact_processing_job_v1
FinalizeExact(job) ==
  IF /\ job.status = "running"
     /\ job.target # NoLink \/ job.filtered
     /\ job.processed >= job.total
  THEN [job EXCEPT !.status = "completed", !.owner = NoRun, !.expired = FALSE,
                   !.due = TRUE]
  ELSE job

\* Mutant of Exhausted: one attempt too many is waited for.
ExhaustedTooLate(ls, old, new) ==
  {l \in Links :
     /\ new.status \in {"running", "completed"} /\ new.status # old.status
     /\ BatchOf[l] = new.batch /\ ~ls[l].deleted
     /\ ls[l].status \in {"pending", "retrying"}
     /\ ls[l].attempts > MaxAttempts}

\* The rows trg_settle_exhausted_wave_errors_v1 turns into errors when the
\* status of the job becomes running or completed.
Exhausted(ls, old, new) ==
  {l \in Links :
     /\ new.status \in {"running", "completed"} /\ new.status # old.status
     /\ BatchOf[l] = new.batch
     /\ new.target \in {NoLink, l}
     /\ ~ls[l].deleted
     /\ ls[l].pay # "paid"
     /\ ls[l].status \in {"pending", "retrying"}
     /\ ls[l].attempts >= MaxAttempts}

ToWaveError(rec) ==
  [Unclaimed(rec) EXCEPT !.status = "error", !.due = FALSE, !.errReq = FALSE]

\* Mutant of SettleJob: the errors are added, the processed links are not.
SettleErrorsOnly(ls, old, new) ==
  [new EXCEPT !.error = @ + Cardinality(Exhausted(ls, old, new))]

SettleJob(ls, old, new) ==
  LET n == Cardinality(Exhausted(ls, old, new))
      settled == Greatest(new.processed, new.success + new.error + n)
  IN IF n = 0 THEN new
     ELSE [new EXCEPT !.error = @ + n, !.processed = settled,
                      !.total = Greatest(@, settled)]

\* An UPDATE that names the column status: both BEFORE triggers, in the order
\* of their names; ls are the links the same transaction already wrote.
WriteJobStatus(ls, j, new) ==
  LET row == FinalizeExact(new)
  IN  /\ jobs' = [jobs EXCEPT ![j] = SettleJob(ls, jobs[j], row)]
      /\ links' = UpdateLinks(ls, Exhausted(ls, jobs[j], row), ToWaveError)
      /\ items' = SyncReplay(links')

StateTypeOK ==
  /\ links \in [Links -> LinkRec]
  /\ jobs \in [Jobs -> JobRec]
  /\ items \in [Jobs -> [Links -> ItemStatus]]
  /\ runs \in [Runs -> RunRec]
  /\ lock \in Runs \cup {NoRun}
=============================================================================
