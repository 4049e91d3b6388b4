---------------------------- MODULE JobLifecycle ----------------------------
(***************************************************************************)
(* What a row of processing_jobs may become in one transaction of the      *)
(* queue, seen from outside: status, requested stop and origin.  The queue *)
(* promises it (ProcessingQueue!JobsFollowLifecycle); the general          *)
(* synchronization relies on it.                                           *)
(***************************************************************************)
EXTENDS Naturals

Origins == {"manual", "dashboard"}
Active == {"queued", "running", "paused"}
Ended == {"completed", "failed", "cancelled", "deleted"}

Row == [status : Active \cup Ended \cup {"absent"}, stop : BOOLEAN,
        origin : Origins]

To(job, status) == [job EXCEPT !.status = status]
StoppedTo(job, status) == [job EXCEPT !.status = status, !.stop = TRUE]

-----------------------------------------------------------------------------
(* The worker and the triggers *)

Starts(job, new) ==
  job.status = "queued" /\ ~job.stop /\ new = To(job, "running")

\* Released with work left, or taken back from a worker that is gone.
Requeues(job, new) ==
  job.status = "running" /\ ~job.stop /\ new = To(job, "queued")

\* A requested stop becomes a pause when the job leaves its worker.
Parks(job, new) ==
  job.status = "running" /\ job.stop /\ new = To(job, "paused")

\* Drained, or an exact job whose last item was persisted.
Completes(job, new) ==
  job.status \in {"queued", "running"} /\ new = To(job, "completed")

\* failJob asks who holds the job, not whether it was cancelled meanwhile.
Fails(job, new) ==
  job.status \in {"running", "cancelled"} /\ new = To(job, "failed")

WorkerMove(job, new) ==
  \/ Starts(job, new) \/ Requeues(job, new) \/ Parks(job, new)
  \/ Completes(job, new) \/ Fails(job, new)

-----------------------------------------------------------------------------
(* The operators, who pause, stop and resume manual jobs only *)

AskedToStop(job, new) ==
  job.status = "running" /\ new = StoppedTo(job, "running")

Pauses(job, new) == job.status = "queued" /\ new = StoppedTo(job, "paused")

\* A member that is asked for again while its job runs takes the stop back.
Unstops(job, new) ==
  job.status = "running" /\ new = [job EXCEPT !.stop = FALSE]

Cancels(job, new) ==
  job.status \in Active /\ new \in {To(job, "cancelled"), StoppedTo(job, "cancelled")}

OperatorMove(job, new) ==
  /\ job.origin = "manual"
  /\ \/ AskedToStop(job, new) \/ Pauses(job, new)
     \/ Unstops(job, new) \/ Cancels(job, new)

-----------------------------------------------------------------------------
(* Both origins *)

Inserts(job, new) ==
  job.status = "absent" /\ new.status = "queued" /\ ~new.stop

\* The operator, or an enqueue for the same batch and origin.
Resumes(job, new) ==
  job.status = "paused" /\ new = [job EXCEPT !.status = "queued", !.stop = FALSE]

\* The campaign is interrupted.
Deletes(job, new) == job.status \in Active /\ new = To(job, "deleted")

\* retomar writes over the row it read as paused, whatever it became meanwhile ...
Overwrites(job, new) ==
  /\ job.origin = "manual" /\ job.status \notin {"absent", "deleted"}
  /\ new = [job EXCEPT !.status = "queued", !.stop = FALSE]

\* ... and when that was running, its worker still holds it and may release or
\* fail it, although it waits, or was found without work and completed.
LeavesOverwritten(job, new) ==
  /\ job.origin = "manual" /\ job.status \in {"queued", "paused", "completed"}
  /\ \E s \in {"queued", "paused", "completed", "failed"} : new = To(job, s)

OverwrittenMove(job, new) == Overwrites(job, new) \/ LeavesOverwritten(job, new)

\* Every other move.
Move(job, new) ==
  \/ new = job
  \/ WorkerMove(job, new) \/ OperatorMove(job, new)
  \/ Inserts(job, new) \/ Resumes(job, new) \/ Deletes(job, new)
=============================================================================
