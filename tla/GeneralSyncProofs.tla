------------------------- MODULE GeneralSyncProofs -------------------------
(***************************************************************************)
(* Proofs about GeneralSync, for any number of batches, runs, jobs and     *)
(* cycles, inside and outside the advisory lock, with crashes, failing     *)
(* steps and leases that expire at any time.                               *)
(***************************************************************************)
EXTENDS GeneralSync, FiniteSetTheorems, TLAPS

-----------------------------------------------------------------------------
(* The inductive invariant *)

AtWork(w) == worker[w].pc \notin {"off", "idle"}

\* The steps between the choice of a batch and the write of its row.
Chosen(w) == worker[w].pc \in {"find", "wait", "own", "enqueue", "attach"}

\* A claim names a cycle at work on that run.
ClaimsNameTheirCycle ==
  \A r \in Runs : \A w \in Workers : Owns(w, r) =>
    worker[w].run = r /\ AtWork(w) /\ runs[r].status # "absent"

\* What a cycle remembers at each step.
CyclesRemember ==
  \A w \in Workers :
    /\ AtWork(w) => worker[w].run \in Runs
    /\ Chosen(w) => worker[w].batch \in Batches
    /\ worker[w].pc = "wait" => worker[w].job \in Jobs

\* A run that was not started has no batches.
AbsentRunsAreEmpty ==
  \A r \in Runs : runs[r].status = "absent" =>
    \A b \in Batches : rb[r][b].status = "absent"

\* The jobs attached to batches, and the one a cycle is about to attach, belong
\* to the dashboard.
OfDashboard(j) ==
  j # NoJob => jobs[j].status # "absent" /\ jobs[j].origin = "dashboard"
AttachedJobsAreOurs ==
  /\ \A r \in Runs : \A b \in Batches : OfDashboard(rb[r][b].job)
  /\ \A w \in Workers : worker[w].pc = "attach" => OfDashboard(worker[w].job)

IInv == /\ TypeOK /\ ClaimsNameTheirCycle /\ CyclesRemember
        /\ AbsentRunsAreEmpty /\ AttachedJobsAreOurs

\* A cycle that holds the claim and has chosen a batch still may: no batch is
\* at work and those before it have ended.
ChosenInTurn ==
  \A w \in Workers : \A r \in Runs :
    Chosen(w) /\ Owns(w, r) =>
      /\ InState(r, ActiveBatch) = {}
      /\ \A c \in Scope(r) : c < worker[w].batch => rb[r][c].status \in FinalBatch

OrderInv == ChosenInTurn /\ OneBatchInOrder

-----------------------------------------------------------------------------
(* The first batch *)

\* Every set of positions that is not empty has a first one.
LEMMA FirstExists ==
  ASSUME NEW N \in Nat, NEW S \in SUBSET (1 .. N), S # {}
  PROVE  \E b \in S : \A c \in S : b <= c
<1> DEFINE Upto(n) == S \cap (1 .. n)
           T == {Upto(n) : n \in S}
<1>1. T \subseteq FiniteSubsetsOf(1 .. N)
  <2> SUFFICES ASSUME NEW n \in S PROVE Upto(n) \in FiniteSubsetsOf(1 .. N)
    OBVIOUS
  <2>1. IsFiniteSet(1 .. N)
    BY FS_Interval
  <2>2. IsFiniteSet(Upto(n))
    BY <2>1, FS_Subset
  <2> QED
    BY <2>2 DEF FiniteSubsetsOf
<1>2. T # {}
  OBVIOUS
<1> HIDE DEF T
<1>3. PICK U \in T : \A V \in T : ~ (<<V, U>> \in StrictSubsetOrdering(1 .. N))
  BY <1>1, <1>2, FS_StrictSubsetOrderingWellFounded, WFMin, Zenon
<1>4. PICK b \in S : U = Upto(b)
  BY DEF T
<1>5. ASSUME NEW c \in S, c < b PROVE FALSE
  <2>1. Upto(c) \in T
    BY DEF T
  <2>2. b \in U /\ b \notin Upto(c) /\ Upto(c) \subseteq U
    BY <1>4, <1>5
  <2> QED
    BY <1>3, <1>4, <2>1, <2>2 DEF StrictSubsetOrdering
<1> QED
  BY <1>5

\* The batch the code works on next is one of the set, and no other comes
\* before it.
LEMMA FirstIsFirst ==
  ASSUME NEW S \in SUBSET Batches, S # {}
  PROVE  First(S) \in S /\ \A c \in S : First(S) <= c
BY FirstExists, SyncAssumption DEF First, Batches, SyncAssumption

-----------------------------------------------------------------------------
(* Types *)

RunRow == [status : ActiveRun \cup EndedRun \cup {"absent"}, pause : BOOLEAN,
           expired : BOOLEAN, owner : Workers \cup {NoWorker, Gone}]
BatchRow == [status : ActiveBatch \cup FinalBatch \cup {"absent", "pending"},
             job : Jobs \cup {NoJob}, wait : Jobs \cup {NoJob}]
JobRow == [status : Lifecycle!Active \cup Lifecycle!Ended \cup {"absent"},
           stop : BOOLEAN, origin : Lifecycle!Origins, batch : Batches \cup {NoBatch}]
Pcs == {"off", "idle", "pause", "reconcile", "cancel", "look", "find", "wait",
        "own", "enqueue", "attach", "release", "throw"}
Cycle == [pc : Pcs, run : Runs \cup {NoRun}, batch : Batches \cup {NoBatch},
          job : Jobs \cup {NoJob}]
RowTypes == /\ runs \in [Runs -> RunRow] /\ rb \in [Runs -> [Batches -> BatchRow]]
            /\ jobs \in [Jobs -> JobRow] /\ worker \in [Workers -> Cycle]

LEMMA Typed == TypeOK <=> RowTypes /\ requests \in Nat /\ crashes \in Nat
BY DEF TypeOK, RowTypes, RunRow, BatchRow, JobRow, Pcs, Cycle

BatchStatus == ActiveBatch \cup FinalBatch \cup {"absent", "pending"}

\* The rows of a state that is well typed, field by field.
LEMMA Fields ==
  ASSUME RowTypes
  PROVE  /\ \A r \in Runs : \A b \in Batches :
              /\ rb[r] \in [Batches -> BatchRow] /\ rb[r][b] \in BatchRow
              /\ rb[r][b].status \in BatchStatus
              /\ rb[r][b].job \in Jobs \cup {NoJob} /\ rb[r][b].wait \in Jobs \cup {NoJob}
         /\ \A r \in Runs : runs[r] \in RunRow
         /\ \A j \in Jobs : jobs[j] \in JobRow
         /\ \A w \in Workers : worker[w] \in Cycle
<1>1. \A r \in Runs : rb[r] \in [Batches -> BatchRow]
  BY DEF RowTypes
<1>2. \A r \in Runs : \A b \in Batches : rb[r][b] \in BatchRow
  BY <1>1
<1>3. \A row \in BatchRow : /\ row.status \in BatchStatus
                            /\ row.job \in Jobs \cup {NoJob}
                            /\ row.wait \in Jobs \cup {NoJob}
  BY DEF BatchRow, BatchStatus
<1> QED
  BY <1>1, <1>2, <1>3 DEF RowTypes

\* A run is given a new row.
LEMMA RunWritten ==
  ASSUME RowTypes, NEW r \in Runs, NEW row \in RunRow, runs' = [runs EXCEPT ![r] = row]
  PROVE  runs' \in [Runs -> RunRow]
BY DEF RowTypes

\* A batch is given a new row.
LEMMA BatchWritten ==
  ASSUME RowTypes, NEW r \in Runs, NEW b \in Batches, NEW row \in BatchRow,
         rb' = [rb EXCEPT ![r][b] = row]
  PROVE  rb' \in [Runs -> [Batches -> BatchRow]]
<1>1. rb[r] \in [Batches -> BatchRow]
  BY Fields
<1>2. [rb[r] EXCEPT ![b] = row] \in [Batches -> BatchRow]
  BY <1>1
<1>3. rb \in [Runs -> [Batches -> BatchRow]] /\ rb' = [rb EXCEPT ![r] = [rb[r] EXCEPT ![b] = row]]
  BY DEF RowTypes
<1> QED
  BY <1>2, <1>3

USE DEF Owns, At, ActiveRun, EndedRun, ActiveBatch, FinalBatch,
        NoRun, NoBatch, NoJob, AtWork, Chosen

\* What Init says is well typed and names nobody.
LEMMA InitOK == Init => IInv /\ OrderInv
<1> SUFFICES ASSUME Init PROVE IInv /\ OrderInv
  OBVIOUS
<1>1. TypeOK
  BY SyncAssumption DEF Init, TypeOK, SyncAssumption, Lifecycle!Origins, Workers
<1>2. ClaimsNameTheirCycle
  BY SyncAssumption DEF Init, ClaimsNameTheirCycle, SyncAssumption, Workers
<1>3. CyclesRemember /\ AbsentRunsAreEmpty /\ AttachedJobsAreOurs
  BY DEF Init, CyclesRemember, AbsentRunsAreEmpty, AttachedJobsAreOurs, OfDashboard
<1>4. OrderInv
  BY <1>2 DEF Init, OrderInv, ChosenInTurn, OneBatchInOrder, InState, Scope,
     ClaimsNameTheirCycle
<1> QED
  BY <1>1, <1>2, <1>3, <1>4 DEF IInv

USE SyncAssumption DEF SyncAssumption, Workers

\* A cycle step that only moves its program counter.
LEMMA GotoTyped ==
  ASSUME RowTypes, NEW w \in Workers, NEW pc \in Pcs, Goto(w, pc)
  PROVE  worker' \in [Workers -> Cycle]
BY DEF RowTypes, Goto, Cycle

LEMMA ThrowTyped ==
  ASSUME RowTypes, NEW w \in Workers, Throw(w)
  PROVE  RowTypes'
BY GotoTyped DEF Throw, RowTypes, Pcs

LEMMA StopOwnJobTyped ==
  ASSUME RowTypes, NEW w \in Workers, NEW r \in Runs, WithOwnJob(r, "running") # {},
         StopOwnJob(w, r)
  PROVE  RowTypes'
<1>1. First(WithOwnJob(r, "running")) \in WithOwnJob(r, "running")
  BY FirstIsFirst DEF WithOwnJob, Scope
<1>2. rb[r][First(WithOwnJob(r, "running"))].job \in Jobs
  BY <1>1, Fields DEF WithOwnJob, Scope
<1>3. jobs' \in [Jobs -> JobRow]
  BY <1>2 DEF StopOwnJob, RowTypes, JobRow
<1> QED
  BY <1>3, GotoTyped DEF StopOwnJob, RowTypes, Pcs

LEMMA OutcomeTyped ==
  ASSUME RowTypes, NEW r \in Runs, NEW b \in Batches,
         NEW otherwise \in BatchStatus
  PROVE  Outcome(r, b, otherwise) \in BatchStatus
BY Fields DEF Outcome, BatchStatus

\* A batch keeps its jobs and takes another status.
LEMMA StatusWritten ==
  ASSUME NEW row \in BatchRow, NEW status \in BatchStatus
  PROVE  [row EXCEPT !.status = status] \in BatchRow
BY DEF BatchRow, BatchStatus

\* A run keeps its owner and takes another status.
LEMMA RunEnds ==
  ASSUME RowTypes, NEW r \in Runs, NEW status \in ActiveRun \cup EndedRun,
         runs' = [runs EXCEPT ![r].status = status]
  PROVE  runs' \in [Runs -> RunRow]
<1>1. [runs[r] EXCEPT !.status = status] \in RunRow
  BY Fields DEF RunRow
<1> QED
  BY <1>1, RunWritten

\* The batches of a run are given new statuses.
LEMMA OutcomesWritten ==
  ASSUME RowTypes, NEW r \in Runs, NEW status \in [Batches -> BatchStatus],
         rb' = [rb EXCEPT ![r] = [b \in Batches |-> [rb[r][b] EXCEPT !.status = status[b]]]]
  PROVE  rb' \in [Runs -> [Batches -> BatchRow]]
<1>1. \A b \in Batches : [rb[r][b] EXCEPT !.status = status[b]] \in BatchRow
  BY Fields, StatusWritten
<1>2. [b \in Batches |-> [rb[r][b] EXCEPT !.status = status[b]]] \in [Batches -> BatchRow]
  BY <1>1
<1> QED
  BY <1>2 DEF RowTypes

LEMMA PauseTyped ==
  ASSUME RowTypes, CyclesRemember, NEW w \in Workers, ExecutePause(w)
  PROVE  RowTypes'
<1> DEFINE r == worker[w].run
<1>1. r \in Runs
  BY DEF CyclesRemember, ExecutePause
<1>2. CASE Goto(w, "reconcile") /\ UNCHANGED <<runs, rb, jobs>>
  BY <1>2, GotoTyped DEF RowTypes, Pcs
<1>3. CASE WithOwnJob(r, "running") # {} /\ StopOwnJob(w, r)
  BY <1>1, <1>3, StopOwnJobTyped
<1>4. CASE Paused(w, r)
  <2>1. jobs' \in [Jobs -> JobRow]
    BY <1>4 DEF Paused, RowTypes, JobRow, Lifecycle!Active
  <2>2. rb' \in [Runs -> [Batches -> BatchRow]]
    <3> DEFINE status == [b \in Batches |->
                 Outcome(r, b, IF b \in WithOwnJob(r, "cancelled") THEN "cancelled"
                               ELSE rb[r][b].status)]
    <3>1. ASSUME NEW b \in Batches PROVE status[b] \in BatchStatus
      <4>1. rb[r][b].status \in BatchStatus
        BY <1>1, Fields
      <4> QED
        BY <1>1, <4>1, OutcomeTyped DEF BatchStatus
    <3>2. status \in [Batches -> BatchStatus]
      BY <3>1
    <3>3. rb' = [rb EXCEPT ![r] = [b \in Batches |-> [rb[r][b] EXCEPT !.status = status[b]]]]
      BY <1>4 DEF Paused
    <3> QED
      BY <1>1, <3>2, <3>3, OutcomesWritten
  <2>3. runs' \in [Runs -> RunRow]
    BY <1>1, <1>4 DEF Paused, RowTypes, RunRow
  <2> QED
    BY <1>4, <2>1, <2>2, <2>3, GotoTyped DEF Paused, RowTypes, Pcs
<1> QED
  BY <1>2, <1>3, <1>4 DEF ExecutePause

LEMMA ReconcileTyped ==
  ASSUME RowTypes, CyclesRemember, NEW w \in Workers, Reconcile(w)
  PROVE  RowTypes'
<1> DEFINE r == worker[w].run
           active == InState(r, ActiveBatch)
           b == First(active)
<1>1. r \in Runs
  BY DEF CyclesRemember, Reconcile
<1>2. CASE Throw(w)
  BY <1>2, ThrowTyped
<1>3. CASE Goto(w, "cancel") /\ UNCHANGED <<runs, rb, jobs>>
  BY <1>3, GotoTyped DEF RowTypes, Pcs
<1>4. CASE active # {} /\ ReconcileBatch(w, r, b) /\ UNCHANGED jobs
  <2>1. b \in Batches
    BY <1>4, FirstIsFirst DEF InState, Scope
  <2>2. rb' \in [Runs -> [Batches -> BatchRow]]
    <3>1. ASSUME NEW status \in {"pending", "failed", "completed"},
                 rb' = [rb EXCEPT ![r][b].status = status]
          PROVE  rb' \in [Runs -> [Batches -> BatchRow]]
      <4>1. rb[r][b] \in BatchRow
        BY <1>1, <2>1, Fields
      <4>2. [rb[r][b] EXCEPT !.status = status] \in BatchRow
        BY <4>1, StatusWritten DEF BatchStatus
      <4>3. rb' = [rb EXCEPT ![r][b] = [rb[r][b] EXCEPT !.status = status]]
        BY <3>1
      <4> QED
        BY <1>1, <2>1, <4>2, <4>3, BatchWritten
    <3> HIDE DEF b
    <3> QED
      BY <1>4, <3>1 DEF ReconcileBatch, EndsBatch, RowTypes
  <2>3. runs' \in [Runs -> RunRow]
    <3>1. runs' \in {runs, [runs EXCEPT ![r].status = "completed"]}
      BY <1>4 DEF ReconcileBatch, EndsBatch
    <3> QED
      BY <1>1, <3>1, RunEnds DEF RowTypes
  <2>4. worker' \in [Workers -> Cycle]
    BY <1>4, GotoTyped DEF ReconcileBatch, EndsBatch, Pcs
  <2> QED
    BY <1>4, <2>2, <2>3, <2>4 DEF RowTypes
<1>5. CASE UNCHANGED <<rb, jobs>>
           /\ \/ runs' = [runs EXCEPT ![r].status = "completed"] /\ Goto(w, "release")
              \/ UNCHANGED runs /\ Goto(w, "look")
  BY <1>1, <1>5, GotoTyped DEF RowTypes, RunRow, Pcs
<1> QED
  BY <1>2, <1>3, <1>4, <1>5 DEF Reconcile

LEMMA CancelTyped ==
  ASSUME RowTypes, CyclesRemember, NEW w \in Workers, ExecuteCancel(w)
  PROVE  RowTypes'
<1> DEFINE r == worker[w].run
<1>1. r \in Runs
  BY DEF CyclesRemember, ExecuteCancel
<1>2. CASE Throw(w)
  BY <1>2, ThrowTyped
<1>3. CASE WithOwnJob(r, "running") # {} /\ StopOwnJob(w, r)
  BY <1>1, <1>3, StopOwnJobTyped
<1>4. CASE Cancelled(w, r)
  <2>1. jobs' \in [Jobs -> JobRow]
    BY <1>4 DEF Cancelled, RowTypes, JobRow, Lifecycle!Ended
  <2>2. rb' \in [Runs -> [Batches -> BatchRow]]
    <3> DEFINE status == [b \in Batches |-> Outcome(r, b, "cancelled")]
    <3>1. status \in [Batches -> BatchStatus]
      BY <1>1, OutcomeTyped DEF BatchStatus
    <3>2. rb' = [rb EXCEPT ![r] = [b \in Batches |-> [rb[r][b] EXCEPT !.status = status[b]]]]
      BY <1>4 DEF Cancelled, RowTypes
    <3> QED
      BY <1>1, <3>1, <3>2, OutcomesWritten
  <2>3. runs' \in [Runs -> RunRow]
    BY <1>1, <1>4 DEF Cancelled, RowTypes, RunRow
  <2> QED
    BY <1>4, <2>1, <2>2, <2>3, GotoTyped DEF Cancelled, RowTypes, Pcs
<1> QED
  BY <1>2, <1>3, <1>4 DEF ExecuteCancel

LEMMA Written ==
  ASSUME RowTypes, NEW w \in Workers, NEW row \in BatchRow, WriteBatch(w, row),
         worker[w].run \in Runs, worker[w].batch \in Batches
  PROVE  RowTypes'
<1>1. rb' \in [Runs -> [Batches -> BatchRow]]
  BY BatchWritten DEF WriteBatch
<1>2. worker' \in [Workers -> Cycle]
  BY GotoTyped DEF WriteBatch, Pcs
<1> QED
  BY <1>1, <1>2 DEF WriteBatch, RowTypes

\* The advance.
LEMMA AdvanceTyped ==
  ASSUME RowTypes, CyclesRemember, NEW w \in Workers,
         \/ Look(w) \/ FindActive(w) \/ MarkWaiting(w) \/ AssertOwnership(w)
         \/ Enqueue(w) \/ Attach(w)
  PROVE  RowTypes'
<1> DEFINE r == worker[w].run
           b == worker[w].batch
<1>1. r \in Runs
  BY DEF CyclesRemember, Look, FindActive, MarkWaiting, AssertOwnership, Enqueue, Attach
<1>2. CASE Throw(w)
  BY <1>2, ThrowTyped
<1>3. CASE Look(w) /\ ~Throw(w)
  <2>1. InState(r, {"pending"}) # {} =>
          First(InState(r, {"pending"})) \in Batches
    BY FirstIsFirst DEF InState, Scope
  <2> QED
    BY <1>3, <2>1, GotoTyped DEF Look, RowTypes, Cycle, Pcs
<1>4. CASE FindActive(w)
  <2>1. CASE Goto(w, "own")
    BY <1>4, <2>1, GotoTyped DEF FindActive, RowTypes, Pcs
  <2>2. ASSUME NEW j \in Jobs, worker' = [worker EXCEPT ![w].pc = "wait", ![w].job = j]
        PROVE  worker' \in [Workers -> Cycle]
    BY <2>2 DEF RowTypes, Cycle, Pcs
  <2> QED
    BY <1>4, <2>1, <2>2 DEF FindActive, RowTypes
<1>5. CASE MarkWaiting(w) /\ ~Throw(w)
  <2>1. b \in Batches /\ worker[w].job \in Jobs
    BY <1>5 DEF MarkWaiting, CyclesRemember
  <2> QED
    <3> DEFINE row == [rb[r][b] EXCEPT !.status = "waiting", !.wait = worker[w].job]
    <3>1. row \in BatchRow
      <4>1. rb[r][b] \in BatchRow
        BY <1>1, <2>1, Fields
      <4> QED
        BY <2>1, <4>1 DEF BatchRow
    <3>2. WriteBatch(w, row)
      BY <1>5 DEF MarkWaiting
    <3> QED
      BY <1>1, <2>1, <3>1, <3>2, Written
<1>6. CASE AssertOwnership(w) /\ ~Throw(w)
  BY <1>6, GotoTyped DEF AssertOwnership, RowTypes, Pcs
<1>7. CASE Enqueue(w)
  <2>1. b \in Batches
    BY <1>7 DEF Enqueue, CyclesRemember
  <2>2. ASSUME NEW j \in Jobs \cup {NoJob}, Enqueued(w, j)
        PROVE  worker' \in [Workers -> Cycle]
    BY <2>2 DEF Enqueued, RowTypes, Cycle, Pcs
  <2>3. ASSUME NEW j \in DashboardJobs(b), MergeJob(w, j)
        PROVE  jobs' \in [Jobs -> JobRow] /\ worker' \in [Workers -> Cycle]
    <3>1. j \in Jobs
      BY DEF DashboardJobs
    <3>2. jobs' \in [Jobs -> JobRow]
      BY <2>3, <3>1 DEF MergeJob, RowTypes, JobRow, Lifecycle!Active, Lifecycle!Ended
    <3>3. Enqueued(w, j) \/ Enqueued(w, NoJob)
      BY <2>3 DEF MergeJob
    <3> QED
      BY <2>2, <3>1, <3>2, <3>3
  <2>4. ASSUME NEW j \in FreeJobs,
               jobs' = [jobs EXCEPT ![j] = [status |-> "queued", stop |-> FALSE,
                          origin |-> "dashboard", batch |-> b]],
               Enqueued(w, j)
        PROVE  jobs' \in [Jobs -> JobRow] /\ worker' \in [Workers -> Cycle]
    BY <2>1, <2>2, <2>4 DEF FreeJobs, NextId, RowTypes, JobRow,
       Lifecycle!Active, Lifecycle!Origins
  <2> QED
    BY <1>7, <2>2, <2>3, <2>4 DEF Enqueue, RowTypes
<1>8. CASE Attach(w) /\ ~Throw(w)
  <2>1. b \in Batches /\ worker[w].job \in Jobs \cup {NoJob}
    BY <1>8 DEF Attach, CyclesRemember, RowTypes, Cycle
  <2> QED
    <3> DEFINE row == IF worker[w].job = NoJob
                 THEN [rb[r][b] EXCEPT !.status = "completed", !.wait = NoJob]
                 ELSE [status |-> "running", job |-> worker[w].job, wait |-> NoJob]
    <3>1. row \in BatchRow
      <4>1. rb[r][b] \in BatchRow
        BY <1>1, <2>1, Fields
      <4> QED
        BY <2>1, <4>1 DEF BatchRow
    <3>2. WriteBatch(w, row)
      BY <1>8 DEF Attach
    <3> QED
      BY <1>1, <2>1, <3>1, <3>2, Written
<1> QED
  BY <1>2, <1>3, <1>4, <1>5, <1>6, <1>7, <1>8

LEMMA EndCycleTyped ==
  ASSUME RowTypes, NEW w \in Workers, NEW pc \in {"off", "idle"}, EndCycle(w, pc)
  PROVE  worker' \in [Workers -> Cycle]
BY DEF EndCycle, RowTypes, Cycle, Pcs

\* Claims, releases and the life of the process.
LEMMA ClaimsTyped ==
  ASSUME RowTypes, CyclesRemember
  PROVE  /\ Boot \/ Leave => RowTypes'
         /\ \A w \in Workers : Release(w) \/ Crash(w) \/ Fails(w) => RowTypes'
         /\ \A w \in Workers : \A r \in Runs : Claim(w, r) => RowTypes'
         /\ \A r \in Runs : LeaseExpires(r) => RowTypes'
<1>1. Boot => RowTypes'
  <2> SUFFICES ASSUME Boot PROVE RowTypes'
    OBVIOUS
  <2>1. runs' \in [Runs -> RunRow]
    BY DEF Boot, RowTypes, RunRow
  <2>2. jobs' \in [Jobs -> JobRow]
    BY DEF Boot, RowTypes, JobRow, Lifecycle!Active
  <2> QED
    BY <2>1, <2>2, GotoTyped DEF Boot, RowTypes, Pcs
<1>2. Leave => RowTypes'
  BY EndCycleTyped DEF Leave, RowTypes
<1>3. ASSUME NEW w \in Workers, Release(w) PROVE RowTypes'
  <2>1. worker[w].run \in Runs
    BY <1>3 DEF Release, CyclesRemember
  <2>2. runs' \in [Runs -> RunRow]
    <3>1. [runs[worker[w].run] EXCEPT !.owner = NoWorker, !.expired = FALSE] \in RunRow
      BY <2>1, Fields DEF RunRow
    <3> QED
      BY <1>3, <2>1, <3>1, RunWritten DEF Release, RowTypes
  <2>3. \E pc \in {"off", "idle"} : EndCycle(w, pc)
    BY <1>3 DEF Release
  <2> QED
    BY <1>3, <2>2, <2>3, EndCycleTyped DEF Release, RowTypes
<1>4. ASSUME NEW w \in Workers, Crash(w) PROVE RowTypes'
  BY <1>4, EndCycleTyped DEF Crash, RowTypes, RunRow
<1>5. ASSUME NEW w \in Workers, Fails(w) PROVE RowTypes'
  BY <1>5, ThrowTyped DEF Fails
<1>6. ASSUME NEW w \in Workers, NEW r \in Runs, Claim(w, r) PROVE RowTypes'
  <2>1. runs' \in [Runs -> RunRow]
    <3> DEFINE row == [runs[r] EXCEPT !.owner = w, !.expired = FALSE,
                         !.status = IF @ = "queued" THEN "running" ELSE @]
    <3>1. row \in RunRow
      BY Fields DEF RunRow
    <3>2. runs' = [runs EXCEPT ![r] = row]
      BY <1>6 DEF Claim
    <3> QED
      BY <3>1, <3>2, RunWritten
  <2>2. worker' \in [Workers -> Cycle]
    BY <1>6 DEF Claim, RowTypes, Cycle, Pcs
  <2> QED
    BY <1>6, <2>1, <2>2 DEF Claim, RowTypes
<1>7. ASSUME NEW r \in Runs, LeaseExpires(r) PROVE RowTypes'
  BY <1>7 DEF LeaseExpires, RowTypes, RunRow
<1> QED
  BY <1>1, <1>2, <1>3, <1>4, <1>5, <1>6, <1>7

\* A job is given a new row.
LEMMA JobWritten ==
  ASSUME RowTypes, NEW j \in Jobs, NEW row \in JobRow, jobs' = [jobs EXCEPT ![j] = row]
  PROVE  jobs' \in [Jobs -> JobRow]
BY DEF RowTypes

\* The requests for a run.
LEMMA RequestsTyped ==
  ASSUME RowTypes
  PROVE  /\ \A S, pending \in SUBSET Batches : StartRun(S, pending) => RowTypes'
         /\ \A r \in Runs : RequestPause(r) \/ Resume(r) \/ RequestCancel(r) => RowTypes'
         /\ \A r \in Runs : \A b \in Batches : AbsorbErrors(r, b) => RowTypes'
<1>1. ASSUME NEW S \in SUBSET Batches, NEW pending \in SUBSET Batches,
             StartRun(S, pending)
      PROVE  RowTypes'
  <2>1. PICK r \in Runs :
          /\ runs' = [runs EXCEPT ![r].status = "queued"]
          /\ rb' = [rb EXCEPT ![r] = [b \in Batches |->
               IF b \in S
               THEN [rb[r][b] EXCEPT !.status = IF b \in pending THEN "pending"
                                                ELSE "completed"]
               ELSE rb[r][b]]]
    BY <1>1 DEF StartRun, NextId
  <2> DEFINE status == [b \in Batches |->
               IF b \in pending THEN "pending" ELSE "completed"]
             row == [b \in Batches |->
               IF b \in S THEN [rb[r][b] EXCEPT !.status = status[b]] ELSE rb[r][b]]
  <2>2. \A b \in Batches : status[b] \in BatchStatus
    BY DEF BatchStatus
  <2>3. row = [b \in Batches |->
               IF b \in S
               THEN [rb[r][b] EXCEPT !.status = IF b \in pending THEN "pending"
                                                ELSE "completed"]
               ELSE rb[r][b]]
    OBVIOUS
  <2> HIDE DEF status
  <2>4. row \in [Batches -> BatchRow]
    BY <2>2, StatusWritten, Fields
  <2>5. rb' \in [Runs -> [Batches -> BatchRow]]
    BY <2>1, <2>3, <2>4 DEF RowTypes
  <2>6. runs' \in [Runs -> RunRow]
    BY <2>1, RunEnds
  <2> QED
    BY <1>1, <2>5, <2>6 DEF StartRun, RowTypes
<1>2. ASSUME NEW r \in Runs, RequestPause(r) PROVE RowTypes'
  <2>1. [runs[r] EXCEPT !.pause = TRUE] \in RunRow
    BY Fields DEF RunRow
  <2>2. runs' = [runs EXCEPT ![r] = [runs[r] EXCEPT !.pause = TRUE]]
    BY <1>2 DEF RequestPause
  <2> QED
    BY <1>2, <2>1, <2>2, RunWritten DEF RequestPause, RowTypes
<1>3. ASSUME NEW r \in Runs, Resume(r) PROVE RowTypes'
  <2>1. [runs[r] EXCEPT !.status = "running", !.pause = FALSE] \in RunRow
    BY Fields DEF RunRow
  <2>2. runs' = [runs EXCEPT ![r] = [runs[r] EXCEPT !.status = "running", !.pause = FALSE]]
    BY <1>3 DEF Resume
  <2>3. \A j \in Jobs : [jobs[j] EXCEPT !.status = "queued", !.stop = FALSE] \in JobRow
    BY Fields DEF JobRow, Lifecycle!Active
  <2>4. jobs' \in [Jobs -> JobRow]
    BY <1>3, <2>3, Fields DEF Resume
  <2> QED
    BY <1>3, <2>1, <2>2, <2>4, RunWritten DEF Resume, RowTypes
<1>4. ASSUME NEW r \in Runs, RequestCancel(r) PROVE RowTypes'
  BY <1>4, RunEnds DEF RequestCancel, RowTypes
<1>5. ASSUME NEW r \in Runs, NEW b \in Batches, AbsorbErrors(r, b) PROVE RowTypes'
  <2>1. PICK j \in Jobs :
          /\ rb' = [rb EXCEPT ![r][b] = [status |-> "running", job |-> j, wait |-> NoJob]]
          /\ \E row \in JobRow : jobs' = [jobs EXCEPT ![j] = row]
    <3> DEFINE old == rb[r][b].job
               new == [status |-> "queued", stop |-> FALSE, origin |-> "dashboard",
                       batch |-> b]
    <3>1. new \in JobRow
      BY DEF JobRow, Lifecycle!Active, Lifecycle!Origins
    <3>2. old \in Jobs \cup {NoJob}
      BY Fields
    <3>3. old \in Jobs =>
            [jobs[old] EXCEPT !.stop = FALSE,
               !.status = IF @ \in {"completed", "failed", "paused"} THEN "queued"
                          ELSE @] \in JobRow
      BY Fields DEF JobRow, Lifecycle!Active
    <3>4. CASE old # NoJob
      BY <1>5, <3>2, <3>3, <3>4 DEF AbsorbErrors
    <3>5. CASE old = NoJob
      BY <1>5, <3>1, <3>5 DEF AbsorbErrors, FreeJobs, NextId
    <3> QED
      BY <3>4, <3>5
  <2>2. [status |-> "running", job |-> j, wait |-> NoJob] \in BatchRow
    BY DEF BatchRow
  <2> QED
    BY <1>5, <2>1, <2>2, BatchWritten, JobWritten DEF AbsorbErrors, RowTypes
<1> QED
  BY <1>1, <1>2, <1>3, <1>4, <1>5

\* The queue.
LEMMA QueueTyped ==
  ASSUME RowTypes
  PROVE  /\ \A j \in Jobs : WorkerMoves(j) \/ OperatorMoves(j) => RowTypes'
         /\ \A b \in Batches : ManualJob(b) => RowTypes'
         /\ InterruptCampaign => RowTypes'
<1> DEFINE Moved(j, new) ==
             [status |-> new.status, stop |-> new.stop, origin |-> new.origin,
              batch |-> jobs[j].batch]
<1>1. ASSUME NEW j \in Jobs, NEW new \in Lifecycle!Row, MoveJob(j, new)
      PROVE  RowTypes'
  <2>1. Moved(j, new) \in JobRow
    BY Fields DEF JobRow, Lifecycle!Row
  <2>2. jobs' = [jobs EXCEPT ![j] = Moved(j, new)]
    BY <1>1 DEF MoveJob
  <2> HIDE DEF Moved
  <2> QED
    BY <1>1, <2>1, <2>2, JobWritten DEF MoveJob, RowTypes
<1>2. ASSUME NEW j \in Jobs, WorkerMoves(j) PROVE RowTypes'
  <2>1. ASSUME NEW status \in Lifecycle!Active \cup Lifecycle!Ended
        PROVE  Lifecycle!To(Row(jobs[j]), status) \in Lifecycle!Row
    BY Fields DEF JobRow, Row, Lifecycle!To, Lifecycle!Row
  <2> QED
    BY <1>1, <1>2, <2>1 DEF WorkerMoves
<1>3. ASSUME NEW j \in Jobs, OperatorMoves(j) PROVE RowTypes'
  BY <1>1, <1>3 DEF OperatorMoves
<1>4. ASSUME NEW b \in Batches, ManualJob(b) PROVE RowTypes'
  <2>1. [status |-> "queued", stop |-> FALSE, origin |-> "manual", batch |-> b] \in JobRow
    BY DEF JobRow, Lifecycle!Active, Lifecycle!Origins
  <2> QED
    BY <1>4, <2>1, JobWritten DEF ManualJob, FreeJobs, NextId, RowTypes
<1>5. ASSUME InterruptCampaign PROVE RowTypes'
  <2> DEFINE kept(j) == IF JobActive(j) THEN NoJob ELSE j
  <2>1. \A j \in Jobs : [jobs[j] EXCEPT !.status = "deleted"] \in JobRow
    BY Fields DEF JobRow, Lifecycle!Ended
  <2>2. jobs' \in [Jobs -> JobRow]
    BY <1>5, <2>1, Fields DEF InterruptCampaign
  <2>3. \A r \in Runs : \A b \in Batches :
          [rb[r][b] EXCEPT !.job = kept(@), !.wait = kept(@)] \in BatchRow
    BY Fields DEF BatchRow
  <2>4. rb' \in [Runs -> [Batches -> BatchRow]]
    BY <1>5, <2>3 DEF InterruptCampaign
  <2> QED
    BY <1>5, <2>2, <2>4 DEF InterruptCampaign, RowTypes
<1> QED
  BY <1>2, <1>3, <1>4, <1>5

-----------------------------------------------------------------------------
(* What a step of a cycle may change *)

\* Its own run, from running to an end or a pause, and from cancelling to its
\* end only.
MovesRun(r) ==
  \/ UNCHANGED runs
  \/ \E status \in {"paused", "completed", "cancelled"} :
       /\ runs' = [runs EXCEPT ![r].status = status]
       /\ \/ runs[r].status = "running"
          \/ runs[r].status = "cancelling" /\ status = "cancelled"

\* The batches of the run it claims.
MovesBatches(w, r) ==
  \/ UNCHANGED rb
  \/ /\ Owns(w, r) /\ runs[r].status \in {"running", "cancelling"}
     /\ \A q \in Runs \ {r} : rb'[q] = rb[q]

\* Its own place; the run stays the one it claimed, and the batch the one it
\* looked up.
Goes(w, c) ==
  /\ c.run = worker[w].run /\ c.pc \notin {"off", "idle"}
  /\ c.pc \in {"find", "wait", "own", "enqueue", "attach"} =>
       /\ c.batch \in Batches
       /\ Look(w) \/ (Chosen(w) /\ c.batch = worker[w].batch)
  /\ c.pc = "wait" => c.job \in Jobs
  /\ c.pc = "attach" => Enqueue(w)
MovesCycle(w) == \E c \in Cycle : worker' = [worker EXCEPT ![w] = c] /\ Goes(w, c)

Moves(w) ==
  MovesRun(worker[w].run) /\ MovesBatches(w, worker[w].run) /\ MovesCycle(w)

LEMMA GotoMoves ==
  ASSUME RowTypes, CyclesRemember, NEW w \in Workers,
         NEW pc \in Pcs \ {"off", "idle"}, Goto(w, pc),
         pc \in {"find", "wait", "own", "enqueue", "attach"} => Chosen(w),
         pc \notin {"wait", "attach"}
  PROVE  MovesCycle(w)
<1> DEFINE c == [worker[w] EXCEPT !.pc = pc]
<1>1. worker[w] \in Cycle
  BY Fields
<1>2. c \in Cycle /\ c.run = worker[w].run /\ c.pc = pc /\ c.batch = worker[w].batch
  BY <1>1 DEF Cycle
<1>3. worker' = [worker EXCEPT ![w] = c]
  BY DEF Goto
<1>4. Chosen(w) => worker[w].batch \in Batches
  BY DEF CyclesRemember
<1> HIDE DEF c
<1> QED
  BY <1>2, <1>3, <1>4 DEF MovesCycle, Goes

LEMMA ThrowMoves ==
  ASSUME RowTypes, CyclesRemember, NEW w \in Workers, Throw(w)
  PROVE  Moves(w)
<1>1. MovesCycle(w)
  BY GotoMoves DEF Throw, Pcs
<1> QED
  BY <1>1 DEF Throw, Moves, MovesRun, MovesBatches

LEMMA PauseMoves ==
  ASSUME RowTypes, CyclesRemember, NEW w \in Workers, ExecutePause(w)
  PROVE  Moves(w)
<1> DEFINE r == worker[w].run
<1>1. r \in Runs
  BY DEF CyclesRemember, ExecutePause
<1>2. MovesCycle(w)
  <2>1. Goto(w, "reconcile") \/ Goto(w, "release")
    BY DEF ExecutePause, StopOwnJob, Paused
  <2> QED
    BY <2>1, GotoMoves DEF Pcs
<1>3. MovesRun(r)
  BY DEF ExecutePause, StopOwnJob, Paused, MovesRun
<1>4. MovesBatches(w, r)
  BY <1>1 DEF ExecutePause, StopOwnJob, Paused, MovesBatches, RowTypes
<1> QED
  BY <1>2, <1>3, <1>4 DEF Moves

LEMMA ReconcileMoves ==
  ASSUME RowTypes, CyclesRemember, NEW w \in Workers, Reconcile(w)
  PROVE  Moves(w)
<1> DEFINE r == worker[w].run
           b == First(InState(r, ActiveBatch))
<1>1. r \in Runs
  BY DEF CyclesRemember, Reconcile
<1>2. CASE Throw(w)
  BY <1>2, ThrowMoves
<1>3. CASE ~Throw(w)
  <2> HIDE DEF b
  <2>1. Owns(w, r) /\ runs[r].status \in {"running", "cancelling"}
    BY <1>3 DEF Reconcile
  <2>2. MovesCycle(w)
    <3>1. Goto(w, "cancel") \/ Goto(w, "release") \/ Goto(w, "look")
      BY <1>3 DEF Reconcile, ReconcileBatch, EndsBatch, b
    <3> QED
      BY <3>1, GotoMoves DEF Pcs
  <2>3. MovesRun(r)
    BY <1>3 DEF Reconcile, ReconcileBatch, EndsBatch, MovesRun, b
  <2>4. MovesBatches(w, r)
    <3>1. rb' = rb \/ \E status : rb' = [rb EXCEPT ![r][b].status = status]
      BY <1>3 DEF Reconcile, ReconcileBatch, EndsBatch, b
    <3> QED
      BY <1>1, <2>1, <3>1 DEF MovesBatches, RowTypes
  <2> QED
    BY <2>2, <2>3, <2>4 DEF Moves
<1> QED
  BY <1>2, <1>3

LEMMA CancelMoves ==
  ASSUME RowTypes, CyclesRemember, NEW w \in Workers, ExecuteCancel(w)
  PROVE  Moves(w)
<1> DEFINE r == worker[w].run
<1>1. r \in Runs
  BY DEF CyclesRemember, ExecuteCancel
<1>2. CASE Throw(w)
  BY <1>2, ThrowMoves
<1>3. CASE ~Throw(w)
  <2>1. MovesCycle(w)
    <3>1. Goto(w, "release")
      BY <1>3 DEF ExecuteCancel, StopOwnJob, Cancelled
    <3> QED
      BY <3>1, GotoMoves DEF Pcs
  <2>2. MovesRun(r)
    BY <1>3 DEF ExecuteCancel, StopOwnJob, Cancelled, MovesRun
  <2>3. MovesBatches(w, r)
    BY <1>1, <1>3 DEF ExecuteCancel, StopOwnJob, Cancelled, MovesBatches, RowTypes
  <2> QED
    BY <2>1, <2>2, <2>3 DEF Moves
<1> QED
  BY <1>2, <1>3

LEMMA AdvanceMoves ==
  ASSUME RowTypes, CyclesRemember, NEW w \in Workers,
         \/ Look(w) \/ FindActive(w) \/ MarkWaiting(w) \/ AssertOwnership(w)
         \/ Enqueue(w) \/ Attach(w)
  PROVE  Moves(w)
<1> DEFINE r == worker[w].run
           b == worker[w].batch
<1>1. r \in Runs
  BY DEF CyclesRemember, Look, FindActive, MarkWaiting, AssertOwnership, Enqueue, Attach
<1>2. worker[w] \in Cycle
  BY Fields
<1>3. CASE Throw(w)
  BY <1>3, ThrowMoves
<1>4. CASE Look(w) /\ ~Throw(w)
  <2> DEFINE f == First(InState(r, {"pending"}))
  <2>1. InState(r, {"pending"}) # {} => f \in Batches
    BY FirstIsFirst DEF InState, Scope
  <2>2. \/ Goto(w, "release")
        \/ worker' = [worker EXCEPT ![w].pc = "find", ![w].batch = f] /\ f \in Batches
    BY <1>4, <2>1 DEF Look
  <2> HIDE DEF f
  <2>3. ASSUME worker' = [worker EXCEPT ![w].pc = "find", ![w].batch = f], f \in Batches
        PROVE  MovesCycle(w)
    <3> DEFINE c == [worker[w] EXCEPT !.pc = "find", !.batch = f]
    <3>1. c \in Cycle /\ c.run = worker[w].run /\ c.pc = "find" /\ c.batch = f
      BY <1>2, <2>3 DEF Cycle, Pcs
    <3>2. worker' = [worker EXCEPT ![w] = c]
      BY <2>3
    <3> HIDE DEF c
    <3> QED
      BY <1>4, <2>3, <3>1, <3>2 DEF MovesCycle, Goes
  <2>4. MovesCycle(w)
    BY <2>2, <2>3, GotoMoves DEF Pcs
  <2> QED
    BY <1>4, <2>4 DEF Look, Moves, MovesRun, MovesBatches
<1>5. CASE FindActive(w)
  <2>1. Chosen(w) /\ b \in Batches
    BY <1>5 DEF FindActive, CyclesRemember
  <2>2. ASSUME NEW j \in Jobs, worker' = [worker EXCEPT ![w].pc = "wait", ![w].job = j]
        PROVE  MovesCycle(w)
    <3> DEFINE c == [worker[w] EXCEPT !.pc = "wait", !.job = j]
    <3>1. c \in Cycle /\ c.run = worker[w].run /\ c.pc = "wait" /\ c.batch = b /\ c.job = j
      BY <1>2, <2>2 DEF Cycle, Pcs
    <3>2. worker' = [worker EXCEPT ![w] = c]
      BY <2>2
    <3> HIDE DEF c
    <3> QED
      BY <2>1, <2>2, <3>1, <3>2 DEF MovesCycle, Goes
  <2>3. MovesCycle(w)
    BY <1>5, <2>1, <2>2, GotoMoves DEF FindActive, Pcs
  <2> QED
    BY <1>5, <2>3 DEF FindActive, Moves, MovesRun, MovesBatches
<1>6. ASSUME NEW row, WriteBatch(w, row), MayWrite(w)
      PROVE  Moves(w)
  <2>1. MovesCycle(w)
    BY <1>6, GotoMoves DEF WriteBatch, Pcs
  <2>2. MovesBatches(w, r)
    BY <1>1, <1>6 DEF WriteBatch, MayWrite, MovesBatches, RowTypes
  <2> QED
    BY <1>6, <2>1, <2>2 DEF WriteBatch, Moves, MovesRun
<1>7. CASE (MarkWaiting(w) \/ Attach(w)) /\ ~Throw(w)
  BY <1>6, <1>7 DEF MarkWaiting, Attach
<1>8. CASE AssertOwnership(w) /\ ~Throw(w)
  BY <1>8, GotoMoves DEF AssertOwnership, Pcs, Moves, MovesRun, MovesBatches
<1>9. CASE Enqueue(w)
  <2>1. Chosen(w) /\ b \in Batches
    BY <1>9 DEF Enqueue, CyclesRemember
  <2>2. \E j \in Jobs \cup {NoJob} : Enqueued(w, j)
    BY <1>9 DEF Enqueue, MergeJob, DashboardJobs, FreeJobs, NextId
  <2>3. ASSUME NEW j \in Jobs \cup {NoJob}, Enqueued(w, j)
        PROVE  MovesCycle(w)
    <3> DEFINE c == [worker[w] EXCEPT !.pc = "attach", !.job = j]
    <3>1. c \in Cycle /\ c.run = worker[w].run /\ c.pc = "attach" /\ c.batch = b
      BY <1>2, <2>3 DEF Cycle, Pcs
    <3>2. worker' = [worker EXCEPT ![w] = c]
      BY <2>3 DEF Enqueued
    <3> HIDE DEF c
    <3> QED
      BY <1>9, <2>1, <3>1, <3>2 DEF MovesCycle, Goes
  <2> QED
    BY <1>9, <2>2, <2>3 DEF Enqueue, Moves, MovesRun, MovesBatches
<1> QED
  BY <1>3, <1>4, <1>5, <1>7, <1>8, <1>9

LEMMA StepMoves ==
  ASSUME RowTypes, CyclesRemember, NEW w \in Workers, Step(w) \/ Fails(w)
  PROVE  AtWork(w) /\ (Release(w) \/ Moves(w))
<1>1. AtWork(w)
  BY DEF Step, Fails, ExecutePause, Reconcile, ExecuteCancel, Look, FindActive,
     MarkWaiting, AssertOwnership, Enqueue, Attach, Release
<1>2. Release(w) \/ Moves(w)
  BY PauseMoves, ReconcileMoves, CancelMoves, AdvanceMoves, ThrowMoves DEF Step, Fails
<1> QED
  BY <1>1, <1>2

\* The steps of the others: nobody gains or loses a claim, no run vanishes.
Calm ==
  /\ UNCHANGED worker
  /\ \A r \in Runs : /\ runs'[r].owner = runs[r].owner
                     /\ runs'[r].status = "absent" => runs[r].status = "absent"

LEMMA OthersCalm ==
  ASSUME RowTypes,
         \/ Operators \/ \E j \in Jobs : WorkerMoves(j)
         \/ \E r \in Runs : LeaseExpires(r)
  PROVE  Calm
<1>1. ASSUME NEW S \in SUBSET Batches, NEW pending \in SUBSET Batches,
             StartRun(S, pending)
      PROVE  Calm
  <2>1. \E r \in Runs : runs' = [runs EXCEPT ![r].status = "queued"]
    BY <1>1 DEF StartRun, NextId
  <2> QED
    BY <1>1, <2>1 DEF StartRun, Calm, RowTypes, RunRow
<1>2. ASSUME NEW r \in Runs, RequestPause(r) \/ Resume(r) \/ RequestCancel(r) \/ LeaseExpires(r)
      PROVE  Calm
  <2>1. UNCHANGED worker /\ \A q \in Runs \ {r} : runs'[q] = runs[q]
    BY <1>2 DEF RequestPause, Resume, RequestCancel, LeaseExpires, RowTypes
  <2>2. runs[r] \in RunRow
    BY Fields
  <2>3. CASE RequestPause(r)
    BY <2>1, <2>2, <2>3 DEF RequestPause, Calm, RowTypes, RunRow
  <2>4. CASE Resume(r)
    BY <2>1, <2>2, <2>4 DEF Resume, Calm, RowTypes, RunRow
  <2>5. CASE RequestCancel(r)
    BY <2>1, <2>2, <2>5 DEF RequestCancel, Calm, RowTypes, RunRow
  <2>6. CASE LeaseExpires(r)
    BY <2>1, <2>2, <2>6 DEF LeaseExpires, Calm, RowTypes, RunRow
  <2> QED
    BY <1>2, <2>3, <2>4, <2>5, <2>6
<1>3. ASSUME UNCHANGED <<runs, worker>> PROVE Calm
  BY <1>3 DEF Calm
<1>4. ASSUME NEW r \in Runs, NEW b \in Batches, AbsorbErrors(r, b) PROVE Calm
  BY <1>3, <1>4 DEF AbsorbErrors
<1>5. ASSUME NEW j \in Jobs, WorkerMoves(j) \/ OperatorMoves(j) PROVE Calm
  BY <1>3, <1>5 DEF WorkerMoves, OperatorMoves, MoveJob
<1>6. ASSUME NEW b \in Batches, ManualJob(b) PROVE Calm
  BY <1>3, <1>6 DEF ManualJob
<1>7. ASSUME InterruptCampaign PROVE Calm
  BY <1>3, <1>7 DEF InterruptCampaign
<1> QED
  BY <1>1, <1>2, <1>4, <1>5, <1>6, <1>7 DEF Operators, StartFull, StartScheduled

-----------------------------------------------------------------------------
(* The invariant is kept *)

\* A claim is taken by an idle cycle, which has no other, and is gone when its
\* cycle is.
LEMMA ClaimsKept ==
  ASSUME IInv, Next
  PROVE  ClaimsNameTheirCycle' /\ CyclesRemember'
<1> USE DEF ClaimsNameTheirCycle, CyclesRemember
<1>0. RowTypes /\ ClaimsNameTheirCycle /\ CyclesRemember
  BY Typed DEF IInv
<1> DEFINE Goal == ClaimsNameTheirCycle' /\ CyclesRemember'
<1>1. CASE Calm
  BY <1>0, <1>1 DEF Calm
<1>2. ASSUME NEW w \in Workers, AtWork(w), Moves(w) PROVE Goal
  <2> DEFINE r == worker[w].run
  <2>1. PICK c \in Cycle :
          worker' = [worker EXCEPT ![w] = c] /\ Goes(w, c)
    BY <1>2 DEF Moves, MovesCycle
  <2>2. worker'[w] = c /\ \A v \in Workers \ {w} : worker'[v] = worker[v]
    BY <1>0, <2>1 DEF RowTypes
  <2>3. \A q \in Runs : /\ runs'[q].owner = runs[q].owner
                        /\ runs'[q].status = "absent" => runs[q].status = "absent"
    BY <1>0, <1>2 DEF Moves, MovesRun, RowTypes, RunRow
  <2>4. r \in Runs
    BY <1>0, <1>2
  <2> QED
    BY <1>0, <1>2, <2>1, <2>2, <2>3, <2>4 DEF Goes
<1>3. ASSUME NEW w \in Workers, NEW pc \in {"off", "idle"}, EndCycle(w, pc),
             \A q \in Runs : /\ runs'[q].owner # w
                             /\ \/ runs'[q].owner = runs[q].owner
                                \/ runs'[q].owner \notin Workers
                             /\ runs'[q].status = runs[q].status
      PROVE  Goal
  <2>1. \A v \in Workers \ {w} : worker'[v] = worker[v]
    BY <1>3 DEF EndCycle
  <2>2. worker'[w].pc \in {"off", "idle"}
    BY <1>0, <1>3 DEF EndCycle, RowTypes
  <2> QED
    BY <1>0, <1>3, <2>1, <2>2
<1>4. ASSUME NEW w \in Workers, Release(w) PROVE Goal
  <2> DEFINE r == worker[w].run
  <2>1. r \in Runs
    BY <1>0, <1>4 DEF Release
  <2>2. \E pc \in {"off", "idle"} : EndCycle(w, pc)
    BY <1>4 DEF Release
  <2>3. runs' = IF Owns(w, r)
                THEN [runs EXCEPT ![r].owner = NoWorker, ![r].expired = FALSE]
                ELSE runs
    BY <1>4 DEF Release
  <2> HIDE DEF r
  <2>4. \A q \in Runs : runs[q].owner = w => q = r
    BY <1>0 DEF r
  <2>5. \A q \in Runs : runs'[q].status = runs[q].status
    BY <1>0, <2>1, <2>3 DEF RowTypes, RunRow
  <2>6. \A q \in Runs : \/ runs'[q].owner = runs[q].owner /\ runs[q].owner # w
                        \/ runs'[q].owner = NoWorker
    BY <1>0, <2>1, <2>3, <2>4 DEF RowTypes, RunRow
  <2> QED
    BY <1>3, <2>2, <2>5, <2>6
<1>5. ASSUME NEW w \in Workers, Crash(w) PROVE Goal
  <2>1. \A q \in Runs : /\ runs'[q].owner = IF runs[q].owner = w THEN Gone ELSE runs[q].owner
                        /\ runs'[q].status = runs[q].status
    BY <1>0, <1>5 DEF Crash, RowTypes, RunRow
  <2> QED
    BY <1>3, <1>5, <2>1 DEF Crash
<1>6. CASE Leave
  BY <1>0, <1>3, <1>6 DEF Leave
<1>7. CASE Boot
  <2>1. \A q \in Runs : /\ runs'[q].owner \in {runs[q].owner, NoWorker}
                        /\ runs'[q].status = runs[q].status
    <3>1. \A q \in Runs : runs[q] \in RunRow
      BY <1>0, Fields
    <3>2. \A row \in RunRow :
            LET new == [row EXCEPT !.owner = NoWorker, !.expired = FALSE]
            IN  new.owner = NoWorker /\ new.status = row.status
      BY DEF RunRow
    <3> QED
      BY <1>7, <3>1, <3>2 DEF Boot
  <2>2. \A v \in Workers \ {Main} : worker'[v] = worker[v]
    BY <1>0, <1>7 DEF Boot, Goto, RowTypes
  <2>3. worker'[Main].pc = "idle" /\ \A q \in Runs : runs'[q].owner # Main
    <3>1. worker[Main] \in Cycle
      BY <1>0, Fields
    <3>2. worker'[Main].pc = "idle"
      BY <1>0, <1>7, <3>1 DEF Boot, Goto, RowTypes, Cycle
    <3>3. \A q \in Runs : runs[q].owner # Main
      BY <1>0, <1>7 DEF Boot
    <3> QED
      BY <2>1, <3>2, <3>3
  <2> QED
    BY <1>0, <2>1, <2>2, <2>3
<1>8. ASSUME NEW w \in Workers, NEW r \in Runs, Claim(w, r) PROVE Goal
  <2>1. \A q \in Runs \ {r} : runs'[q] = runs[q]
    BY <1>0, <1>8 DEF Claim, RowTypes
  <2>2. runs'[r].owner = w /\ runs'[r].status # "absent"
    BY <1>0, <1>8 DEF Claim, Claimable, RowTypes, RunRow
  <2>3. worker'[w].pc = "pause" /\ worker'[w].run = r
    BY <1>0, <1>8 DEF Claim, RowTypes, Cycle
  <2>4. \A v \in Workers \ {w} : worker'[v] = worker[v]
    BY <1>0, <1>8 DEF Claim, RowTypes
  <2>5. \A q \in Runs : runs[q].owner # w
    BY <1>0, <1>8 DEF Claim
  <2> QED
    BY <1>0, <2>1, <2>2, <2>3, <2>4, <2>5
<1> QED
  BY <1>0, <1>1, <1>2, <1>4, <1>5, <1>6, <1>7, <1>8, OthersCalm, StepMoves
  DEF Next, Failure

\* No run vanishes.
LEMMA RunsStay ==
  ASSUME IInv, Next
  PROVE  \A r \in Runs : runs'[r].status = "absent" => runs[r].status = "absent"
<1>0. RowTypes /\ CyclesRemember
  BY Typed DEF IInv
<1> DEFINE Goal == \A r \in Runs : runs'[r].status = "absent" => runs[r].status = "absent"
<1>1. CASE Calm
  BY <1>1 DEF Calm
<1>2. ASSUME NEW w \in Workers, AtWork(w), Moves(w) PROVE Goal
  <2>1. worker[w].run \in Runs
    BY <1>0, <1>2 DEF CyclesRemember
  <2>2. runs' = runs \/ \E status \in {"paused", "completed", "cancelled"} :
                           runs' = [runs EXCEPT ![worker[w].run].status = status]
    BY <1>2 DEF Moves, MovesRun
  <2> QED
    BY <1>0, <2>1, <2>2 DEF RowTypes, RunRow
<1>3. ASSUME NEW w \in Workers, Release(w) PROVE Goal
  <2>1. worker[w].run \in Runs
    BY <1>0, <1>3 DEF Release, CyclesRemember
  <2>2. runs' = runs \/ runs' = [runs EXCEPT ![worker[w].run].owner = NoWorker,
                                              ![worker[w].run].expired = FALSE]
    BY <1>3 DEF Release
  <2> QED
    BY <1>0, <2>1, <2>2 DEF RowTypes, RunRow
<1>4. ASSUME NEW w \in Workers, Crash(w) PROVE Goal
  BY <1>0, <1>4 DEF Crash, RowTypes, RunRow
<1>5. CASE Leave
  BY <1>5 DEF Leave
<1>6. CASE Boot
  <2>1. \A row \in RunRow :
          [row EXCEPT !.owner = NoWorker, !.expired = FALSE].status = row.status
    BY DEF RunRow
  <2> QED
    BY <1>0, <1>6, <2>1, Fields DEF Boot
<1>7. ASSUME NEW w \in Workers, NEW r \in Runs, Claim(w, r) PROVE Goal
  <2>1. \A q \in Runs \ {r} : runs'[q] = runs[q]
    BY <1>0, <1>7 DEF Claim, RowTypes
  <2>2. runs[r].status # "absent"
    BY <1>7 DEF Claim, Claimable
  <2>3. runs'[r].status # "absent"
    BY <1>0, <1>7, <2>2 DEF Claim, RowTypes, RunRow
  <2> QED
    BY <2>1, <2>3
<1> QED
  BY <1>0, <1>1, <1>2, <1>3, <1>4, <1>5, <1>6, <1>7, OthersCalm, StepMoves
  DEF Next, Failure

\* Only a run that was started has batches.
LEMMA AbsentKept ==
  ASSUME IInv, Next
  PROVE  AbsentRunsAreEmpty'
<1>0. RowTypes /\ CyclesRemember /\ AbsentRunsAreEmpty
  BY Typed DEF IInv
<1> USE DEF AbsentRunsAreEmpty
<1>1. CASE UNCHANGED rb
  BY <1>0, <1>1, RunsStay
<1>2. ASSUME NEW S \in SUBSET Batches, NEW pending \in SUBSET Batches,
             StartRun(S, pending)
      PROVE  AbsentRunsAreEmpty'
  <2>1. PICK r \in Runs :
          /\ runs' = [runs EXCEPT ![r].status = "queued"]
          /\ \E rows : rb' = [rb EXCEPT ![r] = rows]
    BY <1>2 DEF StartRun, NextId
  <2>2. runs'[r].status # "absent" /\ \A q \in Runs \ {r} : rb'[q] = rb[q]
    BY <1>0, <2>1 DEF RowTypes, RunRow
  <2> QED
    BY <1>0, <2>2, RunsStay
<1>3. ASSUME NEW w \in Workers, AtWork(w), Moves(w) PROVE AbsentRunsAreEmpty'
  <2>1. CASE UNCHANGED rb
    BY <1>1, <2>1
  <2>2. CASE /\ runs[worker[w].run].status \in {"running", "cancelling"}
             /\ \A q \in Runs \ {worker[w].run} : rb'[q] = rb[q]
    BY <1>0, <2>2, RunsStay
  <2> QED
    BY <1>3, <2>1, <2>2 DEF Moves, MovesBatches
<1>4. ASSUME NEW r \in Runs, NEW b \in Batches, AbsorbErrors(r, b)
      PROVE  AbsentRunsAreEmpty'
  <2>1. \E row : rb' = [rb EXCEPT ![r][b] = row]
    BY <1>4 DEF AbsorbErrors
  <2>2. \A q \in Runs \ {r} : rb'[q] = rb[q]
    BY <1>0, <2>1 DEF RowTypes
  <2>3. runs[r].status # "absent"
    BY <1>4 DEF AbsorbErrors, Absorbing
  <2> QED
    BY <1>0, <2>2, <2>3, RunsStay
<1>5. CASE InterruptCampaign
  <2>1. \A r \in Runs : \A b \in Batches : rb'[r][b].status = rb[r][b].status
    <3> SUFFICES ASSUME NEW r \in Runs, NEW b \in Batches
                 PROVE  rb'[r][b].status = rb[r][b].status
      OBVIOUS
    <3>1. rb[r][b] \in BatchRow
      BY <1>0, Fields
    <3>2. \E i, j : rb'[r][b] = [rb[r][b] EXCEPT !.job = i, !.wait = j]
      BY <1>5 DEF InterruptCampaign
    <3> QED
      BY <3>1, <3>2 DEF BatchRow
  <2> QED
    BY <1>0, <2>1, RunsStay
<1>6. ASSUME NEW j \in Jobs, OperatorMoves(j) \/ WorkerMoves(j) PROVE UNCHANGED rb
  BY <1>6 DEF OperatorMoves, WorkerMoves, MoveJob
<1>7. Operators => AbsentRunsAreEmpty'
  BY <1>1, <1>2, <1>4, <1>5, <1>6 DEF Operators, StartFull, StartScheduled,
     RequestPause, Resume, RequestCancel, ManualJob
<1>8. ASSUME NEW w \in Workers, Release(w) \/ Crash(w) PROVE UNCHANGED rb
  BY <1>8 DEF Release, Crash
<1>9. ASSUME NEW w \in Workers, Step(w) \/ Fails(w) PROVE AbsentRunsAreEmpty'
  BY <1>0, <1>1, <1>3, <1>8, <1>9, StepMoves
<1>10. Boot \/ Leave => UNCHANGED rb
  BY DEF Boot, Leave
<1>11. ASSUME NEW r \in Runs, LeaseExpires(r) \/ \E w \in Workers : Claim(w, r)
       PROVE  UNCHANGED rb
  BY <1>11 DEF LeaseExpires, Claim
<1> QED
  BY <1>1, <1>6, <1>7, <1>8, <1>9, <1>10, <1>11 DEF Next, Failure

\* A job of the dashboard stays one.
LEMMA DashboardStays ==
  ASSUME IInv, Next, NEW j \in Jobs,
         jobs[j].status # "absent", jobs[j].origin = "dashboard"
  PROVE  jobs'[j].status # "absent" /\ jobs'[j].origin = "dashboard"
<1>0. RowTypes /\ CyclesRemember
  BY Typed DEF IInv
<1> DEFINE Goal == jobs'[j].status # "absent" /\ jobs'[j].origin = "dashboard"
<1>1. CASE UNCHANGED jobs
  BY <1>1
<1>2. jobs[j] \in JobRow
  BY <1>0, Fields
<1>3. \A status : status # "absent" =>
        LET new == [jobs[j] EXCEPT !.status = status]
        IN  new.status # "absent" /\ new.origin = "dashboard"
  BY <1>2 DEF JobRow
<1>4. \A status, stop : status # "absent" =>
        LET new == [jobs[j] EXCEPT !.status = status, !.stop = stop]
        IN  new.status # "absent" /\ new.origin = "dashboard"
  BY <1>2 DEF JobRow
<1>5. \A stop : LET new == [jobs[j] EXCEPT !.stop = stop]
                IN  new.status # "absent" /\ new.origin = "dashboard"
  BY <1>2 DEF JobRow
<1>6. CASE Boot
  <2>1. \/ jobs'[j] = jobs[j]
        \/ jobs'[j] = [jobs[j] EXCEPT !.status = "paused"]
        \/ jobs'[j] = [jobs[j] EXCEPT !.status = "queued"]
    BY <1>6, Zenon DEF Boot
  <2> QED
    BY <1>2, <2>1 DEF JobRow
<1>7. ASSUME NEW w \in Workers, NEW r \in Runs, StopOwnJob(w, r) PROVE Goal
  BY <1>0, <1>5, <1>7 DEF StopOwnJob, RowTypes
<1>8. ASSUME NEW w \in Workers, NEW r \in Runs, Paused(w, r) PROVE Goal
  BY <1>4, <1>8 DEF Paused
<1>9. ASSUME NEW w \in Workers, NEW r \in Runs, Cancelled(w, r) PROVE Goal
  BY <1>3, <1>9 DEF Cancelled
<1>10. ASSUME NEW w \in Workers, Enqueue(w) PROVE Goal
  <2>1. ASSUME NEW k \in FreeJobs, NEW row, jobs' = [jobs EXCEPT ![k] = row] PROVE Goal
    BY <1>0, <2>1 DEF FreeJobs, NextId, RowTypes
  <2>2. ASSUME NEW k \in Jobs,
               jobs' = [jobs EXCEPT ![k].status = "queued", ![k].stop = FALSE]
        PROVE  Goal
    BY <1>0, <1>4, <2>2 DEF RowTypes
  <2>3. ASSUME NEW k \in Jobs, jobs' = [jobs EXCEPT ![k].status = "completed"]
        PROVE  Goal
    BY <1>0, <1>3, <2>3 DEF RowTypes
  <2> QED
    BY <1>1, <1>10, <2>1, <2>2, <2>3 DEF Enqueue, MergeJob, DashboardJobs
<1>11. ASSUME NEW r \in Runs, Resume(r) PROVE Goal
  BY <1>4, <1>11 DEF Resume
<1>12. ASSUME NEW r \in Runs, NEW b \in Batches, AbsorbErrors(r, b) PROVE Goal
  <2> DEFINE old == rb[r][b].job
             row == [jobs[old] EXCEPT !.stop = FALSE,
                       !.status = IF @ \in {"completed", "failed", "paused"}
                                  THEN "queued" ELSE @]
  <2>1. old = j => row.status # "absent" /\ row.origin = "dashboard"
    BY <1>2 DEF JobRow
  <2>2. \/ jobs' = [jobs EXCEPT ![old] = row]
        \/ \E k \in FreeJobs : \E new : jobs' = [jobs EXCEPT ![k] = new]
    BY <1>12 DEF AbsorbErrors
  <2> HIDE DEF row, old
  <2> QED
    BY <1>0, <2>1, <2>2 DEF FreeJobs, NextId, RowTypes
<1>13. ASSUME NEW k \in Jobs, WorkerMoves(k) PROVE Goal
  <2>1. PICK status \in Lifecycle!Active \cup Lifecycle!Ended :
          MoveJob(k, Lifecycle!To(Row(jobs[k]), status))
    BY <1>13 DEF WorkerMoves
  <2>2. jobs' = [jobs EXCEPT ![k] = [status |-> status, stop |-> jobs[k].stop,
                   origin |-> jobs[k].origin, batch |-> jobs[k].batch]]
    BY <2>1 DEF MoveJob, Lifecycle!To, Row
  <2>3. status # "absent"
    BY DEF Lifecycle!Active, Lifecycle!Ended
  <2> QED
    BY <1>0, <2>2, <2>3 DEF RowTypes
<1>14. ASSUME NEW k \in Jobs, OperatorMoves(k) PROVE Goal
  <2>1. jobs[k].origin = "manual" /\ \E row : jobs' = [jobs EXCEPT ![k] = row]
    BY <1>14 DEF OperatorMoves, MoveJob, Lifecycle!OperatorMove, Lifecycle!OverwrittenMove,
       Lifecycle!Overwrites, Lifecycle!LeavesOverwritten, Row
  <2> QED
    BY <1>0, <2>1 DEF RowTypes
<1>15. ASSUME NEW b \in Batches, ManualJob(b) PROVE Goal
  <2>1. \E k \in FreeJobs : \E row : jobs' = [jobs EXCEPT ![k] = row]
    BY <1>15 DEF ManualJob
  <2> QED
    BY <1>0, <2>1 DEF FreeJobs, NextId, RowTypes
<1>16. CASE InterruptCampaign
  BY <1>3, <1>16 DEF InterruptCampaign
<1>17. Operators => Goal
  BY <1>1, <1>11, <1>12, <1>14, <1>15, <1>16 DEF Operators, StartFull, StartScheduled,
     StartRun, RequestPause, RequestCancel
<1>18. ASSUME NEW w \in Workers, Step(w) \/ Fails(w) \/ Crash(w) PROVE Goal
  <2>1. ExecutePause(w) \/ ExecuteCancel(w) => worker[w].run \in Runs
    BY <1>0 DEF ExecutePause, ExecuteCancel, CyclesRemember
  <2>2. ExecutePause(w) \/ ExecuteCancel(w) => Goal
    BY <1>1, <1>7, <1>8, <1>9, <2>1 DEF ExecutePause, ExecuteCancel, Throw
  <2>3. Reconcile(w) \/ Look(w) \/ FindActive(w) \/ MarkWaiting(w) \/ AssertOwnership(w)
        \/ Attach(w) \/ Release(w) \/ Fails(w) \/ Crash(w) => UNCHANGED jobs
    BY DEF Reconcile, Look, FindActive, MarkWaiting, AssertOwnership, Attach,
       Release, Fails, Crash, Throw, WriteBatch
  <2> QED
    BY <1>1, <1>10, <1>18, <2>2, <2>3 DEF Step
<1>19. Leave \/ (\E r \in Runs : LeaseExpires(r) \/ \E w \in Workers : Claim(w, r))
         => UNCHANGED jobs
  BY DEF Leave, LeaseExpires, Claim
<1> QED
  BY <1>1, <1>6, <1>13, <1>17, <1>18, <1>19 DEF Next, Failure

\* The jobs attached to batches are those of the dashboard: found, inserted or
\* kept.
LEMMA AttachedKept ==
  ASSUME IInv, Next
  PROVE  AttachedJobsAreOurs'
<1>0. RowTypes /\ CyclesRemember /\ AttachedJobsAreOurs
  BY Typed DEF IInv
<1> DEFINE Mine(j) == j # NoJob => jobs'[j].status # "absent" /\ jobs'[j].origin = "dashboard"
<1>1. ASSUME NEW j \in Jobs \cup {NoJob}, OfDashboard(j) PROVE Mine(j)
  BY <1>1, DashboardStays DEF OfDashboard
<1>2. \A r \in Runs : \A b \in Batches : Mine(rb[r][b].job)
  <2>1. \A r \in Runs : \A b \in Batches :
          rb[r][b].job \in Jobs \cup {NoJob} /\ OfDashboard(rb[r][b].job)
    BY <1>0, Fields DEF AttachedJobsAreOurs
  <2> HIDE DEF Mine
  <2> QED
    BY <1>1, <2>1
<1>3. ASSUME NEW w \in Workers, worker[w].pc = "attach" PROVE Mine(worker[w].job)
  <2>1. worker[w].job \in Jobs \cup {NoJob}
    BY <1>0, Fields DEF Cycle
  <2>2. OfDashboard(worker[w].job)
    BY <1>0, <1>3 DEF AttachedJobsAreOurs
  <2> QED
    BY <1>1, <2>1, <2>2
<1> DEFINE RowsOurs == \A r \in Runs : \A b \in Batches : Mine(rb'[r][b].job)
           CyclesOurs == \A w \in Workers : worker'[w].pc = "attach" => Mine(worker'[w].job)
<1>4. ASSUME UNCHANGED worker PROVE CyclesOurs
  BY <1>3, <1>4
<1>5. Mine(NoJob)
  OBVIOUS
<1> HIDE DEF Mine
<1>6. ASSUME NEW r \in Runs, NEW b \in Batches, NEW row, Mine(row.job),
             rb' = [rb EXCEPT ![r][b] = row]
      PROVE  RowsOurs
  <2>1. \A q \in Runs : \A c \in Batches : rb'[q][c] = rb[q][c] \/ rb'[q][c] = row
    BY <1>0, <1>6 DEF RowTypes
  <2> QED
    BY <1>2, <1>6, <2>1
<1>7. ASSUME \A r \in Runs : \A b \in Batches : rb'[r][b].job = rb[r][b].job
      PROVE  RowsOurs
  BY <1>2, <1>7
<1>8. UNCHANGED rb => RowsOurs
  BY <1>7
\* The rows
<1>9. ASSUME NEW S \in SUBSET Batches, NEW pending \in SUBSET Batches,
             StartRun(S, pending)
      PROVE  RowsOurs
  <2>1. PICK r \in Runs : rb' = [rb EXCEPT ![r] = [b \in Batches |->
               IF b \in S
               THEN [rb[r][b] EXCEPT !.status = IF b \in pending THEN "pending"
                                                ELSE "completed"]
               ELSE rb[r][b]]]
    BY <1>9 DEF StartRun, NextId
  <2> SUFFICES ASSUME NEW q \in Runs, NEW b \in Batches
               PROVE  rb'[q][b].job = rb[q][b].job
    BY <1>7
  <2>2. rb[q][b] \in BatchRow
    BY <1>0, Fields
  <2>3. \/ rb'[q][b] = rb[q][b]
        \/ rb'[q][b] = [rb[q][b] EXCEPT !.status = "pending"]
        \/ rb'[q][b] = [rb[q][b] EXCEPT !.status = "completed"]
    BY <1>0, <2>1 DEF RowTypes
  <2> QED
    BY <2>2, <2>3 DEF BatchRow
<1>10. ASSUME NEW w \in Workers, NEW r \in Runs, Paused(w, r) \/ Cancelled(w, r)
       PROVE  RowsOurs
  <2> SUFFICES ASSUME NEW q \in Runs, NEW b \in Batches
               PROVE  rb'[q][b].job = rb[q][b].job
    BY <1>7
  <2>1. rb[q][b] \in BatchRow
    BY <1>0, Fields
  <2>2. CASE Paused(w, r)
    <3> DEFINE status == Outcome(r, b, IF b \in WithOwnJob(r, "cancelled")
                                       THEN "cancelled" ELSE rb[r][b].status)
    <3>1. rb'[q][b] = rb[q][b] \/ rb'[q][b] = [rb[q][b] EXCEPT !.status = status]
      BY <1>0, <2>2 DEF Paused, RowTypes
    <3> HIDE DEF status
    <3> QED
      BY <2>1, <3>1 DEF BatchRow
  <2>3. CASE Cancelled(w, r)
    <3> DEFINE status == Outcome(r, b, "cancelled")
    <3>1. rb'[q][b] = rb[q][b] \/ rb'[q][b] = [rb[q][b] EXCEPT !.status = status]
      BY <1>0, <2>3 DEF Cancelled, RowTypes
    <3> HIDE DEF status
    <3> QED
      BY <2>1, <3>1 DEF BatchRow
  <2> QED
    BY <1>10, <2>2, <2>3
<1>11. ASSUME NEW w \in Workers, Reconcile(w) PROVE RowsOurs
  <2> DEFINE r == worker[w].run
             b == First(InState(r, ActiveBatch))
  <2>1. r \in Runs
    BY <1>0, <1>11 DEF Reconcile, CyclesRemember
  <2>2. \/ UNCHANGED rb
        \/ /\ InState(r, ActiveBatch) # {}
           /\ \E status : rb' = [rb EXCEPT ![r][b].status = status]
    BY <1>11 DEF Reconcile, Throw, ReconcileBatch, EndsBatch
  <2>3. InState(r, ActiveBatch) # {} => b \in Batches
    BY FirstIsFirst DEF InState, Scope
  <2> HIDE DEF b
  <2>4. ASSUME b \in Batches, NEW status, rb' = [rb EXCEPT ![r][b].status = status]
        PROVE  RowsOurs
    <3> DEFINE row == [rb[r][b] EXCEPT !.status = status]
    <3>1. Mine(row.job)
      <4>1. rb[r][b] \in BatchRow
        BY <1>0, <2>1, <2>4, Fields
      <4>2. row.job = rb[r][b].job
        BY <4>1 DEF BatchRow
      <4> QED
        BY <1>2, <2>1, <2>4, <4>2
    <3>2. rb' = [rb EXCEPT ![r][b] = row]
      BY <2>4
    <3> HIDE DEF row
    <3> QED
      BY <1>6, <2>1, <2>4, <3>1, <3>2
  <2> QED
    BY <1>8, <2>2, <2>3, <2>4
<1>12. ASSUME NEW w \in Workers, MarkWaiting(w) \/ Attach(w) PROVE RowsOurs
  <2> DEFINE r == worker[w].run
             b == worker[w].batch
  <2>1. r \in Runs /\ b \in Batches
    BY <1>0, <1>12 DEF MarkWaiting, Attach, CyclesRemember
  <2>2. rb[r][b] \in BatchRow
    BY <1>0, <2>1, Fields
  <2>3. \/ UNCHANGED rb
        \/ WriteBatch(w, [rb[r][b] EXCEPT !.status = "waiting", !.wait = worker[w].job])
        \/ WriteBatch(w, [rb[r][b] EXCEPT !.status = "completed", !.wait = NoJob])
        \/ /\ worker[w].pc = "attach"
           /\ WriteBatch(w, [status |-> "running", job |-> worker[w].job, wait |-> NoJob])
    BY <1>12 DEF MarkWaiting, Attach, Throw
  <2>4. UNCHANGED rb \/ \E row : Mine(row.job) /\ rb' = [rb EXCEPT ![r][b] = row]
    <3>1. [rb[r][b] EXCEPT !.status = "waiting", !.wait = worker[w].job].job = rb[r][b].job
      BY <2>2 DEF BatchRow
    <3>2. [rb[r][b] EXCEPT !.status = "completed", !.wait = NoJob].job = rb[r][b].job
      BY <2>2 DEF BatchRow
    <3>3. Mine(rb[r][b].job)
      BY <1>2, <2>1
    <3>4. worker[w].pc = "attach" => Mine(worker[w].job)
      BY <1>3
    <3> QED
      BY <2>3, <3>1, <3>2, <3>3, <3>4 DEF WriteBatch
  <2> QED
    BY <1>6, <1>8, <2>1, <2>4
<1>13. ASSUME NEW r \in Runs, NEW b \in Batches, AbsorbErrors(r, b) PROVE RowsOurs
  <2> DEFINE row(j) == [status |-> "running", job |-> j, wait |-> NoJob]
             new == [status |-> "queued", stop |-> FALSE, origin |-> "dashboard",
                     batch |-> b]
  <2>1. CASE rb' = [rb EXCEPT ![r][b] = row(rb[r][b].job)]
    BY <1>2, <1>6, <2>1
  <2>2. ASSUME NEW j \in FreeJobs, rb' = [rb EXCEPT ![r][b] = row(j)],
               jobs' = [jobs EXCEPT ![j] = new]
        PROVE  RowsOurs
    <3>1. j \in Jobs
      BY DEF FreeJobs, NextId
    <3>2. jobs'[j] = new
      BY <1>0, <2>2, <3>1 DEF RowTypes
    <3>3. Mine(j)
      BY <3>2 DEF Mine
    <3>4. row(j).job = j
      OBVIOUS
    <3> HIDE DEF row
    <3> QED
      BY <1>6, <2>2, <3>3, <3>4
  <2> QED
    BY <1>13, <2>1, <2>2 DEF AbsorbErrors
<1>14. InterruptCampaign => RowsOurs
  <2> SUFFICES ASSUME InterruptCampaign, NEW r \in Runs, NEW b \in Batches
               PROVE  Mine(rb'[r][b].job)
    OBVIOUS
  <2>1. rb[r][b] \in BatchRow
    BY <1>0, Fields
  <2>2. \E i \in {NoJob, rb[r][b].job} : \E j :
          rb'[r][b] = [rb[r][b] EXCEPT !.job = i, !.wait = j]
    BY DEF InterruptCampaign
  <2>3. rb'[r][b].job \in {NoJob, rb[r][b].job}
    BY <2>1, <2>2 DEF BatchRow
  <2> QED
    BY <1>2, <1>5, <2>3
<1>15. ASSUME NEW w \in Workers, Step(w) \/ Fails(w) \/ Crash(w) PROVE RowsOurs
  <2>1. ExecutePause(w) \/ ExecuteCancel(w) => worker[w].run \in Runs
    BY <1>0 DEF ExecutePause, ExecuteCancel, CyclesRemember
  <2>2. ExecutePause(w) \/ ExecuteCancel(w) => RowsOurs
    BY <1>8, <1>10, <2>1 DEF ExecutePause, ExecuteCancel, StopOwnJob, Throw
  <2>3. Look(w) \/ FindActive(w) \/ AssertOwnership(w) \/ Enqueue(w)
          \/ Release(w) \/ Fails(w) \/ Crash(w) => UNCHANGED rb
    BY DEF Look, FindActive, AssertOwnership, Enqueue, Release, Fails, Crash, Throw
  <2> HIDE DEF RowsOurs
  <2>4. Reconcile(w) \/ MarkWaiting(w) \/ Attach(w) => RowsOurs
    BY <1>11, <1>12
  <2> QED
    BY <1>8, <1>15, <2>2, <2>3, <2>4 DEF Step
<1>16. Operators => RowsOurs
  BY <1>8, <1>9, <1>13, <1>14 DEF Operators, StartFull, StartScheduled,
     RequestPause, Resume, RequestCancel, ManualJob, OperatorMoves, MoveJob
<1>17. Boot \/ Leave \/ (\E j \in Jobs : WorkerMoves(j))
         \/ (\E r \in Runs : LeaseExpires(r) \/ \E w \in Workers : Claim(w, r)) => RowsOurs
  BY <1>8 DEF Boot, Leave, WorkerMoves, MoveJob, LeaseExpires, Claim
<1>18. RowsOurs
  BY <1>15, <1>16, <1>17 DEF Next, Failure
\* The cycles
<1>19. ASSUME NEW w \in Workers, NEW c,
              worker' = [worker EXCEPT ![w] = c], c.pc = "attach" => Mine(c.job)
       PROVE  CyclesOurs
  <2>1. \A v \in Workers : worker'[v] = worker[v] \/ worker'[v] = c
    BY <1>0, <1>19 DEF RowTypes
  <2> QED
    BY <1>3, <1>19, <2>1
<1>20. ASSUME NEW w \in Workers, Enqueue(w) PROVE CyclesOurs
  <2>1. \E j \in Jobs \cup {NoJob} : Enqueued(w, j) /\ Mine(j)
    <3>1. ASSUME NEW j \in DashboardJobs(worker[w].batch) PROVE j \in Jobs /\ Mine(j)
      <4>1. j \in Jobs /\ OfDashboard(j)
        BY DEF DashboardJobs, JobActive, OfDashboard, Lifecycle!Active
      <4> QED
        BY <1>1, <4>1
    <3>2. ASSUME NEW j \in FreeJobs,
                 jobs' = [jobs EXCEPT ![j] = [status |-> "queued", stop |-> FALSE,
                            origin |-> "dashboard", batch |-> worker[w].batch]]
          PROVE  j \in Jobs /\ Mine(j)
      <4>1. j \in Jobs
        BY DEF FreeJobs, NextId
      <4>2. jobs'[j] = [status |-> "queued", stop |-> FALSE,
                        origin |-> "dashboard", batch |-> worker[w].batch]
        BY <1>0, <3>2, <4>1 DEF RowTypes
      <4> QED
        BY <4>1, <4>2 DEF Mine
    <3>3. \/ Enqueued(w, NoJob)
          \/ \E j \in DashboardJobs(worker[w].batch) : Enqueued(w, j)
          \/ \E j \in FreeJobs :
               /\ jobs' = [jobs EXCEPT ![j] = [status |-> "queued", stop |-> FALSE,
                            origin |-> "dashboard", batch |-> worker[w].batch]]
               /\ Enqueued(w, j)
      BY <1>20 DEF Enqueue, MergeJob
    <3> QED
      BY <1>5, <3>1, <3>2, <3>3
  <2>2. PICK j \in Jobs \cup {NoJob} : Enqueued(w, j) /\ Mine(j)
    BY <2>1
  <2> DEFINE c == [worker[w] EXCEPT !.pc = "attach", !.job = j]
  <2>3. worker' = [worker EXCEPT ![w] = c]
    BY <2>2 DEF Enqueued
  <2>4. c.job = j
    BY <1>0, Fields DEF Cycle
  <2> HIDE DEF c
  <2> QED
    BY <1>19, <2>2, <2>3, <2>4
<1>21. ASSUME NEW w \in Workers, Moves(w) PROVE CyclesOurs
  <2>1. PICK c \in Cycle : worker' = [worker EXCEPT ![w] = c] /\ Goes(w, c)
    BY <1>21 DEF Moves, MovesCycle
  <2> QED
    BY <1>19, <1>20, <2>1 DEF Goes
<1>22. ASSUME NEW w \in Workers, NEW pc \in {"off", "idle"}, EndCycle(w, pc)
       PROVE  CyclesOurs
  <2> DEFINE c == [pc |-> IF pc = "off" /\ w # Main THEN "idle" ELSE pc,
                   run |-> NoRun, batch |-> NoBatch, job |-> NoJob]
  <2>1. worker' = [worker EXCEPT ![w] = c]
    BY <1>22 DEF EndCycle
  <2>2. c.pc # "attach"
    OBVIOUS
  <2> HIDE DEF c
  <2> QED
    BY <1>19, <2>1, <2>2
<1>23. ASSUME NEW w \in Workers, Release(w) \/ Crash(w) PROVE CyclesOurs
  <2>1. \E pc \in {"off", "idle"} : EndCycle(w, pc)
    BY <1>23 DEF Release, Crash
  <2> QED
    BY <1>22, <2>1
<1>24. Boot => CyclesOurs
  <2> SUFFICES ASSUME Boot PROVE CyclesOurs
    OBVIOUS
  <2> DEFINE c == [worker[Main] EXCEPT !.pc = "idle"]
  <2>1. worker' = [worker EXCEPT ![Main] = c]
    BY DEF Boot, Goto
  <2>2. c.pc = "idle"
    BY <1>0, Fields DEF Cycle
  <2> HIDE DEF c
  <2> QED
    BY <1>19, <2>1, <2>2
<1>25. ASSUME NEW w \in Workers, NEW r \in Runs, Claim(w, r) PROVE CyclesOurs
  <2> DEFINE c == [worker[w] EXCEPT !.pc = "pause", !.run = r]
  <2>1. worker' = [worker EXCEPT ![w] = c]
    BY <1>25 DEF Claim
  <2>2. c.pc = "pause"
    BY <1>0, Fields DEF Cycle
  <2> HIDE DEF c
  <2> QED
    BY <1>19, <2>1, <2>2
<1>26. Leave => CyclesOurs
  BY <1>22 DEF Leave
<1>27. Calm => CyclesOurs
  BY <1>4 DEF Calm
<1>28. CyclesOurs
  BY <1>0, <1>21, <1>23, <1>24, <1>25, <1>26, <1>27, OthersCalm, StepMoves
  DEF Next, Failure
<1> QED
  BY <1>18, <1>28 DEF AttachedJobsAreOurs, OfDashboard, Mine

LEMMA TypesKept ==
  ASSUME IInv, Next
  PROVE  TypeOK'
<1>1. RowTypes /\ CyclesRemember /\ requests \in Nat /\ crashes \in Nat
  BY Typed DEF IInv
<1>2. ASSUME NEW w \in Workers, Step(w) PROVE RowTypes'
  BY <1>1, <1>2, PauseTyped, ReconcileTyped, CancelTyped, AdvanceTyped, ClaimsTyped
  DEF Step
<1>3. Operators => RowTypes'
  BY <1>1, RequestsTyped, QueueTyped DEF Operators, StartFull, StartScheduled
<1>4. RowTypes'
  BY <1>1, <1>2, <1>3, ClaimsTyped, QueueTyped DEF Next, Failure
<1>5. requests' \in Nat /\ crashes' \in Nat
  <2>1. Operators => \E kind \in Requests : Asks(kind)
    BY DEF Operators, Asks
  <2>2. \A kind \in Requests : Asks(kind) => requests' \in Nat /\ crashes' \in Nat
    BY <1>1 DEF Asks
  <2>3. Unattended \/ Failure => requests' \in Nat /\ crashes' \in Nat
    BY <1>1 DEF Unattended, Failure
  <2> QED
    BY <2>1, <2>2, <2>3 DEF Next
<1> QED
  BY <1>4, <1>5 DEF TypeOK, RowTypes, RunRow, BatchRow, JobRow, Pcs, Cycle

\* Every step keeps the invariant.
LEMMA IInvKept == IInv /\ [Next]_vars => IInv'
<1> SUFFICES ASSUME IInv, [Next]_vars PROVE IInv'
  OBVIOUS
<1>1. CASE Next
  BY <1>1, TypesKept, ClaimsKept, AbsentKept, AttachedKept DEF IInv
<1>2. CASE UNCHANGED vars
  BY <1>2 DEF vars, IInv, TypeOK, ClaimsNameTheirCycle, CyclesRemember,
     AbsentRunsAreEmpty, AttachedJobsAreOurs, OfDashboard
<1> QED
  BY <1>1, <1>2

-----------------------------------------------------------------------------
(* Ends are final *)

\* What a run has become is not taken back by who read it before: each write of
\* a cycle asks again for the claim and the status, and a claim keeps a
\* cancellation.
LEMMA EndsKept ==
  ASSUME IInv, Next
  PROVE  FinalStep
<1>0. RowTypes /\ CyclesRemember
  BY Typed DEF IInv
<1>1. ASSUME \A r \in Runs : runs'[r].status = runs[r].status PROVE FinalStep
  BY <1>1 DEF FinalStep
<1>2. ASSUME NEW r \in Runs, NEW status \in ActiveRun \cup EndedRun,
             \A q \in Runs \ {r} : runs'[q] = runs[q],
             runs'[r].status = status,
             runs[r].status \notin EndedRun,
             runs[r].status = "cancelling" => status \in {"cancelling", "cancelled"}
      PROVE  FinalStep
  BY <1>2 DEF FinalStep
<1>3. ASSUME NEW r \in Runs, NEW status \in ActiveRun \cup EndedRun,
             runs' = [runs EXCEPT ![r].status = status],
             runs[r].status \notin EndedRun,
             runs[r].status = "cancelling" => status \in {"cancelling", "cancelled"}
      PROVE  FinalStep
  <2>1. \A q \in Runs \ {r} : runs'[q] = runs[q]
    BY <1>0, <1>3 DEF RowTypes
  <2>2. runs'[r].status = status
    BY <1>0, <1>3 DEF RowTypes, RunRow
  <2> QED
    BY <1>2, <1>3, <2>1, <2>2
<1>4. ASSUME NEW w \in Workers, AtWork(w), Moves(w) PROVE FinalStep
  <2>1. worker[w].run \in Runs
    BY <1>0, <1>4 DEF CyclesRemember
  <2> QED
    BY <1>1, <1>3, <1>4, <2>1 DEF Moves, MovesRun
<1>5. ASSUME NEW w \in Workers, Release(w) \/ Crash(w) PROVE FinalStep
  <2>1. Release(w) => worker[w].run \in Runs
    BY <1>0 DEF Release, CyclesRemember
  <2>2. CASE Release(w)
    <3>1. runs' = runs \/ runs' = [runs EXCEPT ![worker[w].run].owner = NoWorker,
                                                ![worker[w].run].expired = FALSE]
      BY <2>2 DEF Release
    <3> QED
      BY <1>0, <1>1, <2>1, <2>2, <3>1 DEF RowTypes, RunRow
  <2>3. CASE Crash(w)
    BY <1>0, <1>1, <2>3 DEF Crash, RowTypes, RunRow
  <2> QED
    BY <1>5, <2>2, <2>3
<1>6. Boot => FinalStep
  <2>1. \A row \in RunRow :
          [row EXCEPT !.owner = NoWorker, !.expired = FALSE].status = row.status
    BY DEF RunRow
  <2> QED
    BY <1>0, <1>1, <2>1, Fields DEF Boot
<1>7. ASSUME NEW w \in Workers, NEW r \in Runs, Claim(w, r) PROVE FinalStep
  <2>1. \A q \in Runs \ {r} : runs'[q] = runs[q]
    BY <1>0, <1>7 DEF Claim, RowTypes
  <2>2. runs[r].status \in {"queued", "running", "cancelling"}
    BY <1>7 DEF Claim, Claimable
  <2>3. runs'[r].status = IF runs[r].status = "queued" THEN "running" ELSE runs[r].status
    BY <1>0, <1>7 DEF Claim, RowTypes, RunRow
  <2> QED
    BY <1>2, <2>1, <2>2, <2>3
<1>8. ASSUME NEW S \in SUBSET Batches, NEW pending \in SUBSET Batches,
             StartRun(S, pending)
      PROVE  FinalStep
  BY <1>3, <1>8 DEF StartRun, NextId
<1>9. ASSUME NEW r \in Runs, RequestPause(r) \/ LeaseExpires(r) PROVE FinalStep
  <2>1. runs' = [runs EXCEPT ![r].pause = TRUE] \/ runs' = [runs EXCEPT ![r].expired = TRUE]
    BY <1>9 DEF RequestPause, LeaseExpires
  <2>2. CASE runs' = [runs EXCEPT ![r].pause = TRUE]
    BY <1>0, <1>1, <2>2 DEF RowTypes, RunRow
  <2>3. CASE runs' = [runs EXCEPT ![r].expired = TRUE]
    BY <1>0, <1>1, <2>3 DEF RowTypes, RunRow
  <2> QED
    BY <2>1, <2>2, <2>3
<1>10. ASSUME NEW r \in Runs, Resume(r) PROVE FinalStep
  <2>1. \A q \in Runs \ {r} : runs'[q] = runs[q]
    BY <1>0, <1>10 DEF Resume, RowTypes
  <2>2. runs[r].status = "paused" /\ runs'[r].status = "running"
    BY <1>0, <1>10 DEF Resume, RowTypes, RunRow
  <2> QED
    BY <1>2, <2>1, <2>2
<1>11. ASSUME NEW r \in Runs, RequestCancel(r) PROVE FinalStep
  BY <1>3, <1>11 DEF RequestCancel
<1>12. UNCHANGED runs => FinalStep
  BY <1>1
<1>13. Operators => FinalStep
  BY <1>8, <1>9, <1>10, <1>11, <1>12 DEF Operators, StartFull, StartScheduled,
     AbsorbErrors, ManualJob, OperatorMoves, MoveJob, InterruptCampaign
<1>14. ASSUME NEW w \in Workers, Step(w) \/ Fails(w) \/ Crash(w) PROVE FinalStep
  BY <1>0, <1>4, <1>5, <1>14, StepMoves
<1>15. Leave \/ (\E j \in Jobs : WorkerMoves(j)) => UNCHANGED runs
  BY DEF Leave, WorkerMoves, MoveJob
<1> QED
  BY <1>6, <1>7, <1>9, <1>12, <1>13, <1>14, <1>15 DEF Next, Failure

-----------------------------------------------------------------------------
(* Manual jobs are left alone *)

LEMMA ManualKept ==
  ASSUME IInv, Next
  PROVE  UntouchedStep
<1>0. RowTypes /\ CyclesRemember /\ AttachedJobsAreOurs
  BY Typed DEF IInv
<1> SUFFICES ASSUME NEW w \in Workers, AtWork(w), worker'[w] # worker[w],
                    NEW j \in Jobs, jobs[j].status # "absent", jobs[j].origin = "manual"
             PROVE  jobs'[j] = jobs[j]
  BY DEF UntouchedStep
<1>1. ~Calm
  BY DEF Calm
<1>2. ~Boot /\ ~Leave
  <2>1. ASSUME Boot \/ Leave PROVE FALSE
    <3>1. \A v \in Workers \ {Main} : worker'[v] = worker[v]
      BY <1>0, <2>1 DEF Boot, Leave, Goto, EndCycle, RowTypes
    <3>2. worker[Main].pc \in {"off", "idle"}
      BY <2>1 DEF Boot, Leave
    <3> QED
      BY <3>1, <3>2
  <2> QED
    BY <2>1
<1>3. \A q \in Runs : j \notin OwnJobs(q)
  BY <1>0 DEF AttachedJobsAreOurs, OfDashboard, OwnJobs, Scope
<1>4. ASSUME NEW v \in Workers, ExecutePause(v) \/ ExecuteCancel(v)
      PROVE  jobs'[j] = jobs[j]
  <2> DEFINE r == worker[v].run
             b == First(WithOwnJob(r, "running"))
  <2>1. r \in Runs
    BY <1>0, <1>4 DEF ExecutePause, ExecuteCancel, CyclesRemember
  <2>2. WithOwnJob(r, "running") # {} => rb[r][b].job \in OwnJobs(r)
    BY FirstIsFirst DEF WithOwnJob, OwnJobs, Scope
  <2>3. \/ UNCHANGED jobs
        \/ WithOwnJob(r, "running") # {} /\ jobs' = [jobs EXCEPT ![rb[r][b].job].stop = TRUE]
        \/ Paused(v, r) \/ Cancelled(v, r)
    BY <1>4 DEF ExecutePause, ExecuteCancel, StopOwnJob, Throw
  <2>4. Paused(v, r) \/ Cancelled(v, r) => jobs'[j] = jobs[j]
    BY <1>3, <2>1 DEF Paused, Cancelled
  <2> HIDE DEF b
  <2> QED
    BY <1>0, <1>3, <2>1, <2>2, <2>3, <2>4 DEF RowTypes
<1>5. ASSUME NEW v \in Workers, Enqueue(v) PROVE jobs'[j] = jobs[j]
  <2>1. j \notin FreeJobs /\ j \notin DashboardJobs(worker[v].batch)
    BY DEF FreeJobs, NextId, DashboardJobs
  <2>2. ASSUME NEW k \in DashboardJobs(worker[v].batch), MergeJob(v, k)
        PROVE  jobs'[j] = jobs[j]
    BY <1>0, <2>1, <2>2 DEF MergeJob, RowTypes
  <2>3. ASSUME NEW k \in FreeJobs, NEW row, jobs' = [jobs EXCEPT ![k] = row]
        PROVE  jobs'[j] = jobs[j]
    BY <1>0, <2>1, <2>3 DEF RowTypes
  <2> QED
    BY <1>5, <2>2, <2>3 DEF Enqueue
<1>6. ASSUME NEW v \in Workers, Step(v) \/ Fails(v) \/ Crash(v) PROVE jobs'[j] = jobs[j]
  <2>1. Reconcile(v) \/ Look(v) \/ FindActive(v) \/ MarkWaiting(v) \/ AssertOwnership(v)
        \/ Attach(v) \/ Release(v) \/ Fails(v) \/ Crash(v) => UNCHANGED jobs
    BY DEF Reconcile, Look, FindActive, MarkWaiting, AssertOwnership, Attach,
       Release, Fails, Crash, Throw, WriteBatch
  <2> QED
    BY <1>4, <1>5, <1>6, <2>1 DEF Step
<1>7. ASSUME NEW v \in Workers, NEW r \in Runs, Claim(v, r) PROVE jobs'[j] = jobs[j]
  BY <1>7 DEF Claim
<1> QED
  BY <1>0, <1>1, <1>2, <1>6, <1>7, OthersCalm DEF Next, Failure

-----------------------------------------------------------------------------
(* The order of the wave *)

\* The rows of one run are in order.
OrderOf(rows) ==
  \A b, c \in Batches :
    rows[b].status \in ActiveBatch /\ rows[c].status # "absent" /\ c < b
      => rows[c].status \in FinalBatch

LEMMA OrderByRun == OneBatchInOrder <=> \A r \in Runs : OrderOf(rb[r])
BY DEF OneBatchInOrder, OrderOf, InState, Scope

LEMMA OrderByRunPrime == OneBatchInOrder' <=> \A r \in Runs : OrderOf(rb'[r])
BY DEF OneBatchInOrder, OrderOf, InState, Scope

\* Rows that end, or that stay, keep the order.
Settles(old, new) ==
  \A b \in Batches :
    /\ new[b].status \in ActiveBatch => old[b].status \in ActiveBatch
    /\ new[b].status # "absent" => old[b].status # "absent"
    /\ old[b].status \in FinalBatch => new[b].status \in FinalBatch

LEMMA SettlingKeepsOrder ==
  ASSUME NEW old, NEW new, OrderOf(old), Settles(old, new)
  PROVE  OrderOf(new)
BY DEF OrderOf, Settles

\* The outcome of a batch is its status or an end.
LEMMA OutcomeSettles ==
  ASSUME NEW r, NEW b, NEW otherwise \in FinalBatch \cup {rb[r][b].status}
  PROVE  /\ Outcome(r, b, otherwise) \in FinalBatch \cup {rb[r][b].status}
         /\ rb[r][b].status \in FinalBatch \cup {"absent"} =>
              Outcome(r, b, otherwise) = rb[r][b].status
BY DEF Outcome

\* A step of a cycle with the claim that leaves the choice behind.
LEMMA WriterKeepsTurns ==
  ASSUME IInv, ChosenInTurn, NEW w \in Workers, AtWork(w), Moves(w),
         worker'[w].pc \notin {"find", "wait", "own", "enqueue", "attach"}
  PROVE  ChosenInTurn'
<1>0. RowTypes /\ CyclesRemember /\ ClaimsNameTheirCycle
  BY Typed DEF IInv
<1>1. worker[w].run \in Runs
  BY <1>0 DEF CyclesRemember
<1>2. \A v \in Workers \ {w} : worker'[v] = worker[v]
  BY <1>0 DEF Moves, MovesCycle, RowTypes
<1>3. \A q \in Runs : runs'[q].owner = runs[q].owner
  BY <1>0, <1>1 DEF Moves, MovesRun, RowTypes, RunRow
<1>4. ASSUME NEW v \in Workers, NEW q \in Runs, Chosen(v)', Owns(v, q)'
      PROVE  v # w /\ rb'[q] = rb[q] /\ Chosen(v) /\ Owns(v, q) /\ worker'[v] = worker[v]
  <2>1. v # w
    BY <1>4
  <2>2. Chosen(v) /\ Owns(v, q) /\ worker'[v] = worker[v]
    BY <1>2, <1>3, <1>4, <2>1
  <2>3. rb'[q] = rb[q]
    BY <2>1, <2>2 DEF Moves, MovesBatches
  <2> QED
    BY <2>1, <2>2, <2>3
<1> SUFFICES ASSUME NEW v \in Workers, NEW q \in Runs, Chosen(v)', Owns(v, q)'
             PROVE  /\ InState(q, ActiveBatch)' = {}
                    /\ \A c \in Scope(q)' : c < worker'[v].batch => rb'[q][c].status \in FinalBatch
  BY DEF ChosenInTurn
<1> QED
  BY <1>4 DEF ChosenInTurn, InState, Scope

\* Pause, cancellation and reconciliation end batches, or send the one at work
\* back to the pending ones when the job it waited for is over.
LEMMA PauseOrder ==
  ASSUME RowTypes, NEW w \in Workers, NEW r \in Runs, OrderOf(rb[r]),
         Paused(w, r) \/ Cancelled(w, r)
  PROVE  OrderOf(rb'[r])
<1> DEFINE Ends(b) == /\ rb'[r][b].status \in FinalBatch \cup {rb[r][b].status}
                      /\ rb[r][b].status \in FinalBatch \cup {"absent"} =>
                           rb'[r][b].status = rb[r][b].status
<1>1. ASSUME NEW b \in Batches PROVE Ends(b)
  <2>1. rb[r][b] \in BatchRow
    BY Fields
  <2>2. ASSUME NEW otherwise \in FinalBatch \cup {rb[r][b].status},
               rb'[r][b] = [rb[r][b] EXCEPT !.status = Outcome(r, b, otherwise)]
        PROVE  Ends(b)
    <3>1. rb'[r][b].status = Outcome(r, b, otherwise)
      BY <2>1, <2>2 DEF BatchRow
    <3> QED
      BY <3>1, OutcomeSettles
  <2>3. CASE Paused(w, r)
    <3> DEFINE otherwise == IF b \in WithOwnJob(r, "cancelled") THEN "cancelled"
                            ELSE rb[r][b].status
    <3>1. rb'[r][b] = [rb[r][b] EXCEPT !.status = Outcome(r, b, otherwise)]
      BY <2>3 DEF Paused, RowTypes
    <3>2. otherwise \in FinalBatch \cup {rb[r][b].status}
      OBVIOUS
    <3> HIDE DEF otherwise
    <3> QED
      BY <2>2, <3>1, <3>2
  <2>4. CASE Cancelled(w, r)
    <3>1. rb'[r][b] = [rb[r][b] EXCEPT !.status = Outcome(r, b, "cancelled")]
      BY <2>4 DEF Cancelled, RowTypes
    <3> QED
      BY <2>2, <3>1
  <2> QED
    BY <2>3, <2>4
<1>2. Settles(rb[r], rb'[r])
  BY <1>1 DEF Settles
<1> QED
  BY <1>2, SettlingKeepsOrder

LEMMA BatchEndOrder ==
  ASSUME RowTypes, NEW r \in Runs, NEW b \in Batches, NEW row, OrderOf(rb[r]),
         rb' = [rb EXCEPT ![r][b] = row], rb[r][b].status # "absent",
         row.status \in FinalBatch
  PROVE  OrderOf(rb'[r])
<1>1. \A c \in Batches : rb'[r][c] = IF c = b THEN row ELSE rb[r][c]
  BY DEF RowTypes
<1>2. Settles(rb[r], rb'[r])
  BY <1>1 DEF Settles
<1> QED
  BY <1>2, SettlingKeepsOrder

LEMMA ReconcileOrder ==
  ASSUME RowTypes, CyclesRemember, NEW w \in Workers, Reconcile(w),
         OrderOf(rb[worker[w].run])
  PROVE  OrderOf(rb'[worker[w].run])
<1> DEFINE r == worker[w].run
           active == InState(r, ActiveBatch)
           b == First(active)
<1>1. r \in Runs
  BY DEF Reconcile, CyclesRemember
<1>2. active # {} => /\ b \in Batches /\ rb[r][b].status \in ActiveBatch
                     /\ \A c \in active : b <= c
  <2> SUFFICES ASSUME active # {} PROVE b \in active /\ \A c \in active : b <= c
    BY DEF InState, Scope
  <2>1. active \in SUBSET Batches
    BY DEF InState, Scope
  <2> QED
    BY <2>1, FirstIsFirst
<1>3. \/ UNCHANGED rb
      \/ active # {} /\ \E status \in {"pending", "failed", "completed"} :
                          rb' = [rb EXCEPT ![r][b].status = status]
  BY DEF Reconcile, Throw, ReconcileBatch, EndsBatch
<1> HIDE DEF b
<1>4. ASSUME active # {}, NEW status \in {"pending", "failed", "completed"},
             rb' = [rb EXCEPT ![r][b].status = status]
      PROVE  OrderOf(rb'[r])
  <2> DEFINE row == [rb[r][b] EXCEPT !.status = status]
  <2>1. rb' = [rb EXCEPT ![r][b] = row]
    BY <1>4
  <2>2. row.status = status
    BY <1>1, <1>2, <1>4, Fields DEF BatchRow
  <2> HIDE DEF row
  <2>3. CASE status \in FinalBatch
    BY <1>1, <1>2, <1>4, <2>1, <2>2, <2>3, BatchEndOrder
  <2>4. CASE status = "pending"
    <3>1. \A c \in Batches : rb'[r][c] = IF c = b THEN row ELSE rb[r][c]
      <4>1. b \in Batches /\ r \in Runs
        BY <1>1, <1>2, <1>4
      <4> QED
        BY <2>1, <4>1 DEF RowTypes
    <3>2. \A c \in Batches : c # b => rb[r][c].status \notin ActiveBatch
      <4> SUFFICES ASSUME NEW c \in Batches, c # b, rb[r][c].status \in ActiveBatch
                   PROVE  FALSE
        OBVIOUS
      <4>1. c \in active
        BY DEF InState, Scope
      <4>2. b < c
        BY <1>2, <1>4, <4>1 DEF Batches
      <4>3. rb[r][b].status \in FinalBatch
        BY <1>2, <1>4, <4>2 DEF OrderOf
      <4> QED
        BY <1>2, <1>4, <4>3
    <3> QED
      BY <2>2, <2>4, <3>1, <3>2 DEF OrderOf
  <2> QED
    BY <2>3, <2>4
<1> QED
  BY <1>3, <1>4

\* The batch that is written was chosen in its turn.
LEMMA WriteOrder ==
  ASSUME RowTypes, CyclesRemember, ChosenInTurn, NEW w \in Workers,
         MarkWaiting(w) \/ Attach(w),
         OrderOf(rb[worker[w].run])
  PROVE  OrderOf(rb'[worker[w].run])
<1> DEFINE r == worker[w].run
           b == worker[w].batch
<1>1. r \in Runs /\ b \in Batches
  BY DEF MarkWaiting, Attach, CyclesRemember
<1>2. UNCHANGED rb \/ (MayWrite(w) /\ \E row : rb' = [rb EXCEPT ![r][b] = row])
  BY DEF MarkWaiting, Attach, Throw, WriteBatch
<1>3. ASSUME MayWrite(w), NEW row, rb' = [rb EXCEPT ![r][b] = row] PROVE OrderOf(rb'[r])
  <2>1. \A c \in Batches : rb'[r][c] = IF c = b THEN row ELSE rb[r][c]
    BY <1>1, <1>3 DEF RowTypes
  <2>2. Owns(w, r) /\ Chosen(w)
    BY <1>3 DEF MayWrite, MarkWaiting, Attach
  <2>3. \A c \in Batches :
          /\ rb[r][c].status \notin ActiveBatch
          /\ rb[r][c].status # "absent" /\ c < b => rb[r][c].status \in FinalBatch
    BY <1>1, <2>2 DEF ChosenInTurn, InState, Scope
  <2>4. \A c \in Batches : c < b => c # b
    BY DEF Batches
  <2> QED
    BY <1>1, <2>1, <2>3, <2>4 DEF OrderOf
<1> QED
  BY <1>2, <1>3

\* Nobody holds a run that was not started, and its first rows are pending or
\* have ended.
LEMMA StartOrder ==
  ASSUME IInv, OrderInv, NEW S \in SUBSET Batches, NEW pending \in SUBSET Batches,
         StartRun(S, pending)
  PROVE  OrderInv'
<1>0. RowTypes /\ ClaimsNameTheirCycle /\ AbsentRunsAreEmpty /\ ChosenInTurn
      /\ \A r \in Runs : OrderOf(rb[r])
  BY Typed, OrderByRun DEF IInv, OrderInv
<1>1. PICK r \in Runs :
        /\ runs[r].status = "absent"
        /\ runs' = [runs EXCEPT ![r].status = "queued"]
        /\ rb' = [rb EXCEPT ![r] = [b \in Batches |->
               IF b \in S
               THEN [rb[r][b] EXCEPT !.status = IF b \in pending THEN "pending"
                                                ELSE "completed"]
               ELSE rb[r][b]]]
  BY DEF StartRun, NextId
<1>2. UNCHANGED worker
  BY DEF StartRun
<1>3. \A q \in Runs \ {r} : rb'[q] = rb[q]
  BY <1>0, <1>1 DEF RowTypes
<1>4. \A q \in Runs : runs'[q].owner = runs[q].owner
  BY <1>0, <1>1 DEF RowTypes, RunRow
<1>5. \A w \in Workers : ~Owns(w, r)
  BY <1>0, <1>1 DEF ClaimsNameTheirCycle
<1>6. \A b \in Batches : rb'[r][b].status \notin ActiveBatch
  <2> SUFFICES ASSUME NEW b \in Batches PROVE rb'[r][b].status \notin ActiveBatch
    OBVIOUS
  <2>1. rb[r][b] \in BatchRow /\ rb[r][b].status = "absent"
    BY <1>0, <1>1, Fields DEF AbsentRunsAreEmpty
  <2>2. \/ rb'[r][b] = rb[r][b]
        \/ rb'[r][b] = [rb[r][b] EXCEPT !.status = "pending"]
        \/ rb'[r][b] = [rb[r][b] EXCEPT !.status = "completed"]
    BY <1>0, <1>1 DEF RowTypes
  <2> QED
    BY <2>1, <2>2 DEF BatchRow
<1>7. OneBatchInOrder'
  BY <1>0, <1>3, <1>6, OrderByRunPrime DEF OrderOf
<1>8. ChosenInTurn'
  BY <1>0, <1>2, <1>3, <1>4, <1>5 DEF ChosenInTurn, InState, Scope
<1> QED
  BY <1>7, <1>8 DEF OrderInv

\* A step that chooses nothing and leaves the statuses of the batches.
LEMMA QuietOrder ==
  ASSUME OrderInv,
         \A r \in Runs : \A b \in Batches : rb'[r][b].status = rb[r][b].status,
         \A w \in Workers : \A r \in Runs : Chosen(w)' /\ Owns(w, r)' =>
           Chosen(w) /\ Owns(w, r) /\ worker'[w].batch = worker[w].batch
  PROVE  OrderInv'
<1>1. OneBatchInOrder'
  BY DEF OrderInv, OneBatchInOrder, InState, Scope
<1>2. ChosenInTurn'
  BY DEF OrderInv, ChosenInTurn, InState, Scope
<1> QED
  BY <1>1, <1>2 DEF OrderInv

\* The batch chosen is the first pending one of a run with none at work.
LEMMA LookOrder ==
  ASSUME IInv, OrderInv, NEW w \in Workers, Look(w)
  PROVE  OrderInv'
<1>0. RowTypes /\ CyclesRemember /\ ClaimsNameTheirCycle
  BY Typed DEF IInv
<1> DEFINE r == worker[w].run
           pending == InState(r, {"pending"})
           f == First(pending)
<1>1. r \in Runs
  BY <1>0 DEF Look, CyclesRemember
<1>2. UNCHANGED <<runs, rb>>
  BY DEF Look, Throw
<1>3. \/ Goto(w, "throw") \/ Goto(w, "release")
      \/ /\ InState(r, ActiveBatch) = {} /\ pending # {}
         /\ worker' = [worker EXCEPT ![w].pc = "find", ![w].batch = f]
  BY DEF Look, Throw
<1>4. CASE Goto(w, "throw") \/ Goto(w, "release")
  <2>1. \A v \in Workers : Chosen(v)' => worker'[v] = worker[v]
    BY <1>0, <1>4 DEF Goto, RowTypes, Cycle
  <2> QED
    BY <1>2, <2>1, QuietOrder
<1>5. CASE /\ InState(r, ActiveBatch) = {} /\ pending # {}
           /\ worker' = [worker EXCEPT ![w].pc = "find", ![w].batch = f]
  <2>1. f \in Batches /\ \A c \in pending : f <= c
    BY <1>5, FirstIsFirst DEF InState, Scope
  <2> HIDE DEF f
  <2>2. worker'[w].batch = f /\ \A v \in Workers \ {w} : worker'[v] = worker[v]
    BY <1>0, <1>5 DEF RowTypes, Cycle
  <2>3. \A c \in Scope(r) : c < f => rb[r][c].status \in FinalBatch
    <3> SUFFICES ASSUME NEW c \in Batches, rb[r][c].status # "absent", c < f
                 PROVE  rb[r][c].status \in FinalBatch
      BY DEF Scope
    <3>1. c \notin pending
      BY <2>1 DEF Batches
    <3>2. c \notin InState(r, ActiveBatch)
      BY <1>5
    <3>3. rb[r][c].status \in BatchStatus
      BY <1>0, <1>1, Fields
    <3> QED
      BY <3>1, <3>2, <3>3 DEF InState, Scope, BatchStatus
  <2>4. ChosenInTurn'
    <3> SUFFICES ASSUME NEW v \in Workers, NEW q \in Runs, Chosen(v)', Owns(v, q)
                 PROVE  /\ InState(q, ActiveBatch) = {}
                        /\ \A c \in Scope(q) : c < worker'[v].batch => rb[q][c].status \in FinalBatch
      BY <1>2 DEF ChosenInTurn, InState, Scope
    <3>1. CASE v = w
      <4>1. q = r
        BY <1>0, <3>1 DEF ClaimsNameTheirCycle
      <4> QED
        BY <1>5, <2>2, <2>3, <3>1, <4>1
    <3>2. CASE v # w
      BY <2>2, <3>2 DEF OrderInv, ChosenInTurn
    <3> QED
      BY <3>1, <3>2
  <2>5. OneBatchInOrder'
    BY <1>2 DEF OrderInv, OneBatchInOrder, InState, Scope
  <2> QED
    BY <2>4, <2>5 DEF OrderInv
<1> QED
  BY <1>3, <1>4, <1>5

\* A step of a cycle that writes the rows of its run.
LEMMA WriterOrder ==
  ASSUME IInv, OrderInv, NEW w \in Workers, AtWork(w), Moves(w),
         worker'[w].pc \notin {"find", "wait", "own", "enqueue", "attach"},
         OrderOf(rb'[worker[w].run])
  PROVE  OrderInv'
<1>1. ChosenInTurn'
  BY WriterKeepsTurns DEF OrderInv
<1>2. \A q \in Runs \ {worker[w].run} : rb'[q] = rb[q]
  BY DEF Moves, MovesBatches
<1>3. OneBatchInOrder'
  BY <1>2, OrderByRun, OrderByRunPrime DEF OrderInv
<1> QED
  BY <1>1, <1>3 DEF OrderInv

\* Without absorption every step keeps the wave in order.
LEMMA OrderKept ==
  ASSUME IInv, OrderInv, Next, "absorb" \notin Requests
  PROVE  OrderInv'
<1>0. /\ RowTypes /\ CyclesRemember /\ ClaimsNameTheirCycle
      /\ ChosenInTurn /\ \A r \in Runs : OrderOf(rb[r])
  BY Typed, OrderByRun DEF IInv, OrderInv
<1>1. ASSUME UNCHANGED rb, Calm PROVE OrderInv'
  BY <1>1, QuietOrder DEF Calm
<1>2. InterruptCampaign => OrderInv'
  <2> SUFFICES ASSUME InterruptCampaign PROVE OrderInv'
    OBVIOUS
  <2>1. ASSUME NEW r \in Runs, NEW b \in Batches
        PROVE  rb'[r][b].status = rb[r][b].status
    <3>1. rb[r][b] \in BatchRow
      BY <1>0, Fields
    <3>2. \E i, j : rb'[r][b] = [rb[r][b] EXCEPT !.job = i, !.wait = j]
      BY DEF InterruptCampaign
    <3> QED
      BY <3>1, <3>2 DEF BatchRow
  <2>2. UNCHANGED <<worker, runs>>
    BY DEF InterruptCampaign
  <2> QED
    BY <2>1, <2>2, QuietOrder
<1>3. Operators => OrderInv'
  <2>1. ASSUME Operators PROVE OrderInv'
    <3>1. Calm
      BY <1>0, <2>1, OthersCalm
    <3>2. \/ UNCHANGED rb \/ InterruptCampaign
          \/ \E S, pending \in SUBSET Batches : StartRun(S, pending)
      BY <2>1 DEF Operators, Asks, StartFull, StartScheduled, RequestPause, Resume,
         RequestCancel, ManualJob, OperatorMoves, MoveJob
    <3> QED
      BY <1>1, <1>2, <3>1, <3>2, StartOrder
  <2> QED
    BY <2>1
<1>4. (\E j \in Jobs : WorkerMoves(j)) \/ (\E r \in Runs : LeaseExpires(r)) => OrderInv'
  <2>1. (\E j \in Jobs : WorkerMoves(j)) \/ (\E r \in Runs : LeaseExpires(r)) => UNCHANGED rb
    BY DEF WorkerMoves, MoveJob, LeaseExpires
  <2> QED
    BY <1>0, <1>1, <2>1, OthersCalm
<1>5. ASSUME NEW w \in Workers, UNCHANGED rb, ~Chosen(w)',
             \A v \in Workers \ {w} : worker'[v] = worker[v],
             \A v \in Workers \ {w} : \A r \in Runs : Owns(v, r)' => Owns(v, r)
      PROVE  OrderInv'
  BY <1>5, QuietOrder
<1>6. ASSUME NEW w \in Workers, NEW pc \in {"off", "idle"}, EndCycle(w, pc),
             UNCHANGED rb,
             \A v \in Workers : \A r \in Runs : Owns(v, r)' => Owns(v, r)
      PROVE  OrderInv'
  <2>1. worker'[w].pc \in {"off", "idle"} /\ \A v \in Workers \ {w} : worker'[v] = worker[v]
    BY <1>0, <1>6 DEF EndCycle, RowTypes
  <2> QED
    BY <1>5, <1>6, <2>1
<1>7. ASSUME NEW w \in Workers, Release(w) PROVE OrderInv'
  <2>1. worker[w].run \in Runs
    BY <1>0, <1>7 DEF Release, CyclesRemember
  <2>2. runs' = runs \/ runs' = [runs EXCEPT ![worker[w].run].owner = NoWorker,
                                              ![worker[w].run].expired = FALSE]
    BY <1>7 DEF Release
  <2>3. \A r \in Runs : runs'[r].owner \in {runs[r].owner, NoWorker}
    BY <1>0, <2>1, <2>2 DEF RowTypes, RunRow
  <2>4. UNCHANGED rb /\ \E pc \in {"off", "idle"} : EndCycle(w, pc)
    BY <1>7 DEF Release
  <2> QED
    BY <1>6, <2>3, <2>4
<1>8. ASSUME NEW w \in Workers, Crash(w) PROVE OrderInv'
  <2>1. \A r \in Runs : runs'[r].owner \in {runs[r].owner, Gone}
    BY <1>0, <1>8 DEF Crash, RowTypes, RunRow
  <2> QED
    BY <1>6, <1>8, <2>1 DEF Crash
<1>9. Leave => OrderInv'
  BY <1>6 DEF Leave
<1>10. Boot => OrderInv'
  <2> SUFFICES ASSUME Boot PROVE OrderInv'
    OBVIOUS
  <2>1. \A r \in Runs : runs'[r].owner \in {runs[r].owner, NoWorker}
    <3>1. \A row \in RunRow :
            [row EXCEPT !.owner = NoWorker, !.expired = FALSE].owner = NoWorker
      BY DEF RunRow
    <3> QED
      BY <1>0, <3>1, Fields DEF Boot
  <2>2. worker'[Main].pc = "idle" /\ \A v \in Workers \ {Main} : worker'[v] = worker[v]
    BY <1>0 DEF Boot, Goto, RowTypes, Cycle
  <2> QED
    BY <1>5, <2>1, <2>2 DEF Boot
<1>11. ASSUME NEW w \in Workers, NEW r \in Runs, Claim(w, r) PROVE OrderInv'
  <2>1. worker'[w].pc = "pause" /\ \A v \in Workers \ {w} : worker'[v] = worker[v]
    BY <1>0, <1>11 DEF Claim, RowTypes, Cycle
  <2>2. \A q \in Runs : runs'[q].owner \in {runs[q].owner, w}
    BY <1>0, <1>11 DEF Claim, RowTypes, RunRow
  <2>3. \A v \in Workers \ {w} : \A q \in Runs : Owns(v, q)' => Owns(v, q)
    BY <2>2
  <2>4. UNCHANGED rb /\ ~Chosen(w)'
    BY <1>11, <2>1 DEF Claim
  <2> QED
    BY <1>5, <2>1, <2>3, <2>4
<1>12. ASSUME NEW w \in Workers, Throw(w) PROVE OrderInv'
  <2>1. worker'[w].pc = "throw" /\ \A v \in Workers \ {w} : worker'[v] = worker[v]
    BY <1>0, <1>12 DEF Throw, Goto, RowTypes, Cycle
  <2> QED
    BY <1>5, <1>12, <2>1 DEF Throw
<1>13. ASSUME NEW w \in Workers, NEW pc \in {"release", "reconcile", "look", "cancel"},
              AtWork(w), Moves(w), Goto(w, pc), OrderOf(rb'[worker[w].run])
       PROVE  OrderInv'
  <2>1. worker'[w].pc = pc
    BY <1>0, <1>13 DEF Goto, RowTypes, Cycle
  <2> QED
    BY <1>13, <2>1, WriterOrder
<1>14. ASSUME NEW w \in Workers, ExecutePause(w) \/ ExecuteCancel(w) PROVE OrderInv'
  <2>1. AtWork(w) /\ Moves(w)
    BY <1>0, <1>14, PauseMoves, CancelMoves DEF ExecutePause, ExecuteCancel
  <2>2. worker[w].run \in Runs
    BY <1>0, <2>1 DEF CyclesRemember
  <2>3. \/ Throw(w)
        \/ /\ Goto(w, "release") \/ Goto(w, "reconcile")
           /\ UNCHANGED rb \/ Paused(w, worker[w].run) \/ Cancelled(w, worker[w].run)
    BY <1>14 DEF ExecutePause, ExecuteCancel, StopOwnJob, Paused, Cancelled
  <2>4. UNCHANGED rb \/ Paused(w, worker[w].run) \/ Cancelled(w, worker[w].run)
          => OrderOf(rb'[worker[w].run])
    BY <1>0, <2>2, PauseOrder
  <2> QED
    BY <1>12, <1>13, <2>1, <2>3, <2>4
<1>15. ASSUME NEW w \in Workers, Reconcile(w) PROVE OrderInv'
  <2>1. AtWork(w) /\ Moves(w)
    BY <1>0, <1>15, ReconcileMoves DEF Reconcile
  <2>2. worker[w].run \in Runs
    BY <1>0, <2>1 DEF CyclesRemember
  <2>3. OrderOf(rb'[worker[w].run])
    BY <1>0, <1>15, <2>2, ReconcileOrder
  <2>4. Throw(w) \/ \E pc \in {"release", "look", "cancel"} : Goto(w, pc)
    BY <1>15 DEF Reconcile, ReconcileBatch, EndsBatch
  <2> QED
    BY <1>12, <1>13, <2>1, <2>3, <2>4
<1>16. ASSUME NEW w \in Workers, MarkWaiting(w) \/ Attach(w) PROVE OrderInv'
  <2>1. AtWork(w) /\ Moves(w)
    BY <1>0, <1>16, AdvanceMoves DEF MarkWaiting, Attach
  <2>2. worker[w].run \in Runs
    BY <1>0, <2>1 DEF CyclesRemember
  <2>3. OrderOf(rb'[worker[w].run])
    BY <1>0, <1>16, <2>2, WriteOrder
  <2>4. Throw(w) \/ Goto(w, "release")
    BY <1>16 DEF MarkWaiting, Attach, WriteBatch
  <2> QED
    BY <1>12, <1>13, <2>1, <2>3, <2>4
<1>17. ASSUME NEW w \in Workers, FindActive(w) \/ AssertOwnership(w) \/ Enqueue(w)
       PROVE  OrderInv'
  <2>1. UNCHANGED <<runs, rb>>
    BY <1>17 DEF FindActive, AssertOwnership, Enqueue, Throw
  <2>2. Chosen(w) /\ AtWork(w)
    BY <1>17 DEF FindActive, AssertOwnership, Enqueue
  <2>3. PICK c \in Cycle : worker' = [worker EXCEPT ![w] = c] /\ Goes(w, c)
    BY <1>0, <1>17, AdvanceMoves DEF Moves, MovesCycle
  <2>4. ~Look(w)
    BY <1>17 DEF Look, FindActive, AssertOwnership, Enqueue
  <2>5. \A v \in Workers : Chosen(v)' => Chosen(v) /\ worker'[v].batch = worker[v].batch
    BY <1>0, <2>2, <2>3, <2>4 DEF RowTypes, Goes
  <2> QED
    BY <2>1, <2>5, QuietOrder
<1>18. ASSUME NEW w \in Workers, Step(w) \/ Fails(w) PROVE OrderInv'
  BY <1>7, <1>12, <1>14, <1>15, <1>16, <1>17, <1>18, LookOrder DEF Step, Fails
<1> QED
  BY <1>3, <1>4, <1>8, <1>9, <1>10, <1>11, <1>18 DEF Next, Failure

-----------------------------------------------------------------------------
(* An ended run is closed *)

\* A job that is attached, or about to be, is of that batch.
JobsInPlace ==
  /\ \A r \in Runs : \A b \in Batches :
       rb[r][b].job # NoJob => jobs[rb[r][b].job].batch = b
  /\ \A w \in Workers : worker[w].pc = "attach" /\ worker[w].job # NoJob =>
       jobs[worker[w].job].batch = worker[w].batch

\* A batch that is not at work and has not ended was never given a job.
OpenRowsHaveNoJob ==
  \A r \in Runs : \A b \in Batches :
    rb[r][b].status \in {"absent", "pending", "waiting"} => rb[r][b].job = NoJob

\* The job of a batch that has ended, has ended.
EndedRowsAreQuiet ==
  \A r \in Runs : \A b \in Batches :
    rb[r][b].status \in FinalBatch => ~JobActive(rb[r][b].job)

EndedRunsHaveEndedRows ==
  \A r \in Runs : runs[r].status \in EndedRun =>
    \A b \in Batches : rb[r][b].status \in FinalBatch \cup {"absent"}

\* The unique index single_active.
OneActiveRun ==
  \A r, q \in Runs :
    runs[r].status \in ActiveRun /\ runs[q].status \in ActiveRun => r = q

\* No run at work has a job that an ended run had, so that nothing it does to
\* its own jobs reaches the batches of the ended one.
EndedRunsKeepTheirJobs ==
  \A r, q \in Runs : \A b \in Batches :
    runs[r].status \in EndedRun /\ runs[q].status \in ActiveRun /\ rb[r][b].job # NoJob
      => rb[q][b].job # rb[r][b].job

\* Neither is a cycle that holds the claim about to attach one.
AttachesNoOldJob ==
  \A w \in Workers : \A q, r \in Runs :
    /\ worker[w].pc = "attach" /\ worker[w].job # NoJob
    /\ Owns(w, q) /\ runs[q].status \in ActiveRun /\ runs[r].status \in EndedRun
    => rb[r][worker[w].batch].job # worker[w].job

ClosedInv ==
  /\ JobsInPlace /\ OpenRowsHaveNoJob /\ EndedRowsAreQuiet /\ EndedRunsHaveEndedRows
  /\ OneActiveRun /\ EndedRunsKeepTheirJobs /\ AttachesNoOldJob

\* A job keeps its batch and its origin.  Only an absorption revives one of the
\* dashboard that has ended, and only enqueue, resume and absorption start one
\* that rests.
JobGoes(j) ==
  /\ jobs'[j].status # "absent" /\ jobs'[j].batch = jobs[j].batch
  /\ jobs'[j].status \in Lifecycle!Active =>
       \/ jobs[j].status \in Lifecycle!Active \/ jobs[j].origin = "manual"
       \/ \E r \in Runs : \E b \in Batches : AbsorbErrors(r, b) /\ rb[r][b].job = j
  /\ jobs[j].origin = "dashboard" /\ jobs'[j].status \in {"queued", "running"} =>
       \/ jobs[j].status \in {"queued", "running"}
       \/ \E w \in Workers : Enqueue(w)
       \/ \E r \in Runs : Resume(r) /\ j \in OwnJobs(r)
       \/ \E r \in Runs : \E b \in Batches : AbsorbErrors(r, b)

LEMMA JobsGoOn ==
  ASSUME IInv, Next, NEW j \in Jobs, jobs[j].status # "absent"
  PROVE  JobGoes(j)
<1>0. RowTypes /\ CyclesRemember
  BY Typed DEF IInv
<1> USE DEF Lifecycle!Active, Lifecycle!Ended
<1>1. jobs[j] \in JobRow
  BY <1>0, Fields
\* What a statement may write to the row
<1> DEFINE Plain(row) ==
      /\ row.status # "absent" /\ row.batch = jobs[j].batch
      /\ row.status \in Lifecycle!Active =>
           jobs[j].status \in Lifecycle!Active \/ jobs[j].origin = "manual"
      /\ row.status \in {"queued", "running"} =>
           jobs[j].status \in {"queued", "running"} \/ jobs[j].origin = "manual"
<1>2. ASSUME Plain(jobs'[j]) PROVE JobGoes(j)
  BY <1>2 DEF JobGoes
<1>3. Plain(jobs[j])
  BY <1>1 DEF JobRow, Lifecycle!Origins
<1> DEFINE Allowed(status) ==
      /\ status # "absent"
      /\ status \in Lifecycle!Active => jobs[j].status \in Lifecycle!Active
      /\ status \in {"queued", "running"} => jobs[j].status \in {"queued", "running"}
<1>4. ASSUME NEW status, Allowed(status), jobs'[j] = [jobs[j] EXCEPT !.status = status]
      PROVE  JobGoes(j)
  <2>1. jobs'[j].status = status /\ jobs'[j].batch = jobs[j].batch
    BY <1>1, <1>4 DEF JobRow
  <2> QED
    BY <1>2, <1>4, <2>1
<1>5. \A status, stop : LET new == [jobs[j] EXCEPT !.status = status, !.stop = stop]
                        IN  new.status = status /\ new.batch = jobs[j].batch
  BY <1>1 DEF JobRow
<1>6. ASSUME NEW stop, jobs'[j] = [jobs[j] EXCEPT !.stop = stop] PROVE JobGoes(j)
  <2>1. jobs'[j].status = jobs[j].status /\ jobs'[j].batch = jobs[j].batch
    BY <1>1, <1>6 DEF JobRow
  <2> QED
    BY <1>2, <1>3, <2>1
<1>7. UNCHANGED jobs => JobGoes(j)
  BY <1>2, <1>3
<1>8. ASSUME NEW k \in Jobs, NEW row, k # j, jobs' = [jobs EXCEPT ![k] = row]
      PROVE  JobGoes(j)
  BY <1>0, <1>2, <1>3, <1>8 DEF RowTypes
<1>9. ASSUME NEW k \in FreeJobs, NEW row, jobs' = [jobs EXCEPT ![k] = row]
      PROVE  JobGoes(j)
  BY <1>8, <1>9 DEF FreeJobs, NextId
<1>10. Boot => JobGoes(j)
  <2> SUFFICES ASSUME Boot PROVE JobGoes(j)
    OBVIOUS
  <2>1. \/ jobs'[j] = jobs[j]
        \/ /\ jobs[j].status = "running"
           /\ \/ jobs'[j] = [jobs[j] EXCEPT !.status = "paused"]
              \/ jobs'[j] = [jobs[j] EXCEPT !.status = "queued"]
    BY Zenon DEF Boot
  <2> QED
    BY <1>2, <1>3, <1>4, <2>1
<1>11. ASSUME NEW w \in Workers, NEW r \in Runs, StopOwnJob(w, r) PROVE JobGoes(j)
  <2> DEFINE k == rb[r][First(WithOwnJob(r, "running"))].job
  <2>1. jobs' = [jobs EXCEPT ![k].stop = TRUE]
    BY <1>11 DEF StopOwnJob
  <2> HIDE DEF k
  <2>2. jobs'[j] = jobs[j] \/ jobs'[j] = [jobs[j] EXCEPT !.stop = TRUE]
    BY <1>0, <2>1 DEF RowTypes
  <2> QED
    BY <1>2, <1>3, <1>6, <2>2
<1>12. ASSUME NEW w \in Workers, NEW r \in Runs, Paused(w, r) PROVE JobGoes(j)
  <2>1. \/ jobs'[j] = jobs[j]
        \/ jobs[j].status = "queued" /\ jobs'[j] = [jobs[j] EXCEPT !.status = "paused", !.stop = TRUE]
    BY <1>12 DEF Paused
  <2>2. CASE jobs'[j] = jobs[j]
    BY <1>2, <1>3, <2>2
  <2>3. CASE jobs'[j] = [jobs[j] EXCEPT !.status = "paused", !.stop = TRUE] /\ jobs[j].status = "queued"
    <3>1. jobs'[j].status = "paused" /\ jobs'[j].batch = jobs[j].batch
      BY <1>5, <2>3
    <3> QED
      BY <1>2, <2>3, <3>1
  <2> QED
    BY <2>1, <2>2, <2>3
<1>13. ASSUME NEW w \in Workers, NEW r \in Runs, Cancelled(w, r) PROVE JobGoes(j)
  <2>1. jobs'[j] = jobs[j] \/ jobs'[j] = [jobs[j] EXCEPT !.status = "cancelled"]
    BY <1>13 DEF Cancelled
  <2> QED
    BY <1>2, <1>3, <1>4, <2>1
<1>14. ASSUME NEW w \in Workers, Enqueue(w) PROVE JobGoes(j)
  <2>1. ASSUME NEW k \in Jobs, jobs[k].status = "paused",
               jobs' = [jobs EXCEPT ![k].status = "queued", ![k].stop = FALSE]
        PROVE  JobGoes(j)
    <3>1. jobs' = [jobs EXCEPT ![k] = [jobs[k] EXCEPT !.status = "queued", !.stop = FALSE]]
      BY <2>1
    <3>2. CASE k = j
      <4>1. jobs'[j] = [jobs[j] EXCEPT !.status = "queued", !.stop = FALSE]
        BY <1>0, <3>1, <3>2 DEF RowTypes
      <4>2. jobs'[j].status = "queued" /\ jobs'[j].batch = jobs[j].batch
        BY <1>5, <4>1
      <4> QED
        BY <1>14, <2>1, <3>2, <4>2 DEF JobGoes
    <3> QED
      BY <1>8, <3>1, <3>2
  <2>2. ASSUME NEW k \in Jobs, jobs' = [jobs EXCEPT ![k].status = "completed"]
        PROVE  JobGoes(j)
    <3>1. jobs'[j] = jobs[j] \/ jobs'[j] = [jobs[j] EXCEPT !.status = "completed"]
      BY <1>0, <2>2 DEF RowTypes
    <3> QED
      BY <1>2, <1>3, <1>4, <3>1
  <2> QED
    BY <1>7, <1>9, <1>14, <2>1, <2>2 DEF Enqueue, MergeJob, DashboardJobs
<1>15. ASSUME NEW r \in Runs, Resume(r) PROVE JobGoes(j)
  <2>1. \/ jobs'[j] = jobs[j]
        \/ /\ j \in OwnJobs(r) /\ jobs[j].status = "paused"
           /\ jobs'[j] = [jobs[j] EXCEPT !.status = "queued", !.stop = FALSE]
    BY <1>15 DEF Resume
  <2>2. CASE jobs'[j] = jobs[j]
    BY <1>2, <1>3, <2>2
  <2>3. CASE /\ j \in OwnJobs(r) /\ jobs[j].status = "paused"
             /\ jobs'[j] = [jobs[j] EXCEPT !.status = "queued", !.stop = FALSE]
    <3>1. jobs'[j].status = "queued" /\ jobs'[j].batch = jobs[j].batch
      BY <1>5, <2>3
    <3> QED
      BY <1>15, <2>3, <3>1 DEF JobGoes
  <2> QED
    BY <2>1, <2>2, <2>3
<1>16. ASSUME NEW r \in Runs, NEW b \in Batches, AbsorbErrors(r, b) PROVE JobGoes(j)
  <2> DEFINE old == rb[r][b].job
             row == [jobs[old] EXCEPT !.stop = FALSE,
                       !.status = IF @ \in {"completed", "failed", "paused"}
                                  THEN "queued" ELSE @]
  <2>1. \/ old # NoJob /\ jobs' = [jobs EXCEPT ![old] = row]
        \/ \E k \in FreeJobs : \E new : jobs' = [jobs EXCEPT ![k] = new]
    BY <1>16 DEF AbsorbErrors
  <2>2. old = j => row.status # "absent" /\ row.batch = jobs[j].batch
    BY <1>1 DEF JobRow
  <2>3. old \in Jobs \cup {NoJob}
    BY <1>0, Fields
  <2> HIDE DEF row
  <2>4. CASE old = j /\ jobs' = [jobs EXCEPT ![old] = row]
    <3>1. jobs'[j] = row
      BY <1>0, <2>4 DEF RowTypes
    <3> QED
      BY <1>16, <2>2, <2>4, <3>1 DEF JobGoes
  <2>5. CASE old # j /\ old # NoJob /\ jobs' = [jobs EXCEPT ![old] = row]
    BY <1>8, <2>3, <2>5
  <2> QED
    BY <1>9, <2>1, <2>4, <2>5
<1>17. ASSUME NEW k \in Jobs, WorkerMoves(k) PROVE JobGoes(j)
  <2>1. PICK status \in Lifecycle!Active \cup Lifecycle!Ended :
          /\ Lifecycle!WorkerMove(Row(jobs[k]), Lifecycle!To(Row(jobs[k]), status))
          /\ MoveJob(k, Lifecycle!To(Row(jobs[k]), status))
    BY <1>17 DEF WorkerMoves
  <2>2. jobs' = [jobs EXCEPT ![k] = [status |-> status, stop |-> jobs[k].stop,
                   origin |-> jobs[k].origin, batch |-> jobs[k].batch]]
    BY <2>1 DEF MoveJob, Lifecycle!To, Row
  <2>3. status \in {"queued", "running", "paused"} => jobs[k].status \in {"queued", "running"}
    <3>1. \A s : Lifecycle!To(Row(jobs[k]), status) = Lifecycle!To(Row(jobs[k]), s) => s = status
      BY DEF Lifecycle!To, Row
    <3>2. Row(jobs[k]).status = jobs[k].status
      BY DEF Row
    <3> QED
      BY <2>1, <3>1, <3>2 DEF Lifecycle!WorkerMove, Lifecycle!Starts, Lifecycle!Requeues,
         Lifecycle!Parks, Lifecycle!Completes, Lifecycle!Fails
  <2>4. CASE k = j
    <3>1. jobs'[j].status = status /\ jobs'[j].batch = jobs[j].batch
      BY <1>0, <2>2, <2>4 DEF RowTypes
    <3> QED
      BY <1>2, <2>3, <2>4, <3>1
  <2> QED
    BY <1>8, <2>2, <2>4
<1>18. ASSUME NEW k \in Jobs, OperatorMoves(k) PROVE JobGoes(j)
  <2>1. PICK new \in Lifecycle!Row :
          /\ \/ Lifecycle!OperatorMove(Row(jobs[k]), new)
             \/ Lifecycle!Resumes(Row(jobs[k]), new)
             \/ Lifecycle!OverwrittenMove(Row(jobs[k]), new)
          /\ jobs[k].origin = "manual" /\ MoveJob(k, new)
    BY <1>18 DEF OperatorMoves, Lifecycle!OperatorMove, Lifecycle!OverwrittenMove,
       Lifecycle!Overwrites, Lifecycle!LeavesOverwritten, Row
  <2>2. jobs' = [jobs EXCEPT ![k] = [status |-> new.status, stop |-> new.stop,
                   origin |-> new.origin, batch |-> jobs[k].batch]]
    BY <2>1 DEF MoveJob
  <2>3. new.status # "absent"
    BY <2>1 DEF Lifecycle!OperatorMove, Lifecycle!Resumes, Lifecycle!AskedToStop,
       Lifecycle!Pauses, Lifecycle!Unstops, Lifecycle!Cancels, Lifecycle!To,
       Lifecycle!StoppedTo, Lifecycle!OverwrittenMove, Lifecycle!Overwrites,
       Lifecycle!LeavesOverwritten, Row
  <2>4. CASE k = j
    <3>1. jobs'[j].status = new.status /\ jobs'[j].batch = jobs[j].batch
      BY <1>0, <2>2, <2>4 DEF RowTypes
    <3> QED
      BY <1>2, <2>1, <2>3, <2>4, <3>1
  <2> QED
    BY <1>8, <2>2, <2>4
<1>19. ASSUME NEW b \in Batches, ManualJob(b) PROVE JobGoes(j)
  <2>1. \E k \in FreeJobs : \E row : jobs' = [jobs EXCEPT ![k] = row]
    BY <1>19 DEF ManualJob
  <2> QED
    BY <1>9, <2>1
<1>20. InterruptCampaign => JobGoes(j)
  <2> SUFFICES ASSUME InterruptCampaign PROVE JobGoes(j)
    OBVIOUS
  <2>1. jobs'[j] = jobs[j] \/ jobs'[j] = [jobs[j] EXCEPT !.status = "deleted"]
    BY DEF InterruptCampaign
  <2> QED
    BY <1>2, <1>3, <1>4, <2>1
<1>21. Operators => JobGoes(j)
  BY <1>7, <1>15, <1>16, <1>18, <1>19, <1>20 DEF Operators, StartFull, StartScheduled,
     StartRun, RequestPause, RequestCancel
<1>22. ASSUME NEW w \in Workers, Step(w) \/ Fails(w) \/ Crash(w) PROVE JobGoes(j)
  <2>1. ExecutePause(w) \/ ExecuteCancel(w) => worker[w].run \in Runs
    BY <1>0 DEF ExecutePause, ExecuteCancel, CyclesRemember
  <2>2. ExecutePause(w) \/ ExecuteCancel(w) => JobGoes(j)
    BY <1>7, <1>11, <1>12, <1>13, <2>1 DEF ExecutePause, ExecuteCancel, Throw
  <2>3. Reconcile(w) \/ Look(w) \/ FindActive(w) \/ MarkWaiting(w) \/ AssertOwnership(w)
        \/ Attach(w) \/ Release(w) \/ Fails(w) \/ Crash(w) => UNCHANGED jobs
    BY DEF Reconcile, Look, FindActive, MarkWaiting, AssertOwnership, Attach,
       Release, Fails, Crash, Throw, WriteBatch
  <2> QED
    BY <1>7, <1>14, <1>22, <2>2, <2>3 DEF Step
<1>23. Leave \/ (\E r \in Runs : LeaseExpires(r) \/ \E w \in Workers : Claim(w, r))
         => UNCHANGED jobs
  BY DEF Leave, LeaseExpires, Claim
<1> QED
  BY <1>7, <1>10, <1>17, <1>21, <1>22, <1>23 DEF Next, Failure

\* No ended run had the job for the batch.
Fresh(b, j) == \A q \in Runs : runs[q].status \in EndedRun => rb[q][b].job # j

\* What a row of a batch may become: it stays, and may lose a job that is
\* deleted; it ends with its job; it waits, or waits no more; it is in the scope
\* of a new run; or it is given a job.
RowGoes(r, b) ==
  LET old == rb[r][b]
      new == rb'[r][b]
  IN  \/ new.status = old.status /\ new.job \in {old.job, NoJob}
      \/ /\ new.job = old.job /\ old.status # "absent" /\ new.status \in FinalBatch
         /\ runs[r].status \in {"running", "cancelling"}
         /\ new.job # NoJob => jobs'[new.job].status \notin Lifecycle!Active
      \/ /\ new.job = old.job /\ runs[r].status = "running"
         /\ {old.status, new.status} \subseteq {"pending", "waiting"}
      \/ /\ new.job = old.job /\ runs[r].status = "absent"
         /\ new.status \in {"pending", "completed"}
      \/ /\ new.status = "running" /\ runs[r].status \in {"queued", "running"}
         /\ new.job # NoJob
         /\ jobs'[new.job].batch = b /\ Fresh(b, new.job)

\* One row is written.
LEMMA RowWritten ==
  ASSUME RowTypes, NEW q \in Runs, NEW c \in Batches, NEW row,
         rb' = [rb EXCEPT ![q][c] = row],
         row = rb'[q][c] => RowGoes(q, c),
         NEW r \in Runs, NEW b \in Batches
  PROVE  RowGoes(r, b)
<1>1. rb'[q][c] = row /\ ((r = q /\ b = c) \/ rb'[r][b] = rb[r][b])
  BY DEF RowTypes
<1> QED
  BY <1>1 DEF RowGoes

\* Attached jobs are rows of the queue.
LEMMA AttachedThere ==
  ASSUME IInv, NEW r \in Runs, NEW b \in Batches, rb[r][b].job # NoJob
  PROVE  rb[r][b].job \in Jobs /\ jobs[rb[r][b].job].status # "absent"
<1>1. rb[r][b].job \in Jobs \cup {NoJob}
  BY Typed, Fields DEF IInv
<1> QED
  BY <1>1 DEF IInv, AttachedJobsAreOurs, OfDashboard

LEMMA PauseGoes ==
  ASSUME IInv, NEW w \in Workers, NEW q \in Runs, Paused(w, q),
         runs[q].status = "running",
         NEW r \in Runs, NEW b \in Batches
  PROVE  RowGoes(r, b)
<1>0. RowTypes /\ rb[q][b] \in BatchRow /\ rb[r][b] \in BatchRow
  BY Typed, Fields DEF IInv
<1> DEFINE otherwise == IF b \in WithOwnJob(q, "cancelled") THEN "cancelled" ELSE rb[q][b].status
           status == Outcome(q, b, otherwise)
<1>1. r # q => rb'[r][b] = rb[r][b]
  BY <1>0 DEF Paused, RowTypes
<1>2. rb'[q][b] = [rb[q][b] EXCEPT !.status = status]
  BY <1>0 DEF Paused, RowTypes
<1>3. \/ status = rb[q][b].status
      \/ /\ rb[q][b].status # "absent" /\ status \in FinalBatch /\ rb[q][b].job # NoJob
         /\ jobs[rb[q][b].job].status \in {"completed", "failed", "cancelled"}
  BY DEF Outcome, WithOwnJob, Scope
<1>4. \A j \in Jobs : jobs[j].status # "queued" => jobs'[j] = jobs[j]
  BY DEF Paused
<1> HIDE DEF status
<1>5. rb'[q][b].status = status /\ rb'[q][b].job = rb[q][b].job
  BY <1>0, <1>2 DEF BatchRow
<1>6. rb[q][b].job # NoJob => rb[q][b].job \in Jobs
  BY AttachedThere
<1>7. RowGoes(q, b)
  BY <1>3, <1>4, <1>5, <1>6 DEF RowGoes, Lifecycle!Active
<1> QED
  BY <1>1, <1>7 DEF RowGoes

LEMMA CancelGoes ==
  ASSUME IInv, NEW w \in Workers, NEW q \in Runs, Cancelled(w, q),
         runs[q].status = "cancelling", WithOwnJob(q, "running") = {},
         NEW r \in Runs, NEW b \in Batches
  PROVE  RowGoes(r, b)
<1>0. RowTypes /\ rb[q][b] \in BatchRow /\ rb[r][b] \in BatchRow
  BY Typed, Fields DEF IInv
<1> DEFINE status == Outcome(q, b, "cancelled")
<1>1. r # q => rb'[r][b] = rb[r][b]
  BY <1>0 DEF Cancelled, RowTypes
<1>2. rb'[q][b] = [rb[q][b] EXCEPT !.status = status]
  BY <1>0 DEF Cancelled, RowTypes
<1>3. status = rb[q][b].status \/ (rb[q][b].status # "absent" /\ status \in FinalBatch)
  <2>1. "cancelled" \in FinalBatch \cup {rb[q][b].status}
    OBVIOUS
  <2>2. /\ status \in FinalBatch \cup {rb[q][b].status}
        /\ rb[q][b].status \in FinalBatch \cup {"absent"} => status = rb[q][b].status
    BY <2>1, OutcomeSettles
  <2> HIDE DEF status
  <2> QED
    BY <2>2
<1> HIDE DEF status
<1>4. rb'[q][b].status = status /\ rb'[q][b].job = rb[q][b].job
  BY <1>0, <1>2 DEF BatchRow
<1>5. ASSUME rb[q][b].job # NoJob, rb[q][b].status # "absent"
      PROVE  jobs'[rb[q][b].job].status \notin Lifecycle!Active
  <2> DEFINE j == rb[q][b].job
  <2>1. j \in Jobs /\ jobs[j] \in JobRow
    BY <1>0, <1>5, AttachedThere, Fields
  <2>2. jobs[j].status # "running"
    BY <1>5 DEF WithOwnJob, Scope
  <2>3. j \in OwnJobs(q)
    BY <1>5 DEF OwnJobs, Scope
  <2> HIDE DEF j
  <2>4. jobs'[j] = IF jobs[j].status \in {"queued", "paused"}
                   THEN [jobs[j] EXCEPT !.status = "cancelled"] ELSE jobs[j]
    BY <2>1, <2>3 DEF Cancelled
  <2>5. jobs'[j].status \notin Lifecycle!Active
    BY <2>1, <2>2, <2>4 DEF JobRow, Lifecycle!Active
  <2> QED
    BY <2>5 DEF j
<1>6. RowGoes(q, b)
  BY <1>3, <1>4, <1>5 DEF RowGoes
<1> QED
  BY <1>1, <1>6 DEF RowGoes

LEMMA ReconcileGoes ==
  ASSUME IInv, NEW w \in Workers, Reconcile(w), NEW r \in Runs, NEW b \in Batches
  PROVE  RowGoes(r, b)
<1>0. RowTypes /\ CyclesRemember
  BY Typed DEF IInv
<1> DEFINE q == worker[w].run
           c == First(InState(q, ActiveBatch))
<1>1. q \in Runs
  BY <1>0 DEF Reconcile, CyclesRemember
<1>2. UNCHANGED jobs
  BY DEF Reconcile, Throw
<1>3. CASE UNCHANGED rb
  BY <1>3 DEF RowGoes
<1>4. CASE ~UNCHANGED rb
  <2>1. InState(q, ActiveBatch) # {} /\ runs[q].status = "running" /\ ReconcileBatch(w, q, c)
    BY <1>4 DEF Reconcile, Throw
  <2>2. c \in Batches /\ rb[q][c].status \in ActiveBatch
    <3>1. InState(q, ActiveBatch) \in SUBSET Batches
      BY DEF InState, Scope
    <3>2. c \in InState(q, ActiveBatch)
      BY <2>1, <3>1, FirstIsFirst
    <3> QED
      BY <3>2 DEF InState, Scope
  <2> HIDE DEF c
  <2>3. PICK status \in {"pending", "failed", "completed"} :
          /\ rb' = [rb EXCEPT ![q][c].status = status]
          /\ \/ rb[q][c].status = "waiting" /\ status = "pending"
             \/ /\ status \in FinalBatch /\ ~JobActive(rb[q][c].job)
    BY <1>4, <2>1 DEF ReconcileBatch, EndsBatch
  <2> DEFINE row == [rb[q][c] EXCEPT !.status = status]
  <2>4. rb' = [rb EXCEPT ![q][c] = row]
    BY <2>3
  <2>5. row.status = status /\ row.job = rb[q][c].job
    BY <1>0, <1>1, <2>2, Fields DEF BatchRow
  <2> HIDE DEF row
  <2>6. row = rb'[q][c] => RowGoes(q, c)
    BY <1>2, <2>1, <2>2, <2>3, <2>5 DEF RowGoes, JobActive
  <2> QED
    BY <1>0, <1>1, <2>2, <2>4, <2>6, RowWritten
<1> QED
  BY <1>3, <1>4

LEMMA WriteGoes ==
  ASSUME IInv, ClosedInv, NEW w \in Workers, MarkWaiting(w) \/ Attach(w),
         NEW r \in Runs, NEW b \in Batches
  PROVE  RowGoes(r, b)
<1>0. RowTypes /\ CyclesRemember
  BY Typed DEF IInv
<1> DEFINE q == worker[w].run
           c == worker[w].batch
           j == worker[w].job
<1>1. q \in Runs /\ c \in Batches
  BY <1>0 DEF MarkWaiting, Attach, CyclesRemember
<1>2. rb[q][c] \in BatchRow
  BY <1>0, <1>1, Fields
<1>3. CASE Throw(w)
  BY <1>3 DEF Throw, RowGoes
<1>4. CASE ~Throw(w)
  <2>1. MayWrite(w) /\ UNCHANGED <<runs, jobs>>
    BY <1>4 DEF MarkWaiting, Attach, WriteBatch
  <2>2. Owns(w, q) /\ runs[q].status = "running" /\ rb[q][c].status = "pending"
    BY <2>1 DEF MayWrite
  <2>3. rb[q][c].job = NoJob
    BY <1>1, <2>2 DEF ClosedInv, OpenRowsHaveNoJob
  <2>4. ASSUME NEW row, rb' = [rb EXCEPT ![q][c] = row],
               \/ row.job = NoJob /\ row.status \in {"waiting", "completed"}
               \/ /\ worker[w].pc = "attach" /\ j # NoJob
                  /\ row.job = j /\ row.status = "running"
        PROVE  RowGoes(r, b)
    <3>1. worker[w].pc = "attach" /\ j # NoJob => jobs[j].batch = c /\ Fresh(c, j)
      BY <1>1, <2>2 DEF ClosedInv, JobsInPlace, AttachesNoOldJob, Fresh
    <3>2. row = rb'[q][c] => RowGoes(q, c)
      BY <2>1, <2>2, <2>3, <2>4, <3>1 DEF RowGoes
    <3> QED
      BY <1>0, <1>1, <2>4, <3>2, RowWritten
  <2>5. CASE MarkWaiting(w)
    <3> DEFINE row == [rb[q][c] EXCEPT !.status = "waiting", !.wait = j]
    <3>1. rb' = [rb EXCEPT ![q][c] = row]
      BY <1>4, <2>5 DEF MarkWaiting, WriteBatch
    <3>2. row.job = NoJob /\ row.status = "waiting"
      BY <1>2, <2>3 DEF BatchRow
    <3> HIDE DEF row
    <3> QED
      BY <2>4, <3>1, <3>2
  <2>6. CASE Attach(w) /\ j = NoJob
    <3> DEFINE row == [rb[q][c] EXCEPT !.status = "completed", !.wait = NoJob]
    <3>1. rb' = [rb EXCEPT ![q][c] = row]
      BY <1>4, <2>6 DEF Attach, WriteBatch
    <3>2. row.job = NoJob /\ row.status = "completed"
      BY <1>2, <2>3 DEF BatchRow
    <3> HIDE DEF row
    <3> QED
      BY <2>4, <3>1, <3>2
  <2>7. CASE Attach(w) /\ j # NoJob
    <3> DEFINE row == [status |-> "running", job |-> j, wait |-> NoJob]
    <3>1. rb' = [rb EXCEPT ![q][c] = row]
      BY <1>4, <2>7 DEF Attach, WriteBatch
    <3>2. row.job = j /\ row.status = "running" /\ worker[w].pc = "attach"
      BY <2>7 DEF Attach
    <3> HIDE DEF row
    <3> QED
      BY <2>4, <2>7, <3>1, <3>2
  <2> QED
    BY <2>5, <2>6, <2>7
<1> QED
  BY <1>3, <1>4

LEMMA AbsorbGoes ==
  ASSUME IInv, ClosedInv, Next, NEW q \in Runs, NEW c \in Batches, AbsorbErrors(q, c),
         NEW r \in Runs, NEW b \in Batches
  PROVE  RowGoes(r, b)
<1>0. RowTypes
  BY Typed DEF IInv
<1> DEFINE old == rb[q][c].job
           row(j) == [status |-> "running", job |-> j, wait |-> NoJob]
<1>1. runs[q].status \in {"queued", "running"} /\ runs[q].status \in ActiveRun
  BY DEF AbsorbErrors, Absorbing
<1>2. ASSUME NEW j \in Jobs, rb' = [rb EXCEPT ![q][c] = row(j)],
             jobs'[j].batch = c, Fresh(c, j)
      PROVE  RowGoes(r, b)
  <2>1. j # NoJob
    BY DEF Jobs
  <2>2. row(j).status = "running" /\ row(j).job = j
    OBVIOUS
  <2>3. row(j) = rb'[q][c] => RowGoes(q, c)
    BY <1>1, <1>2, <2>1, <2>2 DEF RowGoes
  <2> HIDE DEF row
  <2> QED
    BY <1>0, <1>2, <2>3, RowWritten
<1>3. CASE old # NoJob /\ rb' = [rb EXCEPT ![q][c] = row(old)]
  <2>1. old \in Jobs /\ jobs[old].status # "absent"
    BY <1>3, AttachedThere
  <2>2. jobs'[old].batch = c
    BY <1>3, <2>1, JobsGoOn DEF JobGoes, ClosedInv, JobsInPlace
  <2>3. Fresh(c, old)
    BY <1>1, <1>3 DEF Fresh, ClosedInv, EndedRunsKeepTheirJobs
  <2> QED
    BY <1>2, <1>3, <2>1, <2>2, <2>3
<1>4. ASSUME NEW j \in FreeJobs, rb' = [rb EXCEPT ![q][c] = row(j)],
             jobs' = [jobs EXCEPT ![j] = [status |-> "queued", stop |-> FALSE,
                                          origin |-> "dashboard", batch |-> c]]
      PROVE  RowGoes(r, b)
  <2>1. j \in Jobs /\ jobs[j].status = "absent"
    BY DEF FreeJobs, NextId
  <2>2. jobs'[j].batch = c
    BY <1>0, <1>4, <2>1 DEF RowTypes
  <2>3. j # NoJob
    BY <2>1 DEF Jobs
  <2>4. Fresh(c, j)
    BY <2>1, <2>3, AttachedThere DEF Fresh
  <2> QED
    BY <1>2, <1>4, <2>1, <2>2, <2>4
<1> QED
  BY <1>3, <1>4 DEF AbsorbErrors

LEMMA StartGoes ==
  ASSUME IInv, NEW S \in SUBSET Batches, NEW pending \in SUBSET Batches, StartRun(S, pending),
         NEW r \in Runs, NEW b \in Batches
  PROVE  RowGoes(r, b)
<1>0. RowTypes /\ rb[r][b] \in BatchRow
  BY Typed, Fields DEF IInv
<1>1. PICK q \in Runs :
        /\ runs[q].status = "absent"
        /\ rb' = [rb EXCEPT ![q] = [c \in Batches |->
               IF c \in S
               THEN [rb[q][c] EXCEPT !.status = IF c \in pending THEN "pending"
                                                ELSE "completed"]
               ELSE rb[q][c]]]
  BY DEF StartRun, NextId
<1>2. \/ rb'[r][b] = rb[r][b]
      \/ /\ r = q
         /\ \/ rb'[r][b] = [rb[r][b] EXCEPT !.status = "pending"]
            \/ rb'[r][b] = [rb[r][b] EXCEPT !.status = "completed"]
  BY <1>0, <1>1 DEF RowTypes
<1>3. \/ rb'[r][b] = rb[r][b]
      \/ /\ r = q /\ rb'[r][b].job = rb[r][b].job
         /\ rb'[r][b].status \in {"pending", "completed"}
  BY <1>0, <1>2 DEF BatchRow
<1> QED
  BY <1>1, <1>3 DEF RowGoes

LEMMA RowsGoOn ==
  ASSUME IInv, ClosedInv, Next, NEW r \in Runs, NEW b \in Batches
  PROVE  RowGoes(r, b)
<1>0. RowTypes /\ CyclesRemember
  BY Typed DEF IInv
<1>1. UNCHANGED rb => RowGoes(r, b)
  BY DEF RowGoes
<1>2. InterruptCampaign => RowGoes(r, b)
  <2> SUFFICES ASSUME InterruptCampaign PROVE RowGoes(r, b)
    OBVIOUS
  <2>1. rb[r][b] \in BatchRow
    BY <1>0, Fields
  <2>2. \E i \in {NoJob, rb[r][b].job} : \E j :
          rb'[r][b] = [rb[r][b] EXCEPT !.job = i, !.wait = j]
    BY DEF InterruptCampaign
  <2>3. rb'[r][b].job \in {NoJob, rb[r][b].job} /\ rb'[r][b].status = rb[r][b].status
    BY <2>1, <2>2 DEF BatchRow
  <2> QED
    BY <2>3 DEF RowGoes
<1>3. Operators => RowGoes(r, b)
  BY <1>1, <1>2, StartGoes, AbsorbGoes DEF Operators, StartFull, StartScheduled,
     RequestPause, Resume, RequestCancel, ManualJob, OperatorMoves, MoveJob
<1>4. ASSUME NEW w \in Workers, Step(w) \/ Fails(w) \/ Crash(w) PROVE RowGoes(r, b)
  <2>1. ExecutePause(w) \/ ExecuteCancel(w) => worker[w].run \in Runs
    BY <1>0 DEF ExecutePause, ExecuteCancel, CyclesRemember
  <2>2. ExecutePause(w) => RowGoes(r, b)
    BY <1>1, <2>1, PauseGoes DEF ExecutePause, StopOwnJob
  <2>3. ExecuteCancel(w) => RowGoes(r, b)
    BY <1>1, <2>1, CancelGoes DEF ExecuteCancel, StopOwnJob, Throw
  <2>4. Look(w) \/ FindActive(w) \/ AssertOwnership(w) \/ Enqueue(w)
          \/ Release(w) \/ Fails(w) \/ Crash(w) => UNCHANGED rb
    BY DEF Look, FindActive, AssertOwnership, Enqueue, Release, Fails, Crash, Throw
  <2> QED
    BY <1>1, <1>4, <2>2, <2>3, <2>4, ReconcileGoes, WriteGoes DEF Step
<1>5. Boot \/ Leave \/ (\E j \in Jobs : WorkerMoves(j))
        \/ (\E q \in Runs : LeaseExpires(q) \/ \E w \in Workers : Claim(w, q)) => UNCHANGED rb
  BY DEF Boot, Leave, WorkerMoves, MoveJob, LeaseExpires, Claim
<1> QED
  BY <1>1, <1>3, <1>4, <1>5 DEF Next, Failure

\* What a run may become: a new run starts when no other is at work, and one
\* that ends leaves no batch open.  Only a cycle, with its last step, pauses or
\* ends one.
RunGoes(r) ==
  \/ runs'[r].status = runs[r].status
  \/ runs[r].status \in ActiveRun /\ runs'[r].status \in {"running", "cancelling"}
  \/ /\ runs[r].status \in ActiveRun /\ runs'[r].status = "paused"
     /\ \E w \in Workers : Paused(w, r) /\ WithOwnJob(r, "running") = {}
  \/ /\ runs[r].status \in ActiveRun /\ runs'[r].status \in EndedRun
     /\ \E w \in Workers : worker'[w].pc = "release"
     /\ \A b \in Batches : rb'[r][b].status \in FinalBatch \cup {"absent"}
  \/ /\ runs[r].status = "absent" /\ runs'[r].status \in ActiveRun \ {"paused"}
     /\ \A q \in Runs : /\ runs[q].status \notin ActiveRun
                        /\ q # r => runs'[q].status = runs[q].status

\* The end of a run by its reconciliation.
LEMMA ReconcileEnds ==
  ASSUME IInv, NEW w \in Workers, Reconcile(w), NEW r \in Runs
  PROVE  RunGoes(r)
<1>0. RowTypes /\ CyclesRemember
  BY Typed DEF IInv
<1> DEFINE q == worker[w].run
           c == First(InState(q, ActiveBatch))
<1>1. q \in Runs
  BY <1>0 DEF Reconcile, CyclesRemember
<1>2. CASE UNCHANGED runs
  BY <1>2 DEF RunGoes
<1>3. CASE ~UNCHANGED runs
  <2>1. runs[q].status = "running" /\ runs' = [runs EXCEPT ![q].status = "completed"]
    BY <1>3 DEF Reconcile, Throw, ReconcileBatch, EndsBatch
  <2>2. /\ r # q => runs'[r] = runs[r]
        /\ runs'[q].status = "completed"
    BY <1>0, <1>1, <2>1 DEF RowTypes, RunRow
  <2>4. worker'[w].pc = "release"
    <3>1. Goto(w, "release")
      BY <1>3 DEF Reconcile, Throw, ReconcileBatch, EndsBatch
    <3> QED
      BY <1>0, <3>1 DEF Goto, RowTypes, Cycle
  <2>3. ASSUME NEW b \in Batches PROVE rb'[q][b].status \in FinalBatch \cup {"absent"}
    <3>1. CASE InState(q, ActiveBatch) = {}
      <4>1. UNCHANGED rb /\ Scope(q) = InState(q, FinalBatch)
        BY <1>3, <3>1 DEF Reconcile, Throw
      <4> QED
        BY <4>1 DEF InState, Scope
    <3>2. CASE InState(q, ActiveBatch) # {}
      <4>1. ReconcileBatch(w, q, c)
        BY <1>3, <3>2 DEF Reconcile, Throw
      <4>2. c \in Batches
        <5>1. InState(q, ActiveBatch) \in SUBSET Batches
          BY DEF InState, Scope
        <5> QED
          BY <3>2, <5>1, FirstIsFirst
      <4> HIDE DEF c
      <4>3. PICK status \in {"failed", "completed"} :
              /\ rb' = [rb EXCEPT ![q][c].status = status]
              /\ Scope(q) \ {c} \subseteq InState(q, FinalBatch)
        BY <1>3, <4>1 DEF ReconcileBatch, EndsBatch
      <4>4. rb[q][b] \in BatchRow
        BY <1>0, <1>1, Fields
      <4>5. IF b = c THEN rb'[q][b] = [rb[q][b] EXCEPT !.status = status]
                     ELSE rb'[q][b] = rb[q][b]
        BY <1>0, <1>1, <4>2, <4>3 DEF RowTypes
      <4>6. b = c => rb'[q][b].status = status
        BY <4>4, <4>5 DEF BatchRow
      <4> QED
        BY <4>3, <4>5, <4>6 DEF InState, Scope
    <3> QED
      BY <3>1, <3>2
  <2> QED
    BY <2>1, <2>2, <2>3, <2>4 DEF RunGoes
<1> QED
  BY <1>2, <1>3

LEMMA CancelEnds ==
  ASSUME IInv, NEW w \in Workers, NEW q \in Runs, Cancelled(w, q),
         runs[q].status = "cancelling", NEW r \in Runs
  PROVE  RunGoes(r)
<1>0. RowTypes
  BY Typed DEF IInv
<1>1. /\ r # q => runs'[r] = runs[r]
      /\ runs'[q].status = "cancelled"
      /\ worker'[w].pc = "release"
  BY <1>0 DEF Cancelled, Goto, RowTypes, RunRow, Cycle
<1>2. ASSUME NEW b \in Batches PROVE rb'[q][b].status \in FinalBatch \cup {"absent"}
  <2> DEFINE status == Outcome(q, b, "cancelled")
  <2>1. rb[q][b] \in BatchRow
    BY <1>0, Fields
  <2>2. rb'[q][b] = [rb[q][b] EXCEPT !.status = status]
    BY <1>0 DEF Cancelled, RowTypes
  <2>3. status \in FinalBatch \cup {"absent"}
    BY DEF Outcome
  <2> HIDE DEF status
  <2>4. rb'[q][b].status = status
    BY <2>1, <2>2 DEF BatchRow
  <2> QED
    BY <2>3, <2>4
<1> QED
  BY <1>1, <1>2 DEF RunGoes

LEMMA RunsGoOn ==
  ASSUME IInv, Next, NEW r \in Runs
  PROVE  RunGoes(r)
<1>0. RowTypes /\ CyclesRemember
  BY Typed DEF IInv
<1>1. runs'[r].status = runs[r].status => RunGoes(r)
  BY DEF RunGoes
<1>2. UNCHANGED runs => RunGoes(r)
  BY <1>1
<1>3. ASSUME NEW q \in Runs, \A p \in Runs \ {q} : runs'[p] = runs[p],
             runs[q].status \in ActiveRun, runs'[q].status \in {"running", "cancelling"}
      PROVE  RunGoes(r)
  BY <1>3 DEF RunGoes
<1>4. ASSUME NEW S \in SUBSET Batches, NEW pending \in SUBSET Batches, StartRun(S, pending)
      PROVE  RunGoes(r)
  <2>1. PICK q \in Runs : /\ runs[q].status = "absent"
                          /\ runs' = [runs EXCEPT ![q].status = "queued"]
                          /\ \A p \in Runs : runs[p].status \notin ActiveRun
    BY <1>4 DEF StartRun, NextId
  <2>2. \A p \in Runs \ {q} : runs'[p] = runs[p]
    BY <1>0, <2>1 DEF RowTypes
  <2>3. runs'[q].status = "queued"
    BY <1>0, <2>1 DEF RowTypes, RunRow
  <2> QED
    BY <2>1, <2>2, <2>3 DEF RunGoes
<1>5. ASSUME NEW q \in Runs, RequestPause(q) \/ LeaseExpires(q) PROVE RunGoes(r)
  <2>1. runs' = [runs EXCEPT ![q].pause = TRUE] \/ runs' = [runs EXCEPT ![q].expired = TRUE]
    BY <1>5 DEF RequestPause, LeaseExpires
  <2>2. CASE runs' = [runs EXCEPT ![q].pause = TRUE]
    BY <1>0, <1>1, <2>2 DEF RowTypes, RunRow
  <2>3. CASE runs' = [runs EXCEPT ![q].expired = TRUE]
    BY <1>0, <1>1, <2>3 DEF RowTypes, RunRow
  <2> QED
    BY <2>1, <2>2, <2>3
<1>6. ASSUME NEW q \in Runs, Resume(q) PROVE RunGoes(r)
  <2>1. \A p \in Runs \ {q} : runs'[p] = runs[p]
    BY <1>0, <1>6 DEF Resume, RowTypes
  <2>2. runs[q].status = "paused" /\ runs'[q].status = "running"
    BY <1>0, <1>6 DEF Resume, RowTypes, RunRow
  <2> QED
    BY <1>3, <2>1, <2>2
<1>7. ASSUME NEW q \in Runs, RequestCancel(q) PROVE RunGoes(r)
  <2>1. \A p \in Runs \ {q} : runs'[p] = runs[p]
    BY <1>0, <1>7 DEF RequestCancel, RowTypes
  <2>2. runs[q].status \in ActiveRun /\ runs'[q].status = "cancelling"
    BY <1>0, <1>7 DEF RequestCancel, RowTypes, RunRow
  <2> QED
    BY <1>3, <2>1, <2>2
<1>8. Operators => RunGoes(r)
  BY <1>2, <1>4, <1>5, <1>6, <1>7 DEF Operators, StartFull, StartScheduled,
     AbsorbErrors, ManualJob, OperatorMoves, MoveJob, InterruptCampaign
<1>9. ASSUME NEW w \in Workers, NEW q \in Runs, Paused(w, q),
             WithOwnJob(q, "running") = {}, runs[q].status = "running"
      PROVE  RunGoes(r)
  <2>1. \A p \in Runs \ {q} : runs'[p] = runs[p]
    BY <1>0, <1>9 DEF Paused, RowTypes
  <2>2. runs'[q].status = "paused"
    BY <1>0, <1>9 DEF Paused, RowTypes, RunRow
  <2>3. RunGoes(q)
    BY <1>9, <2>2 DEF RunGoes
  <2> QED
    BY <1>1, <2>1, <2>3
<1>10. ASSUME NEW w \in Workers, Release(w) \/ Crash(w) PROVE RunGoes(r)
  <2>1. Release(w) => worker[w].run \in Runs
    BY <1>0 DEF Release, CyclesRemember
  <2>2. CASE Release(w)
    <3> DEFINE q == worker[w].run
    <3>1. runs' = runs \/ runs' = [runs EXCEPT ![q].owner = NoWorker, ![q].expired = FALSE]
      BY <2>2 DEF Release
    <3>2. q \in Runs
      BY <2>1, <2>2
    <3> HIDE DEF q
    <3>3. runs'[r].status = runs[r].status
      BY <1>0, <3>1, <3>2 DEF RowTypes, RunRow
    <3> QED
      BY <1>1, <3>3
  <2>3. CASE Crash(w)
    BY <1>0, <1>1, <2>3 DEF Crash, RowTypes, RunRow
  <2> QED
    BY <1>10, <2>2, <2>3
<1>11. ASSUME NEW w \in Workers, Step(w) \/ Fails(w) \/ Crash(w) PROVE RunGoes(r)
  <2>1. ExecutePause(w) \/ ExecuteCancel(w) => worker[w].run \in Runs
    BY <1>0 DEF ExecutePause, ExecuteCancel, CyclesRemember
  <2>2. ExecutePause(w) => RunGoes(r)
    BY <1>2, <1>9, <2>1 DEF ExecutePause, StopOwnJob
  <2>3. ExecuteCancel(w) => RunGoes(r)
    BY <1>2, <2>1, CancelEnds DEF ExecuteCancel, StopOwnJob, Throw
  <2>4. Look(w) \/ FindActive(w) \/ MarkWaiting(w) \/ AssertOwnership(w) \/ Enqueue(w)
          \/ Attach(w) \/ Fails(w) => UNCHANGED runs
    BY DEF Look, FindActive, MarkWaiting, AssertOwnership, Enqueue, Attach, WriteBatch,
       Fails, Throw
  <2> QED
    BY <1>2, <1>10, <1>11, <2>2, <2>3, <2>4, ReconcileEnds DEF Step
<1>12. Boot => RunGoes(r)
  <2>1. \A row \in RunRow :
          [row EXCEPT !.owner = NoWorker, !.expired = FALSE].status = row.status
    BY DEF RunRow
  <2> QED
    BY <1>0, <1>1, <2>1, Fields DEF Boot
<1>13. ASSUME NEW w \in Workers, NEW q \in Runs, Claim(w, q) PROVE RunGoes(r)
  <2>1. \A p \in Runs \ {q} : runs'[p] = runs[p]
    BY <1>0, <1>13 DEF Claim, RowTypes
  <2>2. runs[q].status \in {"queued", "running", "cancelling"}
    BY <1>13 DEF Claim, Claimable
  <2>3. runs'[q].status = IF runs[q].status = "queued" THEN "running" ELSE runs[q].status
    BY <1>0, <1>13 DEF Claim, RowTypes, RunRow
  <2> QED
    BY <1>3, <2>1, <2>2, <2>3
<1>14. Leave \/ (\E j \in Jobs : WorkerMoves(j)) => UNCHANGED runs
  BY DEF Leave, WorkerMoves, MoveJob
<1> QED
  BY <1>2, <1>5, <1>8, <1>11, <1>12, <1>13, <1>14 DEF Next, Failure

\* Who is about to attach a job has just enqueued it or has waited since, and
\* has not claimed the run meanwhile.
LEMMA CyclesGoOn ==
  ASSUME IInv, Next, NEW v \in Workers, worker'[v].pc = "attach"
  PROVE  /\ worker'[v] = worker[v] \/ Enqueue(v)
         /\ \A q \in Runs : Owns(v, q)' => Owns(v, q)
<1>0. RowTypes /\ CyclesRemember
  BY Typed DEF IInv
<1> DEFINE Goal == /\ worker'[v] = worker[v] \/ Enqueue(v)
                   /\ \A q \in Runs : Owns(v, q)' => Owns(v, q)
<1>1. Calm => Goal
  BY DEF Calm
<1>2. ASSUME NEW w \in Workers, AtWork(w), Moves(w) PROVE Goal
  <2>1. PICK c \in Cycle : worker' = [worker EXCEPT ![w] = c] /\ Goes(w, c)
    BY <1>2 DEF Moves, MovesCycle
  <2>2. worker'[w] = c /\ (v # w => worker'[v] = worker[v])
    BY <1>0, <2>1 DEF RowTypes
  <2>3. worker[w].run \in Runs
    BY <1>0, <1>2 DEF CyclesRemember
  <2>4. \A q \in Runs : runs'[q].owner = runs[q].owner
    <3> DEFINE p == worker[w].run
    <3>1. \/ runs' = runs
          \/ \E status \in {"paused", "completed", "cancelled"} :
               runs' = [runs EXCEPT ![p].status = status]
      BY <1>2 DEF Moves, MovesRun
    <3>2. p \in Runs
      BY <2>3
    <3> HIDE DEF p
    <3>3. ASSUME NEW status, runs' = [runs EXCEPT ![p].status = status]
          PROVE  \A q \in Runs : runs'[q].owner = runs[q].owner
      BY <1>0, <3>2, <3>3 DEF RowTypes, RunRow
    <3> QED
      BY <3>1, <3>3
  <2> QED
    BY <2>1, <2>2, <2>4 DEF Goes
<1>3. ASSUME NEW w \in Workers, NEW pc \in {"off", "idle"}, EndCycle(w, pc),
             \A q \in Runs : runs'[q].owner \in {runs[q].owner, NoWorker, Gone}
      PROVE  Goal
  <2>1. worker'[w].pc \in {"off", "idle"} /\ \A u \in Workers \ {w} : worker'[u] = worker[u]
    BY <1>0, <1>3 DEF EndCycle, RowTypes
  <2> QED
    BY <1>3, <2>1
<1>4. ASSUME NEW w \in Workers, Release(w) PROVE Goal
  <2>1. worker[w].run \in Runs
    BY <1>0, <1>4 DEF Release, CyclesRemember
  <2>2. runs' = runs \/ runs' = [runs EXCEPT ![worker[w].run].owner = NoWorker,
                                              ![worker[w].run].expired = FALSE]
    BY <1>4 DEF Release
  <2>3. \A q \in Runs : runs'[q].owner \in {runs[q].owner, NoWorker}
    BY <1>0, <2>1, <2>2 DEF RowTypes, RunRow
  <2>4. \E pc \in {"off", "idle"} : EndCycle(w, pc)
    BY <1>4 DEF Release
  <2> QED
    BY <1>3, <2>3, <2>4
<1>5. ASSUME NEW w \in Workers, Crash(w) PROVE Goal
  <2>1. \A q \in Runs : runs'[q].owner \in {runs[q].owner, Gone}
    BY <1>0, <1>5 DEF Crash, RowTypes, RunRow
  <2> QED
    BY <1>3, <1>5, <2>1 DEF Crash
<1>6. Leave => Goal
  BY <1>3 DEF Leave
<1>7. Boot => Goal
  <2> SUFFICES ASSUME Boot PROVE Goal
    OBVIOUS
  <2>1. \A q \in Runs : runs'[q].owner \in {runs[q].owner, NoWorker}
    <3>1. \A row \in RunRow :
            [row EXCEPT !.owner = NoWorker, !.expired = FALSE].owner = NoWorker
      BY DEF RunRow
    <3> QED
      BY <1>0, <3>1, Fields DEF Boot
  <2>2. worker'[Main].pc = "idle" /\ \A u \in Workers \ {Main} : worker'[u] = worker[u]
    BY <1>0 DEF Boot, Goto, RowTypes, Cycle
  <2> QED
    BY <2>1, <2>2
<1>8. ASSUME NEW w \in Workers, NEW r \in Runs, Claim(w, r) PROVE Goal
  <2>1. worker'[w].pc = "pause" /\ \A u \in Workers \ {w} : worker'[u] = worker[u]
    BY <1>0, <1>8 DEF Claim, RowTypes, Cycle
  <2>2. \A q \in Runs : runs'[q].owner \in {runs[q].owner, w}
    BY <1>0, <1>8 DEF Claim, RowTypes, RunRow
  <2> QED
    BY <2>1, <2>2
<1> QED
  BY <1>0, <1>1, <1>2, <1>4, <1>5, <1>6, <1>7, <1>8, OthersCalm, StepMoves
  DEF Next, Failure

\* The job that is enqueued is of the batch, and no ended run had it.
LEMMA EnqueuedFresh ==
  ASSUME IInv, ClosedInv, NEW w \in Workers, Enqueue(w), worker'[w].job # NoJob
  PROVE  /\ worker'[w].batch = worker[w].batch
         /\ jobs'[worker'[w].job].batch = worker[w].batch
         /\ Fresh(worker[w].batch, worker'[w].job)
<1>0. RowTypes /\ CyclesRemember /\ worker[w] \in Cycle
  BY Typed, Fields DEF IInv
<1> DEFINE b == worker[w].batch
           new == [status |-> "queued", stop |-> FALSE, origin |-> "dashboard", batch |-> b]
<1>1. b \in Batches
  BY <1>0 DEF Enqueue, CyclesRemember
<1>2. ASSUME NEW j, Enqueued(w, j) PROVE worker'[w].job = j /\ worker'[w].batch = b
  BY <1>0, <1>2 DEF Enqueued, RowTypes, Cycle
<1>3. ASSUME NEW j \in DashboardJobs(b), Enqueued(w, j),
             \/ UNCHANGED jobs
             \/ jobs' = [jobs EXCEPT ![j].status = "queued", ![j].stop = FALSE]
      PROVE  jobs'[j].batch = b /\ Fresh(b, j)
  <2>1. j \in Jobs /\ j # NoJob /\ jobs[j].batch = b /\ JobActive(j) /\ jobs[j] \in JobRow
    BY <1>0, <1>3, Fields DEF DashboardJobs, Jobs
  <2>2. jobs'[j].batch = b
    BY <1>0, <1>3, <2>1 DEF RowTypes, JobRow
  <2>3. ASSUME NEW q \in Runs, runs[q].status \in EndedRun PROVE rb[q][b].job # j
    <3>1. rb[q][b].status \in FinalBatch \cup {"absent"}
      BY <1>1, <2>3 DEF ClosedInv, EndedRunsHaveEndedRows
    <3>2. rb[q][b].status \in FinalBatch => ~JobActive(rb[q][b].job)
      BY <1>1 DEF ClosedInv, EndedRowsAreQuiet
    <3>3. rb[q][b].status = "absent" => rb[q][b].job = NoJob
      BY <1>1 DEF ClosedInv, OpenRowsHaveNoJob
    <3> QED
      BY <2>1, <3>1, <3>2, <3>3
  <2> QED
    BY <2>2, <2>3 DEF Fresh
<1>4. ASSUME NEW j \in FreeJobs, Enqueued(w, j), jobs' = [jobs EXCEPT ![j] = new]
      PROVE  jobs'[j].batch = b /\ Fresh(b, j)
  <2>1. j \in Jobs /\ j # NoJob /\ jobs[j].status = "absent"
    BY <1>4 DEF FreeJobs, NextId, Jobs
  <2>2. jobs'[j].batch = b
    BY <1>0, <1>4, <2>1 DEF RowTypes
  <2>3. Fresh(b, j)
    BY <1>1, <2>1, AttachedThere DEF Fresh
  <2> QED
    BY <2>2, <2>3
<1>5. \/ Enqueued(w, NoJob)
      \/ \E j \in DashboardJobs(b) :
           /\ Enqueued(w, j)
           /\ \/ UNCHANGED jobs
              \/ jobs' = [jobs EXCEPT ![j].status = "queued", ![j].stop = FALSE]
      \/ \E j \in FreeJobs : Enqueued(w, j) /\ jobs' = [jobs EXCEPT ![j] = new]
  BY DEF Enqueue, MergeJob
<1> QED
  BY <1>2, <1>3, <1>4, <1>5

LEMMA ClosedInit == Init => ClosedInv
BY DEF Init, ClosedInv, JobsInPlace, OpenRowsHaveNoJob, EndedRowsAreQuiet,
   EndedRunsHaveEndedRows, OneActiveRun, EndedRunsKeepTheirJobs, AttachesNoOldJob

\* Beside a run at work, a run that has ended is not touched.
LEMMA WasEnded ==
  ASSUME IInv, ClosedInv, Next, NEW r \in Runs, NEW q \in Runs,
         runs'[r].status \in EndedRun, runs'[q].status \in ActiveRun
  PROVE  /\ runs[r].status \in EndedRun /\ runs[q].status \in ActiveRun \cup {"absent"}
         /\ \A b \in Batches : rb'[r][b].job \in {rb[r][b].job, NoJob}
<1>1. RunGoes(r) /\ RunGoes(q)
  BY RunsGoOn
<1>2. r # q
  OBVIOUS
<1>3. runs[q].status \in ActiveRun \cup {"absent"}
  BY <1>1 DEF RunGoes
<1>4. runs[r].status \in EndedRun
  BY <1>1, <1>2 DEF RunGoes, ClosedInv, OneActiveRun
<1>5. \A b \in Batches : RowGoes(r, b)
  BY RowsGoOn
<1> QED
  BY <1>3, <1>4, <1>5 DEF RowGoes

LEMMA PlacesKept ==
  ASSUME IInv, ClosedInv, Next
  PROVE  JobsInPlace'
<1>1. ASSUME NEW r \in Runs, NEW b \in Batches, rb'[r][b].job # NoJob
      PROVE  jobs'[rb'[r][b].job].batch = b
  <2>1. RowGoes(r, b)
    BY RowsGoOn
  <2>2. CASE rb'[r][b].job = rb[r][b].job
    <3>1. rb[r][b].job \in Jobs /\ jobs[rb[r][b].job].status # "absent"
      BY <1>1, <2>2, AttachedThere
    <3>2. JobGoes(rb[r][b].job)
      BY <3>1, JobsGoOn
    <3> QED
      BY <1>1, <2>2, <3>2 DEF JobGoes, ClosedInv, JobsInPlace
  <2> QED
    BY <1>1, <2>1, <2>2 DEF RowGoes
<1>2. ASSUME NEW w \in Workers, worker'[w].pc = "attach", worker'[w].job # NoJob
      PROVE  jobs'[worker'[w].job].batch = worker'[w].batch
  <2>1. worker'[w] = worker[w] \/ Enqueue(w)
    BY <1>2, CyclesGoOn
  <2>2. CASE worker'[w] = worker[w]
    <3> DEFINE j == worker[w].job
    <3>1. j \in Jobs /\ jobs[j].status # "absent"
      <4>1. worker[w] \in Cycle
        BY Typed, Fields DEF IInv
      <4> QED
        BY <1>2, <2>2, <4>1 DEF Cycle, IInv, AttachedJobsAreOurs, OfDashboard
    <3>2. JobGoes(j)
      BY <3>1, JobsGoOn
    <3> QED
      BY <1>2, <2>2, <3>2 DEF JobGoes, ClosedInv, JobsInPlace
  <2>3. CASE Enqueue(w)
    BY <1>2, <2>3, EnqueuedFresh
  <2> QED
    BY <2>1, <2>2, <2>3
<1> QED
  BY <1>1, <1>2 DEF JobsInPlace

LEMMA EndedRowsKept ==
  ASSUME IInv, ClosedInv, Next, NEW r \in Runs, NEW b \in Batches,
         rb'[r][b].status \in FinalBatch
  PROVE  ~JobActive(rb[r][b].job)'
<1> DEFINE j == rb[r][b].job
<1>1. RowGoes(r, b)
  BY RowsGoOn
<1>2. CASE rb'[r][b].status = rb[r][b].status /\ rb'[r][b].job = j /\ j # NoJob
  <2> SUFFICES ASSUME jobs'[j].status \in Lifecycle!Active PROVE FALSE
    BY <1>2 DEF JobActive
  <2>1. j \in Jobs /\ jobs[j].status # "absent" /\ jobs[j].origin = "dashboard"
    BY <1>2, AttachedThere DEF IInv, AttachedJobsAreOurs, OfDashboard
  <2>2. jobs[j].status \notin Lifecycle!Active
    BY <1>2 DEF ClosedInv, EndedRowsAreQuiet, JobActive
  <2>3. PICK q \in Runs, c \in Batches : AbsorbErrors(q, c) /\ rb[q][c].job = j
    BY <2>1, <2>2, JobsGoOn DEF JobGoes
  <2>4. c = b
    BY <1>2, <2>3 DEF ClosedInv, JobsInPlace
  <2>5. runs[q].status \in ActiveRun
    BY <2>3 DEF AbsorbErrors, Absorbing
  <2>6. rb'[q][b].status = "running"
    <3>1. RowTypes
      BY Typed DEF IInv
    <3>2. \E k : rb' = [rb EXCEPT ![q][b] = [status |-> "running", job |-> k, wait |-> NoJob]]
      BY <2>3, <2>4 DEF AbsorbErrors
    <3> QED
      BY <3>1, <3>2 DEF RowTypes
  <2>7. runs[r].status \notin ActiveRun
    BY <2>5, <2>6 DEF ClosedInv, OneActiveRun
  <2>8. runs[r].status \notin EndedRun
    BY <1>2, <2>3, <2>4, <2>5 DEF ClosedInv, EndedRunsKeepTheirJobs
  <2>9. runs[r].status # "absent"
    BY <1>2 DEF IInv, AbsentRunsAreEmpty
  <2>10. runs[r] \in RunRow
    BY Typed, Fields DEF IInv
  <2> QED
    BY <2>7, <2>8, <2>9, <2>10 DEF RunRow
<1>3. CASE runs[r].status = "absent"
  <2>1. j = NoJob
    BY <1>3 DEF IInv, AbsentRunsAreEmpty, ClosedInv, OpenRowsHaveNoJob
  <2> QED
    BY <1>1, <1>3, <2>1 DEF RowGoes, JobActive
<1> QED
  BY <1>1, <1>2, <1>3 DEF RowGoes, JobActive

LEMMA RunsKeptApart ==
  ASSUME IInv, ClosedInv, Next
  PROVE  EndedRunsHaveEndedRows' /\ OneActiveRun' /\ EndedRunsKeepTheirJobs'
<1>0. \A r \in Runs : RunGoes(r) /\ \A b \in Batches : RowGoes(r, b)
  BY RunsGoOn, RowsGoOn
<1>1. ASSUME NEW r \in Runs, runs'[r].status \in EndedRun, NEW b \in Batches
      PROVE  rb'[r][b].status \in FinalBatch \cup {"absent"}
  <2>1. CASE runs[r].status \in EndedRun
    <3>1. rb[r][b].status \in FinalBatch \cup {"absent"}
      BY <2>1 DEF ClosedInv, EndedRunsHaveEndedRows
    <3> QED
      BY <1>0, <2>1, <3>1 DEF RowGoes
  <2> QED
    BY <1>0, <1>1, <2>1 DEF RunGoes
<1>2. ASSUME NEW r \in Runs, NEW q \in Runs, r # q,
             runs'[r].status \in ActiveRun, runs'[q].status \in ActiveRun
      PROVE  FALSE
  <2>1. RunGoes(r) /\ RunGoes(q)
    BY <1>0
  <2>2. ~(runs[r].status \in ActiveRun /\ runs[q].status \in ActiveRun)
    BY <1>2 DEF ClosedInv, OneActiveRun
  <2> QED
    BY <1>2, <2>1, <2>2 DEF RunGoes
<1>3. ASSUME NEW r \in Runs, NEW q \in Runs, NEW b \in Batches,
             runs'[r].status \in EndedRun, runs'[q].status \in ActiveRun,
             rb'[r][b].job # NoJob
      PROVE  rb'[q][b].job # rb'[r][b].job
  <2>1. /\ runs[r].status \in EndedRun /\ runs[q].status \in ActiveRun \cup {"absent"}
        /\ rb'[r][b].job = rb[r][b].job
    BY <1>3, WasEnded
  <2>2. RowGoes(q, b)
    BY <1>0
  <2>3. runs[q].status \in ActiveRun => rb[q][b].job # rb[r][b].job
    BY <1>3, <2>1 DEF ClosedInv, EndedRunsKeepTheirJobs
  <2>4. runs[q].status = "absent" => rb[q][b].job = NoJob
    BY DEF IInv, AbsentRunsAreEmpty, ClosedInv, OpenRowsHaveNoJob
  <2>5. rb[q][b].job # rb[r][b].job
    BY <1>3, <2>1, <2>3, <2>4
  <2> QED
    BY <1>3, <2>1, <2>2, <2>5 DEF RowGoes, Fresh
<1> QED
  BY <1>1, <1>2, <1>3 DEF EndedRunsHaveEndedRows, OneActiveRun, EndedRunsKeepTheirJobs

LEMMA AttachedNewKept ==
  ASSUME IInv, ClosedInv, Next, NEW w \in Workers, NEW q \in Runs, NEW r \in Runs,
         worker'[w].pc = "attach", worker'[w].job # NoJob, Owns(w, q)',
         runs'[q].status \in ActiveRun, runs'[r].status \in EndedRun
  PROVE  rb'[r][worker'[w].batch].job # worker'[w].job
<1>1. (worker'[w] = worker[w] \/ Enqueue(w)) /\ Owns(w, q)
  BY CyclesGoOn
<1>2. runs[q].status \in ActiveRun
  BY <1>1, WasEnded DEF IInv, ClaimsNameTheirCycle
<1>3. /\ runs[r].status \in EndedRun
      /\ \A b \in Batches : rb'[r][b].job \in {rb[r][b].job, NoJob}
  BY WasEnded
<1>4. worker[w].batch \in Batches
  <2>1. worker[w].pc \in {"enqueue", "attach"}
    BY <1>1 DEF Enqueue
  <2> QED
    BY <2>1 DEF IInv, CyclesRemember
<1>5. CASE worker'[w] = worker[w]
  <2>1. rb[r][worker[w].batch].job # worker[w].job
    BY <1>1, <1>2, <1>3, <1>5 DEF ClosedInv, AttachesNoOldJob
  <2> QED
    BY <1>3, <1>4, <1>5, <2>1
<1>6. CASE Enqueue(w)
  BY <1>3, <1>4, <1>6, EnqueuedFresh DEF Fresh
<1> QED
  BY <1>1, <1>5, <1>6

LEMMA ClosedKept == IInv /\ ClosedInv /\ [Next]_vars => ClosedInv'
<1> SUFFICES ASSUME IInv, ClosedInv, [Next]_vars PROVE ClosedInv'
  OBVIOUS
<1>1. CASE Next
  <2>1. OpenRowsHaveNoJob'
    <3> SUFFICES ASSUME NEW r \in Runs, NEW b \in Batches,
                        rb'[r][b].status \in {"absent", "pending", "waiting"}
                 PROVE  rb'[r][b].job = NoJob
      BY DEF OpenRowsHaveNoJob
    <3>1. RowGoes(r, b)
      BY <1>1, RowsGoOn
    <3>2. runs[r].status = "absent" => rb[r][b].status = "absent"
      BY DEF IInv, AbsentRunsAreEmpty
    <3>3. rb[r][b].status \in {"absent", "pending", "waiting"} => rb[r][b].job = NoJob
      BY DEF ClosedInv, OpenRowsHaveNoJob
    <3> QED
      BY <3>1, <3>2, <3>3 DEF RowGoes
  <2>2. EndedRowsAreQuiet'
    <3> SUFFICES ASSUME NEW r \in Runs, NEW b \in Batches,
                        rb'[r][b].status \in FinalBatch
                 PROVE  ~JobActive(rb[r][b].job)'
      BY DEF EndedRowsAreQuiet
    <3> QED
      BY <1>1, EndedRowsKept
  <2>3. AttachesNoOldJob'
    BY <1>1, AttachedNewKept DEF AttachesNoOldJob
  <2> QED
    BY <1>1, <2>1, <2>2, <2>3, PlacesKept, RunsKeptApart DEF ClosedInv
<1>2. CASE UNCHANGED vars
  BY <1>2 DEF vars, ClosedInv, JobsInPlace, OpenRowsHaveNoJob, EndedRowsAreQuiet, JobActive,
     EndedRunsHaveEndedRows, OneActiveRun, EndedRunsKeepTheirJobs, AttachesNoOldJob
<1> QED
  BY <1>1, <1>2

-----------------------------------------------------------------------------
(* The lock keeps a paused run quiet *)

\* The only cycle holds the claim of its run as long as it is at work, and the
\* run of a batch it has chosen is neither paused nor ended meanwhile.
MainHolds ==
  /\ AtWork(Main) => Owns(Main, worker[Main].run)
  /\ Chosen(Main) => runs[worker[Main].run].status \in {"running", "cancelling"}

QuietInv == MainHolds /\ PausedRunsAreQuiet

LEMMA QuietInit == Init => QuietInv
BY DEF Init, QuietInv, MainHolds, PausedRunsAreQuiet, Workers

LEMMA MainKept ==
  ASSUME FreeWorkers = {}, IInv, MainHolds, Next
  PROVE  MainHolds'
<1> USE DEF Workers
<1>0. RowTypes /\ CyclesRemember
  BY Typed DEF IInv
<1> DEFINE q == worker[Main].run
<1>1. ASSUME worker'[Main].pc \in {"off", "idle"} PROVE MainHolds'
  BY <1>1 DEF MainHolds
\* A chosen batch keeps its run at work.
<1>2. ASSUME q \in Runs, runs[q].status \in {"running", "cancelling"},
             worker'[Main].pc # "release"
      PROVE  runs'[q].status \in {"running", "cancelling"}
  <2> HIDE DEF q
  <2>1. RunGoes(q)
    BY <1>2, RunsGoOn
  <2>2. ASSUME NEW w \in Workers, Paused(w, q) PROVE FALSE
    BY <1>0, <1>2, <2>2 DEF Paused, Goto, RowTypes, Cycle
  <2> QED
    BY <1>2, <2>1, <2>2 DEF RunGoes
<1>3. CASE Calm
  <2>1. AtWork(Main) => q \in Runs
    BY <1>0 DEF CyclesRemember
  <2> QED
    BY <1>2, <1>3, <2>1 DEF Calm, MainHolds
<1>4. CASE AtWork(Main) /\ Moves(Main)
  <2>1. PICK c \in Cycle : worker' = [worker EXCEPT ![Main] = c] /\ Goes(Main, c)
    BY <1>4 DEF Moves, MovesCycle
  <2>2. worker'[Main] = c /\ c.run = q
    BY <1>0, <2>1 DEF RowTypes, Goes
  <2>3. q \in Runs
    BY <1>0, <1>4 DEF CyclesRemember
  <2>4. runs'[q].owner = runs[q].owner
    <3>1. \/ runs' = runs
          \/ \E status \in {"paused", "completed", "cancelled"} :
               runs' = [runs EXCEPT ![q].status = status]
      BY <1>4 DEF Moves, MovesRun
    <3> HIDE DEF q
    <3> QED
      BY <1>0, <2>3, <3>1 DEF RowTypes, RunRow
  <2>5. runs'[q].owner = Main
    BY <1>4, <2>4 DEF MainHolds
  <2>6. ASSUME Chosen(Main)' PROVE runs[q].status \in {"running", "cancelling"}
    <3>1. Look(Main) \/ Chosen(Main)
      BY <2>1, <2>2, <2>6 DEF Goes
    <3>2. ~Throw(Main)
      BY <1>0, <2>6 DEF Throw, Goto, RowTypes, Cycle
    <3> QED
      BY <3>1, <3>2 DEF Look, MainHolds
  <2> QED
    BY <1>2, <2>2, <2>3, <2>5, <2>6 DEF MainHolds
<1>5. ASSUME NEW r \in Runs, Claim(Main, r) PROVE MainHolds'
  <2>1. worker'[Main].pc = "pause" /\ worker'[Main].run = r
    BY <1>0, <1>5 DEF Claim, RowTypes, Cycle
  <2>2. runs'[r].owner = Main
    BY <1>0, <1>5 DEF Claim, RowTypes, RunRow
  <2> QED
    BY <2>1, <2>2 DEF MainHolds
<1>6. Boot \/ Leave \/ Crash(Main) \/ Release(Main) => worker'[Main].pc \in {"off", "idle"}
  <2>1. worker[Main] \in Cycle
    BY <1>0, Fields
  <2>2. Boot => worker'[Main].pc = "idle"
    BY <1>0, <2>1 DEF Boot, Goto, RowTypes, Cycle
  <2>3. ASSUME NEW pc \in {"off", "idle"}, EndCycle(Main, pc)
        PROVE  worker'[Main].pc \in {"off", "idle"}
    BY <1>0, <2>3 DEF EndCycle, RowTypes
  <2> QED
    BY <2>2, <2>3 DEF Leave, Crash, Release
<1> QED
  BY <1>0, <1>1, <1>3, <1>4, <1>5, <1>6, OthersCalm, StepMoves DEF Next, Failure

LEMMA PausedKept ==
  ASSUME FreeWorkers = {}, IInv, ClosedInv, QuietInv, Next
  PROVE  PausedRunsAreQuiet'
<1> USE DEF Workers
<1>0. RowTypes /\ CyclesRemember
  BY Typed DEF IInv
<1> SUFFICES ASSUME NEW r \in Runs, runs'[r].status = "paused",
                    NEW b \in Batches, rb'[r][b].status # "absent",
                    NEW j, j = rb'[r][b].job, j # NoJob,
                    jobs'[j].status \in {"queued", "running"}
             PROVE  FALSE
  BY DEF PausedRunsAreQuiet, OwnJobs, Scope
<1>1. RunGoes(r) /\ RowGoes(r, b)
  BY RunsGoOn, RowsGoOn
<1>2. ASSUME rb[r][b].job = j, rb[r][b].status # "absent"
      PROVE  /\ j \in OwnJobs(r) /\ j \in Jobs
             /\ jobs[j].status # "absent" /\ jobs[j].origin = "dashboard"
  <2>1. j \in Jobs /\ jobs[j].status # "absent"
    BY <1>2, AttachedThere
  <2> QED
    BY <1>2, <2>1 DEF OwnJobs, Scope, IInv, AttachedJobsAreOurs, OfDashboard
\* It was paused before: nothing starts a job of it.
<1>3. CASE runs[r].status = "paused"
  <2>1. rb[r][b].job = j /\ rb[r][b].status # "absent"
    BY <1>1, <1>3 DEF RowGoes
  <2>2. jobs[j].status \notin {"queued", "running"}
    BY <1>2, <1>3, <2>1 DEF QuietInv, PausedRunsAreQuiet
  <2>3. \A q \in Runs : runs[q].status \in ActiveRun => q = r
    BY <1>3 DEF ClosedInv, OneActiveRun
  <2>4. JobGoes(j)
    BY <1>2, <2>1, JobsGoOn
  <2>5. ~Enqueue(Main)
    BY <1>0, <1>3, <2>3 DEF Enqueue, CyclesRemember, QuietInv, MainHolds
  <2>6. ASSUME NEW q \in Runs, Resume(q) PROVE FALSE
    <3>1. q = r
      BY <2>3, <2>6 DEF Resume
    <3> QED
      BY <1>0, <2>6, <3>1 DEF Resume, RowTypes, RunRow
  <2>7. ASSUME NEW q \in Runs, NEW c \in Batches, AbsorbErrors(q, c) PROVE FALSE
    BY <1>3, <2>3, <2>7 DEF AbsorbErrors, Absorbing
  <2> QED
    BY <1>2, <2>1, <2>2, <2>4, <2>5, <2>6, <2>7 DEF JobGoes
\* It is paused by this step, with its jobs.
<1>4. CASE runs[r].status # "paused"
  <2>1. PICK w \in Workers : Paused(w, r) /\ WithOwnJob(r, "running") = {}
    BY <1>1, <1>4 DEF RunGoes
  <2>2. rb[r][b] \in BatchRow
    BY <1>0, Fields
  <2>3. \E status : /\ rb'[r][b] = [rb[r][b] EXCEPT !.status = status]
                    /\ rb[r][b].status = "absent" => status = "absent"
    BY <1>0, <2>1 DEF Paused, RowTypes, Outcome
  <2>4. rb[r][b].job = j /\ rb[r][b].status # "absent"
    BY <2>2, <2>3 DEF BatchRow
  <2>5. jobs[j].status # "running"
    BY <2>1, <2>4 DEF WithOwnJob, Scope
  <2>6. jobs[j] \in JobRow
    BY <1>0, <1>2, <2>4, Fields
  <2>7. jobs'[j] = IF jobs[j].status = "queued"
                   THEN [jobs[j] EXCEPT !.status = "paused", !.stop = TRUE] ELSE jobs[j]
    BY <1>2, <2>1, <2>4 DEF Paused
  <2> QED
    BY <2>5, <2>6, <2>7 DEF JobRow
<1> QED
  BY <1>3, <1>4

-----------------------------------------------------------------------------
(* The theorems *)

\* The state keeps its types.
THEOREM TypeCorrect == Spec => []TypeOK
<1>1. Init => IInv
  BY InitOK
<1>2. IInv => TypeOK
  BY DEF IInv
<1> QED
  BY <1>1, <1>2, IInvKept, PTL DEF Spec

\* However long a cycle holds on to what it read, however its claim expires or
\* its process dies, a run that has ended stays as it ended and a requested
\* cancellation ends in nothing else.
THEOREM EndsFinal == Spec => EndsAreFinal
<1>1. Init => IInv
  BY InitOK
<1>2. IInv /\ [Next]_vars => [FinalStep]_vars
  BY EndsKept
<1> QED
  BY <1>1, <1>2, IInvKept, PTL DEF Spec, EndsAreFinal

\* No cycle, paused, cancelled or advancing, ever writes to a job that the
\* operators started.
THEOREM ManualUntouched == Spec => ExternalJobsUntouched
<1>1. Init => IInv
  BY InitOK
<1>2. IInv /\ [Next]_vars => [UntouchedStep]_vars
  BY ManualKept
<1> QED
  BY <1>1, <1>2, IInvKept, PTL DEF Spec, ExternalJobsUntouched

\* Where the errors of a batch are not absorbed into a run (absorption queues a
\* batch again out of its turn), a wave has one batch at work and those before
\* it have ended, whoever claims the run and whatever expires or dies.
THEOREM InOrder ==
  ASSUME "absorb" \notin Requests
  PROVE  Spec => []OneBatchInOrder
<1>1. Init => IInv /\ OrderInv
  BY InitOK
<1>2. IInv /\ OrderInv /\ [Next]_vars => OrderInv'
  <2> SUFFICES ASSUME IInv, OrderInv, [Next]_vars PROVE OrderInv'
    OBVIOUS
  <2>1. CASE Next
    BY <2>1, OrderKept
  <2>2. CASE UNCHANGED vars
    BY <2>2, QuietOrder DEF vars
  <2> QED
    BY <2>1, <2>2
<1>3. OrderInv => OneBatchInOrder
  BY DEF OrderInv
<1> QED
  BY <1>1, <1>2, <1>3, IInvKept, PTL DEF Spec
\* However the end of a run, the attachment of its last job, an absorption, a
\* pause and the death of a cycle follow each other, a run that has ended has no
\* batch open and no job in the queue.
THEOREM EndedAreClosed == Spec => []EndedRunsAreClosed
<1>1. Init => IInv /\ ClosedInv
  BY InitOK, ClosedInit
<1>2. IInv /\ ClosedInv => EndedRunsAreClosed
  BY DEF ClosedInv, EndedRunsHaveEndedRows, EndedRowsAreQuiet, EndedRunsAreClosed, Scope
<1> QED
  BY <1>1, <1>2, IInvKept, ClosedKept, PTL DEF Spec

\* Where every cycle runs under the advisory lock, no job of a paused run is
\* queued or running: neither a cycle that was at work when it was paused nor an
\* absorption starts one.
THEOREM PausedAreQuiet ==
  ASSUME FreeWorkers = {}
  PROVE  Spec => []PausedRunsAreQuiet
<1>1. Init => IInv /\ ClosedInv /\ QuietInv
  BY InitOK, ClosedInit, QuietInit
<1>2. IInv /\ ClosedInv /\ QuietInv /\ [Next]_vars => QuietInv'
  <2> SUFFICES ASSUME IInv, ClosedInv, QuietInv, [Next]_vars PROVE QuietInv'
    OBVIOUS
  <2>1. CASE Next
    BY <2>1, MainKept, PausedKept DEF QuietInv
  <2>2. CASE UNCHANGED vars
    BY <2>2 DEF vars, QuietInv, MainHolds, PausedRunsAreQuiet, OwnJobs, Scope
  <2> QED
    BY <2>1, <2>2
<1>3. QuietInv => PausedRunsAreQuiet
  BY DEF QuietInv
<1> QED
  BY <1>1, <1>2, <1>3, IInvKept, ClosedKept, PTL DEF Spec
=============================================================================
