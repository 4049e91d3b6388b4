------------------------ MODULE ProcessingPipeline ------------------------
(***************************************************************************)
(* runSplitProcessingPipeline: consultations of a claimed block and the    *)
(* persistence of their results as two pools of asynchronous loops that    *)
(* share a buffer.  One event loop runs all of them, so a step goes from   *)
(* one await to the next.  Items are numbered as in the block; 0 is none.  *)
(***************************************************************************)
EXTENDS PipelinePools, Integers, Sequences

VARIABLES
  size,             \* items.length
  nextItem,         \* index the next consultation takes
  consulting,       \* the item each consulter waits for
  left,             \* consulters that returned
  ready,            \* results that wait for a persister
  persisting,       \* the item each persister writes
  waitingConsumers, \* persisters parked in takeNext
  stopped,          \* persisters that returned
  consultationsDone,
  handed,           \* how often each item was given to persist
  failed,           \* items whose persist threw
  result            \* of the promise: "running", "resolved", "rejected"

vars == <<size, nextItem, consulting, left, ready, persisting,
          waitingConsumers, stopped, consultationsDone, handed, failed, result>>

Items == 1..size
NoItem == 0

\* The checks at the entry; every persister runs at once until takeNext parks
\* it.  The pools have at most one loop per item in the code; one more takes
\* nothing.
Init ==
  /\ size \in 0..MaxItems
  /\ result = IF size = 0 THEN "resolved"
              ELSE IF size > MaxBuffered THEN "rejected" ELSE "running"
  /\ nextItem = 1
  /\ consulting = [c \in Consulters |-> NoItem]
  /\ left = {}
  /\ ready = <<>>
  /\ persisting = [p \in Persisters |-> NoItem]
  /\ waitingConsumers = Persisters
  /\ stopped = {}
  /\ consultationsDone = FALSE
  /\ handed = [i \in 1..MaxItems |-> 0]
  /\ failed = {}

\* Every parked persister looks at the buffer again.
wakeConsumers == waitingConsumers' = {}

-----------------------------------------------------------------------------
(* Consultations *)

InBlock == nextItem <= size

NextConsultation(c) ==
  /\ result = "running" /\ c \notin left /\ consulting[c] = NoItem
  /\ nextItem' = nextItem + 1
  /\ IF InBlock
     THEN /\ consulting' = [consulting EXCEPT ![c] = nextItem]
          /\ UNCHANGED left
     ELSE /\ left' = left \cup {c}
          /\ UNCHANGED consulting
  /\ UNCHANGED <<size, ready, persisting, waitingConsumers, stopped,
                 consultationsDone, handed, failed, result>>

\* Success and failure alike are results to persist.
Consulted(c) ==
  /\ consulting[c] # NoItem
  /\ ready' = Append(ready, consulting[c])
  /\ consulting' = [consulting EXCEPT ![c] = NoItem]
  /\ wakeConsumers
  /\ UNCHANGED <<size, nextItem, left, persisting, stopped,
                 consultationsDone, handed, failed, result>>

\* Mutant of EndConsultations: the parked persisters are not told.
EndSilently ==
  /\ result = "running" /\ ~consultationsDone /\ left = Consulters
  /\ consultationsDone' = TRUE
  /\ UNCHANGED <<size, nextItem, consulting, left, ready, persisting,
                 waitingConsumers, stopped, handed, failed, result>>

\* Promise.all(consultationWorkers), then the finally block
EndConsultations ==
  /\ result = "running" /\ ~consultationsDone /\ left = Consulters
  /\ consultationsDone' = TRUE
  /\ wakeConsumers
  /\ UNCHANGED <<size, nextItem, consulting, left, ready, persisting, stopped,
                 handed, failed, result>>

-----------------------------------------------------------------------------
(* Persistence *)

Idle(p) == result = "running" /\ persisting[p] = NoItem
           /\ p \notin waitingConsumers \cup stopped

\* ready.shift()
Taken == Tail(ready)

Take(p) ==
  /\ Idle(p) /\ ready # <<>>
  /\ persisting' = [persisting EXCEPT ![p] = Head(ready)]
  /\ handed' = [handed EXCEPT ![Head(ready)] = @ + 1]
  /\ ready' = Taken
  /\ UNCHANGED <<size, nextItem, consulting, left, waitingConsumers, stopped,
                 consultationsDone, failed, result>>

Park(p) ==
  /\ Idle(p) /\ ready = <<>> /\ ~consultationsDone
  /\ waitingConsumers' = waitingConsumers \cup {p}
  /\ UNCHANGED <<size, nextItem, consulting, left, ready, persisting, stopped,
                 consultationsDone, handed, failed, result>>

Stop(p) ==
  /\ Idle(p) /\ ready = <<>> /\ consultationsDone
  /\ stopped' = stopped \cup {p}
  /\ UNCHANGED <<size, nextItem, consulting, left, ready, persisting,
                 waitingConsumers, consultationsDone, handed, failed, result>>

\* An error is kept for the end; the loop goes on.
Persisted(p, ok) ==
  /\ persisting[p] # NoItem
  /\ persisting' = [persisting EXCEPT ![p] = NoItem]
  /\ failed' = IF ok THEN failed ELSE failed \cup {persisting[p]}
  /\ UNCHANGED <<size, nextItem, consulting, left, ready, waitingConsumers,
                 stopped, consultationsDone, handed, result>>

\* Mutant of AllPersisted: one persister that returned is enough.
OnePersisted == stopped # {}

\* Promise.all(persistenceWorkers)
AllPersisted == stopped = Persisters

Finish ==
  /\ result = "running" /\ consultationsDone /\ AllPersisted
  /\ result' = IF failed = {} THEN "resolved" ELSE "rejected"
  /\ UNCHANGED <<size, nextItem, consulting, left, ready, persisting,
                 waitingConsumers, stopped, consultationsDone, handed, failed>>

Loop(p) ==
  \/ Take(p) \/ Park(p) \/ Stop(p)
  \/ \E ok \in BOOLEAN : Persisted(p, ok)

Consultation(c) == NextConsultation(c) \/ Consulted(c)

Next ==
  \/ \E c \in Consulters : Consultation(c)
  \/ EndConsultations
  \/ \E p \in Persisters : Loop(p)
  \/ Finish

Spec == Init /\ [][Next]_vars

\* The event loop runs what is ready, and consult and persist settle: both
\* carry a timeout (of the request, of the statement).
Fairness ==
  /\ \A c \in Consulters : WF_vars(Consultation(c))
  /\ \A p \in Persisters : WF_vars(Loop(p))
  /\ WF_vars(EndConsultations \/ Finish)

FairSpec == Spec /\ Fairness

TypeOK ==
  /\ size \in 0..MaxItems /\ nextItem \in Nat \ {0}
  /\ consulting \in [Consulters -> 0..size] /\ left \subseteq Consulters
  /\ ready \in Seq(Items)
  /\ persisting \in [Persisters -> 0..size]
  /\ waitingConsumers \subseteq Persisters /\ stopped \subseteq Persisters
  /\ consultationsDone \in BOOLEAN
  /\ handed \in [1..MaxItems -> Nat] /\ failed \subseteq 1..MaxItems
  /\ result \in {"running", "resolved", "rejected"}

-----------------------------------------------------------------------------
(* Properties *)

\* No result is given to two persisters: persist of an item is called at most
\* once, whoever wakes first.
PersistedOnce == \A i \in 1..MaxItems : handed[i] <= 1

\* No lost wake-up: a persister is parked only while there is nothing to take
\* and something may still come.
ParkedForAReason ==
  result = "running" /\ waitingConsumers # {} => ready = <<>> /\ ~consultationsDone

\* The promise of an accepted block settles after every item was persisted and
\* nothing is in flight, and it is rejected exactly when one of them failed:
\* the worker releases its job and recalculates its batch after it.
Drained ==
  result # "running" /\ size \in 1..MaxBuffered =>
    /\ \A i \in Items : handed[i] = 1
    /\ \A p \in Persisters : persisting[p] = NoItem
    /\ (result = "rejected") <=> (failed # {})

\* The promise settles.
Settles == <>(result # "running")
=============================================================================
