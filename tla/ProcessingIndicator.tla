------------------------- MODULE ProcessingIndicator -------------------------
(***************************************************************************)
(* The indicator of processing on every page (global-processing-indicator  *)
(* .tsx).  It has no timer: an event of the stream, another tab or the     *)
(* return to this tab makes it load (api/processing/active), and while its *)
(* dialog shows a general synchronization a second effect loads what       *)
(* became of the errors of that run (error-reprocess-status).              *)
(*                                                                         *)
(*   jobs      whether processing_jobs has an active one                   *)
(*   run       the active general synchronization, None if there is none   *)
(*   shown     what the indicator shows; replay is the run of its errors   *)
(*   load      the two requests: "active" and "replay"                     *)
(*   stream    the EventSource; event waits to be dispatched               *)
(*                                                                         *)
(* The counts of both answers are left out; that the snapshot is made of   *)
(* two queries, with the jobs read before the run, is not.                 *)
(***************************************************************************)
EXTENDS Naturals

CONSTANTS
  MaxRun,       \* bound: general synchronizations that begin
  MaxMoves,     \* bound: changes of the queue
  MaxFailed     \* bound: answers that do not arrive, and times the tab is hidden

VARIABLES jobs, run, shown, open, replay, load, stream, event, inView, moves, failures

serverVars == <<jobs, run, moves>>
vars == <<serverVars, shown, open, replay, load, stream, event, inView, failures>>

None == 0
Loads == {"active", "replay"}
Nothing == [active |-> FALSE, run |-> None]

Idle == [st |-> "idle", value |-> Nothing]
Off == [st |-> "off", value |-> Nothing]
Sent == [st |-> "sent", value |-> Nothing]

Init ==
  /\ jobs \in BOOLEAN /\ run \in {None, 1} /\ moves = 0
  /\ shown = Nothing /\ open = FALSE /\ replay = None
  /\ load = [active |-> Sent, replay |-> Off]
  /\ stream = "open" /\ event = FALSE
  /\ inView = TRUE /\ failures = 0

-----------------------------------------------------------------------------
(* The server *)

\* The triggers of migration 013 notify the streams that listen.
Notify == event' = (event \/ stream = "open")

\* A paused run is not an active one here, and comes back.
QueueMoves ==
  /\ moves < MaxMoves /\ moves' = moves + 1
  /\ \/ jobs' = ~jobs /\ UNCHANGED run
     \/ run # None /\ run' = None /\ UNCHANGED jobs
     \/ \E next \in 1 .. MaxRun : run = None /\ run' = next /\ UNCHANGED jobs
  /\ Notify
  /\ UNCHANGED <<shown, open, replay, load, stream, inView, failures>>

\* processing/active/route.ts: the jobs, then the run.
ReadJobs ==
  /\ load.active.st = "sent"
  /\ load' = [load EXCEPT !.active = [st |-> "jobs", value |-> [active |-> jobs, run |-> None]]]
  /\ UNCHANGED <<serverVars, shown, open, replay, stream, event, inView, failures>>

ReadRun ==
  /\ load.active.st = "jobs"
  /\ load' = [load EXCEPT !.active = [st |-> "answered",
       value |-> [active |-> load.active.value.active \/ run # None, run |-> run]]]
  /\ UNCHANGED <<serverVars, shown, open, replay, stream, event, inView, failures>>

AnswerReplay ==
  /\ load.replay.st = "sent"
  /\ load' = [load EXCEPT !.replay.st = "answered", !.replay.value.run = shown.run]
  /\ UNCHANGED <<serverVars, shown, open, replay, stream, event, inView, failures>>

-----------------------------------------------------------------------------
(* The component *)

\* A load begins unless one is under way or the tab is hidden.
Begun(ask) == IF ask = Idle /\ inView THEN Sent ELSE ask

\* The second effect depends on the run and on the dialog.
ReplayEffect(newRun, newOpen) ==
  IF newRun = None \/ ~newOpen THEN Off
  ELSE IF newRun = shown.run /\ open THEN load.replay
  ELSE IF inView THEN Sent ELSE Idle

ActiveArrives ==
  /\ load.active.st = "answered"
  /\ LET next == load.active.value
     IN /\ shown' = next
        /\ replay' = IF next.run = None THEN None ELSE replay
        /\ load' = [active |-> Idle, replay |-> ReplayEffect(next.run, open)]
  /\ UNCHANGED <<serverVars, open, stream, event, inView, failures>>

ReplayArrives ==
  /\ load.replay.st = "answered"
  /\ replay' = load.replay.value.run
  /\ load' = [load EXCEPT !.replay = Idle]
  /\ UNCHANGED <<serverVars, shown, open, stream, event, inView, failures>>

\* The error of a load is swallowed: what is shown stays.
Fail ==
  /\ failures < MaxFailed /\ failures' = failures + 1
  /\ \E what \in Loads :
       /\ load[what].st \in {"sent", "jobs", "answered"}
       /\ load' = [load EXCEPT ![what] = Idle]
  /\ UNCHANGED <<serverVars, shown, open, replay, stream, event, inView>>

\* The button is there while something is active; the dialog stays open.
Open ==
  /\ shown.active /\ ~open /\ open' = TRUE
  /\ load' = [load EXCEPT !.replay = ReplayEffect(shown.run, TRUE)]
  /\ UNCHANGED <<serverVars, shown, replay, stream, event, inView, failures>>

Close ==
  /\ shown.active /\ open /\ open' = FALSE
  /\ load' = [load EXCEPT !.replay = Off]
  /\ UNCHANGED <<serverVars, shown, replay, stream, event, inView, failures>>

Hide ==
  /\ inView /\ inView' = FALSE
  /\ failures < MaxFailed /\ failures' = failures + 1
  /\ UNCHANGED <<serverVars, shown, open, replay, load, stream, event>>

\* The listeners of visibilitychange.
Show ==
  /\ ~inView /\ inView' = TRUE
  /\ load' = [what \in Loads |-> IF load[what] = Idle THEN Sent ELSE load[what]]
  /\ UNCHANGED <<serverVars, shown, open, replay, stream, event, failures>>

-----------------------------------------------------------------------------
(* The stream: what its listeners do, its end and its reconnection *)

Dispatch ==
  /\ event /\ event' = FALSE
  /\ load' = [what \in Loads |-> Begun(load[what])]
  /\ UNCHANGED <<serverVars, shown, open, replay, stream, inView, failures>>

\* The server ends a stream after STREAM_MAX_LIFETIME_MS.
StreamEnds ==
  /\ stream = "open" /\ ~event /\ stream' = "closed"
  /\ UNCHANGED <<serverVars, shown, open, replay, load, event, inView, failures>>

\* Mutant of ReadyEvent: a stream begins without an event.
SilentReady == event

\* The stream begins with ready (processing/events/route.ts).
ReadyEvent == TRUE

Reconnect ==
  /\ stream = "closed" /\ stream' = "open" /\ event' = ReadyEvent
  /\ UNCHANGED <<serverVars, shown, open, replay, load, inView, failures>>

\* An answer that is not 200 makes an EventSource fail for good, and
\* ensureProcessingRealtimeSource keeps it.
Refused ==
  /\ stream = "closed" /\ stream' = "dead"
  /\ UNCHANGED <<serverVars, shown, open, replay, load, event, inView, failures>>

\* metrics-sync.ts: another tab has changed something.
OtherTab ==
  /\ load' = [load EXCEPT !.active = Begun(@)]
  /\ load' # load
  /\ UNCHANGED <<serverVars, shown, open, replay, stream, event, inView, failures>>

-----------------------------------------------------------------------------
Next ==
  \/ QueueMoves \/ ReadJobs \/ ReadRun \/ AnswerReplay
  \/ ActiveArrives \/ ReplayArrives \/ Fail \/ Open \/ Close \/ Hide \/ Show
  \/ Dispatch \/ StreamEnds \/ Reconnect \/ Refused \/ OtherTab

Spec == Init /\ [][Next]_vars

\* Requests are answered or fail, events are dispatched, the lifetime of a
\* stream ends and the operator comes back to the tab.
Fairness ==
  /\ WF_vars(ReadJobs) /\ WF_vars(ReadRun) /\ WF_vars(AnswerReplay)
  /\ WF_vars(ActiveArrives) /\ WF_vars(ReplayArrives) /\ WF_vars(Show)
  /\ WF_vars(Dispatch) /\ WF_vars(StreamEnds) /\ WF_vars(Reconnect)

FairSpec == Spec /\ Fairness

-----------------------------------------------------------------------------
(* Properties *)

TypeOK ==
  /\ run \in 0 .. MaxRun /\ shown.run \in 0 .. MaxRun /\ replay \in 0 .. MaxRun
  /\ \A what \in Loads : load[what].st \in {"off", "idle", "sent", "jobs", "answered"}

Snapshot == [active |-> jobs \/ run # None, run |-> run]

\* Once the queue stays as it is the indicator comes to show it, although the
\* notifications that found it loading, hidden or disconnected are lost; but
\* for a stream that was refused it has no timer to fall back on.
ShowsQueue == stream = "dead" \/ shown = Snapshot
IndicatorSettles == <>[]ShowsQueue

\* "Tratativa de erros desta onda" (global-processing-indicator.tsx): the
\* errors in the dialog are those of the run it shows.  TLC refutes it: those
\* of the run before stay until the load of the new run is answered.
ReplayIsOfShownRun == open /\ shown.run # None => replay \in {None, shown.run}
=============================================================================
