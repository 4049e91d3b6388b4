------------------------------ MODULE SyncPanel ------------------------------
(***************************************************************************)
(* The panel of the general synchronization (general-sync-button.tsx) in   *)
(* one browser tab, the requests it has in flight, the event stream that   *)
(* wakes it up, and the server it talks to.  Answers arrive in any order,  *)
(* or not at all; a notification that finds the panel loading, hidden or   *)
(* disconnected is lost.                                                   *)
(*                                                                         *)
(*   runs     general_sync_runs: status and request_key                    *)
(*   panel    run and preview of the component                             *)
(*   load     the request of each effect: discover and refresh             *)
(*   op       the request of each button                                   *)
(*   stream   the EventSource of the tab, shared by all its subscribers    *)
(*   event    an event of the stream waits to be dispatched                *)
(*                                                                         *)
(* GeneralSync has what makes the status of a run change; here it moves as *)
(* that module allows, queued not told from running.  Details of a run,    *)
(* messages, the filters of the dashboard, whether the dialog is open and  *)
(* the lock of the automatic synchronization are left out.                 *)
(***************************************************************************)
EXTENDS Naturals, FiniteSets

CONSTANTS
  MaxRuns,      \* bound: runs ever started
  MaxPreviews,  \* bound: previews ever answered; a preview is its confirmation token
  MaxLost,      \* bound: answers that do not arrive, and times the tab is hidden
  StreamDies    \* whether a reconnection may be refused (503 of a server that stops)

ASSUME PreviewsAssumption == MaxPreviews \in Nat

VARIABLES runs, panel, load, op, stream, event, visible, previews, lost

vars == <<runs, panel, load, op, stream, event, visible, previews, lost>>

Runs == 1 .. MaxRuns
NoToken == 0
Scheduled == MaxPreviews + 1  \* the key of a run that no preview of this tab started

Buttons == {"preview", "start", "cancel", "resume"}
Effects == {"discover", "refresh"}

ActiveRun == {"working", "paused", "cancelling"}

-----------------------------------------------------------------------------
(* The panel *)

NoRun == [id |-> 0, status |-> "none"]
Snapshot(r) == [id |-> r, status |-> runs[r].status]

\* canCancel or canResume of the snapshot.
Observable(run) == run.status \in ActiveRun

Mounted(effect, run) == IF effect = "discover" THEN ~Observable(run) ELSE Observable(run)

Off == [st |-> "off", run |-> NoRun]
Idle == [st |-> "idle", run |-> NoRun]
Asked == [st |-> "asked", run |-> NoRun]

\* Every load begins with this test, then sets loading.
Begun(request) == IF request.st = "idle" /\ visible THEN Asked ELSE request

\* An effect whose dependencies have changed is cleaned up and set up again,
\* and loads at once; its cleanup comes before an answer that is on its way.
Effect(effect, requests, old, new) ==
  IF ~Mounted(effect, new) THEN Off
  ELSE IF Mounted(effect, old) /\ (effect = "discover" \/ old.id = new.id)
  THEN requests[effect]
  ELSE Begun(Idle)

\* setRun, with the render that follows it.
SetRun(run, requests) ==
  /\ panel' = [panel EXCEPT !.run = run]
  /\ load' = [e \in Effects |-> Effect(e, requests, panel.run, run)]

Init ==
  /\ runs = [r \in Runs |-> [status |-> "absent", key |-> NoToken]]
  /\ panel = [run |-> NoRun, preview |-> NoToken]
  /\ load = [discover |-> Asked, refresh |-> Off]
  /\ op = [b \in Buttons |-> Idle]
  /\ stream = "open" /\ event = FALSE /\ visible = TRUE
  /\ previews = 0 /\ lost = 0

-----------------------------------------------------------------------------
(* The server *)

Active == {r \in Runs : runs[r].status \in ActiveRun}
Free == {r \in Runs : runs[r].status = "absent"}

\* The triggers of migration 013: a statement on the tables of processing
\* notifies the streams that listen.
Notify == event' = (event \/ stream = "open")

Insert(key) ==
  \E r \in Free :
    /\ \A q \in Free : r <= q
    /\ runs' = [runs EXCEPT ![r] = [status |-> "working", key |-> key]]

\* createLocalGeneralSyncRun by the scheduler or in another tab.
StartElsewhere ==
  /\ Active = {} /\ Insert(Scheduled) /\ Notify
  /\ UNCHANGED <<panel, load, op, stream, visible, previews, lost>>

\* The worker and other operators (GeneralSync).
Moves == [working |-> {"paused", "cancelling", "ended"},
          paused |-> {"working", "cancelling"},
          cancelling |-> {"ended"}]

RunMoves ==
  /\ \E r \in Active : \E status \in Moves[runs[r].status] :
       runs' = [runs EXCEPT ![r].status = status]
  /\ Notify
  /\ UNCHANGED <<panel, load, op, stream, visible, previews, lost>>

\* Mutant: the request key is not looked up.
WithAnyKey(token) == {}

WithKey(token) == {r \in Runs : runs[r].key = token}

\* The transaction of a button; the run is read after it, here with it.
Refuse(b) == op' = [op EXCEPT ![b] = [st |-> "failed", run |-> NoRun]]
Executed(b, r) ==
  op' = [op EXCEPT ![b] = [st |-> "answered", run |-> [id |-> r, status |-> runs'[r].status]]]

ExecuteStart ==
  /\ op["start"].st = "asked"
  /\ LET token == panel.preview
         answered == IF WithKey(token) # {} THEN WithKey(token) ELSE Active
     IN IF answered # {}
        THEN UNCHANGED <<runs, event>> /\ \E r \in answered : Executed("start", r)
        ELSE /\ Insert(token) /\ Notify
             /\ \E r \in Runs : runs'[r] # runs[r] /\ Executed("start", r)

ExecuteCancel ==
  /\ op["cancel"].st = "asked"
  /\ LET r == op["cancel"].run.id
     IN /\ IF runs[r].status \in ActiveRun \ {"cancelling"}
           THEN runs' = [runs EXCEPT ![r].status = "cancelling"] /\ Notify
           ELSE UNCHANGED <<runs, event>>
        /\ Executed("cancel", r)

ExecuteResume ==
  /\ op["resume"].st = "asked"
  /\ LET r == op["resume"].run.id
     IN /\ runs[r].status = "paused"
        /\ runs' = [runs EXCEPT ![r].status = "working"] /\ Notify
        /\ Executed("resume", r)

\* Nothing to synchronize, the automatic synchronization is on, or the run is
\* not paused any more.
ExecuteNothing ==
  /\ \E b \in {"start", "resume"} : op[b].st = "asked" /\ Refuse(b)
  /\ UNCHANGED <<runs, event>>

Execute ==
  /\ ExecuteStart \/ ExecuteCancel \/ ExecuteResume \/ ExecuteNothing
  /\ UNCHANGED <<panel, load, stream, visible, previews, lost>>

\* getActiveGeneralSyncRun and getGeneralSyncRun.
AnswerLoad ==
  /\ \E e \in Effects :
       /\ load[e].st = "asked"
       /\ \E run \in IF e = "refresh" THEN {Snapshot(panel.run.id)}
                     ELSE IF Active = {} THEN {NoRun}
                     ELSE {Snapshot(r) : r \in Active} :
            load' = [load EXCEPT ![e] = [st |-> "answered", run |-> run]]
  /\ UNCHANGED <<runs, panel, op, stream, event, visible, previews, lost>>

-----------------------------------------------------------------------------
(* Answers arrive *)

LoadArrives(e) ==
  /\ load[e].st = "answered"
  /\ SetRun(load[e].run, [load EXCEPT ![e] = Idle])
  /\ UNCHANGED <<runs, op, stream, event, visible, previews, lost>>

\* A failed load changes nothing.
LoadLost(e) ==
  /\ load[e].st \in {"asked", "answered"} /\ lost < MaxLost
  /\ lost' = lost + 1
  /\ load' = [load EXCEPT ![e] = Idle]
  /\ UNCHANGED <<runs, panel, op, stream, event, visible, previews>>

\* The answer of start, cancel or resume shows the run.
ButtonArrives(b) ==
  /\ op[b].st = "answered"
  /\ op' = [op EXCEPT ![b] = Idle]
  /\ panel' = [panel EXCEPT !.run = op[b].run,
                            !.preview = IF b = "start" THEN NoToken ELSE @]
  /\ load' = [e \in Effects |-> Effect(e, load, panel.run, op[b].run)]
  /\ UNCHANGED <<runs, stream, event, visible, previews, lost>>

\* The preview forgets the run and brings a new token.
PreviewArrives ==
  /\ op["preview"].st = "asked" /\ previews < MaxPreviews
  /\ previews' = previews + 1
  /\ op' = [op EXCEPT !["preview"] = Idle]
  /\ panel' = [run |-> NoRun, preview |-> previews']
  /\ load' = [e \in Effects |-> Effect(e, load, panel.run, NoRun)]
  /\ UNCHANGED <<runs, stream, event, visible, lost>>

ButtonFails(b) ==
  /\ op[b].st = "failed"
  /\ op' = [op EXCEPT ![b] = Idle]
  /\ UNCHANGED <<runs, panel, load, stream, event, visible, previews, lost>>

\* Lost on the way there or, executed, on the way back.
ButtonLost(b) ==
  /\ op[b].st \in {"asked", "answered"} /\ lost < MaxLost
  /\ lost' = lost + 1
  /\ op' = [op EXCEPT ![b] = Idle]
  /\ UNCHANGED <<runs, panel, load, stream, event, visible, previews>>

Arrive ==
  \/ PreviewArrives
  \/ \E b \in Buttons : ButtonArrives(b) \/ ButtonFails(b)
  \/ \E e \in Effects : LoadArrives(e)

Lose == (\E b \in Buttons : ButtonLost(b)) \/ (\E e \in Effects : LoadLost(e))

-----------------------------------------------------------------------------
(* The operator *)

Click(b) ==
  /\ op' = [op EXCEPT ![b] = [st |-> "asked", run |-> panel.run]]
  /\ UNCHANGED <<runs, panel, load, stream, event, visible, previews, lost>>

Ready(b) == visible /\ op[b].st = "idle"

\* The round button: a run at work is shown, otherwise a preview is asked for.
ClickPreview ==
  /\ Ready("preview") /\ Ready("start") /\ previews < MaxPreviews
  /\ ~Observable(panel.run) /\ Click("preview")

\* The dialog of a preview covers the round button.
ClickStart ==
  /\ Ready("start") /\ Ready("preview")
  /\ panel.run = NoRun /\ panel.preview # NoToken
  /\ Click("start")

ClickCancel ==
  /\ Ready("cancel") /\ Ready("resume")
  /\ panel.run.status \in ActiveRun \ {"cancelling"}
  /\ Click("cancel")

ClickResume ==
  /\ Ready("resume") /\ Ready("cancel")
  /\ panel.run.status = "paused"
  /\ Click("resume")

Hide ==
  /\ visible /\ visible' = FALSE
  /\ lost < MaxLost /\ lost' = lost + 1
  /\ UNCHANGED <<runs, panel, load, op, stream, event, previews>>

Wake == load' = [e \in Effects |-> IF load[e].st = "idle" THEN Asked ELSE load[e]]

\* visibilitychange: both effects load.
Show ==
  /\ ~visible /\ visible' = TRUE /\ Wake
  /\ UNCHANGED <<runs, panel, op, stream, event, previews, lost>>

Operator ==
  ClickPreview \/ ClickStart \/ ClickCancel \/ ClickResume \/ Hide

-----------------------------------------------------------------------------
(* The event stream *)

\* ready or change: the listeners load, unless they are loading or hidden.
Dispatch ==
  /\ event /\ event' = FALSE
  /\ load' = [e \in Effects |-> Begun(load[e])]
  /\ UNCHANGED <<runs, panel, op, stream, visible, previews, lost>>

\* The server ends a stream after STREAM_MAX_LIFETIME_MS.
StreamEnds ==
  /\ stream = "open" /\ ~event /\ stream' = "closed"
  /\ UNCHANGED <<runs, panel, load, op, event, visible, previews, lost>>

\* Mutant: a stream begins without an event.
SilentReady == event

ReadyEvent == TRUE

\* The EventSource reconnects and the stream begins with ready.
Reconnect ==
  /\ stream = "closed" /\ stream' = "open"
  /\ event' = ReadyEvent
  /\ UNCHANGED <<runs, panel, load, op, visible, previews, lost>>

\* An answer that is not 200 makes an EventSource fail for good, and
\* ensureProcessingRealtimeSource keeps it.
Refused ==
  /\ StreamDies /\ stream = "closed" /\ stream' = "dead"
  /\ UNCHANGED <<runs, panel, load, op, event, visible, previews, lost>>

\* Mutant: only the events refresh a run.
NoTimer(request) == request

\* setInterval of the refresh effect; discover has none.
Timer(request) == Begun(request)

Poll ==
  /\ load["refresh"].st = "idle" /\ visible
  /\ load' = [load EXCEPT !["refresh"] = Timer(@)]
  /\ UNCHANGED <<runs, panel, op, stream, event, visible, previews, lost>>

-----------------------------------------------------------------------------
Next ==
  \/ StartElsewhere \/ RunMoves
  \/ Execute \/ AnswerLoad
  \/ Arrive \/ Lose
  \/ Operator \/ Show
  \/ Dispatch \/ StreamEnds \/ Reconnect \/ Refused \/ Poll

Spec == Init /\ [][Next]_vars

\* Requests are answered or fail, timers fire, the lifetime of a stream ends
\* and the operator comes back to the tab.  Nothing makes a run move.
Fairness ==
  /\ WF_vars(Execute) /\ WF_vars(AnswerLoad)
  /\ WF_vars(\E b \in Buttons : ButtonArrives(b))
  /\ WF_vars(\E e \in Effects : LoadArrives(e))
  /\ WF_vars(Show) /\ WF_vars(Dispatch) /\ WF_vars(Poll)
  /\ WF_vars(StreamEnds \/ Reconnect)

FairSpec == Spec /\ Fairness

-----------------------------------------------------------------------------
(* Properties *)

TypeOK ==
  /\ \A r \in Runs : runs[r].status \in ActiveRun \cup {"absent", "ended"}
  /\ Cardinality({r \in Runs : runs[r].status \in ActiveRun}) <= 1
  /\ panel.run.id \in 0 .. MaxRuns /\ panel.preview \in 0 .. MaxPreviews
  /\ \A e \in Effects : load[e].st \in {"off", "idle", "asked", "answered"}

\* A confirmation starts one run, however often the operator repeats it after
\* answers that did not arrive.
OneRunPerPreview ==
  \A r, q \in Runs :
    runs[r].key = runs[q].key /\ runs[r].key \in 1 .. MaxPreviews => r = q

Shown(r) == panel.run.id = r /\ Observable(panel.run)

\* The screen does not stay on a status the run has left for good, whatever
\* notifications and answers are lost (the fallback timer); and a run that
\* stays at work is found by a tab that shows none, also when its notification
\* finds the tab loading, hidden or disconnected.
PanelFollowsRun ==
  /\ []<>~(Observable(panel.run) /\ runs[panel.run.id].status = "ended")
  /\ []<>(stream = "dead" \/ \A r \in Active : Shown(r))

\* "O EventSource reconecta automaticamente" (processing/events/route.ts).
RunIsAlwaysFound == []<>(\A r \in Active : Shown(r))
=============================================================================
