----------------------------- MODULE ManualPanel -----------------------------
(***************************************************************************)
(* The requests to consult selected associates again (migrations 020, 021) *)
(* and the panel that follows them (associados-processing-panel.tsx): it   *)
(* discovers the newest request at work, reads its progress and the        *)
(* changes it found, and stops it.                                         *)
(*                                                                         *)
(*   jobs      processing_jobs of members, as far as the panel tells them  *)
(*   items     associados_processing_items: the jobs of each request       *)
(*   panel     state of the component                                      *)
(*   asks      its fetches: discover, progress and changes                 *)
(*                                                                         *)
(* A link has one active job, so an associate that is selected twice       *)
(* shares it between the requests.  An active job that is queued, running, *)
(* paused or deferred is one here, and so is what ends it.  Of a progress  *)
(* its request and whether it is active are kept; the counts, the pages of *)
(* the changes and the messages are left out.                              *)
(***************************************************************************)
EXTENDS Naturals, FiniteSets

CONSTANTS
  MaxJobs,      \* bound: jobs ever inserted
  MaxAsked,     \* bound: requests ever made
  MaxFailed     \* bound: answers that do not arrive, and times the tab is hidden

VARIABLES jobs, items, panel, asks, shownTab, failures

serverVars == <<jobs, items>>
vars == <<serverVars, panel, asks, shownTab, failures>>

Jobs == 1 .. MaxJobs
Asked == 1 .. MaxAsked
None == 0
Loads == {"discover", "progress"}

-----------------------------------------------------------------------------
(* What the routes answer *)

IsActive(r) == \E j \in items[r] : jobs[j] = "active"

\* ativo/route.ts: of the requests with a job that is not over the newest.
ActiveRequests == {r \in Asked : IsActive(r)}
NewestActive ==
  IF ActiveRequests = {} THEN None
  ELSE CHOOSE r \in ActiveRequests : \A q \in ActiveRequests : q <= r

\* [requestId]/route.ts
Progress(r) == [request |-> r, active |-> IsActive(r)]

NoSnapshot == [request |-> None, active |-> FALSE]
Ask(st) == [st |-> st, value |-> NoSnapshot]
Off == Ask("off")
Idle == Ask("idle")
Sent == Ask("sent")
Answer(value) == [st |-> "answered", value |-> value]

Init ==
  /\ jobs = [j \in Jobs |-> "absent"]
  /\ items = [r \in Asked |-> {}]
  /\ panel = [shown |-> None, snapshot |-> NoSnapshot, dismissed |-> None,
              open |-> FALSE, changes |-> None]
  /\ asks = [discover |-> Sent, progress |-> Off, changes |-> Off]
  /\ shownTab = TRUE /\ failures = 0

-----------------------------------------------------------------------------
(* The server *)

First(S) == CHOOSE x \in S : \A y \in S : x <= y

\* reprocessar-selecionados: every link brings its active job, or a new one
\* (queueMemberReprocess), and is tracked with it.
Reprocess ==
  LET free == {r \in Asked : items[r] = {}}
      absent == {j \in Jobs : jobs[j] = "absent"}
      active == {j \in Jobs : jobs[j] = "active"}
  IN /\ free # {}
     /\ \E old \in SUBSET active, new \in {{}} \cup {First(absent) .. k : k \in absent} :
          /\ old \cup new # {}
          /\ items' = [items EXCEPT ![First(free)] = old \cup new]
          /\ jobs' = [j \in Jobs |-> IF j \in new THEN "active" ELSE jobs[j]]
     /\ UNCHANGED <<panel, asks, shownTab, failures>>

\* The worker or another operator; a job of a member that is over stays over
\* (JobLifecycle).
JobEnds ==
  /\ \E j \in Jobs : jobs[j] = "active" /\ jobs' = [jobs EXCEPT ![j] = "over"]
  /\ UNCHANGED <<items, panel, asks, shownTab, failures>>

Server == Reprocess \/ JobEnds

-----------------------------------------------------------------------------
(* Answers *)

Read(what) ==
  IF what = "progress" THEN Progress(panel.shown)
  ELSE [request |-> IF what = "discover" THEN NewestActive ELSE panel.shown,
        active |-> FALSE]

AnswerLoad(what) ==
  /\ asks[what] = Sent
  /\ asks' = [asks EXCEPT ![what] = Answer(Read(what))]
  /\ UNCHANGED <<serverVars, panel, shownTab, failures>>

\* A load begins unless one is under way or the tab is hidden.
Begun(ask) == IF ask = Idle /\ shownTab THEN Sent ELSE ask

\* Mutant of ForAnother: the fetch of the changes has no cleanup.
ForAnotherAlone(changes) == [discover |-> Begun(Idle), progress |-> Begun(Idle), changes |-> changes]

\* The effects when another request is shown: what the loads had in flight is
\* ignored and both begin again, the list of changes is closed.
ForAnother(changes) == [discover |-> Begun(Idle), progress |-> Begun(Idle), changes |-> Off]

DiscoverArrives ==
  /\ asks.discover.st = "answered"
  /\ LET found == asks.discover.value.request
     IN IF found \in {None, panel.shown}
        THEN asks' = [asks EXCEPT !.discover = Idle] /\ UNCHANGED panel
        ELSE /\ panel' = [panel EXCEPT !.shown = found, !.dismissed = None,
                                       !.open = FALSE, !.changes = None]
             /\ asks' = ForAnother(asks.changes)
  /\ UNCHANGED <<serverVars, shownTab, failures>>

\* A progress that brings another count of changes reads them again.
ProgressArrives ==
  /\ asks.progress.st = "answered"
  /\ panel' = [panel EXCEPT !.snapshot = asks.progress.value]
  /\ \E changes \in {asks.changes} \cup {Sent : o \in {TRUE} \cap {panel.open}} :
       asks' = [asks EXCEPT !.progress = Idle, !.changes = changes]
  /\ UNCHANGED <<serverVars, shownTab, failures>>

ChangesArrive ==
  /\ asks.changes.st = "answered"
  /\ panel' = [panel EXCEPT !.changes = asks.changes.value.request]
  /\ asks' = [asks EXCEPT !.changes = Idle]
  /\ UNCHANGED <<serverVars, shownTab, failures>>

\* Mutant of Failed: a load that fails never lets another one begin.
FailedLoading == Off

Failed == Idle

Lose ==
  /\ failures < MaxFailed /\ failures' = failures + 1
  /\ \E what \in DOMAIN asks :
       /\ asks[what].st \in {"sent", "answered"}
       /\ asks' = [asks EXCEPT ![what] = Failed]
  /\ UNCHANGED <<serverVars, panel, shownTab>>

\* setInterval, or an event of the stream
Poll(what) ==
  /\ asks[what] = Idle /\ shownTab
  /\ asks' = [asks EXCEPT ![what] = Sent]
  /\ UNCHANGED <<serverVars, panel, shownTab, failures>>

-----------------------------------------------------------------------------
(* The operator *)

OnScreen == panel.snapshot.request # None /\ panel.dismissed # panel.snapshot.request

\* parar/route.ts cancels every job the request tracks, also one it shares.
Stop ==
  /\ OnScreen /\ panel.snapshot.active
  /\ jobs' = [j \in Jobs |->
       IF j \in items[panel.snapshot.request] /\ jobs[j] = "active" THEN "over" ELSE jobs[j]]
  /\ UNCHANGED <<items, panel, asks, shownTab, failures>>

Dismiss ==
  /\ OnScreen /\ ~panel.snapshot.active
  /\ panel' = [panel EXCEPT !.dismissed = panel.snapshot.request]
  /\ UNCHANGED <<serverVars, asks, shownTab, failures>>

ToggleChanges ==
  /\ OnScreen
  /\ panel' = [panel EXCEPT !.open = ~@]
  /\ asks' = [asks EXCEPT !.changes = IF panel.open THEN Off ELSE Sent]
  /\ UNCHANGED <<serverVars, shownTab, failures>>

Hide ==
  /\ shownTab /\ shownTab' = FALSE
  /\ failures < MaxFailed /\ failures' = failures + 1
  /\ UNCHANGED <<serverVars, panel, asks>>

Show ==
  /\ ~shownTab /\ shownTab' = TRUE
  /\ asks' = [what \in DOMAIN asks |->
       IF what \in Loads /\ asks[what] = Idle THEN Sent ELSE asks[what]]
  /\ UNCHANGED <<serverVars, panel, failures>>

Operator == Stop \/ Dismiss \/ ToggleChanges \/ Hide

-----------------------------------------------------------------------------
Next ==
  \/ Server \/ (\E what \in DOMAIN asks : AnswerLoad(what))
  \/ DiscoverArrives \/ ProgressArrives \/ ChangesArrive
  \/ Lose \/ (\E what \in Loads : Poll(what))
  \/ Operator \/ Show

Spec == Init /\ [][Next]_vars

\* Timers fire, requests are answered or fail, the operator comes back.
Fairness ==
  /\ WF_vars(DiscoverArrives) /\ WF_vars(ProgressArrives)
  /\ \A what \in Loads : WF_vars(AnswerLoad(what)) /\ WF_vars(Poll(what))
  /\ WF_vars(Show)

FairSpec == Spec /\ Fairness

-----------------------------------------------------------------------------
(* Properties *)

TypeOK ==
  /\ jobs \in [Jobs -> {"absent", "active", "over"}]
  /\ items \in [Asked -> SUBSET Jobs]
  /\ panel.shown \in Asked \cup {None} /\ panel.dismissed \in Asked \cup {None}
  /\ \A what \in DOMAIN asks : asks[what].st \in {"off", "idle", "sent", "answered"}

\* The changes on the screen are those of the request the panel follows, never
\* an answer that was asked for another one.
ChangesAreOfShownRequest == panel.changes \in {None, panel.shown}

\* "Este painel acompanha a mais recente e alternara para a proxima quando ela
\* terminar" (associados-processing-panel.tsx): the newest request at work gets
\* on the screen, and when it ends the screen leaves it or shows its end.
PanelFollowsRequests ==
  /\ []<>(NewestActive \in {None, panel.snapshot.request})
  /\ []<>(panel.snapshot.active => panel.snapshot.request \in ActiveRequests)
=============================================================================
