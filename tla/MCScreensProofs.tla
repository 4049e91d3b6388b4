---------------------------- MODULE MCScreensProofs ----------------------------
(***************************************************************************)
(* Proofs about the panels of the general synchronization and of the       *)
(* selected associates, for any number of runs, previews and requests.     *)
(***************************************************************************)
EXTENDS MCScreens, TLAPS

-----------------------------------------------------------------------------
(* General synchronization *)

RunsOK ==
  /\ DOMAIN runs = Runs
  /\ \A r \in Runs : {"status", "key"} \subseteq DOMAIN runs[r]

SyncInv == RunsOK /\ OneRunPerPreview

LEMMA SyncInit == Init \/ SyncAtRest => SyncInv
BY PreviewsAssumption DEF Init, SyncAtRest, SyncInv, RunsOK, OneRunPerPreview, NoToken

\* Moves of a run leave its key alone.
LEMMA StatusMoves ==
  ASSUME SyncInv, NEW r, NEW status, runs' = [runs EXCEPT ![r].status = status]
  PROVE  SyncInv'
<1>1. DOMAIN runs' = Runs
  BY DEF SyncInv, RunsOK
<1>2. ASSUME NEW q \in Runs
      PROVE  runs'[q].key = runs[q].key /\ {"status", "key"} \subseteq DOMAIN runs'[q]
  <2>1. runs'[q] = IF q = r THEN [runs[q] EXCEPT !.status = status] ELSE runs[q]
    BY DEF SyncInv, RunsOK
  <2> QED BY <2>1 DEF SyncInv, RunsOK
<1> QED BY <1>1, <1>2 DEF SyncInv, RunsOK, OneRunPerPreview

\* A key that no run of a preview has begins one.
LEMMA Inserted ==
  ASSUME SyncInv, NEW key, Insert(key), WithKey(key) = {} \/ key \notin 1 .. MaxPreviews
  PROVE  SyncInv'
<1>1. PICK r \in Free : runs' = [runs EXCEPT ![r] = [status |-> "working", key |-> key]]
  BY DEF Insert
<1>2. \A q \in Runs :
        runs'[q] = IF q = r THEN [status |-> "working", key |-> key] ELSE runs[q]
  BY <1>1 DEF SyncInv, RunsOK
<1>3. RunsOK'
  BY <1>1, <1>2 DEF SyncInv, RunsOK
<1>4. OneRunPerPreview'
  BY <1>2 DEF SyncInv, OneRunPerPreview, WithKey
<1> QED BY <1>3, <1>4 DEF SyncInv

LEMMA SyncStep == SyncInv /\ [Next]_vars => SyncInv'
<1> SUFFICES ASSUME SyncInv, [Next]_vars PROVE SyncInv'
  OBVIOUS
<1>1. CASE UNCHANGED runs
  BY <1>1 DEF SyncInv, RunsOK, OneRunPerPreview
<1>2. CASE StartElsewhere
  <2>1. Scheduled \notin 1 .. MaxPreviews
    BY PreviewsAssumption DEF Scheduled
  <2> QED BY <1>2, <2>1, Inserted DEF StartElsewhere
<1>3. CASE RunMoves
  BY <1>3, StatusMoves DEF RunMoves
<1>4. CASE ExecuteStart
  BY <1>4, <1>1, Inserted DEF ExecuteStart
<1>5. CASE ExecuteCancel \/ ExecuteResume \/ ExecuteNothing
  BY <1>5, <1>1, StatusMoves DEF ExecuteCancel, ExecuteResume, ExecuteNothing
<1>6. Execute \/ StartElsewhere \/ RunMoves \/ UNCHANGED runs
  BY DEF Next, vars, AnswerLoad, Arrive, PreviewArrives, ButtonArrives, ButtonFails, LoadArrives,
         Lose, ButtonLost, LoadLost, Operator, ClickPreview, ClickStart, ClickCancel, ClickResume,
         Click, Hide, Show, Dispatch, StreamEnds, Reconnect, Refused, Poll
<1> QED BY <1>1, <1>2, <1>3, <1>4, <1>5, <1>6 DEF Execute

\* However often a confirmation is sent again, it starts one run: the key of
\* the request is looked up in the transaction that inserts the run
\* (createLocalGeneralSyncRun).
THEOREM ConfirmationsStartOneRun == ScreensSpec => []OneRunPerPreview
<1>1. Screens => SyncInv
  BY SyncInit DEF Screens
<1>2. SyncInv /\ [Step]_<<screen, vars, manualVars, batchVars, indicatorVars>> => SyncInv'
  <2>1. [Step]_<<screen, vars, manualVars, batchVars, indicatorVars>> => [Next]_vars
    BY DEF Step
  <2> QED BY <2>1, SyncStep
<1>3. SyncInv => OneRunPerPreview
  BY DEF SyncInv
<1> QED BY <1>1, <1>2, <1>3, PTL DEF ScreensSpec

-----------------------------------------------------------------------------
(* Selected associates *)

\* An answer with changes that is on its way is for the request on the screen.
ManualInv ==
  /\ DOMAIN asks = {"discover", "progress", "changes"}
  /\ {"shown", "snapshot", "dismissed", "open", "changes"} \subseteq DOMAIN manual
  /\ asks.changes.st = "answered" => asks.changes.value.request = manual.shown
  /\ ChangesAreOfShownRequest

LEMMA ManualInit == Manual!Init \/ ManualAtRest => ManualInv
BY DEF Manual!Init, ManualAtRest, ManualInv, ChangesAreOfShownRequest,
       Manual!ChangesAreOfShownRequest, Manual!Sent, Manual!Off, Manual!Ask, Manual!None

LEMMA ManualStep == ManualInv /\ [Manual!Next]_manualVars => ManualInv'
<1> SUFFICES ASSUME ManualInv, [Manual!Next]_manualVars PROVE ManualInv'
  OBVIOUS
<1> USE DEF ManualInv, ChangesAreOfShownRequest, Manual!ChangesAreOfShownRequest
<1>1. Manual!Off.st = "off" /\ Manual!Idle.st = "idle" /\ Manual!Sent.st = "sent"
  BY DEF Manual!Off, Manual!Idle, Manual!Sent, Manual!Ask
<1>2. CASE UNCHANGED <<manual, asks>>
  BY <1>2
<1>3. ASSUME NEW what \in DOMAIN asks, Manual!AnswerLoad(what) PROVE ManualInv'
  <2>1. manual' = manual /\ asks' = [asks EXCEPT ![what] = Manual!Answer(Manual!Read(what))]
    BY <1>3 DEF Manual!AnswerLoad
  <2>2. what = "changes" => Manual!Answer(Manual!Read(what)).value.request = manual.shown
    BY DEF Manual!Answer, Manual!Read
  <2> QED BY <2>1, <2>2
<1>4. CASE Manual!DiscoverArrives
  <2>1. CASE asks' = [asks EXCEPT !.discover = Manual!Idle] /\ UNCHANGED manual
    BY <2>1
  <2>2. CASE asks.discover.value.request \notin {Manual!None, manual.shown}
    <3>1. /\ asks' = Manual!ForAnother(asks.changes)
          /\ manual' = [manual EXCEPT !.shown = asks.discover.value.request,
                          !.dismissed = Manual!None, !.open = FALSE, !.changes = Manual!None]
      BY <1>4, <2>2 DEF Manual!DiscoverArrives
    <3>2. DOMAIN asks' = {"discover", "progress", "changes"} /\ asks'.changes = Manual!Off
      BY <3>1 DEF Manual!ForAnother
    <3>3. manual'.changes = Manual!None /\ DOMAIN manual' = DOMAIN manual
      BY <3>1
    <3> QED BY <1>1, <3>2, <3>3
  <2> QED BY <1>4, <2>1, <2>2 DEF Manual!DiscoverArrives
<1>5. CASE Manual!ProgressArrives
  <2>1. PICK changes \in {asks.changes} \cup {Manual!Sent : o \in {TRUE} \cap {manual.open}} :
          asks' = [asks EXCEPT !.progress = Manual!Idle, !.changes = changes]
    BY <1>5 DEF Manual!ProgressArrives
  <2>2. changes = asks.changes \/ changes.st = "sent"
    BY <1>1
  <2>3. DOMAIN asks' = DOMAIN asks /\ asks'.changes = changes
    BY <2>1
  <2>4. /\ DOMAIN manual' = DOMAIN manual /\ manual'.shown = manual.shown
        /\ manual'.changes = manual.changes
    BY <1>5 DEF Manual!ProgressArrives
  <2> QED BY <2>2, <2>3, <2>4
<1>6. CASE Manual!ChangesArrive
  <2>1. /\ DOMAIN manual' = DOMAIN manual /\ manual'.shown = manual.shown
        /\ manual'.changes = manual.shown
    BY <1>6 DEF Manual!ChangesArrive
  <2>2. DOMAIN asks' = DOMAIN asks /\ asks'.changes = Manual!Idle
    BY <1>6 DEF Manual!ChangesArrive
  <2> QED BY <1>1, <2>1, <2>2
<1>7. CASE Manual!Lose
  BY <1>1, <1>7 DEF Manual!Lose, Manual!Failed
<1>8. ASSUME NEW what \in Manual!Loads, Manual!Poll(what) PROVE ManualInv'
  BY <1>1, <1>8 DEF Manual!Poll, Manual!Loads
<1>9. CASE Manual!Dismiss
  <2>1. /\ DOMAIN manual' = DOMAIN manual /\ manual'.shown = manual.shown
        /\ manual'.changes = manual.changes /\ asks' = asks
    BY <1>9 DEF Manual!Dismiss
  <2> QED BY <2>1
<1>10. CASE Manual!ToggleChanges
  <2>1. /\ DOMAIN manual' = DOMAIN manual /\ manual'.shown = manual.shown
        /\ manual'.changes = manual.changes
    BY <1>10 DEF Manual!ToggleChanges
  <2>2. DOMAIN asks' = DOMAIN asks /\ asks'.changes \in {Manual!Off, Manual!Sent}
    BY <1>10 DEF Manual!ToggleChanges
  <2> QED BY <1>1, <2>1, <2>2
<1>11. CASE Manual!Show
  <2>1. manual' = manual /\ DOMAIN asks' = DOMAIN asks
        /\ asks'.changes = asks.changes
    BY <1>11 DEF Manual!Show, Manual!Loads
  <2> QED BY <2>1
<1> QED BY <1>2, <1>3, <1>4, <1>5, <1>6, <1>7, <1>8, <1>9, <1>10, <1>11
  DEF Manual!Next, manualVars, Manual!Server, Manual!Reprocess, Manual!JobEnds, Manual!Operator,
      Manual!Stop, Manual!Hide

\* The changes on the screen are those of the request the panel shows: the
\* answer of a fetch for another one is dropped with the effect that asked for
\* it (associados-processing-panel.tsx).
THEOREM ChangesBelongToTheScreen == ScreensSpec => []ChangesAreOfShownRequest
<1>1. Screens => ManualInv
  BY ManualInit DEF Screens
<1>2. ManualInv /\ [Step]_<<screen, vars, manualVars, batchVars, indicatorVars>> => ManualInv'
  <2>1. [Step]_<<screen, vars, manualVars, batchVars, indicatorVars>> => [Manual!Next]_manualVars
    BY DEF Step, manualVars
  <2> QED BY <2>1, ManualStep
<1>3. ManualInv => ChangesAreOfShownRequest
  BY DEF ManualInv
<1> QED BY <1>1, <1>2, <1>3, PTL DEF ScreensSpec
===============================================================================
