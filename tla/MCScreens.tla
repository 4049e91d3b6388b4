------------------------------ MODULE MCScreens ------------------------------
(***************************************************************************)
(* What a browser tab shows of the processing, each component on an        *)
(* instance of its own: the panel of the general synchronization           *)
(* (SyncPanel), that of the selected associates (ManualPanel), the panel   *)
(* of a batch (ProgressPanel) and the indicator of every page              *)
(* (ProcessingIndicator).  In a behavior one of them is on the screen; the *)
(* others are at rest, in states where none of their fair actions is       *)
(* enabled.                                                                *)
(***************************************************************************)
EXTENDS SyncPanel

CONSTANTS MaxJobs, MaxAsked, MaxFailed, MaxDone, MaxMoves, MaxFlights, MaxRun

VARIABLES screen,
          jobs, items, manual, asks, shownTab, manualFailures,
          batch, metrics, flights, page, batchInView, batchMoves, batchFailures,
          hasJobs, run, shown, open, replay, requests, source, message, inView,
          moves, failures

manualVars == <<jobs, items, manual, asks, shownTab, manualFailures>>
batchVars == <<batch, metrics, flights, page, batchInView, batchMoves, batchFailures>>
indicatorVars == <<hasJobs, run, shown, open, replay, requests, source, message,
                   inView, moves, failures>>

Manual == INSTANCE ManualPanel WITH panel <- manual, failures <- manualFailures
Progress == INSTANCE ProgressPanel WITH
  inView <- batchInView, moves <- batchMoves, failures <- batchFailures
Indicator == INSTANCE ProcessingIndicator WITH
  jobs <- hasJobs, load <- requests, stream <- source, event <- message

-----------------------------------------------------------------------------
(* Side by side *)

SyncAtRest ==
  /\ runs = [r \in Runs |-> [status |-> "absent", key |-> NoToken]]
  /\ panel = [run |-> NoRun, preview |-> NoToken]
  /\ load = [e \in Effects |-> Off] /\ op = [b \in Buttons |-> Idle]
  /\ stream = "dead" /\ event = FALSE /\ visible = TRUE
  /\ previews = 0 /\ lost = 0

ManualAtRest ==
  /\ jobs = [j \in Manual!Jobs |-> "absent"] /\ items = [r \in Manual!Asked |-> {}]
  /\ manual = [shown |-> 0, snapshot |-> Manual!NoSnapshot, dismissed |-> 0,
               open |-> FALSE, changes |-> 0]
  /\ asks = [what \in {"discover", "progress", "changes"} |-> Manual!Off]
  /\ shownTab = TRUE /\ manualFailures = 0

ProgressAtRest ==
  /\ batch = Progress!Gone /\ page = "left"
  /\ metrics = [work |-> "none", done |-> 0]
  /\ flights = [f \in Progress!Slots |-> Progress!NoFlight]
  /\ batchInView = TRUE /\ batchMoves = 0 /\ batchFailures = 0

IndicatorAtRest ==
  /\ hasJobs = FALSE /\ run = 0 /\ shown = Indicator!Nothing
  /\ open = FALSE /\ replay = 0
  /\ requests = [what \in Indicator!Loads |-> Indicator!Off]
  /\ source = "dead" /\ message = FALSE
  /\ inView = TRUE /\ moves = 0 /\ failures = 0

Screens ==
  \/ screen = "sync" /\ Init /\ ManualAtRest /\ ProgressAtRest /\ IndicatorAtRest
  \/ screen = "manual" /\ Manual!Init /\ SyncAtRest /\ ProgressAtRest /\ IndicatorAtRest
  \/ screen = "batch" /\ Progress!Init /\ SyncAtRest /\ ManualAtRest /\ IndicatorAtRest
  \/ screen = "indicator" /\ Indicator!Init /\ SyncAtRest /\ ManualAtRest /\ ProgressAtRest

Step ==
  /\ UNCHANGED screen
  /\ \/ screen = "sync" /\ Next /\ UNCHANGED <<manualVars, batchVars, indicatorVars>>
     \/ screen = "manual" /\ Manual!Next /\ UNCHANGED <<vars, batchVars, indicatorVars>>
     \/ screen = "batch" /\ Progress!Next /\ UNCHANGED <<vars, manualVars, indicatorVars>>
     \/ screen = "indicator" /\ Indicator!Next /\ UNCHANGED <<vars, manualVars, batchVars>>

ScreensSpec ==
  /\ Screens /\ [][Step]_<<screen, vars, manualVars, batchVars, indicatorVars>>
  /\ Fairness /\ Manual!Fairness /\ Progress!Fairness /\ Indicator!Fairness

-----------------------------------------------------------------------------
(* The properties of the components, with the names they have there *)

ChangesAreOfShownRequest == Manual!ChangesAreOfShownRequest

\* The panels of the synchronization and of the manual requests follow what
\* the server says (SyncPanel and ManualPanel).
PanelsFollow == PanelFollowsRun /\ Manual!PanelFollowsRequests

\* The panel of a batch and the indicator come to show what is there and keep
\* showing it (PanelSettles and IndicatorSettles).
ScreensSettle ==
  <>[](/\ screen = "batch" => Progress!ShowsBatch
       /\ screen = "indicator" => Indicator!ShowsQueue)
=============================================================================
