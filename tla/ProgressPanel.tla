---------------------------- MODULE ProgressPanel ----------------------------
(***************************************************************************)
(* The panel of one batch: BatchPanel of campaign-batch-progress-stack.tsx *)
(* and processing-progress-panel.tsx, which refresh in the same way.  No   *)
(* flag keeps a request from being sent while others are under way, so     *)
(* answers arrive in any order; a panel whose kind of work changes begins  *)
(* its effect again and ignores what the old effect asked for.             *)
(*                                                                         *)
(*   batch     what the route progresso would answer now                   *)
(*   metrics   the state of the component                                  *)
(*   flights   its requests; current until their effect is cleaned up      *)
(*   page      "shown", or "asked" for again when the batch was not found  *)
(*                                                                         *)
(* Of the metrics those that choose the interval are one value, the work   *)
(* of the batch, and the others another, the links that are done.  The     *)
(* bar of the current block and whether the panel is expanded are left     *)
(* out: they are functions of the metrics, or of a click.                  *)
(***************************************************************************)
EXTENDS Naturals

CONSTANTS
  MaxDone,      \* bound: links of the batch
  MaxMoves,     \* bound: changes of the batch
  MaxFlights,   \* bound: requests of the panel at a time
  MaxFailed     \* bound: answers that do not arrive, and times the tab is hidden

VARIABLES batch, metrics, flights, page, inView, moves, failures

vars == <<batch, metrics, flights, page, inView, moves, failures>>

Metrics == [work : {"none", "queued", "running"}, done : 0 .. MaxDone]
Gone == [work |-> "gone", done |-> 0]
Slots == 1 .. MaxFlights
NoFlight == [st |-> "free", current |-> FALSE, value |-> Gone]

\* The page is rendered with the metrics of the server.
Init ==
  /\ batch \in Metrics /\ metrics = batch
  /\ flights = [f \in Slots |-> NoFlight]
  /\ page = "shown" /\ inView = TRUE /\ moves = 0 /\ failures = 0

-----------------------------------------------------------------------------
(* The server *)

\* getLocalBatchMetrics counts links and jobs, which the queue moves.
BatchMoves ==
  /\ batch # Gone /\ moves < MaxMoves /\ moves' = moves + 1
  /\ batch' \in (Metrics \cup {Gone}) \ {batch}
  /\ UNCHANGED <<metrics, flights, page, inView, failures>>

Answer(f) ==
  /\ flights[f].st = "sent"
  /\ flights' = [flights EXCEPT ![f].st = "answered", ![f].value = batch]
  /\ UNCHANGED <<batch, metrics, page, inView, moves, failures>>

-----------------------------------------------------------------------------
(* The panel *)

\* Mutant of Polls: a batch without work is not asked for.
PollsAtWork == inView /\ metrics.work # "none"

\* The interval of 8 or 30 seconds, or the return to the tab.
Polls == inView

Refresh ==
  /\ page # "left" /\ Polls
  /\ \E f \in Slots :
       /\ flights[f].st = "free" /\ \A g \in Slots : flights[g].st = "free" => f <= g
       /\ flights' = [flights EXCEPT ![f] = [NoFlight EXCEPT !.st = "sent", !.current = TRUE]]
  /\ UNCHANGED <<batch, metrics, page, inView, moves, failures>>

Without(f) == [flights EXCEPT ![f] = NoFlight]

\* The cleanup of the effect: setMetrics with other work begins it again.
CleanedUp(rest, value) ==
  IF value.work = metrics.work THEN rest
  ELSE [f \in Slots |-> [rest[f] EXCEPT !.current = FALSE]]

\* setMetrics, unless the effect that asked was cleaned up.
MetricsArrive(f) ==
  /\ flights[f].st = "answered" /\ flights[f].value # Gone
  /\ IF flights[f].current
     THEN /\ metrics' = flights[f].value
          /\ flights' = CleanedUp(Without(f), flights[f].value)
     ELSE flights' = Without(f) /\ UNCHANGED metrics
  /\ UNCHANGED <<batch, page, inView, moves, failures>>

\* 404: the page is asked for again, once, by whichever effect.
NotFoundArrives(f) ==
  /\ flights[f].st = "answered" /\ flights[f].value = Gone
  /\ flights' = Without(f)
  /\ page' = IF page = "shown" THEN "asked" ELSE page
  /\ UNCHANGED <<batch, metrics, inView, moves, failures>>

Arrives(f) == MetricsArrive(f) \/ NotFoundArrives(f)

\* The page that is rendered again has no panel for a batch that is gone.
PageArrives ==
  /\ page = "asked" /\ page' = "left"
  /\ UNCHANGED <<batch, metrics, flights, inView, moves, failures>>

Fail ==
  /\ failures < MaxFailed /\ failures' = failures + 1
  /\ \E f \in Slots : flights[f].st \in {"sent", "answered"} /\ flights' = Without(f)
  /\ UNCHANGED <<batch, metrics, page, inView, moves>>

Hide ==
  /\ inView /\ inView' = FALSE
  /\ failures < MaxFailed /\ failures' = failures + 1
  /\ UNCHANGED <<batch, metrics, flights, page, moves>>

Show ==
  /\ ~inView /\ inView' = TRUE
  /\ UNCHANGED <<batch, metrics, flights, page, moves, failures>>

-----------------------------------------------------------------------------
Next ==
  \/ BatchMoves \/ Refresh \/ PageArrives \/ Fail \/ Hide \/ Show
  \/ \E f \in Slots : Answer(f) \/ Arrives(f)

Spec == Init /\ [][Next]_vars

\* Timers fire, requests are answered or fail, the operator comes back.
Fairness ==
  /\ WF_vars(Refresh) /\ WF_vars(PageArrives) /\ WF_vars(Show)
  /\ \A f \in Slots : WF_vars(Answer(f)) /\ WF_vars(Arrives(f))

FairSpec == Spec /\ Fairness

-----------------------------------------------------------------------------
(* Properties *)

TypeOK ==
  /\ batch \in Metrics \cup {Gone} /\ metrics \in Metrics
  /\ \A f \in Slots : flights[f].st \in {"free", "sent", "answered"}
  /\ page \in {"shown", "asked", "left"} /\ inView \in BOOLEAN

\* Once the batch stays as it is, its panel comes to show it and stays there,
\* whatever answers of before still arrive; the panel of a batch that was
\* deleted leaves the page.
ShowsBatch == IF batch = Gone THEN page = "left" ELSE metrics = batch
PanelSettles == <>[]ShowsBatch
=============================================================================
