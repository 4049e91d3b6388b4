------------------------------ MODULE MCFigures ------------------------------
(***************************************************************************)
(* The two ends of the worker's cycle, each on an instance of its own: the *)
(* claims of the links, under one request to the queue (ProcessingQueue),  *)
(* and the counters of the batches with the figures of the screens         *)
(* (BatchTotals, Figures); and the report of punctuality (PaymentReport).  *)
(* In a behavior one part moves.                                           *)
(***************************************************************************)
EXTENDS ProcessingQueue

CONSTANTS
  Installments, AnswersOf, Loops, Order, CampaignOf, Receipt, Typings, MaxCycles,
  MaxFigureRequests,
  Rows, RowStates, Urls, Today, RecentDays, DetailLimit, MaxMoves

VARIABLES part, figureLinks, canonical, totals, tx, cycle, removal, cycles,
          figureRequests, rows, filters, opened, form, moves

figureVars ==
  <<figureLinks, canonical, totals, tx, cycle, removal, cycles, figureRequests>>

reportVars == <<rows, filters, opened, form, moves>>

Report == INSTANCE PaymentReport

Screens == INSTANCE Figures WITH
  MaxRequests <- MaxFigureRequests, links <- figureLinks, requests <- figureRequests

-----------------------------------------------------------------------------
(* Instances *)

OneBatch == [l \in Links |-> "b1"]
OneMember == [l \in Links |-> 1]

TwoBatches == <<"b1", "b2">>
OneCampaign == [b \in {"b1", "b2"} |-> "c1"]
PixAndSlip == <<"PIX", "BOLETO">>
WithAndWithoutType == {<<"clinico", "orto">>, <<"none", "orto">>, <<"clinico", "none">>}
EachTruth == <<{"unpaid", "partly", "excluded"}, {"unpaid", "paid", "agreed"}>>

Installment(due, paid, status, type, received, configured, priced) ==
  [due |-> due, paid |-> paid, status |-> status, type |-> type,
   received |-> received, configured |-> configured, priced |-> priced]

\* On time, late, open, agreed, without due date, without amount
SixRowStates ==
  {Installment(3, 2, "paid", "clinico", "PIX", "PIX - CLINICO", TRUE),
   Installment(2, 4, "paid", "", "pix", "PIX", TRUE),
   Installment(2, 0, "unpaid", "orto", "", "", FALSE),
   Installment(3, 3, "agreed", "orto", "PIX", "PIX", FALSE),
   Installment(0, 4, "paid", "clinico", "PIX", "", TRUE),
   Installment(3, 3, "paid", "clinico", "PIX", "PIX", FALSE)}

Url(period, basis, tab, from, to) ==
  [period |-> period, basis |-> basis, tab |-> tab, from |-> from, to |-> to,
   plans |-> {}, dues |-> {}, methods |-> {}, scopes |-> {}, scope |-> "", detail |-> <<>>]

\* The third one is refused, the fourth has the old scope.
SixUrls ==
  {Url("all", "payment", "geral", 0, 0),
   Url("recent", "payment", "trocas", 0, 0),
   Url("custom", "payment", "geral", 3, 2),
   [Url("custom", "due", "formas", 2, 0) EXCEPT !.scope = "late"],
   [Url("all", "payment", "planos", 3, 0)
      EXCEPT !.plans = {"clinico", "orto"}, !.scopes = {"open", "paid"}],
   [Url("recent", "payment", "vencimentos", 0, 0) EXCEPT !.dues = {2}, !.methods = {"Pix"}]}

-----------------------------------------------------------------------------
(* Side by side *)

ReportAtRest ==
  /\ rows = <<>> /\ filters = Report!Wrong /\ opened = Report!None
  /\ form = Report!NoForm /\ moves = 0

Parts ==
  /\ Init /\ Screens!Init
  /\ \/ part \in {"claims", "figures"} /\ ReportAtRest
     \/ part = "report" /\ Report!Init

Step ==
  /\ UNCHANGED part
  /\ \/ part = "claims" /\ Next /\ UNCHANGED <<figureVars, reportVars>>
     \/ part = "figures" /\ Screens!Next /\ UNCHANGED <<vars, reportVars>>
     \/ part = "report" /\ Report!Next /\ UNCHANGED <<vars, figureVars>>

FiguresSpec == Parts /\ [][Step]_<<part, vars, figureVars, reportVars>>

\* The properties of the figures, with the names they have there.
FiguresAgree == part = "figures" => Screens!FiguresAgree
OwnTotalsAreTrue == Screens!OwnTotalsAreTrue
MoneyIsCanonical == Screens!MoneyIsCanonical

\* The property of the report, with the name it has there.
ReportAgrees == Report!ReportAgrees
=============================================================================
