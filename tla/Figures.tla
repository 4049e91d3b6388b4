------------------------------- MODULE Figures -------------------------------
(***************************************************************************)
(* What the screens compute from the links and the canonical installments: *)
(* the list of campaigns, the page of a campaign, the page of a batch, the *)
(* cards of the dashboard (with its receipts and its Pix) and the summary. *)
(* Each is a query of its own; the state they read is that of BatchTotals, *)
(* between transactions.                                                   *)
(*                                                                         *)
(* The description of a received installment is Receipt, that of the       *)
(* others says their status; answers that come late and leave another      *)
(* description are in ReceiptDetails.                                      *)
(***************************************************************************)
EXTENDS BatchTotals

CONSTANTS
  CampaignOf,   \* campaign of each batch
  Receipt,      \* DescricaoRecebimento of each installment, when it is received
  Typings       \* installment_type of each, "none" for an old one: what it may be

Campaigns == {CampaignOf[b] : b \in WorkBatches}
BatchesOf(c) == {b \in WorkBatches : CampaignOf[b] = c}

Listed(bs) == {l \in Installments \X bs : links[l].st # "removed"}
ListedWith(bs, st) == {l \in Listed(bs) : links[l].st = st}

\* scoped_targets: an installment counts once, however many batches have it.
Scoped(bs) == {i \in Installments : \E b \in bs : <<i, b>> \in Listed(bs)}

WithPay(set, pay) == {i \in set : Status(canonical[i]) = pay}
Amount(set) == MapThenSumSet(LAMBDA i : 2 * i, set)

-----------------------------------------------------------------------------
(* campaign-read.ts and campaign-detail-read.ts *)

\* Counts of links.
Operational(bs) ==
  [total |-> Cardinality(Listed(bs)),
   pending |-> Cardinality(ListedWith(bs, "waiting")),
   processing |-> Cardinality(ListedWith(bs, "processing")),
   completed |-> Cardinality(ListedWith(bs, "completed")),
   errored |-> Cardinality(ListedWith(bs, "error"))]

\* Counts of installments.
Financial(bs) ==
  [paid |-> Cardinality(WithPay(Scoped(bs), "paid")),
   unpaid |-> Cardinality(WithPay(Scoped(bs), "unpaid")),
   pending |-> Owed(canonical, WithPay(Scoped(bs), "unpaid"))]

\* listLocalCampaignsWithMetrics knows no jobs.
ListStatus(o) ==
  IF o.processing > 0 THEN "processando"
  ELSE IF o.total > 0 /\ o.completed + o.errored >= o.total
  THEN IF o.errored > 0 THEN "concluido_com_erros" ELSE "concluido"
  ELSE "aguardando"

Running(bs) == cycle.pc # "idle" /\ cycle.batch \in bs

\* getLocalCampaignMetrics and getLocalBatchMetrics, for a campaign or a batch
\* that nobody has paused or cancelled; a job that waits is left out.
PageStatus(bs, o) == IF Running(bs) THEN "processando" ELSE ListStatus(o)

\* The page of a batch reads the links, and sums what is pending of all of them.
BatchFinancial(b) ==
  LET With(pay) == {l \in Listed({b}) : Status(links[l].pay) = pay}
  IN [paid |-> Cardinality(With("paid")), unpaid |-> Cardinality(With("unpaid")),
      pending |-> MapThenSumSet(LAMBDA l : Due(l[1], links[l].pay), Listed({b}))]

-----------------------------------------------------------------------------
(* metrics.ts *)

ReceivedAmount(i) ==
  CASE canonical[i] = "paid" -> 2 * i [] canonical[i] = "partly" -> i [] OTHER -> 0

\* getDashboardMetrics for a choice of batches
Dashboard(bs) ==
  LET scoped == Scoped(bs)
  IN [installments |-> Cardinality(scoped),
      paid |-> Cardinality(WithPay(scoped, "paid")),
      unpaid |-> Cardinality(WithPay(scoped, "unpaid")),
      agreed |-> Cardinality(WithPay(scoped, "agreed")),
      errored |-> Cardinality({i \in scoped : \E b \in bs : links[i, b].st = "error"}),
      pendingAmount |-> Owed(canonical, WithPay(scoped, "unpaid")),
      paidAmount |-> MapThenSumSet(ReceivedAmount, WithPay(scoped, "paid")),
      agreedAmount |-> Amount(WithPay(scoped, "agreed")),
      amount |-> Amount(scoped)]

Description(i) ==
  CASE canonical[i] = "none" -> "none"
    [] canonical[i] = "unpaid" -> "ABERTO"
    [] canonical[i] = "agreed" -> "ACORDADO"
    [] canonical[i] = "excluded" -> "EXCLUIDA"
    [] OTHER -> Receipt[i]

\* getDashboardReceiptStatusMetrics: a line for each description but ABERTO
Receipts(bs) ==
  LET shown == {i \in Scoped(bs) : Description(i) \notin {"none", "ABERTO"}}
  IN [d \in {Description(i) : i \in shown} |->
        MapThenSumSet(ReceivedAmount, {i \in shown : Description(i) = d})]

PixDescriptions == {"PIX", "PIX - CLINICO", "PIX - ORTODONTIA"}

\* is_paid of summary-analysis.ts: what was received, by its description.
IsPaid(i) == Description(i) \notin {"none", "ABERTO", "ACORDADO", "EXCLUIDA"}

\* getDashboardPixPaidMetrics
PixPaid(bs) ==
  MapThenSumSet(ReceivedAmount,
                {i \in Scoped(bs) : IsPaid(i) /\ Description(i) \in PixDescriptions})

\* getSummaryAnalysisMetrics without dates, for the installments of some types:
\* an old installment has no type, and no card.
Summary(bs, typeOf, types) ==
  LET typed == {i \in Scoped(bs) : typeOf[i] \in types}
      paid == {i \in typed : IsPaid(i)}
      pix == {i \in paid : Description(i) \in PixDescriptions}
  IN [amount |-> Amount(typed), paid |-> Cardinality(paid),
      paidAmount |-> MapThenSumSet(ReceivedAmount, paid),
      pixAmount |-> MapThenSumSet(ReceivedAmount, pix)]

-----------------------------------------------------------------------------
(* Properties *)

\* What a batch has pending, according to its own page, is what the other
\* screens say and what is left of the installments paid in part: those filter
\* by the status (campaign-detail-read.ts:139), its page does not (:231).
PagesAgree ==
  \A b \in WorkBatches :
    LET page == BatchFinancial(b)
        other == Financial({b})
    IN ListedWith({b}, "processing") = {} =>
         /\ page.paid = other.paid /\ page.unpaid = other.unpaid
         /\ page.pending = other.pending
              + Owed(canonical, WithPay(Scoped({b}), "paid"))

\* What the dashboard says is paid is what the receipts find by the description
\* and what the summary and its Pix find for the two types, but for the
\* installments without a type, which the summary leaves out.
SummaryAgrees(bs) ==
  LET d == Dashboard(bs)
      receipts == Receipts(bs)
  IN /\ d.paidAmount = MapThenSumSet(LAMBDA t : receipts[t], DOMAIN receipts)
     /\ \A typeOf \in Typings :
          LET typed == Summary(bs, typeOf, {"clinico", "orto"})
              clinico == Summary(bs, typeOf, {"clinico"})
              orto == Summary(bs, typeOf, {"orto"})
              untyped == {i \in Scoped(bs) : typeOf[i] = "none"}
          IN /\ d.paid = clinico.paid + orto.paid + Cardinality(WithPay(untyped, "paid"))
             /\ d.paidAmount = clinico.paidAmount + orto.paidAmount
                                 + MapThenSumSet(ReceivedAmount, untyped)
             /\ typed.pixAmount = clinico.pixAmount + orto.pixAmount
             /\ untyped = {} => PixPaid(bs) = typed.pixAmount

\* A campaign that is finished without errors has an answer for all it lists
\* (the excluded ones have no card), and none is both confirmed and an error.
AnswersCover(bs) ==
  LET d == Dashboard(bs)
      excluded == Cardinality(WithPay(Scoped(bs), "excluded"))
  IN /\ d.paid + d.agreed + excluded + d.errored <= d.installments
     /\ PageStatus(bs, Operational(bs)) = "concluido"
          => d.paid + d.unpaid + d.agreed + excluded = d.installments

\* Between two transactions the screens, each with a query of its own over the
\* links or the canonical installments, show one and the same truth.
FiguresAgree ==
  /\ PagesAgree
  /\ \A b \in WorkBatches : SummaryAgrees({b})
  /\ \A c \in Campaigns : SummaryAgrees(BatchesOf(c)) /\ AnswersCover(BatchesOf(c))
=============================================================================
