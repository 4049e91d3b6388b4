------------------------- MODULE InstallmentAnalysis -------------------------
(***************************************************************************)
(* What analysis.ts makes of the pages of a history: the state and the     *)
(* balance of every installment, and the answer for the target.            *)
(*                                                                         *)
(* Amounts are cents; Missing is an amount that toCents refuses or that is *)
(* absent or negative.  Id, CodigoParcela and cod_parcela are one code: an *)
(* item whose fields disagree is not modelled.                             *)
(***************************************************************************)
EXTENDS Integers, SequencesExt

CONSTANT Target  \* the installment code of the link

Missing == -1

Item(code, kind) == [code |-> code, description |-> kind.description,
                     value |-> kind.value, paid |-> kind.paid, plan |-> kind.plan]

Invalid == [status |-> "invalid", value |-> 0, paid |-> Missing]

\* DescricaoRecebimento decides; another text is a receipt and needs ValorPago.
Classify(item) ==
  IF item.value = Missing THEN Invalid
  ELSE CASE item.description = "ABERTO" ->
              [status |-> "unpaid", value |-> item.value, paid |-> Missing]
         [] item.description = "ACORDADO" ->
              [status |-> "agreed", value |-> item.value, paid |-> Missing]
         [] item.description = "EXCLUIDA" ->
              [status |-> "excluded", value |-> item.value, paid |-> Missing]
         [] item.description = "none" \/ item.paid \in {Missing, 0} ->
              [Invalid EXCEPT !.value = item.value]
         [] OTHER -> [status |-> "paid", value |-> item.value, paid |-> item.paid]

Positive(n) == IF n < 0 THEN 0 ELSE n

\* Mutant: before migration 016, a partial receipt owed nothing.
PendingOpenOnly(item) ==
  IF item.description = "ABERTO" THEN Classify(item).value ELSE 0

\* An open installment owes its value, a received one the difference.
Pending(item) ==
  LET state == Classify(item)
  IN IF item.description = "ABERTO" THEN state.value
     ELSE IF state.paid = Missing THEN 0
     ELSE Positive(state.value - state.paid)

\* Mutant: an installment on two pages counts twice.
DistinctNone(items) == items

\* The first item of each code, in the order of the pages.
Distinct(items) ==
  LET first(i) == \A k \in 1 .. i - 1 : items[k].code # items[i].code
  IN FoldLeft(LAMBDA kept, i : IF first(i) THEN Append(kept, items[i]) ELSE kept,
              <<>>, [i \in 1 .. Len(items) |-> i])

Sum(amounts) == FoldLeft(+, 0, amounts)
Owed(items) == Sum([i \in DOMAIN items |-> Pending(items[i])])

Paid(item) == IF Classify(item).status = "paid" THEN Classify(item).paid ELSE 0

ByPlan(items) ==
  LET owing == SelectSeq(items, LAMBDA item : Pending(item) > 0)
  IN [p \in {owing[i].plan : i \in DOMAIN owing} |->
        Owed(SelectSeq(owing, LAMBDA item : item.plan = p))]

Rejected(code) == [kind |-> "error", code |-> code, retryable |-> FALSE]
Retried(code) == [kind |-> "error", code |-> code, retryable |-> TRUE]

Answer(item, items) ==
  LET state == Classify(item)
  IN [kind |-> "answer", status |-> state.status, installment |-> state.value,
      payment |-> IF state.status = "paid" THEN state.paid ELSE 0,
      pending |-> IF state.status \in {"agreed", "excluded"} THEN 0 ELSE Pending(item),
      total |-> Owed(items), received |-> Sum([i \in DOMAIN items |-> Paid(items[i])]),
      byPlan |-> ByPlan(items)]

\* Mutant: only the number of pages is compared.
SamePages(pages) ==
  \A p \in DOMAIN pages : pages[p].totalPages = pages[1].totalPages

\* analyzeMonthlyResponses: every page is validated, all must come from
\* histories of the same size.
SameHistory(pages) ==
  \A p \in DOMAIN pages :
    /\ pages[p].totalPages = pages[1].totalPages
    /\ pages[p].totalCount = pages[1].totalCount

Merged(pages) == FlattenSeq([p \in DOMAIN pages |-> pages[p].items])

Analyse(pages) ==
  LET items == Distinct(Merged(pages))
      found == SelectSeq(items, LAMBDA item : item.code = Target)
  IN CASE \E p \in DOMAIN pages : ~pages[p].valid -> Rejected("INVALID")
       [] ~SameHistory(pages) -> Rejected("INVALID")
       [] found = <<>> -> Rejected("MISSING")
       [] Classify(found[1]).status = "invalid" -> Rejected("INVALID")
       [] OTHER -> Answer(found[1], items)
=============================================================================
