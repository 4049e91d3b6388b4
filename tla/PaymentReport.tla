---------------------------- MODULE PaymentReport ----------------------------
(***************************************************************************)
(* The report of payment punctuality: its address, read into filters; the  *)
(* form, which keeps a copy of them and writes the next address; the       *)
(* figures, computed in SQL (PAYMENT_SOURCE_SQL) for these filters, and    *)
(* aggregatePaymentRows, the plain function beside it that says what they  *)
(* mean.                                                                   *)
(*                                                                         *)
(*   rows     the canonical installments of active batches                 *)
(*   filters  what the page has read of its address                        *)
(*   opened   the group or the pair of descriptions whose rows it lists    *)
(*   form     the fields on the page                                       *)
(*   moves    navigations and edits so far                                 *)
(*                                                                         *)
(* Dates are days of one month.  An average is its sum of days, the order  *)
(* of the groups is left out, an installment that is paid received its     *)
(* number as amount.                                                       *)
(***************************************************************************)
EXTENDS Integers, FiniteSetsExt, SequencesExt

CONSTANTS
  Rows,         \* installments, by number
  RowStates,    \* what the answers of the ERP make of a row
  Urls,         \* addresses that are typed or kept
  Today,
  RecentDays,   \* of the periods that count back from today
  DetailLimit,  \* 50 in the code
  MaxMoves      \* bound: navigations and edits

VARIABLES rows, filters, opened, form, moves

vars == <<rows, filters, opened, form, moves>>

NoDate == 0
Wrong == [period |-> "wrong"]
None == <<>>
ValidDays == 1 .. 31
PlanKeys == {"clinico", "orto", "sem-classificacao"}
Scopes == {"paid", "late", "open"}

-----------------------------------------------------------------------------
(* The address *)

\* The scopes of an address; a kept one may have the old single scope.
ReadScopes(url) ==
  IF url.scopes # {} THEN url.scopes
  ELSE IF url.scope \in {"open", "late"} THEN {url.scope}
  ELSE {"paid", "late"}

Readable(url) ==
  /\ ~(url.period = "custom" /\ url.from # NoDate /\ url.to # NoDate /\ url.from > url.to)
  /\ url.plans \subseteq PlanKeys
  /\ url.dues \subseteq ValidDays
  /\ ReadScopes(url) \subseteq Scopes

\* readPaymentFilters
Read(url) ==
  IF ~Readable(url) THEN Wrong
  ELSE [period |-> url.period, basis |-> url.basis, tab |-> url.tab,
        from |-> CASE url.period = "custom" -> url.from
                   [] url.period = "recent" -> Today - RecentDays
                   [] OTHER -> NoDate,
        to |-> CASE url.period = "custom" -> url.to
                 [] url.period = "recent" -> Today
                 [] OTHER -> NoDate,
        plans |-> url.plans, dues |-> url.dues, methods |-> url.methods,
        scopes |-> ReadScopes(url)]

\* paymentFilterSearch: a link to a tab or to the rows of a group, with the
\* filters of the page
Search(f, tab, detail) ==
  [period |-> f.period, basis |-> f.basis, tab |-> tab, scope |-> "", detail |-> detail,
   from |-> IF f.period = "custom" THEN f.from ELSE NoDate,
   to |-> IF f.period = "custom" THEN f.to ELSE NoDate,
   plans |-> f.plans, dues |-> f.dues, methods |-> f.methods, scopes |-> f.scopes]

-----------------------------------------------------------------------------
(* The form *)

NoForm == [touched |-> FALSE]

\* What PunctualityFilters shows when it is mounted.
FormOf(f) ==
  [touched |-> FALSE, period |-> f.period, basis |-> f.basis,
   from |-> IF f.period = "custom" THEN f.from ELSE NoDate,
   to |-> IF f.period = "custom" THEN f.to ELSE NoDate,
   plans |-> f.plans, dues |-> f.dues, methods |-> f.methods, scopes |-> f.scopes]

\* The dates are part of the form for a custom period only, the tab is hidden in it.
FormUrl ==
  [period |-> form.period, basis |-> form.basis, tab |-> filters.tab, scope |-> "",
   detail |-> None,
   from |-> IF form.period = "custom" THEN form.from ELSE NoDate,
   to |-> IF form.period = "custom" THEN form.to ELSE NoDate,
   plans |-> form.plans, dues |-> form.dues, methods |-> form.methods,
   scopes |-> form.scopes]

\* Mutant: without its key the form keeps its state from page to page.
SameFormAlways(f, g) == f # Wrong /\ g # Wrong

\* The key of the form is the address of the filters.
SameForm(f, g) == f # Wrong /\ g # Wrong /\ Search(f, f.tab, None) = Search(g, g.tab, None)

-----------------------------------------------------------------------------
(* The figures *)

Late(due, day) == IF day > due THEN day - due ELSE 0

\* normalizePaymentMethod
Method(description) ==
  CASE description \in {"PIX", "pix", "PIX - CLINICO"} -> "Pix"
    [] description = "" -> "not informed"
    [] OTHER -> description

Plan(i) == IF rows[i].type = "" THEN "sem-classificacao" ELSE rows[i].type

Within(day, f) ==
  /\ f.from # NoDate => day # NoDate /\ day >= f.from
  /\ f.to # NoDate => day # NoDate /\ day <= f.to

Chosen(set, value) == set = {} \/ value \in set

\* Mutant of Dated: the report knows no date but the due date.
DatedByDue(i, f) == rows[i].due

\* The date the period is about
Dated(i, f) ==
  IF rows[i].status = "paid" /\ f.basis = "payment" THEN rows[i].paid ELSE rows[i].due

\* PAYMENT_SOURCE_SQL, from parsed to eligible
Eligible(f) ==
  {i \in Rows :
     LET r == rows[i]
     IN /\ r.due # NoDate
        /\ Within(Dated(i, f), f)
        /\ Chosen(f.plans, Plan(i)) /\ Chosen(f.dues, r.due)
        /\ r.status = "unpaid" \/ Chosen(f.methods, Method(r.received))
        /\ \/ r.status = "unpaid" /\ r.due < Today /\ "open" \in f.scopes
           \/ /\ r.status = "paid" /\ r.priced
              /\ r.paid # NoDate /\ r.paid <= Today
              /\ \/ r.paid <= r.due /\ "paid" \in f.scopes
                 \/ r.paid > r.due /\ "late" \in f.scopes}

Days(i) == Late(rows[i].due, IF rows[i].status = "unpaid" THEN Today ELSE rows[i].paid)

\* The figures of one group of groupQuery
Figures(group) ==
  LET With(status) == {i \in group : rows[i].status = status}
  IN [count |-> Cardinality(group),
      late |-> Cardinality({i \in group : Days(i) > 0}),
      onTime |-> Cardinality({i \in With("paid") : Days(i) = 0}),
      paid |-> Cardinality(With("paid")), open |-> Cardinality(With("unpaid")),
      days |-> MapThenSumSet(Days, group), amount |-> FoldSet(+, 0, group)]

GroupKinds == {"total", "plan", "due", "method"}
KeyOf(kind, i) ==
  CASE kind = "plan" -> Plan(i)
    [] kind = "due" -> rows[i].due
    [] kind = "method" -> Method(rows[i].received)
    [] OTHER -> "all"
GroupOf(f, kind, key) == {i \in Eligible(f) : KeyOf(kind, i) = key}

\* getPaymentReport: the groups of a kind, by key
Report(f, kind) ==
  [key \in {KeyOf(kind, i) : i \in Eligible(f)} |-> Figures(GroupOf(f, kind, key))]

\* The card with all of it; a report without rows has one of zeros.
Total(f) == IF Eligible(f) = {} THEN Figures({}) ELSE Report(f, "total")["all"]

FirstOf(list) == SubSeq(list, 1, Min({DetailLimit, Len(list)}))

\* getPaymentDetails: the longest delays first
Details(f, kind, key) ==
  LET Before(i, j) ==
        \/ Days(i) > Days(j)
        \/ Days(i) = Days(j) /\ rows[i].due > rows[j].due
        \/ Days(i) = Days(j) /\ rows[i].due = rows[j].due /\ i < j
  IN FirstOf(SetToSortSeq(GroupOf(f, kind, key), Before))

-----------------------------------------------------------------------------
(* Configured and received descriptions *)

\* paymentMethodIdentity: letter case is no difference, the kind of Pix is.
Identity(description) == IF description = "pix" THEN "PIX" ELSE description

PaidOf(f) == {i \in Eligible(f) : rows[i].status = "paid"}
PairOf(i) == <<rows[i].configured, rows[i].received>>
OfPair(f, pair) == {i \in PaidOf(f) : PairOf(i) = pair}

\* The query of getPaymentMethodChanges: the figures of every pair
PairFigures(f) == [pair \in {PairOf(i) : i \in PaidOf(f)} |-> Figures(OfPair(f, pair))]

\* Pairs that can be compared
Pairs(f) == {pair \in DOMAIN PairFigures(f) : pair[1] # "" /\ pair[2] # ""}
HasChanged(pair) == Identity(pair[1]) # Identity(pair[2])

\* summarizePaymentMethodChanges
Changes(f) ==
  LET figures == PairFigures(f)
      Count(pairs) == MapThenSumSet(LAMBDA pair : figures[pair].count, pairs)
      changed == {pair \in Pairs(f) : HasChanged(pair)}
  IN [totalPaid |-> Count(DOMAIN figures), compared |-> Count(Pairs(f)),
      changed |-> Count(changed), unchanged |-> Count(Pairs(f) \ changed),
      without |-> Count(DOMAIN figures \ Pairs(f))]

\* getPaymentMethodChangeDetails
ChangeDetails(f, pair) ==
  LET Before(i, j) ==
        \/ Days(i) > Days(j)
        \/ Days(i) = Days(j) /\ rows[i].paid > rows[j].paid
        \/ Days(i) = Days(j) /\ rows[i].paid = rows[j].paid /\ i < j
  IN FirstOf(SetToSortSeq(OfPair(f, pair), Before))

-----------------------------------------------------------------------------
(* The check against the list of associates *)

Reconciles(f) ==
  /\ f.basis = "payment" /\ f.period # "all" /\ f.dues = {}
  /\ f.scopes \cap {"paid", "late"} # {}

\* getPaymentDateReconciliation
Reconciliation(f) ==
  LET matched == {i \in Rows :
        /\ rows[i].paid # NoDate /\ rows[i].paid <= Today /\ Within(rows[i].paid, f)
        /\ Chosen(f.plans, Plan(i)) /\ Chosen(f.methods, Method(rows[i].received))}
      paid == {i \in matched : rows[i].status = "paid"}
  IN [matched |-> Cardinality(matched), paid |-> Cardinality(paid),
      missingDue |-> Cardinality({i \in paid : rows[i].due = NoDate}),
      missingAmount |-> Cardinality({i \in paid : ~rows[i].priced})]

-----------------------------------------------------------------------------
(* What the figures mean: aggregatePaymentRows *)

Aggregated(f) ==
  {i \in Rows :
     LET r == rows[i]
         isOpen == r.status = "unpaid" /\ r.due < Today /\ "open" \in f.scopes
         isPaid == r.status = "paid" /\ r.paid # NoDate /\ r.paid <= Today /\ r.priced
         days == Late(r.due, IF isOpen THEN Today ELSE r.paid)
     IN /\ r.due # NoDate /\ Chosen(f.plans, Plan(i)) /\ Chosen(f.dues, r.due)
        /\ isOpen \/ isPaid
        /\ Within(IF ~isOpen /\ f.basis = "payment" THEN r.paid ELSE r.due, f)
        /\ isOpen \/ Chosen(f.methods, Method(r.received))
        /\ isOpen \/ (IF days > 0 THEN "late" ELSE "paid") \in f.scopes}

-----------------------------------------------------------------------------
(* The page *)

\* The groups a tab shows; open installments have no method to compare.
Shown(f) ==
  LET kinds == CASE f.tab = "geral" -> {"plan", "due", "method"}
                 [] f.tab = "planos" -> {"plan"}
                 [] f.tab = "vencimentos" -> {"due"}
                 [] f.tab = "formas" -> {"method"}
                 [] OTHER -> {}
      comparable == IF "open" \in f.scopes THEN kinds \ {"method"} ELSE kinds
  IN UNION {{<<kind, key>> : key \in DOMAIN Report(f, kind)} : kind \in comparable}

\* The pairs of the tab that compares descriptions, or the changed ones only
ShownPairs(f, all) ==
  IF f.tab # "trocas" THEN {}
  ELSE {<<"change", pair>> : pair \in {p \in Pairs(f) : all \/ HasChanged(p)}}

\* What an address opens: a group of the report, a pair of the comparison.
Opens(f, detail) ==
  IF detail = None \/ f = Wrong THEN None
  ELSE IF detail[1] = "change"
       THEN IF f.tab = "trocas" /\ detail[2] \in Pairs(f) THEN detail ELSE None
  ELSE IF detail[1] \in GroupKinds /\ detail[2] \in DOMAIN Report(f, detail[1])
       THEN detail ELSE None

Listed(f) ==
  CASE opened = None -> <<>>
    [] opened # None /\ opened[1] = "change" -> ChangeDetails(f, opened[2])
    [] OTHER -> Details(f, opened[1], opened[2])

Init ==
  /\ rows \in [Rows -> RowStates]
  /\ \E url \in Urls : filters = Read(url)
  /\ opened = None
  /\ form = IF filters = Wrong THEN NoForm ELSE FormOf(filters)
  /\ moves = 0

Moves == moves < MaxMoves /\ moves' = moves + 1 /\ UNCHANGED rows

Navigate(url) ==
  /\ Moves
  /\ filters' = Read(url)
  /\ opened' = Opens(filters', url.detail)
  /\ form' = IF filters' = Wrong THEN NoForm
             ELSE IF SameForm(filters, filters') THEN form ELSE FormOf(filters')

OpenUrl == \E url \in Urls : Navigate(url)

\* Another tab, and what was open is closed
FollowTab ==
  /\ filters # Wrong
  /\ \E tab \in {"geral", "planos", "vencimentos", "formas", "trocas"} :
       Navigate(Search(filters, tab, None))

\* The rows of a group or of a pair
FollowGroup ==
  /\ filters # Wrong
  /\ \E detail \in Shown(filters) \cup ShownPairs(filters, TRUE) :
       Navigate(Search(filters, filters.tab, detail))

\* Without a situation, or with dates that are crossed, the form cannot be sent.
Submit ==
  /\ filters # Wrong /\ form.scopes # {}
  /\ ~(form.period = "custom" /\ form.from # NoDate /\ form.to # NoDate /\ form.from > form.to)
  /\ Navigate(FormUrl)

Toggled(set, value) == IF value \in set THEN set \ {value} ELSE set \cup {value}

Edit ==
  /\ Moves /\ filters # Wrong
  /\ \/ \E plan \in PlanKeys : form' = [form EXCEPT !.plans = Toggled(@, plan), !.touched = TRUE]
     \/ \E scope \in Scopes : form' = [form EXCEPT !.scopes = Toggled(@, scope), !.touched = TRUE]
     \/ \E period \in {"all", "recent", "custom"} :
          form' = [form EXCEPT !.period = period, !.touched = TRUE]
     \/ \E day \in 1 .. Today : form' = [form EXCEPT !.from = day, !.touched = TRUE]
  /\ UNCHANGED <<filters, opened>>

Next == OpenUrl \/ FollowTab \/ FollowGroup \/ Submit \/ Edit

Spec == Init /\ [][Next]_vars

-----------------------------------------------------------------------------
(* Properties *)

\* The SQL selects what aggregatePaymentRows says ("para validar o significado
\* dos indicadores"); the groups of a kind share the total out; the comparison
\* of the descriptions is about the paid ones of the total, and the check
\* against the list of associates explains what the total leaves out.
FiguresMean(f) ==
  LET total == Total(f)
      check == Reconciliation(f)
  IN /\ Eligible(f) = Aggregated(f)
     /\ total.paid + total.open = total.count
     /\ \A kind \in GroupKinds :
          LET report == Report(f, kind)
          IN /\ total.count = MapThenSumSet(LAMBDA key : report[key].count, DOMAIN report)
             /\ total.days = MapThenSumSet(LAMBDA key : report[key].days, DOMAIN report)
     /\ Changes(f).totalPaid = total.paid
     /\ Reconciles(f) /\ {"paid", "late"} \subseteq f.scopes =>
          /\ total.paid <= check.paid
          /\ check.paid - check.missingDue - check.missingAmount <= total.paid

\* The rows that are listed are those of the group that is counted, up to the limit.
ListIsOfGroup(f) ==
  opened # None =>
    LET count == IF opened[1] = "change" THEN PairFigures(f)[opened[2]].count
                 ELSE Report(f, opened[1])[opened[2]].count
    IN Len(Listed(f)) = Min({DetailLimit, count}) /\ ToSet(Listed(f)) \subseteq Eligible(f)

\* A form that nobody has touched sends the filters of the page it is on.
FormFollowsPage == ~form.touched => Read(FormUrl) = filters

\* The report of punctuality: figures, lists and form are about the filters of the page.
ReportAgrees ==
  filters # Wrong => FormFollowsPage /\ FiguresMean(filters) /\ ListIsOfGroup(filters)
=============================================================================
