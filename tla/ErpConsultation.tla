--------------------------- MODULE ErpConsultation ---------------------------
(***************************************************************************)
(* One consultation of the ERP (consultMonthlyByAssociatedCode): the pages *)
(* of the history of an associate are read one HTTP request after the      *)
(* other, until the target installment is on a page or the last page is    *)
(* read, and then analysed (InstallmentAnalysis).  The ERP is another      *)
(* system: the history may change between two requests.  Nobody passes an  *)
(* abort signal.                                                           *)
(*                                                                         *)
(*   history    the installments the ERP holds, in the order of its pages  *)
(*   call       the consultation: program counter, pages read, outcome     *)
(*   witnessed  what the target was during the call (history variable)     *)
(***************************************************************************)
EXTENDS InstallmentAnalysis

CONSTANTS
  Codes,          \* installment codes
  Kinds,          \* what a new item may say: description, value, paid and plan
  Histories,      \* the histories a call may begin with
  PageSize,       \* items per page
  MaxPages,       \* maxPagesPerOperation
  MaxChanges      \* bound: changes of the history during the call

VARIABLES history, call, witnessed, changes

vars == <<history, call, witnessed, changes>>

Items == {Item(c, k) : c \in Codes, k \in Kinds}

-----------------------------------------------------------------------------
(* mensalidades-api.ts *)

TotalPages(h) == (Len(h) + PageSize - 1) \div PageSize

\* The page the ERP answers; valid: its codigo is 1 and it lists no errors.
Page(h, p, valid) ==
  [items |-> SubSeq(h, (p - 1) * PageSize + 1,
                    IF p * PageSize < Len(h) THEN p * PageSize ELSE Len(h)),
   totalPages |-> TotalPages(h), totalCount |-> Len(h), valid |-> valid]

Idle == [pc |-> "idle", page |-> 1, pages |-> <<>>, outcome |-> [kind |-> "none"]]

\* The target as the ERP would classify it now.
TargetNow(h) ==
  IF \E i \in DOMAIN h : h[i].code = Target
  THEN Classify(SelectSeq(h, LAMBDA item : item.code = Target)[1]).status
  ELSE "missing"

Init ==
  /\ history \in Histories
  /\ call = Idle
  /\ witnessed = {}
  /\ changes = 0

Begin ==
  /\ call.pc = "idle"
  /\ call' = [call EXCEPT !.pc = "fetch"]
  /\ witnessed' = {TargetNow(history)}
  /\ UNCHANGED <<history, changes>>

Finish(outcome) ==
  call' = [call EXCEPT !.pc = "done", !.outcome = outcome]

\* errorForStatus, errorFromAbort and the other failures of a request.
RequestFailures ==
  {Rejected("UNAUTHORIZED"), Rejected("HTTP_ERROR"), Rejected("INVALID"),
   Retried("RATE_LIMITED"), Retried("SERVER_ERROR"), Retried("TIMEOUT"),
   Retried("NETWORK_ERROR")}

RequestFails ==
  /\ call.pc = "fetch" /\ call.page <= MaxPages
  /\ \E failure \in RequestFailures : Finish(failure)

TooManyPages ==
  /\ call.pc = "fetch" /\ call.page > MaxPages
  /\ Finish(Rejected("INVALID"))

NextPage(page) == page + 1

\* A page arrives: it must agree with the first one on the number of pages.
\* The target on it, or the last page, ends the loop.
PageArrives ==
  /\ call.pc = "fetch" /\ call.page <= MaxPages
  /\ \E valid \in BOOLEAN :
       LET page == Page(history, call.page, valid)
           pages == [p \in 1 .. call.page |->
                       IF p = call.page THEN page ELSE call.pages[p]]
           hit == \E i \in DOMAIN page.items : page.items[i].code = Target
       IN IF page.totalPages # pages[1].totalPages
          THEN Finish(Rejected("INVALID"))
          ELSE IF hit \/ call.page >= page.totalPages
          THEN call' = [call EXCEPT !.pc = "done", !.pages = pages,
                                    !.outcome = Analyse(pages)]
          ELSE call' = [call EXCEPT !.pages = pages, !.page = NextPage(@)]

\* Metadata that are absent end the loop; the analysis refuses the page.
PageUnreadable ==
  /\ call.pc = "fetch" /\ call.page <= MaxPages
  /\ Finish(Rejected("INVALID"))

Consult ==
  /\ TooManyPages \/ RequestFails \/ PageArrives \/ PageUnreadable
  /\ UNCHANGED <<history, witnessed, changes>>

\* The ERP adds, removes or changes an installment.
Changed(h) ==
  {InsertAt(h, i, item) : i \in 1 .. Len(h) + 1, item \in Items}
    \cup {RemoveAt(h, i) : i \in DOMAIN h}
    \cup {[h EXCEPT ![i] = Item(h[i].code, kind)] : i \in DOMAIN h, kind \in Kinds}

ErpChanges ==
  /\ call.pc = "fetch" /\ changes < MaxChanges
  /\ changes' = changes + 1
  /\ history' \in Changed(history)
  /\ witnessed' = witnessed \cup {TargetNow(history')}
  /\ UNCHANGED call

Next == Begin \/ Consult \/ ErpChanges

Spec == Init /\ [][Next]_vars

-----------------------------------------------------------------------------
(* db/migrations: what the triggers make of a persisted answer *)

\* apply_agreed_financial_truth_v1 reads the description in the snapshot of the
\* history, preserve_campaign_member_financial_truth_v1 computes the difference.
Stored(answer, item) ==
  LET agreed == IF item.description = "ACORDADO" THEN "agreed"
                ELSE IF item.description = "EXCLUIDA" THEN "excluded" ELSE answer.status
      row == IF agreed \in {"agreed", "excluded"}
             THEN [status |-> agreed, installment |-> item.value, payment |-> 0, pending |-> 0]
             ELSE [status |-> answer.status, installment |-> answer.installment,
                   payment |-> answer.payment, pending |-> answer.pending]
  IN IF row.status = "paid"
     THEN [row EXCEPT !.pending = Positive(row.installment - row.payment)]
     ELSE row

-----------------------------------------------------------------------------
(* Properties *)

Answered == call.pc = "done" /\ call.outcome.kind = "answer"

Read == Merged(call.pages)
FirstOf(code) ==
  Read[CHOOSE i \in DOMAIN Read : Read[i].code = code
         /\ \A k \in 1 .. i - 1 : Read[k].code # code]

TypeOK ==
  /\ \A i \in DOMAIN history : history[i].code \in Codes
  /\ call.pc \in {"idle", "fetch", "done"}
  /\ witnessed \subseteq {"unpaid", "paid", "agreed", "excluded", "invalid", "missing"}
  /\ Answered =>
       /\ call.outcome.status \in {"unpaid", "paid", "agreed", "excluded"}
       /\ {call.outcome.installment, call.outcome.payment, call.outcome.pending,
           call.outcome.total, call.outcome.received} \subseteq Nat

\* Several requests are read as one: the ERP did have what an answer says, and
\* "nao foi localizada", which lets an operator delete the link
\* (api/associados/[id]), is not said of an installment that was there all the time.
AnswerWasTrue ==
  /\ Answered => call.outcome.status \in witnessed
  /\ call.outcome = Rejected("MISSING") => "missing" \in witnessed

\* The pending total is what each installment owes, once, however often its
\* code is on the pages; the totals by plan add up to it and the target is part of it.
TotalsAgree ==
  Answered =>
    /\ call.outcome.total =
         MapThenSumSet(LAMBDA code : Pending(FirstOf(code)),
                       {Read[i].code : i \in DOMAIN Read})
    /\ call.outcome.total =
         MapThenSumSet(LAMBDA plan : call.outcome.byPlan[plan], DOMAIN call.outcome.byPlan)
    /\ call.outcome.pending <= call.outcome.total

\* The rules are written twice, in analysis.ts and in the triggers: a link
\* stores the answer as it was given.
StoredAsAnswered ==
  Answered =>
    LET row == Stored(call.outcome, FirstOf(Target))
    IN /\ row.status = call.outcome.status
       /\ row.installment = call.outcome.installment
       /\ row.payment = call.outcome.payment
       /\ row.pending = call.outcome.pending

\* What is told of one history is told once: the totals agree with each other
\* and with the pages, and what is stored with what was answered.
AnswerAgrees == TotalsAgree /\ StoredAsAnswered
=============================================================================
