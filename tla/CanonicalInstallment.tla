----------------------- MODULE CanonicalInstallment -----------------------
(***************************************************************************)
(* One row of member_target_installments ("canonical") holds what the ERP  *)
(* said of an installment; the links of every batch that has it mirror     *)
(* the row.  Three triggers keep them together: bind (an import or an      *)
(* update of a link), capture (a persisted answer is promoted to the row)  *)
(* and sync (the row is copied to the links).                              *)
(*                                                                         *)
(*   erp     what the ERP would answer now                                 *)
(*   target  the canonical row                                             *)
(*   links   campaign_batch_members, one of each batch: a batch has an     *)
(*           installment once                                              *)
(*   older   the links whose claimed_at is before financial_observed_at    *)
(*   loops   the consultation and persistence loops of the worker          *)
(*                                                                         *)
(* The transaction of a result is Begin and Persist: now() is the time of  *)
(* Begin, and the capture locks the canonical row until the commit, so all *)
(* that follows the lock is one step.  Timestamps are the comparisons made *)
(* of them: `older`, and for an open transaction the claims that precede   *)
(* it (`before`), the transactions that began earlier (`ahead`) and        *)
(* whether one that began later has observed first (`outrun`).             *)
(***************************************************************************)
EXTENDS Naturals, FiniteSets

CONSTANTS
  Links,        \* the possible links of the installment
  Loops,        \* loops of the worker that consult and persist
  Amounts,      \* amounts an import or an update may bring
  ErpAmount,    \* Valor of the installment in the ERP
  ErpMoves,     \* pairs of successive answers of the ERP
  MaxRequests,  \* bound: requests of operators
  MaxFailures,  \* bound: consultations that fail, dead or slow processes
  None          \* no loop, no link

VARIABLES erp, target, links, older, loops, requests, failures

vars == <<erp, target, links, older, loops, requests, failures>>

Answers == {"unpaid", "paid", "agreed", "excluded"}
Terminal == {"paid", "agreed", "excluded"}
Pay == Answers \cup {"none"}

ASSUME CanonicalAssumption ==
  /\ None \notin Loops /\ None \notin Links
  /\ ErpMoves \subseteq Answers \X Answers
  /\ ErpAmount \in Amounts
  /\ MaxRequests \in Nat /\ MaxFailures \in Nat

\* The ERP does not take a confirmation back.
ASSUME ConfirmedIsFinal == \A m \in ErpMoves : m[1] \notin Terminal

\* "waiting" is pending, "requested" an error with error_reprocess_requested_at.
LinkStatus == {"absent", "waiting", "processing", "retrying", "requested",
               "completed", "error", "removed"}
LinkRec == [st : LinkStatus, pay : Pay, amount : Amounts,
            holder : Loops \cup {None}]
LoopRec == [pc : {"idle", "consult", "answered", "open", "failing"}, link : Links \cup {None},
            answer : Pay, before : SUBSET Links, ahead : SUBSET Loops,
            outrun : BOOLEAN]

Live == {l \in Links : links[l].st \notin {"absent", "removed"}}
Open == {w \in Loops : loops[w].pc = "open"}

\* A row is locked by the transaction that persists its result.
Locked(l) == \E w \in Open : loops[w].link = l

-----------------------------------------------------------------------------
(* Triggers *)

\* trg_enforce_terminal_financial_processing_state_v1
EnforceTerminal(rec) ==
  IF rec.st = "error" /\ rec.pay \in {"paid", "agreed"}
  THEN [rec EXCEPT !.st = "completed"] ELSE rec

\* bind_campaign_batch_member_target_v1, for a canonical row that exists
Bind(rec, row) ==
  [rec EXCEPT
     !.amount = row.amount,
     !.pay = IF row.pay = "none" THEN rec.pay ELSE row.pay,
     !.st = IF row.pay \in Terminal THEN "completed" ELSE rec.st,
     !.holder = IF row.pay \in Terminal THEN None ELSE rec.holder]

\* sync_target_installment_links_v1, one link
Synced(rec, row) ==
  [rec EXCEPT
     !.amount = row.amount, !.pay = row.pay,
     !.st = IF row.pay \in Terminal THEN "completed"
            ELSE IF rec.pay \in Terminal /\ row.pay = "unpaid" THEN "waiting"
            ELSE rec.st,
     !.holder = IF row.pay \in Terminal THEN None ELSE rec.holder]

\* The links another transaction works on are left alone (026).
SyncLinks(rows, row) ==
  [l \in Links |-> IF rows[l].st \in {"absent", "removed", "processing"}
                   THEN rows[l] ELSE Synced(rows[l], row)]

\* Mutant of Restored: 023, links are synchronized when the row was written.
RestoredIfPromoted(rows, row, promoted) ==
  IF promoted THEN SyncLinks(rows, row) ELSE rows

\* The end of capture: also an answer that was not promoted synchronizes the
\* links, which gives its own link the truth back (024).
Restored(rows, row, promoted) == SyncLinks(rows, row)

\* Mutant of StaleReversal: 024, without the guard of 026.
NeverStale(w) == FALSE

\* capture_campaign_batch_member_financial_truth_v1: an answer that would
\* reopen a confirmed installment comes from a claim before the confirmation.
StaleReversal(w) ==
  /\ target.pay \in Terminal
  /\ loops[w].answer \notin Terminal
  /\ loops[w].link \in older

-----------------------------------------------------------------------------
(* Operators *)

IdleLoop == [pc |-> "idle", link |-> None, answer |-> "none", before |-> {},
             ahead |-> {}, outrun |-> FALSE]

Init ==
  /\ erp \in Answers
  /\ target = [exists |-> FALSE, pay |-> "none", amount |-> ErpAmount]
  /\ links = [l \in Links |-> [st |-> "absent", pay |-> "none",
                               amount |-> ErpAmount, holder |-> None]]
  /\ older = {}
  /\ loops = [w \in Loops |-> IdleLoop]
  /\ requests = 0 /\ failures = 0

Request == requests < MaxRequests /\ requests' = requests + 1

\* The import creates the canonical row or binds the new link to it.
Import(l, a) ==
  /\ links[l].st = "absent" /\ Request
  /\ target' = IF target.exists THEN target
               ELSE [exists |-> TRUE, pay |-> "none", amount |-> a]
  /\ links' = [links EXCEPT ![l] =
                 Bind([st |-> "waiting", pay |-> "none", amount |-> a,
                       holder |-> None], target')]
  /\ UNCHANGED <<erp, older, loops, failures>>

\* POST /api/associados/atualizar: due date and amount of a link.  The statement
\* names due_date_text, so bind fires; it names installment_amount_cents, so
\* capture fires, which finds in the link what bind has copied from the row.  A
\* link never consulted is observed now, later than the open transactions.
UpdateLink(l, a) ==
  /\ l \in Live /\ ~Locked(l) /\ Request
  /\ links' = SyncLinks([links EXCEPT ![l] = Bind([links[l] EXCEPT !.amount = a],
                                                  target)], target)
  /\ \E passed \in {{}, IF target.pay = "none" THEN Open ELSE {}} :
       loops' = [w \in Loops |-> IF w \in passed THEN [loops[w] EXCEPT !.outrun = TRUE]
                                 ELSE loops[w]]
  /\ UNCHANGED <<erp, target, older, failures>>

\* A batch is processed again: links that are not confirmed (reopenUnpaidMembers).
ReopenUnpaid(l) ==
  /\ l \in Live /\ Request
  /\ links[l].st # "processing" /\ links[l].pay \in {"none", "unpaid"}
  /\ links' = [links EXCEPT ![l].st = "waiting"]
  /\ UNCHANGED <<erp, target, older, loops, failures>>

\* requestErroredMembers
RequestErrored(l) ==
  /\ links[l].st = "error" /\ links[l].pay \notin Terminal /\ Request
  /\ links' = [links EXCEPT ![l].st = "requested"]
  /\ UNCHANGED <<erp, target, older, loops, failures>>

\* queueMemberReprocess: a reconciliation of one member, confirmed or not.
ReopenMember(l) ==
  /\ l \in Live /\ ~Locked(l) /\ Request
  /\ links' = [links EXCEPT ![l].st = "waiting", ![l].holder = None]
  /\ UNCHANGED <<erp, target, older, loops, failures>>

\* DELETE /api/associados/[id]: a link whose installment the ERP does not know.
RemoveLink(l) ==
  /\ links[l].st \in {"error", "requested"} /\ Request
  /\ links' = [links EXCEPT ![l].st = "removed"]
  /\ UNCHANGED <<erp, target, older, loops, failures>>

ErpChanges ==
  /\ \E m \in ErpMoves : m[1] = erp /\ erp' = m[2]
  /\ UNCHANGED <<target, links, older, loops, requests, failures>>

-----------------------------------------------------------------------------
(* Worker *)

\* claimMembers: the new claim is later than every open transaction.
Claim(w, l) ==
  /\ loops[w].pc = "idle"
  /\ links[l].st \in {"waiting", "retrying", "requested"}
  /\ links' = [links EXCEPT ![l].st = "processing", ![l].holder = w]
  /\ older' = older \ {l}
  /\ loops' = [v \in Loops |->
                 IF v = w
                 THEN [loops[w] EXCEPT !.pc = "consult", !.link = l, !.answer = "none"]
                 ELSE [loops[v] EXCEPT !.before = loops[v].before \ {l}]]
  /\ UNCHANGED <<erp, target, requests, failures>>

Consult(w) ==
  /\ loops[w].pc = "consult"
  /\ loops' = [loops EXCEPT ![w].pc = "answered", ![w].answer = erp]
  /\ UNCHANGED <<erp, target, links, older, requests, failures>>

Holds(w) == links[loops[w].link].holder = w

\* The loop goes on without its claim or with its transaction closed.
Released(w) ==
  [v \in Loops |->
     IF v = w THEN IdleLoop
     ELSE [loops[v] EXCEPT !.ahead = loops[v].ahead \ {w}]]

\* persistSuccess or persistFailure finds that the claim is not its own any more.
Refused(w) ==
  /\ loops[w].pc \in {"consult", "answered", "failing"} /\ ~Holds(w)
  /\ loops' = Released(w)
  /\ UNCHANGED <<erp, target, links, older, requests, failures>>

\* persistSuccess begins and locks its link.
Begin(w) ==
  /\ loops[w].pc = "answered" /\ Holds(w)
  /\ loops' = [loops EXCEPT ![w].pc = "open",
                            ![w].before = {l \in Links : links[l].st = "processing"},
                            ![w].ahead = Open,
                            ![w].outrun = FALSE]
  /\ UNCHANGED <<erp, target, links, older, requests, failures>>

\* The update of the link, capture and sync.  An answer is promoted unless it
\* is a stale reversal or one with a later now() was observed before.
Persist(w) ==
  LET me == loops[w]
      promoted == ~StaleReversal(w) /\ ~me.outrun
      row == IF promoted
             THEN [target EXCEPT !.pay = me.answer, !.amount = ErpAmount] ELSE target
      answered == [links EXCEPT ![me.link] =
                     [st |-> "completed", pay |-> me.answer,
                      amount |-> ErpAmount, holder |-> None]]
  IN /\ me.pc = "open"
     /\ target' = row
     /\ links' = Restored(answered, row, promoted)
     /\ older' = IF promoted THEN me.before \ {me.link} ELSE older \ {me.link}
     /\ loops' = [v \in Loops |->
                    IF promoted /\ v \in me.ahead
                    THEN [Released(w)[v] EXCEPT !.outrun = TRUE] ELSE Released(w)[v]]
     /\ UNCHANGED <<erp, requests, failures>>

\* A claim that ends without a result.
Failed(rec, st) ==
  EnforceTerminal([rec EXCEPT !.st = st, !.holder = None])

\* The database ends the transaction (two results wait for the totals of each
\* other's batch): nothing of it is left, and the failure is persisted next.
Aborted(w) ==
  /\ loops[w].pc = "open"
  /\ failures < MaxFailures /\ failures' = failures + 1
  /\ loops' = [Released(w) EXCEPT
                 ![w] = [IdleLoop EXCEPT !.pc = "failing", !.link = loops[w].link]]
  /\ UNCHANGED <<erp, target, links, older, requests>>

\* persistFailure names no financial column: capture does not fire.
PersistFailure(w) ==
  /\ loops[w].pc \in {"consult", "answered", "failing"} /\ Holds(w)
  /\ IF loops[w].pc = "failing" THEN UNCHANGED failures
     ELSE failures < MaxFailures /\ failures' = failures + 1
  /\ \E st \in {"retrying", "error"} :
       links' = [links EXCEPT ![loops[w].link] = Failed(links[loops[w].link], st)]
  /\ loops' = Released(w)
  /\ UNCHANGED <<erp, target, older, requests>>

\* The process dies: the claim stays.
Die(w) ==
  /\ loops[w].pc # "idle"
  /\ failures < MaxFailures /\ failures' = failures + 1
  /\ loops' = Released(w)
  /\ UNCHANGED <<erp, target, links, older, requests>>

Working(l) == \E w \in Loops : loops[w].pc # "idle" /\ loops[w].link = l /\ Holds(w)

\* Mutant of Recover: the claims of a process that died stay.
RecoverSlow(l) ==
  /\ links[l].st = "processing" /\ ~Locked(l) /\ Working(l)
  /\ failures < MaxFailures /\ failures' = failures + 1
  /\ \E st \in {"retrying", "error"} :
       links' = [links EXCEPT ![l] = Failed(links[l], st)]
  /\ UNCHANGED <<erp, target, older, loops, requests>>

\* recoverStaleLocalWork; a slow loop may still be at work.
Recover(l) ==
  /\ links[l].st = "processing" /\ ~Locked(l)
  /\ IF Working(l) THEN failures < MaxFailures /\ failures' = failures + 1
     ELSE UNCHANGED failures
  /\ \E st \in {"retrying", "error"} :
       links' = [links EXCEPT ![l] = Failed(links[l], st)]
  /\ UNCHANGED <<erp, target, older, loops, requests>>

-----------------------------------------------------------------------------
Operator(l) ==
  \/ \E a \in Amounts : Import(l, a) \/ UpdateLink(l, a)
  \/ ReopenUnpaid(l) \/ RequestErrored(l) \/ ReopenMember(l) \/ RemoveLink(l)

Worker(w) ==
  \/ \E l \in Links : Claim(w, l)
  \/ Consult(w) \/ Refused(w) \/ Begin(w) \/ Persist(w)
  \/ loops[w].pc = "failing" /\ PersistFailure(w)

Next ==
  \/ ErpChanges
  \/ \E l \in Links : Operator(l) \/ Recover(l)
  \/ \E w \in Loops : Worker(w) \/ PersistFailure(w) \/ Aborted(w) \/ Die(w)

Spec == Init /\ [][Next]_vars

\* The loops go on, and the next cycle recovers the claims of the dead.
Fairness ==
  /\ \A w \in Loops : WF_vars(Worker(w))
  /\ \A l \in Links : WF_vars(Recover(l))

FairSpec == Spec /\ Fairness

-----------------------------------------------------------------------------
(* Properties *)

TypeOK ==
  /\ erp \in Answers
  /\ target \in [exists : BOOLEAN, pay : Pay, amount : Amounts]
  /\ links \in [Links -> LinkRec]
  /\ older \subseteq Links
  /\ loops \in [Loops -> LoopRec]
  /\ requests \in 0 .. MaxRequests /\ failures \in 0 .. MaxFailures

\* A completed link shows what the canonical row says, however the answers of
\* the loops were ordered and whichever of them were late, refused or lost.
CompletedLinksMirror ==
  \A l \in Links : links[l].st = "completed" => links[l].pay = target.pay

\* A confirmed installment is not reopened by an answer that was read before
\* the confirmation and persisted after it (026).
ConfirmationStands ==
  [][target.pay \in Terminal => target'.pay \in Terminal]_vars

\* Every link that does not end in error ends as a mirror of the row.
MirrorsConverge ==
  <>[](\A l \in Live : links[l].st \notin {"error", "requested"}
                       => links[l].pay = target.pay)

\* "Espelha a verdade financeira em todos os vinculos" (023:343), once no loop
\* works on the link.
EveryLinkMirrors ==
  \A l \in Live : links[l].st # "processing" => links[l].pay = target.pay

\* "Valor da Parcela e Vencimento atualizam esse vinculo" (modelo-atualizacao).
AmountUpdatesLink ==
  [][\A l \in Links, a \in Amounts : UpdateLink(l, a) => links'[l].amount = a]_vars
============================================================================
