----------------------------- MODULE BatchTotals -----------------------------
(***************************************************************************)
(* The counters that campaign_batches keeps of its links, and who writes   *)
(* them: the transaction of every result (the capture trigger synchronizes *)
(* the links of the installment and counts each of their batches), the end *)
(* of the worker's cycle (recalculateBatch) and the removal of a link.     *)
(* PostgreSQL at READ COMMITTED: a statement counts what is committed when *)
(* it begins, and when it has waited for the row of the batch it writes    *)
(* what it had counted.                                                    *)
(*                                                                         *)
(*   links      one link of each installment in each batch, as committed   *)
(*   canonical  payment_status of the installments, as committed           *)
(*   totals     the counters of the batches                                *)
(*   tx         the transaction of each persistence loop                   *)
(*   cycle      the worker's cycle: one batch, its links, then the count   *)
(*   removal    the transaction that removes a link                        *)
(*                                                                         *)
(* An installment is called by half its amount: a payment in part pays one *)
(* half and leaves the other pending.  Each is of another associate,       *)
(* answers come in time (CanonicalInstallment has the late ones), and jobs *)
(* are in ProcessingQueue: here a cycle takes the waiting links of a batch.*)
(***************************************************************************)
EXTENDS Integers, FiniteSets, SequencesExt

CONSTANTS
  Installments, \* halves of their amounts
  AnswersOf,    \* what the ERP may answer of each installment
  Loops,        \* the persistence loops of the worker
  Order,        \* the batches in the order `select distinct` gives them
  MaxCycles,    \* bound: cycles of the worker
  MaxRequests   \* bound: links removed and links consulted again

VARIABLES links, canonical, totals, tx, cycle, removal, cycles, requests

vars == <<links, canonical, totals, tx, cycle, removal, cycles, requests>>

WorkBatches == Range(Order)
\* "partly" is payment_status 'paid' with less than the amount.
Answers == {"unpaid", "paid", "partly", "agreed", "excluded"}
Terminal == Answers \ {"unpaid"}
Pay == Answers \cup {"none"}
Status(pay) == IF pay = "partly" THEN "paid" ELSE pay
LinkStatus == {"waiting", "processing", "completed", "error", "removed"}

NoneLink == <<>>
IdleTx == [pc |-> "idle", link |-> NoneLink, answer |-> "none", todo |-> <<>>,
           counted |-> [total |-> 0], written |-> {}]
IdleCycle == [pc |-> "idle", batch |-> "none", counted |-> [total |-> 0], alone |-> TRUE]
IdleRemoval == [pc |-> "idle", link |-> NoneLink, counted |-> [total |-> 0]]

-----------------------------------------------------------------------------
(* The counters *)

\* pending_amount_cents: what was paid in part keeps the rest.
Due(i, pay) == CASE pay = "unpaid" -> 2 * i [] pay = "partly" -> i [] OTHER -> 0

Owed(pays, set) == MapThenSumSet(LAMBDA i : Due(i, pays[i]), set)

\* The counters of a batch with the links `rows`; pays is where the payment
\* status is read, settled the installments that neither wait nor err, rest
\* the status of a batch with nothing left to do.
Counters(rows, pays, settled, rest) ==
  LET live == {i \in Installments : rows[i].st # "removed"}
      With(st) == {i \in live : rows[i].st = st}
      waiting == With("waiting") \ settled
      errors == With("error") \ settled
  IN [total |-> Cardinality(live),
      processed |-> Cardinality(With("completed")),
      paid |-> Cardinality({i \in live : Status(pays[i]) = "paid"}),
      unpaid |-> Cardinality({i \in live : pays[i] = "unpaid"}),
      errors |-> Cardinality(errors),
      pending |-> Owed(pays, live),
      status |-> IF With("processing") # {} THEN "processando"
                 ELSE IF waiting # {} THEN "aguardando"
                 ELSE IF errors # {} THEN "concluido_com_erros" ELSE rest]

Confirmed(pays) == {i \in Installments : pays[i] \in Terminal}
LinkPays(rows) == [i \in Installments |-> rows[i].pay]

\* recalculate_batch_totals: money comes from the canonical rows.
CountCanonical(rows, pays) ==
  LET live == {i \in Installments : rows[i].st # "removed"}
      finished == live # {} /\ \A i \in live : rows[i].st = "completed"
  IN Counters(rows, pays, Confirmed(pays), IF finished THEN "concluido" ELSE "aguardando")

\* recalculateBatch of the worker: everything comes from the links.
CountLinks(rows) == Counters(rows, LinkPays(rows), Confirmed(LinkPays(rows)), "concluido")

\* DELETE associados/[id]: a confirmed installment is not told apart.
CountRemaining(rows) == Counters(rows, LinkPays(rows), {}, "concluido")

Of(b) == [i \in Installments |-> links[i, b]]

-----------------------------------------------------------------------------
(* What the open transactions have done *)

Init ==
  /\ links = [l \in Installments \X WorkBatches |-> [st |-> "waiting", pay |-> "none"]]
  /\ canonical = [i \in Installments |-> "none"]
  /\ totals = [b \in WorkBatches |-> CountCanonical(Of(b), canonical)]
  /\ tx = [w \in Loops |-> IdleTx]
  /\ cycle = IdleCycle /\ removal = IdleRemoval
  /\ cycles = 0 /\ requests = 0

Open == {w \in Loops : tx[w].pc # "idle"}

\* The links an open transaction has changed stay locked until it ends.
Locked(l) ==
  \/ \E w \in Open : tx[w].link[1] = l[1] /\ (tx[w].link = l \/ links[l].st # "processing")
  \/ removal.pc # "idle" /\ removal.link = l

\* Mutant of Synced: a link that has its answer is left alone.
SyncedOnce(rec, pay) ==
  IF rec.st = "completed" THEN rec
  ELSE [st |-> IF pay \in Terminal THEN "completed" ELSE rec.st, pay |-> pay]

\* sync_target_installment_links_v1, one link
Synced(rec, pay) ==
  [st |-> IF pay \in Terminal THEN "completed"
          ELSE IF rec.pay \in Terminal THEN "waiting" ELSE rec.st,
   pay |-> pay]

\* The links as loop w sees them: its result and the links it has synchronized.
Seen(w) ==
  [l \in DOMAIN links |->
     IF l = tx[w].link THEN [st |-> "completed", pay |-> tx[w].answer]
     ELSE IF l[1] = tx[w].link[1] /\ links[l].st \notin {"processing", "removed"}
     THEN Synced(links[l], tx[w].answer) ELSE links[l]]
SeenPays(w) == [canonical EXCEPT ![tx[w].link[1]] = tx[w].answer]

\* The row of the batch is free for a transaction other than w.
RowFree(b, w) == \A v \in Open \ {w} : b \notin tx[v].written

-----------------------------------------------------------------------------
(* Persistence loops *)

Mine(w, l) ==
  /\ tx[w].pc = "idle" /\ cycle.pc = "persisting" /\ l[2] = cycle.batch
  /\ links[l].st = "processing"
  /\ \A v \in Open : tx[v].link # l

\* persistSuccess up to the cursor of sync_target_installment_links_v1
Answered(w, l) ==
  /\ Mine(w, l)
  /\ \E a \in AnswersOf[l[1]] :
       /\ canonical[l[1]] \in Terminal => a = canonical[l[1]]
       /\ tx' = [tx EXCEPT ![w] =
            [IdleTx EXCEPT !.pc = "next", !.link = l, !.answer = a,
               !.todo = SelectSeq(Order, LAMBDA b : links[l[1], b].st # "removed")]]
  /\ UNCHANGED <<links, canonical, totals, cycle, removal, cycles, requests>>

\* persistFailure counts nothing.
Failed(w, l) ==
  /\ Mine(w, l)
  /\ \E st \in {"error", "waiting"} :
       links' = [links EXCEPT ![l].st =
                   IF st = "error" /\ links[l].pay \in Terminal THEN "completed" ELSE st]
  /\ UNCHANGED <<canonical, totals, tx, cycle, removal, cycles, requests>>

\* One statement of recalculate_batch_totals: it counts ...
CountBatch(w) ==
  /\ tx[w].pc = "next" /\ tx[w].todo # <<>>
  /\ LET b == Head(tx[w].todo)
     IN tx' = [tx EXCEPT ![w].pc = "counted",
          ![w].counted = CountCanonical([i \in Installments |-> Seen(w)[i, b]], SeenPays(w))]
  /\ UNCHANGED <<links, canonical, totals, cycle, removal, cycles, requests>>

\* ... and writes when the row is free; nobody else writes it before the
\* commit, so that it is as good as written.
WriteBatch(w) ==
  /\ tx[w].pc = "counted" /\ RowFree(Head(tx[w].todo), w)
  /\ tx' = [tx EXCEPT ![w].pc = "next", ![w].todo = Tail(@),
                      ![w].written = @ \cup {Head(tx[w].todo)}]
  /\ totals' = [totals EXCEPT ![Head(tx[w].todo)] = tx[w].counted]
  /\ UNCHANGED <<links, canonical, cycle, removal, cycles, requests>>

Commit(w) ==
  /\ tx[w].pc = "next" /\ tx[w].todo = <<>>
  /\ links' = Seen(w) /\ canonical' = SeenPays(w)
  /\ tx' = [tx EXCEPT ![w] = IdleTx]
  /\ UNCHANGED <<totals, cycle, removal, cycles, requests>>

-----------------------------------------------------------------------------
(* The cycle *)

Claimable(b) == {i \in Installments : links[i, b].st = "waiting" /\ ~Locked(<<i, b>>)}

StartCycle(b) ==
  /\ cycle.pc = "idle" /\ Claimable(b) # {}
  /\ cycles < MaxCycles /\ cycles' = cycles + 1
  /\ cycle' = [IdleCycle EXCEPT !.pc = "persisting", !.batch = b]
  /\ links' = [l \in DOMAIN links |->
       IF l[2] = b /\ l[1] \in Claimable(b) THEN [links[l] EXCEPT !.st = "processing"]
       ELSE links[l]]
  /\ UNCHANGED <<canonical, totals, tx, removal, requests>>

\* Mutant: the cycle counts without waiting for its loops.
DrainedOrNot == TRUE

\* Both pools have ended: every claimed link has its result.
Drained == \A i \in Installments : links[i, cycle.batch].st # "processing"

\* recalculateBatch, one statement and a transaction of its own
CountCycle ==
  /\ cycle.pc = "persisting" /\ Drained
  /\ cycle' = [cycle EXCEPT !.pc = "counted", !.counted = CountLinks(Of(cycle.batch)),
                            !.alone = TRUE]
  /\ UNCHANGED <<links, canonical, totals, tx, removal, cycles, requests>>

EndCycle ==
  /\ cycle.pc = "counted" /\ RowFree(cycle.batch, "cycle")
  /\ totals' = [totals EXCEPT ![cycle.batch] = cycle.counted]
  /\ cycle' = IdleCycle
  /\ UNCHANGED <<links, canonical, tx, removal, cycles, requests>>

-----------------------------------------------------------------------------
(* Operators *)

Disturbs(b) == cycle' = IF cycle.batch = b THEN [cycle EXCEPT !.alone = FALSE] ELSE cycle

\* DELETE associados/[id] of a link whose installment was not found
RemoveLink(l) ==
  /\ removal.pc = "idle" /\ links[l].st = "error" /\ ~Locked(l)
  /\ requests < MaxRequests /\ requests' = requests + 1
  /\ removal' = [IdleRemoval EXCEPT !.pc = "removed", !.link = l]
  /\ UNCHANGED <<links, canonical, totals, tx, cycle, cycles>>

CountRemoval ==
  /\ removal.pc = "removed"
  /\ removal' = [removal EXCEPT !.pc = "counted",
       !.counted = CountRemaining([Of(removal.link[2]) EXCEPT ![removal.link[1]].st = "removed"])]
  /\ UNCHANGED <<links, canonical, totals, tx, cycle, cycles, requests>>

EndRemoval ==
  /\ removal.pc = "counted" /\ RowFree(removal.link[2], "removal")
  /\ links' = [links EXCEPT ![removal.link].st = "removed"]
  /\ totals' = [totals EXCEPT ![removal.link[2]] = removal.counted]
  /\ Disturbs(removal.link[2])
  /\ removal' = IdleRemoval
  /\ UNCHANGED <<canonical, tx, cycles, requests>>

\* A request to consult an open installment again counts nothing.
ReopenLink(l) ==
  /\ links[l].st \in {"completed", "error"} /\ links[l].pay \notin Terminal /\ ~Locked(l)
  /\ requests < MaxRequests /\ requests' = requests + 1
  /\ links' = [links EXCEPT ![l].st = "waiting"]
  /\ Disturbs(l[2])
  /\ UNCHANGED <<canonical, totals, tx, removal, cycles>>

-----------------------------------------------------------------------------
Loop(w) ==
  \/ \E l \in DOMAIN links : Answered(w, l) \/ Failed(w, l)
  \/ CountBatch(w) \/ WriteBatch(w) \/ Commit(w)

Next ==
  \/ \E w \in Loops : Loop(w)
  \/ \E b \in WorkBatches : StartCycle(b)
  \/ CountCycle \/ EndCycle
  \/ \E l \in DOMAIN links : RemoveLink(l) \/ ReopenLink(l)
  \/ CountRemoval \/ EndRemoval

Spec == Init /\ [][Next]_vars

-----------------------------------------------------------------------------
(* Properties *)

AtRest == Open = {} /\ cycle = IdleCycle /\ removal = IdleRemoval

\* The count at the end of a cycle makes good what the loops have left in the
\* row of the batch, whoever waited for it (local-processing-worker.ts:1001),
\* unless an operator changes a link between the count and the write.
OwnTotalsAreTrue ==
  [][EndCycle /\ cycle.alone =>
       totals'[cycle.batch] = CountLinks([i \in Installments |-> links'[i, cycle.batch]])]_vars

\* "dinheiro vem da parcela canonica" (023:301), when nobody is at work.
MoneyIsCanonical ==
  AtRest => \A b \in WorkBatches :
    totals[b].pending = Owed(canonical, {i \in Installments : links[i, b].st # "removed"})
=============================================================================
