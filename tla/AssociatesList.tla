---------------------------- MODULE AssociatesList ----------------------------
(***************************************************************************)
(* The list of associates (associados-card-list.tsx) in one tab: its pager,*)
(* the selection, the two bulk operations on it, and the routes they call, *)
(* while the worker and other operators change the links.  The items of    *)
(* FilteredList are links; a kind is the batch and the status of a link.   *)
(*                                                                         *)
(*   selected   selectedIds                                                *)
(*   calls      the request of each button                                 *)
(*   snapshot   the items of filtered_error_reprocess_items that are open  *)
(*                                                                         *)
(* ProcessingQueue has what a job does; here a pending link is completed   *)
(* or fails.  Links without a target installment, deleted links, the lock  *)
(* of the automatic synchronization and the notices are left out.          *)
(***************************************************************************)
EXTENDS FilteredList

CONSTANTS
  BatchOfLink,   \* the batch of a link never changes
  MaxOthers,     \* bound: errors that another operator sends to be reprocessed
  MaxCalls       \* bound: requests of the buttons under way at the same time

ASSUME AssociatesAssumption == MaxOthers \in Nat /\ MaxCalls \in Nat

VARIABLES selected, calls, snapshot, others

vars == <<table, screen, requests, selected, calls, snapshot, others>>

Statuses == {"pending", "completed", "error"}
Kind(batch, status) == [batch |-> batch, status |-> status]

Quiet == [st |-> "idle", filter |-> {}, ids |-> {}]
Buttons == {"select", "selected", "errors"}

Init ==
  /\ table \in [Items -> Kinds]
  /\ \A i \in Items : table[i].batch = BatchOfLink[i]
  /\ \E filter \in Filters : ListInit(filter)
  /\ selected = {}
  /\ calls = [b \in Buttons |-> Quiet]
  /\ snapshot = {}
  /\ others = 0

SetStatus(ids, status) ==
  table' = [i \in Items |-> IF i \in ids THEN Kind(table[i].batch, status) ELSE table[i]]

Call(b, st, filter, ids) == calls' = [calls EXCEPT ![b] = [st |-> st, filter |-> filter, ids |-> ids]]
Callable(b) ==
  calls[b].st = "idle" /\ Cardinality({c \in Buttons : calls[c].st # "idle"}) < MaxCalls
Return(b) == calls' = [calls EXCEPT ![b] = Quiet]

-----------------------------------------------------------------------------
(* The worker and other operators *)

\* The triggers of migration 014 close the item of the snapshot with its link.
WorkerEnds ==
  /\ \E i \in Items, status \in {"completed", "error"} :
       /\ table[i].status = "pending"
       /\ SetStatus({i}, status)
       /\ snapshot' = snapshot \ {i}
  /\ UNCHANGED <<screen, requests, selected, calls, others>>

OthersReprocess ==
  /\ others < MaxOthers
  /\ others' = others + 1
  /\ \E i \in Items : table[i].status = "error" /\ SetStatus({i}, "pending")
  /\ UNCHANGED <<screen, requests, selected, calls, snapshot>>

-----------------------------------------------------------------------------
(* Filters and pager *)

Untouched == UNCHANGED <<table, calls, snapshot, others>>

\* The effect forgets the selection when the filters are not the previous ones.
ChangeFilter ==
  /\ \E filter \in Filters :
       /\ filter # screen.filter
       /\ Reload(filter, 1)
  /\ selected' = {}
  /\ Untouched

ClearAllFilters ==
  /\ Choose(Kinds, 1)
  /\ selected' = {}
  /\ Untouched

\* The four buttons are not disabled alike.
First == Ready /\ CurrentPage # 1 /\ Choose(screen.filter, 1)
Previous == CurrentPage # 1 /\ Choose(screen.filter, screen.page - 1)
Following ==
  /\ Ready /\ CurrentPage # PageCount
  /\ Choose(screen.filter, IF screen.page < PageCount THEN screen.page + 1 ELSE PageCount)
Last == CurrentPage # PageCount /\ Choose(screen.filter, PageCount)

Pager ==
  /\ First \/ Previous \/ Following \/ Last
  /\ Untouched /\ UNCHANGED selected

List ==
  /\ Refresh \/ Answer
  /\ Untouched /\ UNCHANGED selected

-----------------------------------------------------------------------------
(* The selection *)

ToggleSelected ==
  /\ \E i \in ListedRows :
       selected' = IF i \in selected THEN selected \ {i} ELSE selected \cup {i}
  /\ UNCHANGED <<screen, requests>> /\ Untouched

\* toggleAllFiltered: as many selected as found means all selected.
ToggleAllFiltered ==
  /\ Ready /\ calls["select"].st = "idle" /\ screen.shown.count > 0
  /\ IF Cardinality(selected) = screen.shown.count
     THEN selected' = {} /\ UNCHANGED calls
     ELSE Callable("select") /\ Call("select", "asked", screen.filter, {}) /\ UNCHANGED selected
  /\ UNCHANGED <<table, screen, requests, snapshot, others>>

\* ids-filtrados, for the selection or for the errors.
FilteredIds ==
  /\ \E b \in {"select", "errors"} :
       /\ calls[b].st = "asked"
       /\ Call(b, "listed", calls[b].filter, Filtered(calls[b].filter))
  /\ UNCHANGED <<table, screen, requests, selected, snapshot, others>>

\* The selection is what the answer says, whatever the screen shows by then.
AllArrive ==
  /\ calls["select"].st = "listed"
  /\ selected' = calls["select"].ids
  /\ Return("select")
  /\ UNCHANGED <<table, screen, requests, snapshot, others>>

-----------------------------------------------------------------------------
(* Reprocessing *)

ReprocessSelected ==
  /\ Ready /\ Callable("selected") /\ selected # {}
  /\ Call("selected", "asked", {}, selected)
  /\ UNCHANGED <<table, screen, requests, selected, snapshot, others>>

\* reprocessar-selecionados: every link that is selected is queued again.
QueueSelected ==
  /\ calls["selected"].st = "asked"
  /\ SetStatus(calls["selected"].ids, "pending")
  /\ Call("selected", "queued", {}, calls["selected"].ids)
  /\ UNCHANGED <<screen, requests, selected, snapshot, others>>

\* The router.refresh of an answer is a Refresh, some time later.
SelectedArrives ==
  /\ calls["selected"].st = "queued"
  /\ selected' = {}
  /\ Return("selected")
  /\ UNCHANGED <<table, screen, requests, snapshot, others>>

ErrorsOnly == \A kind \in screen.filter : kind.status = "error"

\* The identifiers are asked for first, then sent to be reprocessed.
ReprocessFilteredErrors ==
  /\ Ready /\ Callable("errors")
  /\ ErrorsOnly /\ screen.shown.count > 0
  /\ Call("errors", "asked", screen.filter, {})
  /\ UNCHANGED <<table, screen, requests, selected, snapshot, others>>

SendErrors ==
  /\ calls["errors"].st = "listed"
  /\ IF calls["errors"].ids = {} THEN Return("errors")
     ELSE Call("errors", "sent", {}, calls["errors"].ids)
  /\ UNCHANGED <<table, screen, requests, selected, snapshot, others>>

\* Mutant: the identifiers are trusted.
EligibleAsListed(ids) == ids

Eligible(ids) == {i \in ids : table[i].status = "error"}

\* reprocessar-erros-filtrados: one transaction, a snapshot of what is eligible.
QueueErrors ==
  /\ calls["errors"].st = "sent"
  /\ LET eligible == Eligible(calls["errors"].ids)
     IN IF eligible = {}
        THEN Return("errors") /\ UNCHANGED <<table, snapshot>>
        ELSE /\ SetStatus(eligible, "pending")
             /\ snapshot' = snapshot \cup eligible
             /\ Call("errors", "queued", {}, eligible)
  /\ UNCHANGED <<screen, requests, selected, others>>

\* The progress of the snapshot is shown until none of its items is open.
ProgressArrives ==
  /\ calls["errors"].st = "queued"
  /\ calls["errors"].ids \cap snapshot = {}
  /\ Return("errors")
  /\ UNCHANGED <<table, screen, requests, selected, snapshot, others>>

\* An answer that fails, or is lost after the route has done its work.
CallFails ==
  /\ \E b \in Buttons : calls[b].st # "idle" /\ Return(b)
  /\ UNCHANGED <<table, screen, requests, selected, snapshot, others>>

-----------------------------------------------------------------------------
Next ==
  \/ WorkerEnds \/ OthersReprocess
  \/ ChangeFilter \/ ClearAllFilters \/ Pager \/ List
  \/ ToggleSelected \/ ToggleAllFiltered \/ FilteredIds \/ AllArrive
  \/ ReprocessSelected \/ QueueSelected \/ SelectedArrives
  \/ ReprocessFilteredErrors \/ SendErrors \/ QueueErrors \/ ProgressArrives
  \/ CallFails

Spec == Init /\ [][Next]_vars

-----------------------------------------------------------------------------
(* Properties *)

\* The list is read, its identifiers are read again and sent back, and by then
\* another operator and the worker may have settled them: a completed link is
\* queued again only when the operator has selected it.
CompletedStays ==
  [][\A i \in Items :
       table[i].status = "completed" /\ table'[i].status # "completed"
         => i \in calls["selected"].ids]_vars

\* "Selecionar todos filtrados": what is selected passes the filters of the
\* screen, but for what has happened to the links since.
SelectionFollowsFilters ==
  selected \subseteq {i \in Items : \E kind \in screen.filter : kind.batch = BatchOfLink[i]}
=============================================================================
