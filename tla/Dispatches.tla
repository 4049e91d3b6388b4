------------------------------ MODULE Dispatches ------------------------------
(***************************************************************************)
(* The registration of dispatches: operators choose installments on the    *)
(* screen (dispatches-dashboard.tsx), a transaction writes an operation    *)
(* and an event for each installment (dispatches.ts), and an operation may *)
(* be reverted.  Requests may be lost, delivered twice, and transactions   *)
(* overlap: PostgreSQL reads what is committed (READ COMMITTED).           *)
(*                                                                         *)
(*   settled      installments that are paid, agreed or excluded           *)
(*   operations   dispatch_operations with their events, once committed    *)
(*   tabs         one screen each: choice, the key of its request, and the *)
(*                key of the first confirmation of this choice (history)   *)
(*   deliveries   a request at the server, one for each time it arrives    *)
(*   answers      answers on their way to a tab                            *)
(*                                                                         *)
(* crypto.randomUUID is a counter.  Dates, amounts, the history and the    *)
(* filters but the number of dispatches are left out; FilteredList has the *)
(* list of the screen.                                                     *)
(***************************************************************************)
EXTENDS Naturals, FiniteSets

CONSTANTS
  Installments, Tabs,
  MaxKeys,      \* bound: times an operator confirms a registration
  MaxRepeats,   \* bound: requests that the network delivers again
  MaxReverts    \* bound: operations that are reverted

VARIABLES settled, operations, tabs, deliveries, answers, keys, repeats, reverts

vars == <<settled, operations, tabs, deliveries, answers, keys, repeats, reverts>>

Screen == [chosen |-> {}, never |-> FALSE, key |-> 0, first |-> 0]

Init ==
  /\ settled \in SUBSET Installments
  /\ operations = {}
  /\ tabs = [t \in Tabs |-> Screen]
  /\ deliveries = {}
  /\ answers = {}
  /\ keys = 0 /\ repeats = 0 /\ reverts = 0

-----------------------------------------------------------------------------
(* The screen *)

Busy(t) == tabs[t].key # 0

Choice(t, chosen, never) ==
  tabs' = [tabs EXCEPT ![t].chosen = chosen, ![t].never = never, ![t].first = 0]

\* toggleRow, togglePage: rows the tab shows as eligible, settled since or not.
Toggle(t) ==
  /\ \E i \in Installments :
       Choice(t, IF i \in tabs[t].chosen THEN tabs[t].chosen \ {i} ELSE tabs[t].chosen \cup {i},
              tabs[t].never)
  /\ UNCHANGED <<settled, operations, deliveries, answers, keys, repeats, reverts>>

\* The filter "never dispatched" on and off: resetPage empties the selection.
Filter(t) ==
  /\ Choice(t, {}, ~tabs[t].never)
  /\ UNCHANGED <<settled, operations, deliveries, answers, keys, repeats, reverts>>

\* registerDispatches: the rows that are selected, or all that the filters let
\* through (no targets).  Each confirmation has a key of its own; the network
\* may deliver its request twice, which request_key is for.
Register(t) ==
  /\ ~Busy(t) /\ keys < MaxKeys
  /\ keys' = keys + 1
  /\ LET first == IF tabs[t].first = 0 THEN keys' ELSE tabs[t].first
     IN /\ tabs' = [tabs EXCEPT ![t].key = keys', ![t].first = first]
        /\ \E targets \in {{}, tabs[t].chosen}, copies \in 1 .. 1 + MaxRepeats - repeats :
             /\ repeats' = repeats + copies - 1
             /\ deliveries' = deliveries \cup
                  {[key |-> keys', copy |-> n, first |-> first, targets |-> targets,
                    never |-> tabs[t].never, st |-> "new", items |-> {}] : n \in 1 .. copies}
  /\ UNCHANGED <<settled, operations, answers, reverts>>

\* A success empties the selection, an error keeps it.
Arrives(t) ==
  /\ \E a \in answers :
       /\ a.key = tabs[t].key
       /\ tabs' = [tabs EXCEPT ![t].key = 0,
                     ![t].chosen = IF a.done THEN {} ELSE tabs[t].chosen,
                     ![t].first = IF a.done THEN 0 ELSE tabs[t].first]
       /\ answers' = answers \ {a}
  /\ UNCHANGED <<settled, operations, deliveries, keys, repeats, reverts>>

\* "Falha de comunicação ao registrar os disparos."
Lost(t) ==
  /\ Busy(t)
  /\ tabs' = [tabs EXCEPT ![t].key = 0]
  /\ answers' = {a \in answers : a.key # tabs[t].key}
  /\ UNCHANGED <<settled, operations, deliveries, keys, repeats, reverts>>

-----------------------------------------------------------------------------
(* createDispatchOperation *)

Committed(key) == {o \in operations : o.key = key}
Counted(i) == {o \in operations : o.status = "completed" /\ i \in o.items}

\* The scope of the filters, of the chosen rows, of what is owed.
Eligible(d) ==
  {i \in Installments \ settled :
     /\ d.targets # {} => i \in d.targets
     /\ d.never => Counted(i) = {}}

Step(d, new) == deliveries' = (deliveries \ {d}) \cup {new}
End(d) == deliveries' = deliveries \ {d}
Answer(d, done) ==
  answers' = IF \E t \in Tabs : tabs[t].key = d.key
             THEN answers \cup {[key |-> d.key, done |-> done]} ELSE answers

\* The key is looked for: an operation that has it is the answer.
LookUp(d) ==
  /\ d.st = "new"
  /\ IF Committed(d.key) # {}
     THEN End(d) /\ Answer(d, TRUE)
     ELSE Step(d, [d EXCEPT !.st = "absent"]) /\ UNCHANGED answers
  /\ UNCHANGED <<settled, operations, tabs, keys, repeats, reverts>>

\* Mutant: a request_key without its unique index.
NoIndex(d) == {}

\* The unique index: an insert waits for the open transaction that has the key
\* and fails once it is committed.
Conflicts(d) == {e \in deliveries \ {d} : e.key = d.key /\ e.st = "open"} \cup Committed(d.key)

\* The operation and its events; without an event all is rolled back.
Insert(d) ==
  /\ d.st = "absent"
  /\ Conflicts(d) \subseteq Committed(d.key)
  /\ LET items == Eligible(d)
     IN IF Conflicts(d) # {} \/ items = {}
        THEN End(d) /\ Answer(d, FALSE)
        ELSE Step(d, [d EXCEPT !.st = "open", !.items = items]) /\ UNCHANGED answers
  /\ UNCHANGED <<settled, operations, tabs, keys, repeats, reverts>>

Commit(d) ==
  /\ d.st = "open"
  /\ End(d) /\ Answer(d, TRUE)
  /\ operations' = operations \cup
       {[key |-> d.key, copy |-> d.copy, first |-> d.first, items |-> d.items,
         status |-> "completed"]}
  /\ UNCHANGED <<settled, tabs, keys, repeats, reverts>>

\* A connection that ends rolls the transaction back.
Abort(d) ==
  /\ End(d)
  /\ UNCHANGED <<settled, operations, tabs, answers, keys, repeats, reverts>>

\* revertDispatchOperation, from the history of any tab.
Revert ==
  /\ reverts < MaxReverts
  /\ reverts' = reverts + 1
  /\ \E o \in operations :
       /\ o.status = "completed"
       /\ operations' = (operations \ {o}) \cup {[o EXCEPT !.status = "reverted"]}
  /\ UNCHANGED <<settled, tabs, deliveries, answers, keys, repeats>>

\* The worker observes that an installment is settled.
Settle ==
  /\ \E i \in Installments \ settled : settled' = settled \cup {i}
  /\ UNCHANGED <<operations, tabs, deliveries, answers, keys, repeats, reverts>>

-----------------------------------------------------------------------------
Next ==
  \/ \E t \in Tabs : Toggle(t) \/ Filter(t) \/ Register(t) \/ Arrives(t) \/ Lost(t)
  \/ \E d \in deliveries : LookUp(d) \/ Insert(d) \/ Commit(d) \/ Abort(d)
  \/ Revert \/ Settle

Spec == Init /\ [][Next]_vars

-----------------------------------------------------------------------------
(* Properties *)

\* A request that is delivered twice is one operation, also when the two
\* transactions overlap and neither finds the other.
OneOperationPerRequest ==
  \A o, p \in operations : o.key = p.key => o = p

\* An operator who confirms again after a communication failure has one
\* operation that counts ("request_key uuid not null unique").
RetriesCountOnce ==
  \A o, p \in operations :
    o.first = p.first /\ o.status = "completed" /\ p.status = "completed" => o = p
=============================================================================
