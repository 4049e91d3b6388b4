--------------------------- MODULE MCOperatorsProofs ---------------------------
(***************************************************************************)
(* Proofs about the parts of MCOperators, each for any number of           *)
(* operators, tabs, rows and requests.                                     *)
(***************************************************************************)
EXTENDS MCOperators, TLAPS

-----------------------------------------------------------------------------
(* Dispatches *)

TabType == [chosen : SUBSET Installments, never : BOOLEAN, key : Nat, first : Nat]

RequestType ==
  [key : Nat, copy : Nat, first : Nat, targets : SUBSET Installments, never : BOOLEAN,
   st : {"new", "absent", "open"}, items : SUBSET Installments]

OperationType ==
  [key : Nat, copy : Nat, first : Nat, items : SUBSET Installments,
   status : {"completed", "reverted"}]

DispatchTypeOK ==
  /\ keys \in Nat /\ repeats \in Nat
  /\ tabs \in [Tabs -> TabType]
  /\ deliveries \subseteq RequestType
  /\ operations \subseteq OperationType

\* The open transactions have different keys, and keys nobody has committed.
OpenAlone ==
  \A d \in deliveries : d.st = "open" =>
    /\ \A e \in deliveries : e.st = "open" /\ e.key = d.key => e = d
    /\ \A o \in operations : o.key # d.key

DispatchInv == DispatchTypeOK /\ OpenAlone /\ OneOperationPerRequest

\* Only one tab changes.
LEMMA TabsTyped ==
  ASSUME tabs \in [Tabs -> TabType], NEW t \in Tabs, NEW new \in TabType,
         tabs' = [tabs EXCEPT ![t] = new]
  PROVE  tabs' \in [Tabs -> TabType]
OBVIOUS

LEMMA DispatchInit == Dispatch!Init => DispatchInv
BY DEF Dispatch!Init, DispatchInv, DispatchTypeOK, OpenAlone, OneOperationPerRequest,
       Dispatch!OneOperationPerRequest, Dispatch!Screen, TabType

\* What the operators do and what the network loses or repeats.
LEMMA ScreenOK ==
  ASSUME DispatchInv, NEW t \in Tabs,
         \/ Dispatch!Toggle(t) \/ Dispatch!Filter(t) \/ Dispatch!Register(t)
         \/ Dispatch!Arrives(t) \/ Dispatch!Lost(t)
  PROVE  DispatchInv'
<1> USE DEF DispatchInv, DispatchTypeOK, OpenAlone, OneOperationPerRequest,
            Dispatch!OneOperationPerRequest
<1>0. /\ tabs[t] \in TabType /\ tabs[t].chosen \subseteq Installments
      /\ tabs[t].never \in BOOLEAN /\ tabs[t].key \in Nat /\ tabs[t].first \in Nat
  BY DEF TabType
<1>1. CASE Dispatch!Toggle(t)
  <2>1. \A i \in Installments : tabs[t].chosen \ {i} \subseteq Installments
                                /\ tabs[t].chosen \cup {i} \subseteq Installments
    BY <1>0
  <2>2. PICK chosen \in SUBSET Installments : Dispatch!Choice(t, chosen, tabs[t].never)
    BY <1>1, <2>1 DEF Dispatch!Toggle
  <2>3. tabs' \in [Tabs -> TabType]
    <3>1. [tabs[t] EXCEPT !.chosen = chosen, !.never = tabs[t].never, !.first = 0] \in TabType
      BY DEF TabType
    <3>2. tabs' = [tabs EXCEPT ![t] = [tabs[t] EXCEPT !.chosen = chosen, !.never = tabs[t].never,
                                                      !.first = 0]]
      BY <2>2 DEF Dispatch!Choice
    <3> QED BY <3>1, <3>2, TabsTyped
  <2> QED BY <1>1, <2>3 DEF Dispatch!Toggle
<1>2. CASE Dispatch!Filter(t)
  <2>1. tabs' = [tabs EXCEPT ![t] = [tabs[t] EXCEPT !.chosen = {}, !.never = ~tabs[t].never,
                                                    !.first = 0]]
    BY <1>2 DEF Dispatch!Filter, Dispatch!Choice
  <2>2. [tabs[t] EXCEPT !.chosen = {}, !.never = ~tabs[t].never, !.first = 0] \in TabType
    BY DEF TabType
  <2> QED BY <1>2, <2>1, <2>2, TabsTyped DEF Dispatch!Filter
<1>3. CASE Dispatch!Register(t)
  <2>1. PICK targets \in {{}, tabs[t].chosen}, copies \in 1 .. 1 + MaxRepeats - repeats :
          /\ repeats' = repeats + copies - 1
          /\ deliveries' = deliveries \cup
               {[key |-> keys', copy |-> n,
                 first |-> IF tabs[t].first = 0 THEN keys' ELSE tabs[t].first, targets |-> targets,
                 never |-> tabs[t].never, st |-> "new", items |-> {}] : n \in 1 .. copies}
    BY <1>3 DEF Dispatch!Register
  <2>2. keys' \in Nat /\ tabs' \in [Tabs -> TabType]
    <3> DEFINE first == IF tabs[t].first = 0 THEN keys' ELSE tabs[t].first
    <3>1. keys' = keys + 1 /\ tabs' = [tabs EXCEPT ![t].key = keys', ![t].first = first]
      BY <1>3 DEF Dispatch!Register
    <3>2. keys' \in Nat /\ first \in Nat
      BY <1>0, <3>1
    <3> HIDE DEF first
    <3>3. tabs' = [tabs EXCEPT ![t] = [tabs[t] EXCEPT !.key = keys', !.first = first]]
      BY <3>1
    <3>4. [tabs[t] EXCEPT !.key = keys', !.first = first] \in TabType
      BY <1>0, <3>2 DEF TabType
    <3> QED BY <3>2, <3>3, <3>4, TabsTyped
  <2>3. repeats' \in Nat
    <3>1. MaxRepeats \in Nat
      BY OperatorsAssumption DEF OperatorsAssumption
    <3> QED BY <2>1, <3>1
  <2>4. \A d \in deliveries' : d \in deliveries \/ (d \in RequestType /\ d.st = "new")
    <3> DEFINE first == IF tabs[t].first = 0 THEN keys' ELSE tabs[t].first
    <3>1. first \in Nat /\ targets \subseteq Installments
      BY <1>0, <2>2
    <3> HIDE DEF first
    <3>2. \A n \in 1 .. copies :
            [key |-> keys', copy |-> n, first |-> first, targets |-> targets,
             never |-> tabs[t].never, st |-> "new", items |-> {}] \in RequestType
      BY <1>0, <2>2, <3>1 DEF RequestType
    <3> QED BY <2>1, <3>2 DEF first
  <2>5. UNCHANGED operations /\ deliveries \subseteq deliveries'
    BY <1>3, <2>1 DEF Dispatch!Register
  <2> QED BY <2>2, <2>3, <2>4, <2>5
<1>4. CASE Dispatch!Arrives(t)
  <2>1. PICK a \in answers :
          tabs' = [tabs EXCEPT ![t].key = 0,
                     ![t].chosen = IF a.done THEN {} ELSE tabs[t].chosen,
                     ![t].first = IF a.done THEN 0 ELSE tabs[t].first]
    BY <1>4 DEF Dispatch!Arrives
  <2>2. tabs' \in [Tabs -> TabType]
    <3> DEFINE new == [tabs[t] EXCEPT !.key = 0,
                         !.chosen = IF a.done THEN {} ELSE tabs[t].chosen,
                         !.first = IF a.done THEN 0 ELSE tabs[t].first]
    <3>1. tabs' = [tabs EXCEPT ![t] = new]
      BY <2>1
    <3>2. new \in TabType
      BY DEF TabType
    <3> QED BY <3>1, <3>2, TabsTyped
  <2> QED BY <1>4, <2>2 DEF Dispatch!Arrives
<1>5. CASE Dispatch!Lost(t)
  <2>1. tabs' = [tabs EXCEPT ![t] = [tabs[t] EXCEPT !.key = 0]]
    BY <1>5 DEF Dispatch!Lost
  <2>2. [tabs[t] EXCEPT !.key = 0] \in TabType
    BY DEF TabType
  <2> QED BY <1>5, <2>1, <2>2, TabsTyped DEF Dispatch!Lost
<1> QED BY <1>1, <1>2, <1>3, <1>4, <1>5

\* The transaction: the unique index is what keeps the keys of open ones apart.
LEMMA TransactionOK ==
  ASSUME DispatchInv, NEW d \in deliveries,
         Dispatch!LookUp(d) \/ Dispatch!Insert(d) \/ Dispatch!Commit(d) \/ Dispatch!Abort(d)
  PROVE  DispatchInv'
<1> USE DEF DispatchInv, DispatchTypeOK, OpenAlone, OneOperationPerRequest,
            Dispatch!OneOperationPerRequest, Dispatch!Step, Dispatch!End
<1>1. CASE Dispatch!LookUp(d)
  <2>1. deliveries' \subseteq deliveries \cup {[d EXCEPT !.st = "absent"]}
    BY <1>1 DEF Dispatch!LookUp
  <2>2. UNCHANGED <<keys, repeats, tabs, operations>>
    BY <1>1 DEF Dispatch!LookUp
  <2>3. [d EXCEPT !.st = "absent"] \in RequestType /\ [d EXCEPT !.st = "absent"].st # "open"
    BY DEF RequestType
  <2> QED BY <2>1, <2>2, <2>3
<1>2. CASE Dispatch!Insert(d)
  <2> DEFINE items == Dispatch!Eligible(d)
             new == [d EXCEPT !.st = "open", !.items = items]
  <2>1. UNCHANGED <<keys, repeats, tabs, operations>>
    BY <1>2 DEF Dispatch!Insert
  <2>2. CASE deliveries' = deliveries \ {d}
    BY <2>1, <2>2
  <2>3. CASE Dispatch!Conflicts(d) = {} /\ deliveries' = (deliveries \ {d}) \cup {new}
    <3>1. \A e \in deliveries \ {d} : ~(e.key = d.key /\ e.st = "open")
      BY <2>3 DEF Dispatch!Conflicts
    <3>2. \A o \in operations : o.key # d.key
      BY <2>3 DEF Dispatch!Conflicts, Dispatch!Committed
    <3>3. new \in RequestType /\ new.key = d.key
      <4>1. items \subseteq Installments
        BY DEF Dispatch!Eligible
      <4> QED BY <4>1 DEF RequestType
    <3> QED BY <2>1, <2>3, <3>1, <3>2, <3>3
  <2> QED BY <1>2, <2>2, <2>3 DEF Dispatch!Insert
<1>3. CASE Dispatch!Commit(d)
  <2> DEFINE op == [key |-> d.key, copy |-> d.copy, first |-> d.first, items |-> d.items,
                    status |-> "completed"]
  <2>1. d.st = "open" /\ operations' = operations \cup {op} /\ deliveries' = deliveries \ {d}
    BY <1>3 DEF Dispatch!Commit
  <2>2. UNCHANGED <<keys, repeats, tabs>>
    BY <1>3 DEF Dispatch!Commit
  <2>3. op \in OperationType /\ op.key = d.key
    BY DEF RequestType, OperationType
  <2> QED BY <2>1, <2>2, <2>3
<1>4. CASE Dispatch!Abort(d)
  BY <1>4 DEF Dispatch!Abort
<1> QED BY <1>1, <1>2, <1>3, <1>4

LEMMA DispatchStep == DispatchInv /\ [Dispatch!Next]_dispatchVars => DispatchInv'
<1> SUFFICES ASSUME DispatchInv, [Dispatch!Next]_dispatchVars PROVE DispatchInv'
  OBVIOUS
<1>1. CASE Dispatch!Revert
  <2>1. PICK o \in operations :
          operations' = (operations \ {o}) \cup {[o EXCEPT !.status = "reverted"]}
    BY <1>1 DEF Dispatch!Revert
  <2>2. [o EXCEPT !.status = "reverted"] \in OperationType
        /\ [o EXCEPT !.status = "reverted"].key = o.key
    BY DEF DispatchInv, DispatchTypeOK, OperationType
  <2>3. UNCHANGED <<keys, repeats, tabs, deliveries>>
    BY <1>1 DEF Dispatch!Revert
  <2> QED BY <2>1, <2>2, <2>3 DEF DispatchInv, DispatchTypeOK, OpenAlone,
             OneOperationPerRequest, Dispatch!OneOperationPerRequest
<1>2. CASE Dispatch!Settle \/ UNCHANGED dispatchVars
  BY <1>2 DEF Dispatch!Settle, dispatchVars, DispatchInv, DispatchTypeOK, OpenAlone,
             OneOperationPerRequest, Dispatch!OneOperationPerRequest
<1> QED BY <1>1, <1>2, ScreenOK, TransactionOK DEF Dispatch!Next

\* A request that is delivered twice, or whose two transactions overlap, is
\* registered once (request_key of dispatches.ts and its unique index), for
\* any number of tabs, confirmations and repetitions.
THEOREM RequestsAreCarriedOutOnce == OperatorsSpec => []OneOperationPerRequest
<1>1. Parts => DispatchInv
  BY DispatchInit DEF Parts, DispatchesAtRest
<1>2. DispatchInv /\ [Step]_<<part, vars, dispatchVars, scheduleVars, importVars, configVars>>
        => DispatchInv'
  <2>1. Step => [Dispatch!Next]_dispatchVars
    BY DEF Step
  <2> QED BY <2>1, DispatchStep
<1>3. DispatchInv => OneOperationPerRequest
  BY DEF DispatchInv
<1> QED BY <1>1, <1>2, <1>3, PTL DEF OperatorsSpec
-----------------------------------------------------------------------------
(* Automatic starts *)

OpenTypes == [open : BOOLEAN, at : Nat, next : Nat, enabled : BOOLEAN, interval : Nat]

ScheduleTypeOK ==
  /\ now \in Nat /\ interval \in Nat /\ finished \in Nat
  /\ scheduler \in [enabled : BOOLEAN, next : Nat]
  /\ due \in OpenTypes /\ ending \in OpenTypes /\ saving \in OpenTypes

\* What the round of the worker has read is what the locked row says.
RowAsRead ==
  due.open => /\ due.enabled = scheduler.enabled
              /\ due.next = scheduler.next
              /\ due.at <= now

ScheduleInv == ScheduleTypeOK /\ RowAsRead

LEMMA NextRunTyped ==
  ASSUME ScheduleTypeOK, NEW base \in Nat, NEW minutes \in Nat
  PROVE  Schedule!NextRun(base, minutes) \in Nat
BY DEF ScheduleTypeOK, Schedule!NextRun

LEMMA ScheduleInit == Schedule!Init => ScheduleInv
<1>1. Intervals \subseteq Nat
  BY OperatorsAssumption DEF OperatorsAssumption
<1> QED BY <1>1 DEF Schedule!Init, ScheduleInv, ScheduleTypeOK, RowAsRead, OpenTypes,
           Schedule!Closed, Schedule!Never

\* Who writes the row of the scheduler waits for the round that holds it.
LEMMA ScheduleStep == ScheduleInv /\ [Schedule!Next]_scheduleVars => ScheduleInv'
<1> SUFFICES ASSUME ScheduleInv, [Schedule!Next]_scheduleVars PROVE ScheduleInv'
  OBVIOUS
<1> USE DEF ScheduleInv, ScheduleTypeOK, RowAsRead, Schedule!Never
<1>1. Intervals \subseteq Nat
  BY OperatorsAssumption DEF OperatorsAssumption
<1>2. Schedule!Closed \in OpenTypes /\ ~Schedule!Closed.open
  BY DEF Schedule!Closed, OpenTypes
<1>3. CASE Schedule!Time
  BY <1>3 DEF Schedule!Time, OpenTypes
<1>4. CASE Schedule!TickBegins
  <2>1. scheduler.enabled \in BOOLEAN /\ scheduler.next \in Nat
    OBVIOUS
  <2>2. due' = [open |-> TRUE, at |-> now, next |-> scheduler.next, enabled |-> scheduler.enabled,
                interval |-> 0]
    BY <1>4 DEF Schedule!TickBegins, Schedule!Closed
  <2>3. due' \in OpenTypes
    BY <2>1, <2>2 DEF OpenTypes
  <2> QED BY <1>4, <2>2, <2>3 DEF Schedule!TickBegins
<1>5. CASE Schedule!TickRefuses \/ Schedule!TickStarts
  BY <1>5, <1>2 DEF Schedule!TickRefuses, Schedule!TickStarts
<1>6. CASE Schedule!TickPostpones
  <2>1. Schedule!NextRun(due.at, interval) \in Nat
    BY NextRunTyped DEF OpenTypes
  <2> QED BY <1>6, <1>2, <2>1 DEF Schedule!TickPostpones
<1>7. CASE Schedule!EndBegins
  <2>1. Schedule!NextRun(now, interval) \in Nat
    BY NextRunTyped
  <2>2. ending' \in OpenTypes
    BY <1>7, <2>1 DEF Schedule!EndBegins, Schedule!Closed, OpenTypes
  <2> QED BY <1>7, <2>2 DEF Schedule!EndBegins
<1>8. CASE Schedule!EndCommits
  <2>1. ending.at \in Nat /\ ending.next \in Nat
    BY DEF OpenTypes
  <2> QED BY <1>8, <1>2, <2>1 DEF Schedule!EndCommits, Schedule!RowIsFree
<1>9. CASE Schedule!SaveBegins
  <2>1. PICK minutes \in Intervals, enabled \in BOOLEAN :
          saving' = [Schedule!Closed EXCEPT !.open = TRUE, !.at = now, !.enabled = enabled,
                       !.interval = minutes,
                       !.next = IF minutes = interval THEN Schedule!Never
                                ELSE Schedule!NextRun(Schedule!Never, minutes)]
    BY <1>9 DEF Schedule!SaveBegins
  <2>2. minutes \in Nat /\ Schedule!NextRun(0, minutes) \in Nat
    BY <1>1, NextRunTyped
  <2>3. saving' \in OpenTypes
    BY <2>1, <2>2 DEF Schedule!Closed, OpenTypes
  <2> QED BY <1>9, <2>3 DEF Schedule!SaveBegins
<1>10. CASE Schedule!PresetCommits \/ Schedule!SwitchCommits
  <2>1. /\ saving.at \in Nat /\ saving.next \in Nat /\ saving.interval \in Nat
        /\ saving.enabled \in BOOLEAN
    BY DEF OpenTypes
  <2>2. Schedule!NextRun(saving.at, saving.interval) \in Nat /\ Schedule!Recalculated \in Nat
    BY <2>1, NextRunTyped DEF Schedule!Recalculated
  <2> QED BY <1>10, <1>2, <2>1, <2>2
          DEF Schedule!PresetCommits, Schedule!SwitchCommits, Schedule!RowIsFree
<1>11. CASE Schedule!ManualAllowed \/ Schedule!ManualStarts
  BY <1>11 DEF Schedule!ManualAllowed, Schedule!ManualStarts
<1>12. CASE UNCHANGED scheduleVars
  BY <1>12 DEF scheduleVars
<1> QED BY <1>3, <1>4, <1>5, <1>6, <1>7, <1>8, <1>9, <1>10, <1>11, <1>12 DEF Schedule!Next

LEMMA StartAllowed ==
  ASSUME ScheduleInv, Schedule!Next, Schedule!Started
  PROVE  scheduler.enabled /\ scheduler.next <= now /\ scheduler.next = run'
<1>1. Schedule!TickStarts
  BY DEF Schedule!Started, Schedule!Next, Schedule!Time, Schedule!TickBegins, Schedule!TickRefuses,
         Schedule!TickPostpones, Schedule!EndBegins, Schedule!EndCommits, Schedule!SaveBegins,
         Schedule!PresetCommits, Schedule!SwitchCommits, Schedule!ManualAllowed,
         Schedule!ManualStarts
<1>2. due.enabled /\ due.at >= due.next /\ due.open /\ run' = due.next
  BY <1>1 DEF Schedule!TickStarts, Schedule!IsDue
<1>3. due.enabled = scheduler.enabled /\ due.next = scheduler.next /\ due.at <= now
  BY <1>2 DEF ScheduleInv, RowAsRead
<1>4. due.at \in Nat /\ due.next \in Nat /\ now \in Nat
  BY DEF ScheduleInv, ScheduleTypeOK, OpenTypes
<1> QED BY <1>2, <1>3, <1>4

\* A run starts by itself only while the switch is on and at the time that is
\* committed (startDueLocalScheduledGeneralSync), however the rounds of the
\* worker, the ends of runs and the changes of the settings interleave.
THEOREM AutomaticStartsAreAllowed == OperatorsSpec => StartsAreAllowed
<1>1. Parts => ScheduleInv
  BY ScheduleInit DEF Parts, ScheduleAtRest
<1>2. [Step]_<<part, vars, dispatchVars, scheduleVars, importVars, configVars>>
        => [Schedule!Next]_scheduleVars
  BY DEF Step
<1>3. ScheduleInv /\ [Schedule!Next]_scheduleVars
        => [Schedule!Started => scheduler.enabled /\ scheduler.next <= now
                                /\ scheduler.next = run']_Schedule!vars
  BY StartAllowed DEF scheduleVars, Schedule!vars
<1> QED BY <1>1, <1>2, <1>3, ScheduleStep, PTL
        DEF OperatorsSpec, StartsAreAllowed, Schedule!StartsAreAllowed

-----------------------------------------------------------------------------
(* The list *)

\* A request that is not aborted asks for what the screen shows now.
RequestsAreOfScreen ==
  \A r \in requests :
    /\ {"filter", "page"} \subseteq DOMAIN r
    /\ r.filter = screen.filter /\ r.page = screen.page

ScreenWhole ==
  screen = [filter |-> screen.filter, page |-> screen.page, loading |-> screen.loading,
            failed |-> screen.failed, shown |-> screen.shown]

ListInv == RequestsAreOfScreen /\ ScreenWhole /\ ListFollowsFilters

LEMMA ListStarts == ASSUME NEW filter, ListInit(filter) PROVE ListInv
BY DEF ListInit, ListInv, RequestsAreOfScreen, ScreenWhole, ListFollowsFilters

\* The cleanup of the effect leaves the new request alone.
LEMMA ReloadOK == ASSUME ListInv, NEW filter, NEW page, Reload(filter, page) PROVE ListInv'
<1>1. screen' = [filter |-> filter, page |-> page, loading |-> TRUE, failed |-> FALSE,
                 shown |-> screen.shown]
  BY DEF Reload, ListInv, ScreenWhole
<1>2. requests' = {Fresh(filter, page)}
  BY DEF Reload, Cleanup
<1> QED BY <1>1, <1>2 DEF Fresh, ListInv, RequestsAreOfScreen, ScreenWhole, ListFollowsFilters, Ready

LEMMA ChooseOK == ASSUME ListInv, NEW filter, NEW page, Choose(filter, page) PROVE ListInv'
<1>1. CASE UNCHANGED <<screen, requests>>
  BY <1>1 DEF ListInv, RequestsAreOfScreen, ScreenWhole, ListFollowsFilters, Ready
<1> QED BY <1>1, ReloadOK DEF Choose

LEMMA AnswerOK == ASSUME ListInv, Answer PROVE ListInv'
<1> USE DEF ListInv, RequestsAreOfScreen, ScreenWhole, ListFollowsFilters, Ready
<1>1. PICK r \in requests : TimerFires(r) \/ CountQuery(r) \/ RowsQuery(r) \/ Arrives(r) \/ Fails(r)
  BY DEF Answer
<1>2. CASE TimerFires(r)
  BY <1>2 DEF TimerFires, Replace
<1>3. CASE CountQuery(r)
  BY <1>3 DEF CountQuery, Replace
<1>4. CASE RowsQuery(r)
  BY <1>4 DEF RowsQuery, Replace
<1>5. CASE Arrives(r)
  BY <1>5 DEF Arrives
<1>6. CASE Fails(r)
  BY <1>6 DEF Fails
<1> QED BY <1>1, <1>2, <1>3, <1>4, <1>5, <1>6

LEMMA ListStep == ListInv /\ [Next]_vars => ListInv'
<1> SUFFICES ASSUME ListInv, [Next]_vars PROVE ListInv'
  OBVIOUS
<1>1. CASE UNCHANGED <<screen, requests>>
  BY <1>1 DEF ListInv, RequestsAreOfScreen, ScreenWhole, ListFollowsFilters, Ready
<1>2. CASE ChangeFilter
  BY <1>2, ReloadOK DEF ChangeFilter
<1>3. CASE ClearAllFilters \/ Pager
  BY <1>3, ChooseOK DEF ClearAllFilters, Pager, First, Previous, Following, Last
<1>4. CASE List
  BY <1>4, ReloadOK, AnswerOK DEF List, Refresh
<1> QED BY <1>1, <1>2, <1>3, <1>4
        DEF Next, vars, WorkerEnds, OthersReprocess, ToggleSelected, ToggleAllFiltered, FilteredIds,
            AllArrive, ReprocessSelected, QueueSelected, SelectedArrives, ReprocessFilteredErrors,
            SendErrors, QueueErrors, ProgressArrives, CallFails

\* The list shows the filters and the page that are on the screen, in whatever
\* order the requests end (the cleanup of associados-card-list.tsx).
THEOREM ListIsOfItsFilters == OperatorsSpec => []ListFollowsFilters
<1>1. Parts => ListInv
  BY ListStarts DEF Parts, Init, ListAtRest
<1>2. [Step]_<<part, vars, dispatchVars, scheduleVars, importVars, configVars>> => [Next]_vars
  BY DEF Step
<1>3. ListInv => ListFollowsFilters
  BY DEF ListInv
<1> QED BY <1>1, <1>2, <1>3, ListStep, PTL DEF OperatorsSpec

LEMMA CompletedStaysStep ==
  ASSUME Next, NEW i \in Items, table[i].status = "completed", table'[i].status # "completed"
  PROVE  i \in calls["selected"].ids
<1>1. ~WorkerEnds
  BY DEF WorkerEnds, SetStatus
<1>2. ~OthersReprocess
  BY DEF OthersReprocess, SetStatus
<1>3. QueueErrors => FALSE
  BY DEF QueueErrors, SetStatus, Eligible
<1>4. QueueSelected => i \in calls["selected"].ids
  BY DEF QueueSelected, SetStatus
<1>5. UNCHANGED table => FALSE
  OBVIOUS
<1> QED BY <1>1, <1>2, <1>3, <1>4, <1>5
        DEF Next, ChangeFilter, ClearAllFilters, Pager, List, Untouched, ToggleSelected,
            ToggleAllFiltered, FilteredIds, AllArrive, ReprocessSelected, SelectedArrives,
            ReprocessFilteredErrors, SendErrors, ProgressArrives, CallFails

\* A link that is completed is queued again only when the operator selected
\* it (reprocessar-erros-filtrados reads the status of its links again).
THEOREM CompletedLinksStay == OperatorsSpec => CompletedStays
<1>1. [Step]_<<part, vars, dispatchVars, scheduleVars, importVars, configVars>> => [Next]_vars
  BY DEF Step
<1>2. [Next]_vars
        => [\A i \in Items : table[i].status = "completed" /\ table'[i].status # "completed"
              => i \in calls["selected"].ids]_vars
  BY CompletedStaysStep
<1> QED BY <1>1, <1>2, PTL DEF OperatorsSpec, CompletedStays
-----------------------------------------------------------------------------
(* The configuration *)

\* The value of a configuration comes from a row in force since a time.
Known(p, value, time) ==
  \/ value = Config!Base(p)
  \/ \E row \in Config!InForceSince(time) : value = Config!Merged(Config!Base(p), row.config)

ConfigTypeOK ==
  /\ clock \in Nat
  /\ \A old \in past : old.until \in Nat
  /\ cache = [p \in Processes |-> cache[p]]
  /\ \A p \in Processes : cache[p].at \in Nat /\ cache[p].at <= clock
  /\ applying = [a \in Administrators |-> applying[a]]
  /\ settings.state # "none" => settings.at \in Nat /\ settings.at <= clock

CachesKnown ==
  \A p \in Processes : cache[p].state = "done" => Known(p, cache[p].value, cache[p].at)

\* What is saved and not yet in the cache of the web process was in force in
\* this tick.
SavesKnown ==
  \A a \in Administrators : applying[a] # Config!NoKey =>
    /\ applying[a] \in DOMAIN Presets
    /\ Config!RowOf(applying[a]) \in Config!InForceSince(clock)

RowKnown == stored \in Rows \/ \E key \in DOMAIN Presets : stored = Config!RowOf(key)

TwoRows(time) == \E r, q \in Config!InForceSince(time) : r # q

PageKnown ==
  /\ settings.state = "config" => Known(Web, settings.config, settings.at - TTL + 1)
  /\ settings.state = "shown" /\ settings.key # Config!NoKey =>
       \/ settings.config = Presets[settings.key]
       \/ settings.config = Config!Base(Web)
       \/ TwoRows(settings.at - TTL + 1)
       \/ stored \in Rows

ConfigInv == ConfigTypeOK /\ CachesKnown /\ SavesKnown /\ RowKnown /\ PageKnown

\* What a save writes is read back as it was chosen.
LEMMA RowReadBack ==
  ASSUME NEW key \in DOMAIN Presets, NEW base
  PROVE  Config!Merged(base, Config!RowOf(key).config) = Presets[key]
<1>1. Presets[key] \in [Fields -> Nat]
  BY ConfigAssumption DEF ConfigAssumption
<1>2. ASSUME NEW f \in Fields
      PROVE  Config!StoredInteger(Config!RowOf(key).config[f], base[f], f) = Presets[key][f]
  <2> DEFINE names == <<Presets[key][f], Config!Absent>>
             integers == {n \in DOMAIN names : names[n] >= 0}
             first == CHOOSE n \in integers : \A m \in integers : n <= m
  <2>1. Presets[key][f] \in Nat
    BY <1>1
  <2>2. DOMAIN names = {1, 2} /\ names[1] = Presets[key][f] /\ names[2] = -1
    BY DEF Config!Absent
  <2>3. integers = {1}
    BY <2>1, <2>2
  <2>4. first = 1
    BY <2>3
  <2>5. Config!RowOf(key).config[f] = names
    BY DEF Config!RowOf
  <2>6. Config!StoredInteger(names, base[f], f) = Config!Clamped(names[first], f)
    BY <2>3 DEF Config!StoredInteger
  <2>7. Config!Clamped(Presets[key][f], f) = Presets[key][f]
    BY <2>1, ConfigAssumption DEF ConfigAssumption, Config!Clamped
  <2> QED BY <2>2, <2>4, <2>5, <2>6, <2>7
<1>3. Config!Merged(base, Config!RowOf(key).config) = [f \in Fields |-> Presets[key][f]]
  BY <1>2 DEF Config!Merged
<1> QED BY <1>1, <1>3

LEMMA ConfigInit == Config!Init => ConfigInv
BY DEF Config!Init, ConfigInv, ConfigTypeOK, CachesKnown, SavesKnown, RowKnown, PageKnown,
       Config!Empty, Config!NoPage, Config!NoKey

\* A row that was in force at a time or later stays one.
LEMMA RowsRemembered ==
  ASSUME ConfigInv, NEW time \in Int, time <= clock,
         \/ UNCHANGED <<stored, past>>
         \/ past' = past \cup {[row |-> stored, until |-> clock]}
  PROVE  Config!InForceSince(time) \subseteq Config!InForceSince(time)'
<1>1. CASE UNCHANGED <<stored, past>>
  BY <1>1 DEF Config!InForceSince
<1>2. CASE past' = past \cup {[row |-> stored, until |-> clock]}
  <2>1. stored \in Config!InForceSince(time)'
    BY <1>2 DEF Config!InForceSince, ConfigInv, ConfigTypeOK
  <2> QED BY <1>2, <2>1 DEF Config!InForceSince
<1> QED BY <1>1, <1>2

LEMMA ConfigStep == ConfigInv /\ [Config!Next]_configVars => ConfigInv'
<1> SUFFICES ASSUME ConfigInv, [Config!Next]_configVars PROVE ConfigInv'
  OBVIOUS
<1>0. Web \in Processes /\ TTL \in Nat \ {0}
  BY ConfigAssumption DEF ConfigAssumption
<1> USE DEF ConfigInv
<1>1. CASE \E p \in Processes : Config!Ask(p)
  <2>1. PICK p \in Processes : Config!Ask(p)
    BY <1>1
  <2>2. /\ UNCHANGED <<clock, stored, past, environment, applying, settings>>
        /\ cache' = [cache EXCEPT ![p] = [at |-> clock, state |-> "reading"]]
    BY <2>1 DEF Config!Ask
  <2>3. ConfigTypeOK'
    BY <2>2 DEF ConfigTypeOK
  <2>4. CachesKnown'
    BY <2>2 DEF ConfigTypeOK, CachesKnown, Known, Config!Base, Config!InForceSince
  <2>5. SavesKnown' /\ RowKnown' /\ PageKnown'
    BY <2>2 DEF SavesKnown, RowKnown, PageKnown, Known, TwoRows, Config!Base, Config!InForceSince
  <2> QED BY <2>3, <2>4, <2>5
<1>2. CASE \E p \in Processes : Config!Load(p)
  <2>1. PICK p \in Processes : Config!Load(p)
    BY <1>2
  <2>2. UNCHANGED <<clock, stored, past, environment, applying, settings>>
    BY <2>1 DEF Config!Load
  <2>3. PICK value \in {Config!Merged(Config!Base(p), stored.config), Config!Base(p)} :
          cache' = [cache EXCEPT ![p] = [at |-> cache[p].at, state |-> "done", value |-> value]]
    BY <2>1 DEF Config!Load
  <2>4. ConfigTypeOK'
    BY <2>2, <2>3 DEF ConfigTypeOK
  <2>5. CachesKnown'
    <3>1. Known(p, value, cache[p].at)
      BY DEF Known, Config!InForceSince
    <3>2. \A q \in Processes : cache'[q].state = "done" => Known(q, cache'[q].value, cache'[q].at)
      BY <2>3, <3>1 DEF ConfigTypeOK, CachesKnown
    <3> QED BY <2>2, <3>2 DEF CachesKnown, Known, Config!Base, Config!InForceSince
  <2>6. SavesKnown' /\ RowKnown' /\ PageKnown'
    BY <2>2 DEF SavesKnown, RowKnown, PageKnown, Known, TwoRows, Config!Base, Config!InForceSince
  <2> QED BY <2>4, <2>5, <2>6
<1>3. CASE \E p \in Processes : Config!Restart(p)
  <2>1. PICK p \in Processes : Config!Restart(p)
    BY <1>3
  <2>2. /\ UNCHANGED <<clock, stored, past, environment>>
        /\ cache' = [cache EXCEPT ![p] = Config!Empty]
        /\ \/ settings' = Config!NoPage /\ applying' = [a \in Administrators |-> Config!NoKey]
           \/ UNCHANGED <<settings, applying>>
    BY <2>1 DEF Config!Restart
  <2>3. ConfigTypeOK'
    BY <2>2 DEF ConfigTypeOK, Config!Empty, Config!NoPage
  <2>4. CachesKnown'
    BY <2>2 DEF ConfigTypeOK, CachesKnown, Known, Config!Base, Config!InForceSince, Config!Empty
  <2>5. SavesKnown' /\ RowKnown' /\ PageKnown'
    BY <2>2 DEF SavesKnown, RowKnown, PageKnown, Known, TwoRows, Config!Base, Config!InForceSince,
                Config!NoPage
  <2> QED BY <2>3, <2>4, <2>5
<1>4. CASE \E a \in Administrators : Config!Apply(a)
  <2>1. PICK a \in Administrators : Config!Apply(a)
    BY <1>4
  <2>2. PICK key \in DOMAIN Presets :
          stored' = Config!RowOf(key) /\ applying' = [applying EXCEPT ![a] = key]
    BY <2>1 DEF Config!Apply
  <2>3. /\ UNCHANGED <<clock, environment, cache, settings>>
        /\ past' = past \cup {[row |-> stored, until |-> clock]}
    BY <2>1 DEF Config!Apply
  <2>4. \A time \in Int : time <= clock =>
          Config!InForceSince(time) \subseteq Config!InForceSince(time)'
    BY <2>3, RowsRemembered
  <2>5. \A p, value : \A time \in Int :
          time <= clock /\ Known(p, value, time) => Known(p, value, time)'
    BY <2>3, <2>4 DEF Known, Config!Base
  <2>6. ConfigTypeOK'
    BY <2>2, <2>3 DEF ConfigTypeOK
  <2>7. CachesKnown'
    BY <2>3, <2>5 DEF CachesKnown, ConfigTypeOK
  <2>8. SavesKnown'
    <3>1. Config!RowOf(key) \in Config!InForceSince(clock)'
      BY <2>2 DEF Config!InForceSince
    <3>2. \A b \in Administrators : applying'[b] = applying[b] \/ applying'[b] = key
      BY <2>2 DEF ConfigTypeOK
    <3>3. Config!InForceSince(clock) \subseteq Config!InForceSince(clock)'
      BY <2>3, <2>4 DEF Config!InForceSince, ConfigTypeOK
    <3> QED BY <2>3, <3>1, <3>2, <3>3 DEF SavesKnown
  <2>9. RowKnown'
    BY <2>2 DEF RowKnown
  <2>10. PageKnown'
    <3>1. settings.state # "none" =>
            settings.at - TTL + 1 \in Int /\ settings.at - TTL + 1 <= clock
      BY <1>0 DEF ConfigTypeOK
    <3>2. settings.state # "none" /\ TwoRows(settings.at - TTL + 1)
            => TwoRows(settings.at - TTL + 1)'
      BY <2>3, <2>4, <3>1 DEF TwoRows
    <3>3. settings.state # "none" => {stored, stored'} \subseteq Config!InForceSince(settings.at - TTL + 1)'
      <4>1. \A time \in Int : time <= clock => stored \in Config!InForceSince(time)'
        BY <2>4 DEF Config!InForceSince
      <4>2. settings.state # "none" => stored \in Config!InForceSince(settings.at - TTL + 1)'
        BY <2>3, <3>1, <4>1 DEF Config!InForceSince
      <4> QED BY <4>2 DEF Config!InForceSince
    <3>4. settings.state # "none" /\ stored # stored' => TwoRows(settings.at - TTL + 1)'
      BY <2>3, <3>3 DEF TwoRows
    <3>5. settings.state = "config" => Known(Web, settings.config, settings.at - TTL + 1)'
      BY <2>3, <2>5, <3>1 DEF PageKnown, Known
    <3> QED BY <2>3, <3>2, <3>4, <3>5 DEF PageKnown, Config!Base, Known
  <2> QED BY <2>6, <2>7, <2>8, <2>9, <2>10
<1>5. CASE \E a \in Administrators : Config!FillCache(a)
  <2>1. PICK a \in Administrators : Config!FillCache(a)
    BY <1>5
  <2>2. /\ UNCHANGED <<clock, stored, past, environment, settings>>
        /\ applying[a] # Config!NoKey
        /\ cache' = [cache EXCEPT ![Web] =
                       [at |-> clock, state |-> "done", value |-> Presets[applying[a]]]]
        /\ applying' = [applying EXCEPT ![a] = Config!NoKey]
    BY <2>1 DEF Config!FillCache
  <2>3. ConfigTypeOK'
    BY <2>2 DEF ConfigTypeOK
  <2>4. Known(Web, Presets[applying[a]], clock)
    BY <2>2, RowReadBack DEF SavesKnown, Known
  <2>5. \A q \in Processes : cache'[q].state = "done" => Known(q, cache'[q].value, cache'[q].at)
    BY <1>0, <2>2, <2>4 DEF ConfigTypeOK, CachesKnown
  <2>6. CachesKnown'
    BY <2>2, <2>5 DEF CachesKnown, Known, Config!Base, Config!InForceSince
  <2>7. SavesKnown'
    BY <2>2 DEF SavesKnown, ConfigTypeOK, Config!InForceSince
  <2>8. RowKnown' /\ PageKnown'
    BY <2>2 DEF RowKnown, PageKnown, Known, TwoRows, Config!Base, Config!InForceSince
  <2> QED BY <2>3, <2>6, <2>7, <2>8
<1>6. CASE Config!ViewConfig
  <2>1. /\ UNCHANGED <<clock, stored, past, environment, cache, applying>>
        /\ settings' = [state |-> "config", config |-> cache[Web].value, at |-> clock]
        /\ cache[Web].state = "done" /\ clock - cache[Web].at < TTL
    BY <1>6 DEF Config!ViewConfig, Config!Fresh
  <2>2. ConfigTypeOK'
    BY <2>1 DEF ConfigTypeOK
  <2>3. CachesKnown' /\ SavesKnown' /\ RowKnown'
    BY <2>1 DEF CachesKnown, SavesKnown, RowKnown, Known, Config!Base, Config!InForceSince
  <2>4. Config!InForceSince(cache[Web].at) \subseteq Config!InForceSince(clock - TTL + 1)
    BY <1>0, <2>1 DEF ConfigTypeOK, Config!InForceSince
  <2>5. Known(Web, cache[Web].value, clock - TTL + 1)
    BY <1>0, <2>1, <2>4 DEF CachesKnown, Known
  <2>6. PageKnown'
    BY <2>1, <2>5 DEF PageKnown, Known, Config!Base, Config!InForceSince
  <2> QED BY <2>2, <2>3, <2>6
<1>7. CASE Config!ViewKey
  <2>1. settings.state = "config" /\ UNCHANGED <<clock, stored, past, environment, cache, applying>>
    BY <1>7 DEF Config!ViewKey
  <2>2. PICK read \in {stored.preset, Config!NoKey} :
          settings' = [state |-> "shown", config |-> settings.config, at |-> settings.at,
                       key |-> IF read = Config!NoKey THEN Config!Matching(settings.config) ELSE read]
    BY <1>7 DEF Config!ViewKey
  <2>3. ConfigTypeOK'
    BY <2>1, <2>2 DEF ConfigTypeOK
  <2>4. CachesKnown' /\ SavesKnown' /\ RowKnown'
    BY <2>1 DEF CachesKnown, SavesKnown, RowKnown, Known, Config!Base, Config!InForceSince
  <2>5. CASE read = Config!NoKey
    <3>1. settings'.key # Config!NoKey => settings'.config = Presets[settings'.key]
      BY <2>2, <2>5 DEF Config!Matching
    <3> QED BY <2>2, <2>3, <2>4, <3>1 DEF PageKnown
  <2>6. CASE read # Config!NoKey
    <3> DEFINE time == settings.at - TTL + 1
    <3>1. settings'.key = stored.preset /\ settings'.config = settings.config
          /\ settings'.at = settings.at
      BY <2>2, <2>6
    <3>2. CASE stored \in Rows
      BY <2>1, <2>2, <2>3, <2>4, <3>2 DEF PageKnown
    <3>3. CASE stored \notin Rows
      <4>1. PICK key \in DOMAIN Presets : stored = Config!RowOf(key)
        BY <3>3 DEF RowKnown
      <4>2. stored.preset = key
        BY <4>1 DEF Config!RowOf
      <4>3. Known(Web, settings.config, time)
        BY <2>1 DEF PageKnown
      <4>4. stored \in Config!InForceSince(time)
        BY DEF Config!InForceSince
      <4>5. \/ settings.config = Config!Base(Web) \/ settings.config = Presets[key] \/ TwoRows(time)
        BY <4>1, <4>3, <4>4, RowReadBack DEF Known, TwoRows
      <4>6. Config!Base(Web)' = Config!Base(Web) /\ (TwoRows(time) => TwoRows(time)')
        BY <2>1, <3>1 DEF TwoRows, Config!Base, Config!InForceSince
      <4>7. PageKnown'
        BY <2>2, <3>1, <4>2, <4>5, <4>6 DEF PageKnown
      <4> QED BY <2>3, <2>4, <4>7
    <3> QED BY <3>2, <3>3
  <2> QED BY <2>5, <2>6
<1>8. CASE Config!Tick
  <2>1. /\ UNCHANGED <<stored, past, environment, cache, applying, settings>>
        /\ clock' = clock + 1
        /\ \A a \in Administrators : applying[a] = Config!NoKey
    BY <1>8 DEF Config!Tick
  <2>2. ConfigTypeOK'
    BY <2>1 DEF ConfigTypeOK
  <2>3. CachesKnown' /\ RowKnown' /\ PageKnown'
    BY <2>1 DEF CachesKnown, RowKnown, PageKnown, Known, TwoRows, Config!Base, Config!InForceSince
  <2>4. SavesKnown'
    BY <2>1 DEF SavesKnown
  <2> QED BY <2>2, <2>3, <2>4
<1>9. CASE UNCHANGED configVars
  BY <1>9 DEF configVars, ConfigTypeOK, CachesKnown, SavesKnown, RowKnown, PageKnown, Known, TwoRows,
              Config!Base, Config!InForceSince
<1> QED BY <1>1, <1>2, <1>3, <1>4, <1>5, <1>6, <1>7, <1>8, <1>9 DEF Config!Next

LEMMA ConfigCurrent == ConfigInv => ConfigurationIsCurrent
<1> SUFFICES ASSUME ConfigInv PROVE Config!CacheIsCurrent /\ Config!PageAgrees
  BY DEF ConfigurationIsCurrent, Config!ConfigurationIsCurrent
<1>0. Web \in Processes /\ TTL \in Nat \ {0}
  BY ConfigAssumption DEF ConfigAssumption
<1> USE DEF ConfigInv
<1>1. ASSUME NEW p \in Processes, cache[p].state = "done", Config!Fresh(p)
      PROVE  \/ cache[p].value = Config!Base(p)
             \/ \E row \in Config!InForceSince(clock - TTL + 1) :
                  cache[p].value = Config!Merged(Config!Base(p), row.config)
  <2>1. Config!InForceSince(cache[p].at) \subseteq Config!InForceSince(clock - TTL + 1)
    BY <1>0, <1>1 DEF Config!Fresh, ConfigTypeOK, Config!InForceSince
  <2> QED BY <1>1, <2>1 DEF CachesKnown, Known
<1>3. Config!CacheIsCurrent
  BY <1>1 DEF Config!CacheIsCurrent
<1>4. Config!PageAgrees
  BY DEF Config!PageAgrees, PageKnown, TwoRows
<1> QED BY <1>3, <1>4

\* A process works with what a row said less than the time of the cache ago,
\* as a whole, or with its environment, and the page names another profile
\* only that long (processing-config.ts), for any number of processes,
\* administrators and saves.
THEOREM ConfigurationsAreCurrent == OperatorsSpec => []ConfigurationIsCurrent
<1>1. Parts => ConfigInv
  BY ConfigInit DEF Parts, ConfigAtRest
<1>2. [Step]_<<part, vars, dispatchVars, scheduleVars, importVars, configVars>>
        => [Config!Next]_configVars
  BY DEF Step
<1> QED BY <1>1, <1>2, ConfigStep, ConfigCurrent, PTL DEF OperatorsSpec

-----------------------------------------------------------------------------
(* The base of campaigns: CampaignImportProofs, with the other parts beside *)

LEMMA ImportStarts == Parts => Import!ImportInv
<1>1. Parts => Import!Init
  BY DEF Parts, ImportAtRest
<1> QED BY <1>1, Import!ImportInit

LEMMA ImportGoesOn ==
  Import!ImportInv /\ [Step]_<<part, vars, dispatchVars, scheduleVars, importVars, configVars>>
    => Import!ImportInv'
<1> SUFFICES ASSUME Import!ImportInv,
                    [Step]_<<part, vars, dispatchVars, scheduleVars, importVars, configVars>>
             PROVE  Import!ImportInv'
  OBVIOUS
<1>1. [Import!Next]_importVars
  BY DEF Step
<1>2. [Import!Next]_(Import!vars)
  BY <1>1 DEF importVars, Import!vars
<1> QED BY <1>2, Import!ImportStep

\* Two batches of a campaign never have one name, and the type of every link is
\* that of its installment, whoever imports, renames and deletes meanwhile.
THEOREM CampaignBatchesAgree == OperatorsSpec => []BatchesAgree
<1>1. Import!ImportInv => BatchesAgree
  BY Import!ImportAgrees DEF BatchesAgree
<1> QED BY <1>1, ImportStarts, ImportGoesOn, PTL DEF OperatorsSpec
=============================================================================
