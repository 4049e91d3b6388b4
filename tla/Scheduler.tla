------------------------------- MODULE Scheduler -------------------------------
(***************************************************************************)
(* The automatic start of the general synchronization.  The worker asks at *)
(* every round whether a run is due; the end of a run and a change of the  *)
(* settings compute the time of the next one in triggers (migrations 008   *)
(* and 017).  The transactions are those of PostgreSQL (READ COMMITTED):   *)
(* each statement reads what is committed, a row that another transaction  *)
(* has written is waited for.                                              *)
(*                                                                         *)
(*   now        minutes                                                    *)
(*   scheduler  the row of processing_scheduler_state                      *)
(*   interval   scheduled_interval_minutes, committed                      *)
(*   run        the active general synchronization: its request key        *)
(*   finished   the last finished_at, committed                            *)
(*   requestKeys  the keys of all runs                                     *)
(*   due        the open transaction of the worker: what it has read of    *)
(*              the row it has locked                                      *)
(*   ending     the open transaction that ends the run: finished_at and    *)
(*              next_run_at                                                *)
(*   saving     the open transaction of the settings; at: when each began  *)
(*   manual     a start by an operator that has passed the lock of the     *)
(*              automatic synchronization                                  *)
(*                                                                         *)
(* GeneralSync has what a run does.  The technical user is valid.          *)
(***************************************************************************)
EXTENDS Naturals

CONSTANTS
  Intervals,   \* minutes an administrator may choose
  MaxTime,     \* bound: minutes
  MaxChanges   \* bound: changes of the settings

VARIABLES now, scheduler, interval, run, finished, requestKeys, due, ending, saving,
          manual, changes

vars == <<now, scheduler, interval, run, finished, requestKeys, due, ending, saving,
          manual, changes>>

Never == 0        \* no time: null in the database, the time 0 is not used
None == 0
Manual == 1000    \* the request key of a run that an operator starts
Closed == [open |-> FALSE, at |-> Never, next |-> Never, enabled |-> FALSE, interval |-> 0]

Init ==
  /\ now = 1
  /\ interval \in Intervals
  /\ scheduler = [enabled |-> FALSE, next |-> now + interval]
  /\ run = None /\ finished = Never /\ requestKeys = {}
  /\ due = Closed /\ ending = Closed /\ saving = Closed
  /\ manual = FALSE /\ changes = 0

Time ==
  /\ now < MaxTime /\ now' = now + 1
  /\ UNCHANGED <<scheduler, interval, run, finished, requestKeys, due, ending, saving,
                 manual, changes>>

\* recalculate_local_processing_next_run_v1: no base is the last end.
NextRun(base, minutes) ==
  (IF base # Never THEN base ELSE IF finished # Never THEN finished ELSE now) + minutes

-----------------------------------------------------------------------------
(* startDueLocalScheduledGeneralSync *)

\* Mutant: a select without for update.
RowNotLocked == TRUE

\* The row is locked from the select for update to the commit.
RowIsFree == ~due.open

TickBegins ==
  /\ ~due.open
  /\ due' = [Closed EXCEPT !.open = TRUE, !.at = now, !.enabled = scheduler.enabled,
                        !.next = scheduler.next]
  /\ UNCHANGED <<now, scheduler, interval, run, finished, requestKeys, ending, saving, manual, changes>>

\* Disabled, not due, the key is taken, or a run is active.
TickRefuses ==
  /\ due.open
  /\ ~due.enabled \/ due.at < due.next \/ due.next \in requestKeys \/ run # None
  /\ due' = Closed
  /\ UNCHANGED <<now, scheduler, interval, run, finished, requestKeys, ending, saving, manual, changes>>

IsDue == due.open /\ due.enabled /\ due.at >= due.next /\ due.next \notin requestKeys /\ run = None

TickStarts ==
  /\ IsDue
  /\ run' = due.next
  /\ requestKeys' = requestKeys \cup {due.next}
  /\ due' = Closed
  /\ UNCHANGED <<now, scheduler, interval, finished, ending, saving, manual, changes>>

\* Nothing to synchronize: an interval from now.
TickPostpones ==
  /\ IsDue
  /\ scheduler' = [scheduler EXCEPT !.next = NextRun(due.at, interval)]
  /\ due' = Closed
  /\ UNCHANGED <<now, interval, run, finished, requestKeys, ending, saving, manual, changes>>

-----------------------------------------------------------------------------
(* The end of a run *)

\* The trigger of the update reads the interval, then writes the row.
EndBegins ==
  /\ run # None /\ ~ending.open
  /\ ending' = [Closed EXCEPT !.open = TRUE, !.at = now, !.next = NextRun(now, interval)]
  /\ UNCHANGED <<now, scheduler, interval, run, finished, requestKeys, due, saving, manual, changes>>

EndCommits ==
  /\ ending.open /\ RowIsFree
  /\ run' = None
  /\ finished' = ending.at
  /\ scheduler' = [scheduler EXCEPT !.next = ending.next]
  /\ ending' = Closed
  /\ UNCHANGED <<now, interval, requestKeys, due, saving, manual, changes>>

-----------------------------------------------------------------------------
(* Settings *)

\* The trigger of an interval that changes reads the last end, then writes the row.
SaveBegins ==
  /\ ~saving.open /\ changes < MaxChanges
  /\ changes' = changes + 1
  /\ \E minutes \in Intervals, enabled \in BOOLEAN :
       saving' = [Closed EXCEPT !.open = TRUE, !.at = now, !.enabled = enabled, !.interval = minutes,
                  !.next = IF minutes = interval THEN Never ELSE NextRun(Never, minutes)]
  /\ UNCHANGED <<now, scheduler, interval, run, finished, requestKeys, due, ending, manual>>

Recalculated == IF saving.next = Never THEN scheduler.next ELSE saving.next

\* PUT: applyProcessingPreset.
PresetCommits ==
  /\ saving.open /\ RowIsFree
  /\ scheduler' = [scheduler EXCEPT !.next = Recalculated]
  /\ interval' = saving.interval
  /\ saving' = Closed
  /\ UNCHANGED <<now, run, finished, requestKeys, due, ending, manual, changes>>

\* PATCH: set_local_processing_scheduler_enabled_v1 counts from the activation.
SwitchCommits ==
  /\ saving.open /\ RowIsFree
  /\ scheduler' = [enabled |-> saving.enabled,
                   next |-> IF saving.enabled THEN NextRun(saving.at, saving.interval) ELSE Recalculated]
  /\ interval' = saving.interval
  /\ saving' = Closed
  /\ UNCHANGED <<now, run, finished, requestKeys, due, ending, manual, changes>>

-----------------------------------------------------------------------------
(* Operators *)

\* blockManualSyncWhileAutomaticEnabled, before the transaction of the start.
ManualAllowed ==
  /\ ~manual /\ ~scheduler.enabled
  /\ manual' = TRUE
  /\ UNCHANGED <<now, scheduler, interval, run, finished, requestKeys, due, ending, saving, changes>>

\* pg_advisory_xact_lock of both starts.
StartIsFree == ~due.open

\* createLocalGeneralSyncRun; with a run active it is answered.
ManualStarts ==
  /\ manual /\ StartIsFree
  /\ manual' = FALSE
  /\ run' = IF run = None THEN Manual ELSE run
  /\ UNCHANGED <<now, scheduler, interval, finished, requestKeys, due, ending, saving, changes>>

-----------------------------------------------------------------------------
Next ==
  \/ Time
  \/ TickBegins \/ TickRefuses \/ TickStarts \/ TickPostpones
  \/ EndBegins \/ EndCommits
  \/ SaveBegins \/ PresetCommits \/ SwitchCommits
  \/ ManualAllowed \/ ManualStarts

Spec == Init /\ [][Next]_vars

-----------------------------------------------------------------------------
(* Properties *)

Started == run = None /\ run' # None /\ run' # Manual

\* A run starts by itself only while the switch is on and the time that is
\* committed has come: turning the automatic synchronization off, or putting
\* it off, is not overtaken by a round of the worker that has read before.
StartsAreAllowed ==
  [][Started => scheduler.enabled /\ scheduler.next <= now /\ scheduler.next = run']_vars

\* "finished_at + scheduled_interval_minutes = next_run_at" (README.md).
StartsKeepInterval ==
  [][Started /\ finished # Never => finished + interval <= now]_vars
=============================================================================
