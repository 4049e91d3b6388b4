----------------------------- MODULE MCOperators -----------------------------
(***************************************************************************)
(* What operators and administrators do outside the queue, each part on an *)
(* instance of its own: the list of associates (AssociatesList), the       *)
(* registration of dispatches (Dispatches), the automatic synchronization  *)
(* and its settings (Scheduler), the base of campaigns (CampaignImport),   *)
(* the profiles of the processing (ProcessingConfig).                      *)
(* In a behavior one part moves, the others stay where they are.           *)
(***************************************************************************)
EXTENDS AssociatesList

CONSTANTS Installments, Tabs, MaxKeys, MaxRepeats, MaxReverts,
          Intervals, MaxTime, MaxChanges,
          Operators, Campaigns, Batches, Names, Keys, Types, Files, Blank, MaxBegun,
          m1, m2, i1, i2, clinico, orto,
          Processes, Web, Fields, Low, High, Default, Environments, Rows, Presets,
          Administrators, TTL, MaxTicks, MaxSaves

\* Repetitions are counted; an administrator chooses minutes.
ASSUME OperatorsAssumption == MaxRepeats \in Nat /\ Intervals \subseteq Nat

\* The profiles are complete and within the bounds of the fields.
ASSUME ConfigAssumption ==
  /\ Web \in Processes /\ TTL \in Nat \ {0}
  /\ Low \in [Fields -> Nat] /\ High \in [Fields -> Nat]
  /\ \A key \in DOMAIN Presets :
       /\ Presets[key] \in [Fields -> Nat]
       /\ \A f \in Fields : Low[f] <= Presets[key][f] /\ Presets[key][f] <= High[f]

VARIABLES part, settled, operations, tabs, deliveries, answers, keys, repeats, reverts,
          now, scheduler, interval, run, finished, requestKeys, due, ending, saving,
          manual, changes, campaigns, batches, types, links, tx, begun,
          clock, stored, past, environment, cache, applying, settings, saves

dispatchVars == <<settled, operations, tabs, deliveries, answers, keys, repeats, reverts>>
scheduleVars == <<now, scheduler, interval, run, finished, requestKeys, due, ending, saving,
                  manual, changes>>
importVars == <<campaigns, batches, types, links, tx, begun>>

configVars == <<clock, stored, past, environment, cache, applying, settings, saves>>

Config == INSTANCE ProcessingConfig WITH
  MaxTime <- MaxTicks, saving <- applying, page <- settings
Dispatch == INSTANCE Dispatches
Schedule == INSTANCE Scheduler
\* With what is proved about it
Import == INSTANCE CampaignImportProofs

-----------------------------------------------------------------------------
(* Instances *)

TwoBatches == <<"b1", "b2">>
LinkKinds == {Kind(b, s) : b \in {"b1", "b2"}, s \in Statuses}
Choices ==
  {LinkKinds, {k \in LinkKinds : k.status = "error"}, {k \in LinkKinds : k.batch = "b1"}}

KeyOne == <<m1, i1>>
KeyTwo == <<m2, i2>>
TwoKeys == {KeyOne, KeyTwo}
Line(key, type) == [member |-> key[1], code |-> key[2], priced |-> TRUE, type |-> type]

\* Two files in opposite orders that disagree, and one with an incomplete and
\* a repeated line.
ThreeFiles ==
  {<<Line(KeyOne, clinico), Line(KeyTwo, clinico)>>,
   <<Line(KeyTwo, clinico), Line(KeyOne, orto)>>,
   <<Line(KeyOne, orto), Line(<<m1, Blank>>, clinico), Line(KeyOne, clinico)>>}

PerField(block, attempts) == [f \in {"block", "attempts"} |-> IF f = "block" THEN block ELSE attempts]

OneOrMore == PerField(1, 1)
FiveAndThree == PerField(5, 3)
Threes == PerField(3, 3)
OneEnvironment == {PerField(9, -2)}
TwoProfiles == [conservador |-> PerField(2, 3), agressivo |-> PerField(4, 3)]

\* Of migration 002, of another version of the program, of migration 017
ThreeRows ==
  {[preset |-> "none", config |-> PerField(<<-1, -1>>, <<-1, -1>>)],
   [preset |-> "none", config |-> PerField(<<-2, 9>>, <<2, -1>>)],
   [preset |-> "agressivo", config |-> PerField(<<3, -1>>, <<2, -1>>)]}

-----------------------------------------------------------------------------
(* Side by side *)

ListAtRest ==
  /\ table = [i \in Items |-> Kind(BatchOfLink[i], "completed")]
  /\ ListInit(Kinds)
  /\ selected = {} /\ snapshot = {} /\ others = 0
  /\ calls = [b \in Buttons |-> Quiet]

DispatchesAtRest == Dispatch!Init /\ settled = {}

ScheduleAtRest == Schedule!Init /\ interval = 1

ImportAtRest ==
  /\ Import!Init
  /\ campaigns = [c \in Campaigns |-> "absent"] /\ types = [k \in Keys |-> Blank]

ConfigAtRest ==
  /\ Config!Init
  /\ stored = [preset |-> "none", config |-> PerField(<<-1, -1>>, <<-1, -1>>)]

Parts ==
  /\ part \in {"associates", "dispatches", "schedule", "import", "config"}
  /\ IF part = "associates" THEN Init ELSE ListAtRest
  /\ IF part = "dispatches" THEN Dispatch!Init ELSE DispatchesAtRest
  /\ IF part = "schedule" THEN Schedule!Init ELSE ScheduleAtRest
  /\ IF part = "import" THEN Import!Init ELSE ImportAtRest
  /\ IF part = "config" THEN Config!Init ELSE ConfigAtRest

Step ==
  /\ UNCHANGED part
  /\ \/ part = "associates" /\ Next
        /\ UNCHANGED <<dispatchVars, scheduleVars, importVars, configVars>>
     \/ part = "dispatches" /\ Dispatch!Next
        /\ UNCHANGED <<vars, scheduleVars, importVars, configVars>>
     \/ part = "schedule" /\ Schedule!Next
        /\ UNCHANGED <<vars, dispatchVars, importVars, configVars>>
     \/ part = "import" /\ Import!Next
        /\ UNCHANGED <<vars, dispatchVars, scheduleVars, configVars>>
     \/ part = "config" /\ Config!Next
        /\ UNCHANGED <<vars, dispatchVars, scheduleVars, importVars>>

OperatorsSpec ==
  Parts /\ [][Step]_<<part, vars, dispatchVars, scheduleVars, importVars, configVars>>

-----------------------------------------------------------------------------
(* The properties of the parts, with the names they have there *)

OneOperationPerRequest == Dispatch!OneOperationPerRequest
StartsAreAllowed == Schedule!StartsAreAllowed
BatchesAgree == Import!BatchesAgree
SomeoneGoesOn == Import!SomeoneGoesOn
ConfigurationIsCurrent == Config!ConfigurationIsCurrent
=============================================================================
