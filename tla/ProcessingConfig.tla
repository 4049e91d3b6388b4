--------------------------- MODULE ProcessingConfig ---------------------------
(***************************************************************************)
(* The configuration of the processing: a row of the database, the         *)
(* environment of each process behind it, a cache of 30 seconds in every   *)
(* process, and the profiles an administrator chooses on the settings page *)
(* (whose interval and automation are in Scheduler).                       *)
(*                                                                         *)
(*   clock    ticks of the 30 seconds; a query ends within one             *)
(*   stored   the row: the key of a profile and its raw values             *)
(*   past     the rows that were replaced, and when (history)              *)
(*   cache    per process: the promise of a configuration, and its time    *)
(*   saving   per administrator: the profile that is committed and not     *)
(*            yet in the cache of the web process                          *)
(*   page     the settings page: the configuration it has read, then the   *)
(*            profile it shows as the selected one                         *)
(*   saves    profiles that were applied so far                            *)
(*                                                                         *)
(* A raw value is a number, absent, or nothing that is an integer.         *)
(***************************************************************************)
EXTENDS Integers

CONSTANTS
  Processes, Web,  \* the web process is one of them
  Fields,          \* fields of a configuration
  Low, High,       \* per field: its bounds
  Default,         \* per field: without environment
  Environments,    \* what the environment of a process may say
  Rows,            \* rows before the first save: empty, partial, or classified
                   \* by migration 017
  Presets,         \* per key: the configuration of the profile
  Administrators,
  TTL,             \* CACHE_TTL_MS, in ticks
  MaxTime, MaxSaves  \* bounds

VARIABLES clock, stored, past, environment, cache, saving, page, saves

vars == <<clock, stored, past, environment, cache, saving, page, saves>>

Absent == -1
NotAnInteger == -2
NoKey == "none"
Empty == [at |-> 0, state |-> "none"]
NoPage == [state |-> "none"]

-----------------------------------------------------------------------------
(* Values *)

Clamped(value, field) ==
  IF value < Low[field] THEN Low[field] ELSE IF value > High[field] THEN High[field] ELSE value

\* readInteger, buildProcessingConfigFromEnvironment
FromEnvironment(raw) ==
  [f \in Fields |-> IF raw[f] < 0 THEN Default[f] ELSE Clamped(raw[f], f)]

\* storedInteger: the first of its names that holds an integer, or the base
StoredInteger(names, base, field) ==
  LET integers == {n \in DOMAIN names : names[n] >= 0}
      first == CHOOSE n \in integers : \A m \in integers : n <= m
  IN IF integers = {} THEN base ELSE Clamped(names[first], field)

\* mergeStoredSettings
Merged(base, config) == [f \in Fields |-> StoredInteger(config[f], base[f], f)]

\* matchProcessingPreset
Matching(config) ==
  LET keys == {k \in DOMAIN Presets : Presets[k] = config}
  IN IF keys = {} THEN NoKey ELSE CHOOSE k \in keys : TRUE

\* The row that applyProcessingPreset writes: the first names, all of them
RowOf(key) == [preset |-> key, config |-> [f \in Fields |-> <<Presets[key][f], Absent>>]]

-----------------------------------------------------------------------------

Init ==
  /\ clock = 0 /\ saves = 0 /\ past = {}
  /\ stored \in Rows
  /\ environment \in [Processes -> Environments]
  /\ cache = [p \in Processes |-> Empty]
  /\ saving = [a \in Administrators |-> NoKey]
  /\ page = NoPage

\* Mutant: every use of the cache renews it.
FreshWhileUsed(p) == cache[p].state # "none"

Fresh(p) == cache[p].state # "none" /\ clock - cache[p].at < TTL

Base(p) == FromEnvironment(environment[p])

\* getProcessingConfig, when its promise is too old; what it reads comes later.
Ask(p) ==
  /\ ~Fresh(p)
  /\ cache' = [cache EXCEPT ![p] = [at |-> clock, state |-> "reading"]]
  /\ UNCHANGED <<clock, stored, past, environment, saving, page, saves>>

\* loadProcessingConfig; a query that fails leaves the environment alone.
Load(p) ==
  /\ cache[p].state = "reading"
  /\ \E value \in {Merged(Base(p), stored.config), Base(p)} :
       cache' = [cache EXCEPT ![p] = [at |-> @.at, state |-> "done", value |-> value]]
  /\ UNCHANGED <<clock, stored, past, environment, saving, page, saves>>

Restart(p) ==
  /\ cache[p] # Empty
  /\ cache' = [cache EXCEPT ![p] = Empty]
  /\ IF p = Web THEN /\ page' = NoPage /\ saving' = [a \in Administrators |-> NoKey]
                ELSE UNCHANGED <<page, saving>>
  /\ UNCHANGED <<clock, stored, past, environment, saves>>

\* PUT: applyProcessingPreset commits, then fills the cache of its process.
Apply(a) ==
  /\ saves < MaxSaves /\ saving[a] = NoKey
  /\ saves' = saves + 1
  /\ \E key \in DOMAIN Presets :
       stored' = RowOf(key) /\ saving' = [saving EXCEPT ![a] = key]
  /\ past' = past \cup {[row |-> stored, until |-> clock]}
  /\ UNCHANGED <<clock, environment, cache, page>>

FillCache(a) ==
  /\ saving[a] # NoKey
  /\ cache' = [cache EXCEPT ![Web] =
                 [at |-> clock, state |-> "done", value |-> Presets[saving[a]]]]
  /\ saving' = [saving EXCEPT ![a] = NoKey]
  /\ UNCHANGED <<clock, stored, past, environment, page, saves>>

\* getProcessingSettingsView: the configuration first, then the key of the row
ViewConfig ==
  /\ Fresh(Web) /\ cache[Web].state = "done"
  /\ page' = [state |-> "config", config |-> cache[Web].value, at |-> clock]
  /\ UNCHANGED <<clock, stored, past, environment, cache, saving, saves>>

ViewKey ==
  /\ page.state = "config"
  /\ \E read \in {stored.preset, NoKey} :
       page' = [state |-> "shown", config |-> page.config, at |-> page.at,
                key |-> IF read = NoKey THEN Matching(page.config) ELSE read]
  /\ UNCHANGED <<clock, stored, past, environment, cache, saving, saves>>

\* Queries end within a tick.
Tick ==
  /\ clock < MaxTime
  /\ \A p \in Processes : cache[p].state # "reading"
  /\ \A a \in Administrators : saving[a] = NoKey
  /\ page.state # "config"
  /\ clock' = clock + 1
  /\ UNCHANGED <<stored, past, environment, cache, saving, page, saves>>

Next ==
  \/ \E p \in Processes : Ask(p) \/ Load(p) \/ Restart(p)
  \/ \E a \in Administrators : Apply(a) \/ FillCache(a)
  \/ ViewConfig \/ ViewKey \/ Tick

Spec == Init /\ [][Next]_vars

-----------------------------------------------------------------------------
(* Properties *)

\* The rows that were in force at a time or later
InForceSince(time) == {stored} \cup {old.row : old \in {o \in past : o.until >= time}}

\* What a process works with was the configuration of a row, as a whole, less
\* than the time of the cache ago, or its environment when the row could not be read.
CacheIsCurrent ==
  \A p \in Processes :
    cache[p].state = "done" /\ Fresh(p) =>
      \/ cache[p].value = Base(p)
      \/ \E row \in InForceSince(clock - TTL + 1) : cache[p].value = Merged(Base(p), row.config)

\* The page shows a profile beside another configuration only while a save is
\* that recent, when the row could not be read, or for a row of migration 017.
PageAgrees ==
  page.state = "shown" /\ page.key # NoKey =>
    \/ page.config = Presets[page.key]
    \/ page.config = Base(Web)
    \/ \E row, other \in InForceSince(page.at - TTL + 1) : row # other
    \/ stored \in Rows

ConfigurationIsCurrent == CacheIsCurrent /\ PageAgrees
=============================================================================
