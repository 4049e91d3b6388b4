---------------------------- MODULE CampaignImport ----------------------------
(***************************************************************************)
(* The base of campaigns under several operators: the import of a file     *)
(* into a new or an existing batch (one transaction), the removal of a     *)
(* link whose installment was not found, the renaming of a batch and the   *)
(* deletion of batches and campaigns.  Statements of PostgreSQL at READ    *)
(* COMMITTED: each reads what is committed when it begins, a row lock is   *)
(* held until the end of the transaction and a waiting update goes on with *)
(* what its statement had already read.                                    *)
(*                                                                         *)
(*   campaigns  state of each campaign                                     *)
(*   batches    state, campaign, name and total_records of each batch      *)
(*   types      installment_type of each canonical installment             *)
(*   links      links of the batches, with the type their file gave        *)
(*   tx         the open transaction of each operator                      *)
(*   begun      requests so far (bound)                                    *)
(*                                                                         *)
(* Amounts and dates of the links are in CanonicalInstallment, the queue   *)
(* that a removal feeds in BatchJobService.  Members are never deleted, so *)
(* that an import finds or creates them; a missing one is locked with its  *)
(* installment.                                                            *)
(***************************************************************************)
EXTENDS Naturals, FiniteSets

CONSTANTS
  Operators, Campaigns, Batches, Names,
  Keys,      \* canonical installments, <<associate, installment>>
  Types,     \* clinico, orto
  Files,     \* the files an operator may upload, sequences of rows
  Blank,      \* an empty cell, no type
  MaxBegun   \* bound: requests

VARIABLES campaigns, batches, types, links, tx, begun

vars == <<campaigns, batches, types, links, tx, begun>>

Row(member, code, priced, type) ==
  [member |-> member, code |-> code, priced |-> priced, type |-> type]

-----------------------------------------------------------------------------
(* imports.ts *)

Complete(row) ==
  row.member # Blank /\ row.code # Blank /\ row.priced /\ row.type # Blank

\* parseMemberFile: the lines that are imported; an installment code counts once
\* in a file, whoever its associate is.
Imports(file) ==
  {i \in DOMAIN file :
     /\ Complete(file[i])
     /\ \A j \in 1 .. i - 1 : Complete(file[j]) => file[j].code # file[i].code}

Key(row) == <<row.member, row.code>>

-----------------------------------------------------------------------------
(* Transactions *)

NoTx == [pc |-> "idle", campaign |-> Blank, batch |-> Blank, fresh |-> "nothing",
         name |-> Blank, file |-> <<>>, todo |-> {}, locked |-> {}, accepted |-> {},
         inserted |-> {}, removed |-> {}, count |-> 0]

Absent == [st |-> "absent", type |-> Blank]

Init ==
  /\ campaigns \in [Campaigns -> {"absent", "live"}]
  /\ batches = [b \in Batches |->
                  [st |-> "absent", campaign |-> Blank, name |-> Blank, total |-> 0]]
  /\ types \in [Keys -> Types \cup {Blank}]
  /\ links = [l \in Batches \X Keys |-> Absent]
  /\ tx = [o \in Operators |-> NoTx]
  /\ begun = 0

Call == begun < MaxBegun /\ begun' = begun + 1
Others(o) == Operators \ {o}

LiveBatches(c) == {b \in Batches : batches[b].st = "live" /\ batches[b].campaign = c}

\* Mutant: the names are compared without a lock.
NoNameLock(c) == TRUE

\* pg_advisory_xact_lock(20260903, campaign)
NameLockFree(c) == \A p \in Operators : tx[p].fresh = "nothing" \/ tx[p].campaign # c

\* The check of the route and of the trigger campaign_batches_active_name_guard.
NameIsTaken(c, b, n) == \E other \in LiveBatches(c) \ {b} : batches[other].name = n

Begun(o, c, b, fresh, n, file) ==
  tx' = [tx EXCEPT ![o] = [NoTx EXCEPT !.pc = "classify", !.campaign = c, !.batch = b,
           !.fresh = fresh, !.name = n, !.file = file, !.todo = Imports(file)]]

\* POST importar-v2 into a batch that the operator chose.
ImportIntoBatch(o) ==
  /\ tx[o] = NoTx /\ Call
  /\ \E c \in Campaigns, file \in Files : \E b \in LiveBatches(c) :
       Imports(file) # {} /\ Begun(o, c, b, "nothing", Blank, file)
  /\ UNCHANGED <<campaigns, batches, types, links>>

\* An id that no batch has had.
Unused(b) == batches[b].st = "absent" /\ \A p \in Operators : tx[p].batch # b

\* ... into a new batch, of a campaign that may be new.  Nobody sees what is
\* new before the commit.
ImportIntoNew(o) ==
  /\ tx[o] = NoTx /\ Call
  /\ \E c \in Campaigns, b \in Batches, n \in Names, file \in Files :
       /\ Imports(file) # {} /\ Unused(b)
       /\ \/ /\ campaigns[c] = "live" /\ NameLockFree(c) /\ ~NameIsTaken(c, b, n)
             /\ Begun(o, c, b, "batch", n, file)
          \/ /\ campaigns[c] = "absent" /\ \A p \in Operators : tx[p].campaign # c
             /\ Begun(o, c, b, "campaign", n, file)
  /\ UNCHANGED <<campaigns, batches, types, links>>

Locked(o, key) == \E p \in Others(o) : key \in tx[p].locked

\* The line whose turn it is.
IsNext(o, i) == i \in tx[o].todo /\ \A j \in tx[o].todo : i <= j
KeyOf(o, i) == Key(tx[o].file[i])

\* Mutant: do update set installment_type without its where.
AcceptsAny(key, type) == TRUE

\* on conflict do update ... where installment_type is null or the same
Accepts(key, type) == types[key] \in {Blank, type}

\* The upsert locks the installments in the order of the file, accepted or not.
ClassifyRow(o) ==
  /\ tx[o].pc = "classify"
  /\ \E i \in tx[o].todo :
       /\ IsNext(o, i) /\ ~Locked(o, KeyOf(o, i))
       /\ tx' = [tx EXCEPT
            ![o].todo = @ \ {i},
            ![o].locked = @ \cup {KeyOf(o, i)},
            ![o].accepted = IF Accepts(KeyOf(o, i), tx[o].file[i].type) THEN @ \cup {i} ELSE @]
  /\ UNCHANGED <<campaigns, batches, types, links, begun>>

\* The foreign keys of the links.
BatchIsThere(o) == tx[o].fresh # "nothing" \/ batches[tx[o].batch].st = "live"
CampaignIsThere(o) == tx[o].fresh = "campaign" \/ campaigns[tx[o].campaign] = "live"

LinkOf(o, i) == <<tx[o].batch, KeyOf(o, i)>>

\* on conflict (batch_id, member_id, target_installment_id) do nothing, also
\* for a link that was removed.
InsertLinks(o) ==
  /\ tx[o].pc = "classify" /\ tx[o].todo = {} /\ BatchIsThere(o) /\ CampaignIsThere(o)
  /\ LET new == {i \in tx[o].accepted : links[LinkOf(o, i)].st = "absent"}
     IN tx' = [tx EXCEPT ![o].inserted = new,
                         ![o].pc = IF new = {} THEN "commit" ELSE "count"]
  /\ UNCHANGED <<campaigns, batches, types, links, begun>>

\* DELETE associados/[id]: a link whose installment was not found.
RemoveLink(o) ==
  /\ tx[o] = NoTx /\ Call
  /\ \E b \in Batches, k \in Keys :
       /\ links[b, k].st = "live"
       /\ \A p \in Operators : <<b, k>> \notin tx[p].removed
       /\ tx' = [tx EXCEPT ![o] = [NoTx EXCEPT !.pc = "count", !.batch = b,
                   !.campaign = batches[b].campaign, !.removed = {<<b, k>>}]]
  /\ UNCHANGED <<campaigns, batches, types, links>>

Listed(b) == {k \in Keys : links[b, k].st = "live"}

\* recalculate_batch_totals: the statement reads the links that are committed
\* and those of its own transaction ...
CountTotals(o) ==
  /\ tx[o].pc = "count"
  /\ tx' = [tx EXCEPT ![o].pc = "counted",
       ![o].count = Cardinality({k \in Listed(tx[o].batch) : <<tx[o].batch, k>> \notin tx[o].removed})
                      + Cardinality(tx[o].inserted)]
  /\ UNCHANGED <<campaigns, batches, types, links, begun>>

RowLocked(o, b) == \E p \in Others(o) : tx[p].pc = "written" /\ tx[p].batch = b

\* ... and writes what it read when the row of the batch is free.
WriteTotals(o) ==
  /\ tx[o].pc = "counted" /\ ~RowLocked(o, tx[o].batch)
  /\ tx' = [tx EXCEPT ![o].pc = "written"]
  /\ UNCHANGED <<campaigns, batches, types, links, begun>>

InPart(o) == {LinkOf(o, i) : i \in tx[o].inserted}
Typed(o, k) == {tx[o].file[i].type : i \in {i \in tx[o].accepted : KeyOf(o, i) = k}}
TypeOf(o, k) == CHOOSE t \in Typed(o, k) : TRUE

\* A new batch without a link is taken back, with its campaign.
Commit(o) ==
  LET t == tx[o]
      kept == t.inserted # {}
  IN /\ t.pc \in {"written", "commit"}
     /\ campaigns' = [campaigns EXCEPT
          ![t.campaign] = IF kept /\ t.fresh = "campaign" THEN "live" ELSE @]
     /\ batches' = [batches EXCEPT ![t.batch] =
          IF t.pc = "commit" THEN @
          ELSE IF t.fresh = "nothing" THEN [@ EXCEPT !.total = t.count]
          ELSE [st |-> "live", campaign |-> t.campaign, name |-> t.name, total |-> t.count]]
     /\ types' = [k \in Keys |-> IF Typed(o, k) = {} THEN types[k] ELSE TypeOf(o, k)]
     /\ links' = [l \in DOMAIN links |->
          IF l \in InPart(o) THEN [st |-> "live", type |-> TypeOf(o, l[2])]
          ELSE IF l \in t.removed THEN [links[l] EXCEPT !.st = "removed"]
          ELSE links[l]]
     /\ tx' = [tx EXCEPT ![o] = NoTx]
     /\ UNCHANGED begun

RolledBack(o) ==
  tx' = [tx EXCEPT ![o] = NoTx] /\ UNCHANGED <<campaigns, batches, types, links, begun>>

\* The batch was deleted: the foreign key refuses the links.
Refused(o) ==
  /\ tx[o].pc = "classify" /\ tx[o].todo = {} /\ ~(BatchIsThere(o) /\ CampaignIsThere(o))
  /\ RolledBack(o)

\* Two imports with their rows in another order; PostgreSQL cancels one.
Waits(o, p) ==
  tx[o].pc = "classify" /\ \E i \in tx[o].todo : IsNext(o, i) /\ KeyOf(o, i) \in tx[p].locked

\* Mutant: nobody looks for a deadlock.
NeverBroken(o) == FALSE

Broken(o) == \E p \in Others(o) : Waits(o, p) /\ Waits(p, o)
Deadlock(o) == Broken(o) /\ RolledBack(o)

\* The connection or the server is lost.
Lost(o) == tx[o] # NoTx /\ RolledBack(o)

-----------------------------------------------------------------------------
(* Requests of one statement *)

\* PATCH lotes/[id]
RenameBatch ==
  /\ Call
  /\ \E c \in Campaigns, n \in Names : \E b \in LiveBatches(c) :
       /\ NameLockFree(c) /\ ~NameIsTaken(c, b, n)
       /\ \A p \in Operators : ~(tx[p].pc = "written" /\ tx[p].batch = b)
       /\ batches' = [batches EXCEPT ![b].name = n]
  /\ UNCHANGED <<campaigns, types, links, tx>>

\* A transaction with rows that refer to the batch or the campaign.
Holds(p) == tx[p].pc \in {"count", "counted", "written"}

Deleted(gone) ==
  /\ batches' = [b \in Batches |-> IF b \in gone
                                   THEN [batches[b] EXCEPT !.st = "deleted"] ELSE batches[b]]
  /\ links' = [l \in DOMAIN links |-> IF l[1] \in gone THEN Absent ELSE links[l]]

\* DELETE lotes/[id] and lotes/[id]/excluir, with what refers to the batch.
DeleteBatch ==
  /\ Call
  /\ \E c \in Campaigns : \E b \in LiveBatches(c) :
       (\A p \in Operators : ~(Holds(p) /\ tx[p].batch = b)) /\ Deleted({b})
  /\ UNCHANGED <<campaigns, types, tx>>

\* DELETE campanhas/[id]
DeleteCampaign ==
  /\ Call
  /\ \E c \in Campaigns :
       /\ campaigns[c] = "live"
       /\ \A p \in Operators : tx[p].campaign = c => tx[p].fresh = "nothing" /\ ~Holds(p)
       /\ campaigns' = [campaigns EXCEPT ![c] = "deleted"]
       /\ Deleted(LiveBatches(c))
  /\ UNCHANGED <<types, tx>>

Statement(o) ==
  \/ ClassifyRow(o) \/ InsertLinks(o) \/ CountTotals(o) \/ WriteTotals(o)
  \/ Commit(o) \/ Refused(o) \/ Deadlock(o)

Next ==
  \/ \E o \in Operators :
       ImportIntoBatch(o) \/ ImportIntoNew(o) \/ RemoveLink(o) \/ Statement(o) \/ Lost(o)
  \/ RenameBatch \/ DeleteBatch \/ DeleteCampaign

Spec == Init /\ [][Next]_vars

-----------------------------------------------------------------------------
(* Properties *)

\* Two batches of a campaign never have one name, however imports and
\* renamings meet (028_guard_duplicate_campaign_batch_names.sql:1-3).
NamesAreUnique ==
  \A c \in Campaigns : \A a, b \in LiveBatches(c) : a # b => batches[a].name # batches[b].name

\* An installment has one classification: every link was imported with it,
\* also when two files classify it at the same time.
LinksMatchClassification ==
  \A b \in Batches, k \in Keys : links[b, k].st # "absent" => links[b, k].type = types[k]

\* What imports, renamings and deletions leave behind is consistent.
BatchesAgree == NamesAreUnique /\ LinksMatchClassification

\* Requests that lock the same rows in opposite orders do not wait for one
\* another: one of those that are open can always go on.
SomeoneGoesOn ==
  (\E o \in Operators : tx[o] # NoTx) => \E o \in Operators : ENABLED Statement(o)

\* What the list of batches shows is what is in them once nobody is at work.
\* It does not hold: a total that waited for the row of the batch was counted
\* before the other transaction, whose links it does not have.
TotalsCount ==
  \A b \in Batches :
    batches[b].st = "live" /\ (\A o \in Operators : tx[o].batch # b)
      => batches[b].total = Cardinality(Listed(b))
=============================================================================
