-------------------------- MODULE CampaignImportProofs --------------------------
(***************************************************************************)
(* Proofs about CampaignImport, for any number of operators, campaigns,    *)
(* batches, installments and requests, and any files.                      *)
(***************************************************************************)
EXTENDS CampaignImport, TLAPS

-----------------------------------------------------------------------------
(* The invariant *)

Starting(o) == tx[o].fresh # "nothing"

TxFields == {"pc", "campaign", "batch", "fresh", "name", "file", "todo", "locked",
             "accepted", "inserted", "removed", "count"}

ShapesOK ==
  /\ DOMAIN campaigns = Campaigns /\ DOMAIN batches = Batches
  /\ DOMAIN types = Keys /\ DOMAIN links = Batches \X Keys /\ DOMAIN tx = Operators
  /\ \A o \in Operators : TxFields \subseteq DOMAIN tx[o]
  /\ \A b \in Batches : {"st", "campaign", "name", "total"} \subseteq DOMAIN batches[b]
  /\ \A l \in Batches \X Keys : {"st", "type"} \subseteq DOMAIN links[l]

\* What an import has accepted is locked, has a type, and found no other.
LinesOK(o) ==
  /\ tx[o].todo \subseteq Imports(tx[o].file)
  /\ \A i \in tx[o].accepted :
       /\ KeyOf(o, i) \in tx[o].locked
       /\ tx[o].file[i].type # Blank
       /\ KeyOf(o, i) \in Keys => Accepts(KeyOf(o, i), tx[o].file[i].type)
  /\ tx[o].inserted \subseteq tx[o].accepted

\* A transaction that holds rows of an old batch keeps it from being deleted.
TargetOK(o) ==
  /\ Holds(o) /\ Starting(o) => tx[o].inserted # {}
  /\ tx[o].pc = "commit" => tx[o].inserted = {}
  /\ tx[o].removed # {} => Holds(o) /\ ~Starting(o)
  /\ \A l \in tx[o].removed :
       l \in Batches \X Keys /\ l[1] = tx[o].batch /\ links[l].st # "absent"
  /\ ~Starting(o) /\ tx[o].pc # "idle" =>
       /\ tx[o].batch \in Batches
       /\ batches[tx[o].batch].st # "absent"
       /\ batches[tx[o].batch].campaign = tx[o].campaign
       /\ Holds(o) => batches[tx[o].batch].st = "live"

\* A new batch is nobody else's; a campaign has one, with a name of its own.
StartOK(o) ==
  Starting(o) =>
    /\ tx[o].fresh \in {"batch", "campaign"}
    /\ tx[o].campaign \in Campaigns /\ tx[o].batch \in Batches
    /\ batches[tx[o].batch].st = "absent"
    /\ tx[o].fresh = "batch" => campaigns[tx[o].campaign] # "absent"
    /\ \A x \in LiveBatches(tx[o].campaign) : batches[x].name # tx[o].name

Apart(o, p) ==
  /\ tx[o].locked \cap tx[p].locked = {}
  /\ Starting(o) /\ tx[p].pc # "idle" => tx[p].batch # tx[o].batch
  /\ Starting(o) /\ Starting(p) => tx[p].campaign # tx[o].campaign

TransactionsOK ==
  /\ \A o \in Operators : LinesOK(o) /\ TargetOK(o) /\ StartOK(o)
  /\ \A o, p \in Operators : o # p => Apart(o, p)

\* A link has a type and a batch that is there.
LinksOK ==
  \A l \in Batches \X Keys : links[l].st # "absent" =>
    /\ links[l].type = types[l[2]] /\ links[l].type # Blank
    /\ batches[l[1]].st = "live"

BatchesOK ==
  \A b \in Batches : batches[b].st = "live" =>
    batches[b].campaign \in Campaigns /\ campaigns[batches[b].campaign] # "absent"

ImportInv == ShapesOK /\ TransactionsOK /\ LinksOK /\ BatchesOK /\ NamesAreUnique

LEMMA ImportInit == Init => ImportInv
<1> SUFFICES ASSUME Init PROVE ImportInv
  OBVIOUS
<1>1. ShapesOK
  BY DEF Init, ShapesOK, NoTx, TxFields, Absent
<1>2. \A o \in Operators : tx[o] = NoTx
  BY DEF Init
<1>3. ASSUME NEW o \in Operators PROVE LinesOK(o) /\ TargetOK(o) /\ StartOK(o)
  BY <1>2 DEF NoTx, LinesOK, TargetOK, StartOK, Starting, Holds
<1>4. \A o, p \in Operators : Apart(o, p)
  BY <1>2 DEF NoTx, Apart, Starting
<1>5. LinksOK /\ BatchesOK /\ NamesAreUnique
  BY DEF Init, LinksOK, BatchesOK, NamesAreUnique, LiveBatches, Absent
<1> QED BY <1>1, <1>3, <1>4, <1>5 DEF ImportInv, TransactionsOK

\* Transactions that only move on touch the tables at their commit: an action
\* of one operator keeps the invariant if it keeps what is said of that one.
LEMMA TxMoves ==
  ASSUME ImportInv, NEW o \in Operators, NEW t, tx' = [tx EXCEPT ![o] = t],
         TxFields \subseteq DOMAIN t,
         UNCHANGED <<campaigns, batches, types, links>>,
         LinesOK(o)', TargetOK(o)', StartOK(o)',
         \A p \in Operators \ {o} : Apart(o, p)' /\ Apart(p, o)'
  PROVE  ImportInv'
<1>1. \A p \in Operators \ {o} : tx'[p] = tx[p]
  BY DEF ImportInv, ShapesOK
<1>2. tx'[o] = t
  BY DEF ImportInv, ShapesOK
<1>3. ShapesOK'
  BY <1>1, <1>2 DEF ImportInv, ShapesOK
<1>4. ASSUME NEW p \in Operators \ {o} PROVE LinesOK(p)' /\ TargetOK(p)' /\ StartOK(p)'
  BY <1>1 DEF ImportInv, TransactionsOK, LinesOK, TargetOK, StartOK, Starting, Holds, Accepts,
              LiveBatches, KeyOf
<1>5. ASSUME NEW p \in Operators \ {o}, NEW q \in Operators \ {o}, p # q PROVE Apart(p, q)'
  BY <1>1, <1>5 DEF ImportInv, TransactionsOK, Apart, Starting
<1>6. TransactionsOK'
  BY <1>4, <1>5 DEF TransactionsOK
<1>7. LinksOK' /\ BatchesOK' /\ NamesAreUnique'
  BY DEF ImportInv, LinksOK, BatchesOK, NamesAreUnique, LiveBatches
<1> QED BY <1>3, <1>6, <1>7 DEF ImportInv

\* A transaction that is rolled back leaves nothing.
LEMMA RollsBack == ASSUME ImportInv, NEW o \in Operators, RolledBack(o) PROVE ImportInv'
<1>1. tx' = [tx EXCEPT ![o] = NoTx] /\ UNCHANGED <<campaigns, batches, types, links>>
  BY DEF RolledBack
<1>2. tx'[o] = NoTx /\ \A p \in Operators \ {o} : tx'[p] = tx[p]
  BY <1>1 DEF ImportInv, ShapesOK
<1>4. LinesOK(o)' /\ TargetOK(o)' /\ StartOK(o)'
  BY <1>2 DEF NoTx, LinesOK, TargetOK, StartOK, Starting, Holds
<1>5. ASSUME NEW p \in Operators \ {o} PROVE Apart(o, p)' /\ Apart(p, o)'
  BY <1>2 DEF NoTx, Apart, Starting
<1>6. TxFields \subseteq DOMAIN NoTx
  BY DEF TxFields, NoTx
<1> QED BY <1>1, <1>4, <1>5, <1>6, TxMoves
-----------------------------------------------------------------------------
(* Requests begin *)

LEMMA ImportIntoBatchOK ==
  ASSUME ImportInv, NEW o \in Operators, ImportIntoBatch(o) PROVE ImportInv'
<1>1. PICK c \in Campaigns, file \in Files : \E b \in LiveBatches(c) : Begun(o, c, b, "nothing", Blank, file)
  BY DEF ImportIntoBatch
<1>2. PICK b \in LiveBatches(c) : Begun(o, c, b, "nothing", Blank, file)
  BY <1>1
<1> DEFINE t == [NoTx EXCEPT !.pc = "classify", !.campaign = c, !.batch = b, !.fresh = "nothing",
                             !.name = Blank, !.file = file, !.todo = Imports(file)]
<1>3. tx' = [tx EXCEPT ![o] = t] /\ UNCHANGED <<campaigns, batches, types, links>>
  BY <1>2 DEF Begun, ImportIntoBatch
<1>4. /\ TxFields \subseteq DOMAIN t
      /\ t.pc = "classify" /\ t.campaign = c /\ t.batch = b /\ t.fresh = "nothing" /\ t.file = file
      /\ t.todo = Imports(file) /\ t.locked = {} /\ t.accepted = {} /\ t.inserted = {}
      /\ t.removed = {}
  BY DEF TxFields, NoTx
<1>5. b \in Batches /\ batches[b].st = "live" /\ batches[b].campaign = c
  BY DEF LiveBatches
<1> HIDE DEF t
<1>6. tx'[o] = t /\ \A p \in Operators \ {o} : tx'[p] = tx[p]
  BY <1>3 DEF ImportInv, ShapesOK
<1>7. LinesOK(o)' /\ TargetOK(o)' /\ StartOK(o)'
  BY <1>3, <1>4, <1>5, <1>6 DEF LinesOK, TargetOK, StartOK, Starting, Holds
<1>8. ASSUME NEW p \in Operators \ {o} PROVE Apart(o, p)' /\ Apart(p, o)'
  <2>1. Starting(p) => batches[tx[p].batch].st = "absent"
    BY DEF ImportInv, TransactionsOK, StartOK
  <2> QED BY <1>4, <1>5, <1>6, <2>1 DEF Apart, Starting
<1> QED BY <1>3, <1>4, <1>7, <1>8, TxMoves

\* The lock of the names keeps a second import out of the campaign; a batch
\* that is new has an id that nobody uses.
LEMMA ImportIntoNewOK ==
  ASSUME ImportInv, NEW o \in Operators, ImportIntoNew(o) PROVE ImportInv'
<1>1. PICK c \in Campaigns, b \in Batches, n \in Names, file \in Files :
        /\ Unused(b)
        /\ \/ /\ campaigns[c] = "live" /\ NameLockFree(c) /\ ~NameIsTaken(c, b, n)
              /\ Begun(o, c, b, "batch", n, file)
           \/ /\ campaigns[c] = "absent" /\ \A p \in Operators : tx[p].campaign # c
              /\ Begun(o, c, b, "campaign", n, file)
  BY DEF ImportIntoNew
<1>2. PICK fresh \in {"batch", "campaign"} :
        /\ Begun(o, c, b, fresh, n, file)
        /\ fresh = "batch" => campaigns[c] = "live"
        /\ \A p \in Operators : Starting(p) => tx[p].campaign # c
        /\ fresh = "campaign" => campaigns[c] = "absent"
        /\ fresh = "batch" => ~NameIsTaken(c, b, n)
  BY <1>1 DEF NameLockFree, Starting
<1> DEFINE t == [NoTx EXCEPT !.pc = "classify", !.campaign = c, !.batch = b, !.fresh = fresh,
                             !.name = n, !.file = file, !.todo = Imports(file)]
<1>3. tx' = [tx EXCEPT ![o] = t] /\ UNCHANGED <<campaigns, batches, types, links>>
  BY <1>2 DEF Begun, ImportIntoNew
<1>4. /\ TxFields \subseteq DOMAIN t
      /\ t.pc = "classify" /\ t.campaign = c /\ t.batch = b /\ t.fresh = fresh /\ t.file = file
      /\ t.todo = Imports(file) /\ t.locked = {} /\ t.accepted = {} /\ t.inserted = {}
      /\ t.removed = {} /\ t.name = n
  BY DEF TxFields, NoTx
<1>5. batches[b].st = "absent" /\ \A p \in Operators : tx[p].batch # b
  BY <1>1 DEF Unused
<1> HIDE DEF t
<1>6. tx'[o] = t /\ \A p \in Operators \ {o} : tx'[p] = tx[p]
  BY <1>3 DEF ImportInv, ShapesOK
<1>7. \A x \in LiveBatches(c) : batches[x].name # n
  <2>1. CASE fresh = "campaign"
    BY <1>2, <2>1 DEF ImportInv, BatchesOK, LiveBatches
  <2>2. CASE fresh = "batch"
    BY <1>2, <1>5, <2>2 DEF NameIsTaken, LiveBatches
  <2> QED BY <2>1, <2>2
<1>8. LinesOK(o)' /\ TargetOK(o)'
  BY <1>3, <1>4, <1>6 DEF LinesOK, TargetOK, Starting, Holds
<1>9. StartOK(o)'
  BY <1>2, <1>3, <1>4, <1>5, <1>6, <1>7 DEF StartOK, Starting, LiveBatches
<1>10. ASSUME NEW p \in Operators \ {o} PROVE Apart(o, p)' /\ Apart(p, o)'
  BY <1>2, <1>4, <1>5, <1>6 DEF Apart, Starting
<1> QED BY <1>3, <1>4, <1>8, <1>9, <1>10, TxMoves

LEMMA RemoveLinkOK ==
  ASSUME ImportInv, NEW o \in Operators, RemoveLink(o) PROVE ImportInv'
<1>1. PICK b \in Batches, k \in Keys :
        /\ links[b, k].st = "live"
        /\ tx' = [tx EXCEPT ![o] = [NoTx EXCEPT !.pc = "count", !.batch = b,
                    !.campaign = batches[b].campaign, !.removed = {<<b, k>>}]]
  BY DEF RemoveLink
<1> DEFINE l == <<b, k>>
           t == [NoTx EXCEPT !.pc = "count", !.batch = b, !.campaign = batches[b].campaign,
                             !.removed = {l}]
<1>2. tx' = [tx EXCEPT ![o] = t] /\ UNCHANGED <<campaigns, batches, types, links>>
  BY <1>1 DEF RemoveLink
<1>3. /\ TxFields \subseteq DOMAIN t
      /\ t.pc = "count" /\ t.campaign = batches[b].campaign /\ t.batch = b /\ t.fresh = "nothing"
      /\ t.todo = {} /\ t.locked = {} /\ t.accepted = {} /\ t.inserted = {} /\ t.removed = {l}
  BY DEF TxFields, NoTx
<1> HIDE DEF t
<1>4. tx'[o] = t /\ \A p \in Operators \ {o} : tx'[p] = tx[p]
  BY <1>2 DEF ImportInv, ShapesOK
<1>0. l \in Batches \X Keys /\ l[1] = b /\ links[l].st = "live"
  BY <1>1
<1>5. batches[b].st = "live"
  BY <1>0 DEF ImportInv, LinksOK
<1> HIDE DEF l
<1>6. LinesOK(o)' /\ TargetOK(o)' /\ StartOK(o)'
  BY <1>0, <1>2, <1>3, <1>4, <1>5 DEF LinesOK, TargetOK, StartOK, Starting, Holds
<1>7. ASSUME NEW p \in Operators \ {o} PROVE Apart(o, p)' /\ Apart(p, o)'
  <2>1. Starting(p) => batches[tx[p].batch].st = "absent"
    BY DEF ImportInv, TransactionsOK, StartOK
  <2> QED BY <1>3, <1>4, <1>5, <2>1 DEF Apart, Starting
<1> QED BY <1>2, <1>3, <1>6, <1>7, TxMoves
-----------------------------------------------------------------------------
(* Statements *)

LEMMA ClassifyRowOK ==
  ASSUME ImportInv, NEW o \in Operators, ClassifyRow(o) PROVE ImportInv'
<1>1. PICK i \in tx[o].todo :
        /\ ~Locked(o, KeyOf(o, i))
        /\ tx' = [tx EXCEPT
             ![o].todo = @ \ {i},
             ![o].locked = @ \cup {KeyOf(o, i)},
             ![o].accepted = IF Accepts(KeyOf(o, i), tx[o].file[i].type) THEN @ \cup {i} ELSE @]
  BY DEF ClassifyRow
<1> DEFINE key == KeyOf(o, i)
           accepts == Accepts(key, tx[o].file[i].type)
           t == [tx[o] EXCEPT !.todo = @ \ {i}, !.locked = @ \cup {key},
                              !.accepted = IF accepts THEN @ \cup {i} ELSE @]
<1>0. o \in DOMAIN tx /\ TxFields \subseteq DOMAIN tx[o] /\ tx[o].pc = "classify"
      /\ LinesOK(o) /\ TargetOK(o) /\ StartOK(o)
  BY DEF ImportInv, ShapesOK, TransactionsOK, ClassifyRow
<1> HIDE DEF accepts, key
<1>2. tx' = [tx EXCEPT ![o] = t] /\ UNCHANGED <<campaigns, batches, types, links>>
  BY <1>0, <1>1 DEF ClassifyRow, TxFields, accepts, key
<1>3. /\ TxFields \subseteq DOMAIN t
      /\ t.pc = "classify" /\ t.campaign = tx[o].campaign /\ t.batch = tx[o].batch
      /\ t.fresh = tx[o].fresh /\ t.name = tx[o].name /\ t.file = tx[o].file
      /\ t.inserted = tx[o].inserted /\ t.removed = tx[o].removed
      /\ t.todo = tx[o].todo \ {i} /\ t.locked = tx[o].locked \cup {key}
      /\ t.accepted = IF accepts THEN tx[o].accepted \cup {i} ELSE tx[o].accepted
  BY <1>0 DEF TxFields
<1> HIDE DEF t
<1>4. tx'[o] = t /\ \A p \in Operators \ {o} : tx'[p] = tx[p]
  BY <1>2 DEF ImportInv, ShapesOK
<1>5. Complete(tx[o].file[i])
  BY <1>0 DEF LinesOK, Imports
<1>6. LinesOK(o)'
  <2>1. tx'[o].todo \subseteq Imports(tx'[o].file) /\ tx'[o].inserted \subseteq tx'[o].accepted
    BY <1>0, <1>3, <1>4 DEF LinesOK
  <2>2. \A j : KeyOf(o, j)' = KeyOf(o, j)
    BY <1>3, <1>4 DEF KeyOf
  <2>3. ASSUME NEW j \in t.accepted
        PROVE  /\ KeyOf(o, j) \in t.locked
               /\ tx[o].file[j].type # Blank
               /\ KeyOf(o, j) \in Keys => Accepts(KeyOf(o, j), tx[o].file[j].type)
    <3>1. CASE j \in tx[o].accepted
      BY <1>0, <1>3, <3>1 DEF LinesOK
    <3>2. CASE j = i /\ accepts
      BY <1>3, <1>5, <3>2 DEF accepts, key, Complete
    <3> QED BY <1>3, <3>1, <3>2
  <2> QED BY <1>2, <1>3, <1>4, <2>1, <2>2, <2>3 DEF LinesOK, Accepts
<1>7. TargetOK(o)' /\ StartOK(o)'
  BY <1>0, <1>2, <1>3, <1>4 DEF TargetOK, StartOK, Starting, Holds, LiveBatches
<1>8. ASSUME NEW p \in Operators \ {o} PROVE Apart(o, p)' /\ Apart(p, o)'
  <2>1. Apart(o, p) /\ Apart(p, o)
    BY DEF ImportInv, TransactionsOK
  <2>2. key \notin tx[p].locked
    BY <1>1 DEF Locked, Others, key
  <2> QED BY <1>0, <1>3, <1>4, <2>1, <2>2 DEF Apart, Starting
<1> QED BY <1>2, <1>3, <1>6, <1>7, <1>8, TxMoves

\* A statement that only moves on, and what it may set.
LEMMA MovesOn ==
  ASSUME ImportInv, NEW o \in Operators, NEW t, tx' = [tx EXCEPT ![o] = t],
         UNCHANGED <<campaigns, batches, types, links>>,
         TxFields \subseteq DOMAIN t,
         t.campaign = tx[o].campaign, t.batch = tx[o].batch, t.fresh = tx[o].fresh,
         t.name = tx[o].name, t.file = tx[o].file, t.todo = tx[o].todo, t.locked = tx[o].locked,
         t.accepted = tx[o].accepted, t.removed = tx[o].removed,
         t.inserted \subseteq t.accepted, tx[o].pc # "idle",
         TargetOK(o)'
  PROVE  ImportInv'
<1>1. tx'[o] = t /\ \A p \in Operators \ {o} : tx'[p] = tx[p]
  BY DEF ImportInv, ShapesOK
<1>2. LinesOK(o) /\ StartOK(o)
  BY DEF ImportInv, TransactionsOK
<1>3. LinesOK(o)' /\ StartOK(o)'
  BY <1>1, <1>2 DEF LinesOK, StartOK, Starting, LiveBatches, KeyOf, Accepts
<1>4. ASSUME NEW p \in Operators \ {o} PROVE Apart(o, p)' /\ Apart(p, o)'
  BY <1>1 DEF ImportInv, TransactionsOK, Apart, Starting
<1> QED BY <1>3, <1>4, TxMoves

LEMMA InsertLinksOK ==
  ASSUME ImportInv, NEW o \in Operators, InsertLinks(o) PROVE ImportInv'
<1> DEFINE new == {i \in tx[o].accepted : links[LinkOf(o, i)].st = "absent"}
           pc == IF new = {} THEN "commit" ELSE "count"
           t == [tx[o] EXCEPT !.inserted = new, !.pc = pc]
<1>0. /\ o \in DOMAIN tx /\ TxFields \subseteq DOMAIN tx[o] /\ tx[o].pc = "classify"
      /\ LinesOK(o) /\ TargetOK(o) /\ StartOK(o)
      /\ Starting(o) \/ batches[tx[o].batch].st = "live"
  BY DEF ImportInv, ShapesOK, TransactionsOK, InsertLinks, BatchIsThere, Starting
<1>1. tx' = [tx EXCEPT ![o].inserted = new, ![o].pc = pc]
      /\ UNCHANGED <<campaigns, batches, types, links>>
  BY DEF InsertLinks
<1>2. new \subseteq tx[o].accepted
  OBVIOUS
<1>3. pc \in {"commit", "count"} /\ (pc = "commit" <=> new = {})
  OBVIOUS
<1> HIDE DEF new, pc
<1>4. tx' = [tx EXCEPT ![o] = t]
  BY <1>0, <1>1 DEF TxFields
<1>5. /\ TxFields \subseteq DOMAIN t /\ t.campaign = tx[o].campaign /\ t.batch = tx[o].batch
      /\ t.fresh = tx[o].fresh /\ t.name = tx[o].name /\ t.file = tx[o].file
      /\ t.todo = tx[o].todo /\ t.locked = tx[o].locked
      /\ t.accepted = tx[o].accepted /\ t.removed = tx[o].removed
      /\ t.inserted = new /\ t.pc = pc
  BY <1>0 DEF TxFields
<1> HIDE DEF t
<1>6. tx'[o] = t
  BY <1>0, <1>4
<1>7. TargetOK(o)'
  BY <1>0, <1>1, <1>3, <1>5, <1>6 DEF TargetOK, Starting, Holds
<1> QED BY <1>0, <1>1, <1>2, <1>4, <1>5, <1>7, MovesOn

LEMMA TotalsOK ==
  ASSUME ImportInv, NEW o \in Operators, CountTotals(o) \/ WriteTotals(o) PROVE ImportInv'
<1>0. /\ o \in DOMAIN tx /\ TxFields \subseteq DOMAIN tx[o] /\ tx[o].pc \in {"count", "counted"}
      /\ LinesOK(o) /\ TargetOK(o)
      /\ UNCHANGED <<campaigns, batches, types, links>>
  BY DEF ImportInv, ShapesOK, TransactionsOK, CountTotals, WriteTotals
<1>a. PICK pc \in {"counted", "written"} :
        \E n : tx' = [tx EXCEPT ![o] = [tx[o] EXCEPT !.pc = pc, !.count = n]]
  <2>1. CASE CountTotals(o)
    BY <1>0, <2>1 DEF CountTotals, TxFields
  <2>2. CASE WriteTotals(o)
    <3>1. tx' = [tx EXCEPT ![o] = [tx[o] EXCEPT !.pc = "written", !.count = tx[o].count]]
      BY <1>0, <2>2 DEF WriteTotals, TxFields
    <3> QED BY <3>1
  <2> QED BY <2>1, <2>2
<1>1. PICK n : tx' = [tx EXCEPT ![o] = [tx[o] EXCEPT !.pc = pc, !.count = n]]
  BY <1>a
<1> DEFINE t == [tx[o] EXCEPT !.pc = pc, !.count = n]
<1>2. /\ TxFields \subseteq DOMAIN t /\ t.campaign = tx[o].campaign /\ t.batch = tx[o].batch
      /\ t.fresh = tx[o].fresh /\ t.name = tx[o].name /\ t.file = tx[o].file
      /\ t.todo = tx[o].todo /\ t.locked = tx[o].locked
      /\ t.accepted = tx[o].accepted /\ t.removed = tx[o].removed
      /\ t.inserted = tx[o].inserted /\ t.pc = pc
  BY <1>0 DEF TxFields
<1> HIDE DEF t
<1>3. tx' = [tx EXCEPT ![o] = t]
  BY <1>1 DEF t
<1>4. tx'[o] = t
  BY <1>0, <1>3
<1>5. TargetOK(o)'
  BY <1>0, <1>2, <1>4 DEF TargetOK, Starting, Holds
<1>6. t.inserted \subseteq t.accepted
  BY <1>0, <1>2 DEF LinesOK
<1> QED BY <1>0, <1>2, <1>3, <1>5, <1>6, MovesOn
-----------------------------------------------------------------------------
(* The commit *)

\* A classification that is written was empty, and its line was locked.
LEMMA TypesWritten ==
  ASSUME ImportInv, NEW o \in Operators, Commit(o), NEW k \in Keys
  PROVE  /\ types'[k] # types[k] => types[k] = Blank /\ k \in tx[o].locked
         /\ Typed(o, k) # {} => types'[k] = TypeOf(o, k) /\ types'[k] # Blank
<1>0. LinesOK(o)
  BY DEF ImportInv, TransactionsOK
<1>1. types'[k] = IF Typed(o, k) = {} THEN types[k] ELSE TypeOf(o, k)
  BY DEF Commit
<1>2. CASE Typed(o, k) = {}
  BY <1>1, <1>2
<1>3. CASE Typed(o, k) # {}
  <2>1. TypeOf(o, k) \in Typed(o, k)
    BY <1>3 DEF TypeOf
  <2>2. PICK i \in tx[o].accepted : KeyOf(o, i) = k /\ TypeOf(o, k) = tx[o].file[i].type
    BY <2>1 DEF Typed
  <2>3. k \in tx[o].locked /\ TypeOf(o, k) # Blank /\ types[k] \in {Blank, TypeOf(o, k)}
    BY <1>0, <2>2 DEF LinesOK, Accepts
  <2> QED BY <1>1, <1>3, <2>3
<1> QED BY <1>2, <1>3

LEMMA LinksWritten ==
  ASSUME ImportInv, NEW o \in Operators, Commit(o), NEW l \in Batches \X Keys
  PROVE  \/ /\ links'[l].st = "live" /\ links'[l].type = types'[l[2]] /\ links'[l].type # Blank
            /\ l[1] = tx[o].batch /\ tx[o].pc = "written"
         \/ links[l].st # "absent" /\ links'[l].type = links[l].type /\ links'[l].st # "absent"
         \/ links'[l] = links[l]
<1>0. LinesOK(o) /\ TargetOK(o) /\ DOMAIN links = Batches \X Keys
      /\ {"st", "type"} \subseteq DOMAIN links[l]
  BY DEF ImportInv, TransactionsOK, ShapesOK
<1>1. links'[l] = IF l \in InPart(o) THEN [st |-> "live", type |-> TypeOf(o, l[2])]
                  ELSE IF l \in tx[o].removed THEN [links[l] EXCEPT !.st = "removed"]
                  ELSE links[l]
  BY <1>0 DEF Commit
<1>2. CASE l \in InPart(o)
  <2>1. PICK i \in tx[o].inserted : l = LinkOf(o, i)
    BY <1>2 DEF InPart
  <2>2. l[1] = tx[o].batch /\ l[2] = KeyOf(o, i)
    BY <2>1 DEF LinkOf
  <2>3. Typed(o, l[2]) # {}
    BY <1>0, <2>2 DEF Typed, LinesOK
  <2>4. tx[o].pc = "written"
    BY <1>0, <2>1 DEF Commit, TargetOK
  <2>5. types'[l[2]] = TypeOf(o, l[2]) /\ types'[l[2]] # Blank
    BY <2>3, TypesWritten
  <2> QED BY <1>1, <1>2, <2>2, <2>4, <2>5
<1>3. CASE l \notin InPart(o) /\ l \in tx[o].removed
  BY <1>0, <1>1, <1>3 DEF TargetOK
<1>4. CASE l \notin InPart(o) /\ l \notin tx[o].removed
  BY <1>1, <1>4
<1> QED BY <1>2, <1>3, <1>4

NewBatch(o, b) == b = tx[o].batch /\ Starting(o) /\ tx[o].pc = "written"

LEMMA BatchesWritten ==
  ASSUME ImportInv, NEW o \in Operators, Commit(o), NEW b \in Batches
  PROVE  /\ NewBatch(o, b) => /\ batches'[b].st = "live" /\ batches'[b].campaign = tx[o].campaign
                              /\ batches'[b].name = tx[o].name
         /\ ~NewBatch(o, b) => /\ batches'[b].st = batches[b].st
                               /\ batches'[b].campaign = batches[b].campaign
                               /\ batches'[b].name = batches[b].name
         /\ {"st", "campaign", "name", "total"} \subseteq DOMAIN batches'[b]
<1>0. DOMAIN batches = Batches /\ {"st", "campaign", "name", "total"} \subseteq DOMAIN batches[b]
  BY DEF ImportInv, ShapesOK
<1>1. tx[o].pc \in {"written", "commit"}
      /\ batches' = [batches EXCEPT ![tx[o].batch] =
          IF tx[o].pc = "commit" THEN @
          ELSE IF tx[o].fresh = "nothing" THEN [@ EXCEPT !.total = tx[o].count]
          ELSE [st |-> "live", campaign |-> tx[o].campaign, name |-> tx[o].name,
                total |-> tx[o].count]]
  BY DEF Commit
<1>2. CASE b # tx[o].batch
  BY <1>0, <1>1, <1>2 DEF NewBatch
<1>3. CASE b = tx[o].batch /\ tx[o].pc = "commit"
  BY <1>0, <1>1, <1>3 DEF NewBatch
<1>4. CASE b = tx[o].batch /\ tx[o].pc = "written" /\ ~Starting(o)
  BY <1>0, <1>1, <1>4 DEF NewBatch, Starting
<1>5. CASE b = tx[o].batch /\ tx[o].pc = "written" /\ Starting(o)
  BY <1>0, <1>1, <1>5 DEF NewBatch, Starting
<1> QED BY <1>1, <1>2, <1>3, <1>4, <1>5

LEMMA CommitOK == ASSUME ImportInv, NEW o \in Operators, Commit(o) PROVE ImportInv'
<1>0. /\ LinesOK(o) /\ TargetOK(o) /\ StartOK(o) /\ tx[o].pc \in {"written", "commit"}
      /\ tx' = [tx EXCEPT ![o] = NoTx]
  BY DEF ImportInv, TransactionsOK, Commit
<1>1. tx'[o] = NoTx /\ \A p \in Operators \ {o} : tx'[p] = tx[p]
  BY <1>0 DEF ImportInv, ShapesOK
<1>2. ShapesOK'
  <2>1. DOMAIN campaigns' = Campaigns /\ DOMAIN batches' = Batches /\ DOMAIN types' = Keys
        /\ DOMAIN links' = Batches \X Keys /\ DOMAIN tx' = Operators
    BY DEF ImportInv, ShapesOK, Commit
  <2>2. \A p \in Operators : TxFields \subseteq DOMAIN tx'[p]
    BY <1>1 DEF ImportInv, ShapesOK, TxFields, NoTx
  <2>3. \A b \in Batches : {"st", "campaign", "name", "total"} \subseteq DOMAIN batches'[b]
    BY BatchesWritten
  <2>4. ASSUME NEW l \in Batches \X Keys PROVE {"st", "type"} \subseteq DOMAIN links'[l]
    <3>1. links'[l] = IF l \in InPart(o) THEN [st |-> "live", type |-> TypeOf(o, l[2])]
                      ELSE IF l \in tx[o].removed THEN [links[l] EXCEPT !.st = "removed"]
                      ELSE links[l]
      BY DEF Commit, ImportInv, ShapesOK
    <3>2. {"st", "type"} \subseteq DOMAIN links[l]
      BY DEF ImportInv, ShapesOK
    <3> QED BY <3>1, <3>2
  <2> QED BY <2>1, <2>2, <2>3, <2>4 DEF ShapesOK
<1>3. \A c \in Campaigns : campaigns[c] # "absent" => campaigns'[c] # "absent"
  BY DEF Commit, ImportInv, ShapesOK
<1>4. ASSUME NEW b \in Batches, NewBatch(o, b)
      PROVE  tx[o].campaign \in Campaigns /\ campaigns'[tx[o].campaign] # "absent"
  <2>1. tx[o].inserted # {}
    BY <1>0, <1>4 DEF TargetOK, NewBatch, Holds
  <2>2. tx[o].campaign \in Campaigns /\ tx[o].fresh \in {"batch", "campaign"}
        /\ (tx[o].fresh = "batch" => campaigns[tx[o].campaign] # "absent")
    BY <1>0, <1>4 DEF StartOK, NewBatch
  <2>3. tx[o].fresh = "campaign" => campaigns'[tx[o].campaign] = "live"
    BY <2>1, <2>2 DEF Commit, ImportInv, ShapesOK
  <2> QED BY <1>3, <2>2, <2>3
<1>5. BatchesOK'
  <2> SUFFICES ASSUME NEW b \in Batches, batches'[b].st = "live"
               PROVE  batches'[b].campaign \in Campaigns /\ campaigns'[batches'[b].campaign] # "absent"
    BY DEF BatchesOK
  <2>1. CASE NewBatch(o, b)
    BY <1>4, <2>1, BatchesWritten
  <2>2. CASE ~NewBatch(o, b)
    BY <1>3, <2>2, BatchesWritten DEF ImportInv, BatchesOK
  <2> QED BY <2>1, <2>2
<1>6. LinksOK'
  <2> SUFFICES ASSUME NEW l \in Batches \X Keys, links'[l].st # "absent"
               PROVE  /\ links'[l].type = types'[l[2]] /\ links'[l].type # Blank
                      /\ batches'[l[1]].st = "live"
    BY DEF LinksOK
  <2>0. l[1] \in Batches /\ l[2] \in Keys
    OBVIOUS
  <2>1. CASE /\ links'[l].st = "live" /\ links'[l].type = types'[l[2]] /\ links'[l].type # Blank
             /\ l[1] = tx[o].batch /\ tx[o].pc = "written"
    <3>1. CASE Starting(o)
      BY <2>0, <2>1, <3>1, BatchesWritten DEF NewBatch
    <3>2. CASE ~Starting(o)
      <4>1. batches[l[1]].st = "live"
        BY <1>0, <2>1, <3>2 DEF TargetOK, Holds
      <4> QED BY <2>0, <2>1, <3>2, <4>1, BatchesWritten DEF NewBatch
    <3> QED BY <3>1, <3>2
  <2>2. CASE links[l].st # "absent" /\ links'[l].type = links[l].type
    <3>1. links[l].type = types[l[2]] /\ links[l].type # Blank /\ batches[l[1]].st = "live"
      BY <2>2 DEF ImportInv, LinksOK
    <3>2. types'[l[2]] = types[l[2]]
      BY <2>0, <3>1, TypesWritten
    <3>3. batches'[l[1]].st = "live"
      BY <2>0, <3>1, BatchesWritten
    <3> QED BY <2>2, <3>1, <3>2, <3>3
  <2> QED BY <2>1, <2>2, LinksWritten
<1>7. LinesOK(o)' /\ TargetOK(o)' /\ StartOK(o)'
  BY <1>1 DEF NoTx, LinesOK, TargetOK, StartOK, Starting, Holds
<1>8. ASSUME NEW p \in Operators \ {o} PROVE LinesOK(p)' /\ TargetOK(p)' /\ StartOK(p)'
  <2>0. /\ LinesOK(p) /\ TargetOK(p) /\ StartOK(p) /\ Apart(o, p) /\ Apart(p, o)
        /\ tx'[p] = tx[p] /\ tx[o].pc # "idle"
    BY <1>0, <1>1 DEF ImportInv, TransactionsOK
  <2>1. LinesOK(p)'
    <3>1. ASSUME NEW i \in tx[p].accepted, KeyOf(p, i) \in Keys
          PROVE  types'[KeyOf(p, i)] = types[KeyOf(p, i)]
      <4>1. KeyOf(p, i) \notin tx[o].locked
        BY <2>0 DEF LinesOK, Apart
      <4> QED BY <3>1, <4>1, TypesWritten
    <3> QED BY <2>0, <3>1 DEF LinesOK, KeyOf, Accepts
  <2>2. TargetOK(p)'
    <3>1. \A l \in tx[p].removed : links'[l].st # "absent"
      BY <2>0, LinksWritten DEF TargetOK
    <3>2. ~Starting(p) /\ tx[p].pc # "idle" => tx[p].batch \in Batches /\ ~NewBatch(o, tx[p].batch)
      BY <2>0 DEF TargetOK, Apart, NewBatch
    <3>3. ~Starting(p) /\ tx[p].pc # "idle" =>
            /\ batches'[tx[p].batch].st = batches[tx[p].batch].st
            /\ batches'[tx[p].batch].campaign = batches[tx[p].batch].campaign
      BY <3>2, BatchesWritten
    <3> QED BY <2>0, <3>1, <3>3 DEF TargetOK, Starting, Holds
  <2>3. StartOK(p)'
    <3> SUFFICES ASSUME Starting(p) PROVE StartOK(p)'
      BY <2>0 DEF StartOK, Starting
    <3>1. tx[p].batch \in Batches /\ tx[p].campaign \in Campaigns /\ ~NewBatch(o, tx[p].batch)
      BY <2>0 DEF StartOK, Apart, NewBatch
    <3>2. batches'[tx[p].batch].st = "absent"
      BY <2>0, <3>1, BatchesWritten DEF StartOK
    <3>3. ASSUME NEW x \in Batches, batches'[x].st = "live", batches'[x].campaign = tx[p].campaign
          PROVE  batches'[x].name # tx[p].name
      <4>1. ~NewBatch(o, x)
        BY <2>0, <3>3, BatchesWritten DEF NewBatch, Apart
      <4> QED BY <2>0, <3>3, <4>1, BatchesWritten DEF StartOK, LiveBatches
    <3> QED BY <1>3, <2>0, <3>1, <3>2, <3>3 DEF StartOK, Starting, LiveBatches
  <2> QED BY <2>1, <2>2, <2>3
<1>9. ASSUME NEW p \in Operators, NEW q \in Operators, p # q PROVE Apart(p, q)'
  BY <1>1, <1>9 DEF ImportInv, TransactionsOK, Apart, Starting, NoTx
<1>10. NamesAreUnique'
  <2> SUFFICES ASSUME NEW c \in Campaigns, NEW a \in Batches, NEW b \in Batches, a # b,
                      batches'[a].st = "live", batches'[a].campaign = c,
                      batches'[b].st = "live", batches'[b].campaign = c
               PROVE  batches'[a].name # batches'[b].name
    BY DEF NamesAreUnique, LiveBatches
  <2>1. CASE ~NewBatch(o, a) /\ ~NewBatch(o, b)
    BY <2>1, BatchesWritten DEF ImportInv, NamesAreUnique, LiveBatches
  <2>2. CASE NewBatch(o, a)
    <3>1. ~NewBatch(o, b) /\ tx[o].campaign = c /\ batches'[a].name = tx[o].name
      BY <2>2, BatchesWritten DEF NewBatch
    <3>2. b \in LiveBatches(c) /\ batches'[b].name = batches[b].name
      BY <3>1, BatchesWritten DEF LiveBatches
    <3> QED BY <1>0, <2>2, <3>1, <3>2 DEF StartOK, NewBatch
  <2>3. CASE NewBatch(o, b)
    <3>1. ~NewBatch(o, a) /\ tx[o].campaign = c /\ batches'[b].name = tx[o].name
      BY <2>3, BatchesWritten DEF NewBatch
    <3>2. a \in LiveBatches(c) /\ batches'[a].name = batches[a].name
      BY <3>1, BatchesWritten DEF LiveBatches
    <3> QED BY <1>0, <2>3, <3>1, <3>2 DEF StartOK, NewBatch
  <2> QED BY <2>1, <2>2, <2>3
<1> QED BY <1>2, <1>5, <1>6, <1>7, <1>8, <1>9, <1>10 DEF ImportInv, TransactionsOK

-----------------------------------------------------------------------------
(* Requests of one statement *)

LEMMA RenameBatchOK == ASSUME ImportInv, RenameBatch PROVE ImportInv'
<1>1. PICK c \in Campaigns, n \in Names : \E b \in LiveBatches(c) :
        /\ NameLockFree(c) /\ ~NameIsTaken(c, b, n)
        /\ batches' = [batches EXCEPT ![b].name = n]
  BY DEF RenameBatch
<1>2. PICK b \in LiveBatches(c) :
        /\ NameLockFree(c) /\ ~NameIsTaken(c, b, n)
        /\ batches' = [batches EXCEPT ![b].name = n]
  BY <1>1
<1>3. UNCHANGED <<campaigns, types, links, tx>>
  BY DEF RenameBatch
<1>4. b \in Batches /\ batches[b].st = "live" /\ batches[b].campaign = c
  BY DEF LiveBatches
<1>5. \A x \in Batches : /\ batches'[x].st = batches[x].st
                         /\ batches'[x].campaign = batches[x].campaign
                         /\ batches'[x].name = IF x = b THEN n ELSE batches[x].name
                         /\ DOMAIN batches'[x] = DOMAIN batches[x]
  BY <1>2, <1>4 DEF ImportInv, ShapesOK
<1>6. ShapesOK'
  BY <1>2, <1>3, <1>5 DEF ImportInv, ShapesOK
<1>7. LinksOK' /\ BatchesOK'
  BY <1>3, <1>5 DEF ImportInv, LinksOK, BatchesOK
<1>8. NamesAreUnique'
  BY <1>2, <1>4, <1>5 DEF ImportInv, NamesAreUnique, LiveBatches, NameIsTaken
<1>9. ASSUME NEW p \in Operators PROVE LinesOK(p)' /\ TargetOK(p)' /\ StartOK(p)'
  <2>0. LinesOK(p) /\ TargetOK(p) /\ StartOK(p)
    BY DEF ImportInv, TransactionsOK
  <2>1. LinesOK(p)' /\ TargetOK(p)'
    BY <1>3, <1>5, <2>0 DEF LinesOK, TargetOK, Starting, Holds, KeyOf, Accepts
  <2>2. StartOK(p)'
    <3>1. Starting(p) => tx[p].campaign # c
      BY <1>2 DEF NameLockFree, Starting
    <3> QED BY <1>3, <1>4, <1>5, <2>0, <3>1 DEF StartOK, Starting, LiveBatches
  <2> QED BY <2>1, <2>2
<1>10. \A p, q \in Operators : p # q => Apart(p, q)'
  BY <1>3 DEF ImportInv, TransactionsOK, Apart, Starting
<1> QED BY <1>6, <1>7, <1>8, <1>9, <1>10 DEF ImportInv, TransactionsOK

\* Batches that are deleted leave no link, and nobody is at work in them.
LEMMA DeletedOK ==
  ASSUME ImportInv, NEW gone \in SUBSET Batches, Deleted(gone), UNCHANGED <<types, tx>>,
         DOMAIN campaigns' = Campaigns,
         \A c \in Campaigns : campaigns[c] # "absent" => campaigns'[c] # "absent",
         \A b \in gone : batches[b].st = "live",
         \A p \in Operators : Holds(p) /\ ~Starting(p) => tx[p].batch \notin gone
  PROVE  ImportInv'
<1>1. /\ DOMAIN batches = Batches /\ DOMAIN links = Batches \X Keys
      /\ DOMAIN batches' = Batches /\ DOMAIN links' = Batches \X Keys
  BY DEF ImportInv, ShapesOK, Deleted
<1>2. \A b \in Batches : /\ DOMAIN batches'[b] = DOMAIN batches[b]
                         /\ batches'[b].campaign = batches[b].campaign
                         /\ batches'[b].name = batches[b].name
                         /\ batches'[b].st = IF b \in gone THEN "deleted" ELSE batches[b].st
  BY DEF ImportInv, ShapesOK, Deleted
<1>3. \A l \in Batches \X Keys : links'[l] = IF l[1] \in gone THEN Absent ELSE links[l]
  BY <1>1 DEF Deleted
<1>4. ShapesOK'
  BY <1>1, <1>2, <1>3 DEF ImportInv, ShapesOK, Absent
<1>5. LinksOK'
  <2> SUFFICES ASSUME NEW l \in Batches \X Keys, links'[l].st # "absent"
               PROVE  /\ links'[l].type = types'[l[2]] /\ links'[l].type # Blank
                      /\ batches'[l[1]].st = "live"
    BY DEF LinksOK
  <2>1. l[1] \notin gone /\ links'[l] = links[l]
    BY <1>3 DEF Absent
  <2> QED BY <1>2, <2>1 DEF ImportInv, LinksOK
<1>6. BatchesOK' /\ NamesAreUnique'
  BY <1>2 DEF ImportInv, BatchesOK, NamesAreUnique, LiveBatches
<1>7. ASSUME NEW p \in Operators PROVE LinesOK(p)' /\ TargetOK(p)' /\ StartOK(p)'
  <2>0. LinesOK(p) /\ TargetOK(p) /\ StartOK(p)
    BY DEF ImportInv, TransactionsOK
  <2>1. LinesOK(p)'
    BY <2>0 DEF LinesOK, KeyOf, Accepts
  <2>2. TargetOK(p)'
    <3>1. \A l \in tx[p].removed : links'[l].st # "absent"
      BY <1>3, <2>0 DEF TargetOK
    <3> QED BY <1>2, <2>0, <3>1 DEF TargetOK, Starting, Holds
  <2>3. StartOK(p)'
    <3>1. Starting(p) => tx[p].batch \notin gone
      BY <2>0 DEF StartOK
    <3> QED BY <1>2, <2>0, <3>1 DEF StartOK, Starting, LiveBatches
  <2> QED BY <2>1, <2>2, <2>3
<1>8. \A p, q \in Operators : p # q => Apart(p, q)'
  BY DEF ImportInv, TransactionsOK, Apart, Starting
<1> QED BY <1>4, <1>5, <1>6, <1>7, <1>8 DEF ImportInv, TransactionsOK

LEMMA DeleteBatchOK == ASSUME ImportInv, DeleteBatch PROVE ImportInv'
<1>1. PICK c \in Campaigns : \E b \in LiveBatches(c) :
        (\A p \in Operators : ~(Holds(p) /\ tx[p].batch = b)) /\ Deleted({b})
  BY DEF DeleteBatch
<1>2. PICK b \in LiveBatches(c) :
        (\A p \in Operators : ~(Holds(p) /\ tx[p].batch = b)) /\ Deleted({b})
  BY <1>1
<1>3. {b} \in SUBSET Batches /\ \A x \in {b} : batches[x].st = "live"
  BY DEF LiveBatches
<1> QED BY <1>2, <1>3, DeletedOK DEF DeleteBatch, ImportInv, ShapesOK

LEMMA DeleteCampaignOK == ASSUME ImportInv, DeleteCampaign PROVE ImportInv'
<1>1. PICK c \in Campaigns :
        /\ \A p \in Operators : tx[p].campaign = c => tx[p].fresh = "nothing" /\ ~Holds(p)
        /\ campaigns' = [campaigns EXCEPT ![c] = "deleted"]
        /\ Deleted(LiveBatches(c))
  BY DEF DeleteCampaign
<1>2. LiveBatches(c) \in SUBSET Batches /\ \A x \in LiveBatches(c) : batches[x].st = "live"
  BY DEF LiveBatches
<1>3. ASSUME NEW p \in Operators, Holds(p), ~Starting(p) PROVE tx[p].batch \notin LiveBatches(c)
  <2>1. batches[tx[p].batch].campaign = tx[p].campaign
    BY <1>3 DEF ImportInv, TransactionsOK, TargetOK, Holds
  <2> QED BY <1>1, <1>3, <2>1 DEF LiveBatches
<1>4. DOMAIN campaigns' = Campaigns
      /\ \A d \in Campaigns : campaigns[d] # "absent" => campaigns'[d] # "absent"
  BY <1>1 DEF ImportInv, ShapesOK
<1> QED BY <1>1, <1>2, <1>3, <1>4, DeletedOK DEF DeleteCampaign

-----------------------------------------------------------------------------

LEMMA ImportStep == ImportInv /\ [Next]_vars => ImportInv'
<1> SUFFICES ASSUME ImportInv, [Next]_vars PROVE ImportInv'
  OBVIOUS
<1>1. ASSUME NEW o \in Operators,
             ImportIntoBatch(o) \/ ImportIntoNew(o) \/ RemoveLink(o) \/ Statement(o) \/ Lost(o)
      PROVE  ImportInv'
  BY <1>1, ImportIntoBatchOK, ImportIntoNewOK, RemoveLinkOK, ClassifyRowOK, InsertLinksOK, TotalsOK,
     CommitOK, RollsBack DEF Statement, Refused, Deadlock, Lost
<1>2. CASE UNCHANGED vars
  BY <1>2 DEF vars, ImportInv, ShapesOK, TransactionsOK, LinesOK, TargetOK, StartOK, Apart, Starting,
              Holds, LinksOK, BatchesOK, NamesAreUnique, LiveBatches, KeyOf, Accepts
<1> QED BY <1>1, <1>2, RenameBatchOK, DeleteBatchOK, DeleteCampaignOK DEF Next

LEMMA ImportAgrees == ImportInv => BatchesAgree
<1> SUFFICES ASSUME ImportInv PROVE BatchesAgree
  OBVIOUS
<1>1. ASSUME NEW b \in Batches, NEW k \in Keys, links[b, k].st # "absent"
      PROVE  links[b, k].type = types[k]
  <2> DEFINE l == <<b, k>>
  <2>1. l \in Batches \X Keys /\ l[2] = k /\ links[l].st # "absent"
    BY <1>1
  <2>2. links[l].type = types[l[2]]
    BY <2>1 DEF ImportInv, LinksOK
  <2> QED BY <2>1, <2>2
<1> QED BY <1>1 DEF ImportInv, BatchesAgree, LinksMatchClassification

\* Two batches of a campaign never have one name (the advisory lock of the
\* import and the guard of migration 028), and every link was imported with
\* the classification its installment has (the locks of the upsert).
THEOREM ImportsAgree == Spec => []BatchesAgree
<1> QED BY ImportInit, ImportStep, ImportAgrees, PTL DEF Spec
=============================================================================
