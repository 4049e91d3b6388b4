------------------------- MODULE MCConsultationProofs -------------------------
(***************************************************************************)
(* A confirmed installment stays confirmed and every completed link shows  *)
(* it, for any number of links and loops, when the ERP does not take a     *)
(* confirmation back (CanonicalInstallment).  What is proved about the     *)
(* pools (ProcessingPipelineProofs) holds beside the other stages of a     *)
(* consultation.                                                           *)
(***************************************************************************)
EXTENDS MCConsultation, TLAPS

\* A confirmed row, a confirmed link and a confirmed answer say what the ERP says.
RowIsConfirmed == target.pay \in Terminal => erp = target.pay
AnswersAreConfirmed ==
  \A w \in Loops : loops[w].answer \in Terminal => erp = loops[w].answer
LinksAreConfirmed ==
  \A l \in Links : links[l].pay \in Terminal => target.pay = links[l].pay

\* A claim is on a link in processing; an open transaction keeps its claim; a
\* link has its row.
ClaimsProcess ==
  \A l \in Links : links[l].holder # None => links[l].st = "processing"
OpenHolds ==
  \A w \in Loops : loops[w].pc = "open" => Holds(w)
LoopsHaveLinks ==
  \A w \in Loops : /\ loops[w].pc # "idle" => loops[w].link \in Links
                   /\ loops[w].pc \in {"idle", "consult", "failing"}
                        => loops[w].answer = "none"
LinksHaveRow ==
  /\ target.pay # "none" => target.exists
  /\ \A l \in Links : links[l].st # "absent" => target.exists

\* Loop w holds its claim and has read an answer that confirms nothing.
ReadOpen(w) ==
  /\ loops[w].pc \in {"answered", "open"}
  /\ Holds(w)
  /\ loops[w].answer \notin Terminal

\* What it read is known to be older than the confirmation, and than any
\* transaction that is about to confirm.
LateIsOlder ==
  \A w \in Loops : ReadOpen(w) /\ target.pay \in Terminal => loops[w].link \in older
LateIsBefore ==
  \A v, w \in Loops :
    ReadOpen(v) /\ loops[w].pc = "open" /\ loops[w].answer \in Terminal
      => loops[v].link \in loops[w].before

IInv ==
  /\ TypeOK
  /\ RowIsConfirmed /\ AnswersAreConfirmed /\ LinksAreConfirmed
  /\ ClaimsProcess /\ OpenHolds /\ LoopsHaveLinks /\ LinksHaveRow
  /\ LateIsOlder /\ LateIsBefore
  /\ CompletedLinksMirror

RowRec == [exists : BOOLEAN, pay : Pay, amount : Amounts]

-----------------------------------------------------------------------------
(* What the triggers leave in a link *)

LEMMA SyncedRow ==
  ASSUME NEW rec \in LinkRec, NEW row \in RowRec,
         rec.st \notin {"absent", "removed", "processing"}
  PROVE  /\ Synced(rec, row) \in LinkRec
         /\ Synced(rec, row).pay = row.pay
         /\ Synced(rec, row).st \notin {"absent", "removed", "processing"}
         /\ Synced(rec, row).holder \in {None, rec.holder}
BY DEF Synced, LinkRec, RowRec, LinkStatus, Pay, Answers, Terminal

LEMMA BoundRow ==
  ASSUME NEW rec \in LinkRec, NEW row \in RowRec
  PROVE  /\ Bind(rec, row) \in LinkRec
         /\ Bind(rec, row).pay = IF row.pay = "none" THEN rec.pay ELSE row.pay
         /\ Bind(rec, row).st = IF row.pay \in Terminal THEN "completed" ELSE rec.st
         /\ Bind(rec, row).holder = IF row.pay \in Terminal THEN None ELSE rec.holder
BY DEF Bind, LinkRec, RowRec, LinkStatus, Pay, Answers, Terminal

\* A link in processing is left as it is, every other one shows the row.
LEMMA SyncedLinks ==
  ASSUME NEW rows \in [Links -> LinkRec], NEW row \in RowRec
  PROVE  /\ SyncLinks(rows, row) \in [Links -> LinkRec]
         /\ \A l \in Links :
              IF rows[l].st \in {"absent", "removed", "processing"}
              THEN SyncLinks(rows, row)[l] = rows[l]
              ELSE /\ SyncLinks(rows, row)[l].pay = row.pay
                   /\ SyncLinks(rows, row)[l].st \notin {"absent", "removed", "processing"}
                   /\ SyncLinks(rows, row)[l].holder \in {None, rows[l].holder}
<1>1. \A l \in Links : rows[l] \in LinkRec
  OBVIOUS
<1>2. \A l \in Links :
        SyncLinks(rows, row)[l] =
          IF rows[l].st \in {"absent", "removed", "processing"}
          THEN rows[l] ELSE Synced(rows[l], row)
  BY DEF SyncLinks
<1>3. \A l \in Links : SyncLinks(rows, row)[l] \in LinkRec
  BY <1>1, <1>2, SyncedRow
<1>4. SyncLinks(rows, row) \in [Links -> LinkRec]
  BY <1>3 DEF SyncLinks
<1> QED
  BY <1>1, <1>2, <1>4, SyncedRow

\* A claim that ends without a result; a confirmed link is completed.
LEMMA FailedRow ==
  ASSUME NEW rec \in LinkRec, NEW st \in {"retrying", "error"}
  PROVE  /\ Failed(rec, st) \in LinkRec
         /\ Failed(rec, st).pay = rec.pay
         /\ Failed(rec, st).holder = None
         /\ Failed(rec, st).st \in {"retrying", "error", "completed"}
         /\ Failed(rec, st).st = "completed" => rec.pay \in Terminal
BY CanonicalAssumption DEF Failed, EnforceTerminal, LinkRec, LinkStatus, Pay, Answers, Terminal

-----------------------------------------------------------------------------
(* Steps *)

LEMMA Fields ==
  ASSUME TypeOK
  PROVE  /\ \A l \in Links : links[l] \in LinkRec
         /\ \A w \in Loops : loops[w] \in LoopRec
         /\ target \in RowRec
BY DEF TypeOK, RowRec

\* The fields of a loop that the steps write.
LEMMA LoopWritten ==
  ASSUME NEW rec \in LoopRec
  PROVE  /\ [rec EXCEPT !.outrun = TRUE] \in LoopRec
         /\ [rec EXCEPT !.outrun = TRUE].pc = rec.pc
         /\ [rec EXCEPT !.outrun = TRUE].link = rec.link
         /\ [rec EXCEPT !.outrun = TRUE].answer = rec.answer
         /\ [rec EXCEPT !.outrun = TRUE].before = rec.before
BY DEF LoopRec

\* A loop goes on as it was (it may have been overtaken), or it is done.
LoopKept(v) ==
  /\ loops'[v].pc = loops[v].pc /\ loops'[v].link = loops[v].link
  /\ loops'[v].answer = loops[v].answer /\ loops'[v].before = loops[v].before
LoopDone(v) == loops'[v].pc = "idle" /\ loops'[v].answer = "none"
LoopsGoOn ==
  /\ loops' \in [Loops -> LoopRec]
  /\ \A v \in Loops : LoopKept(v) \/ LoopDone(v)

LEMMA ReleasedLoops ==
  ASSUME TypeOK, NEW w \in Loops
  PROVE  /\ Released(w) \in [Loops -> LoopRec]
         /\ Released(w)[w].pc = "idle" /\ Released(w)[w].answer = "none"
         /\ \A v \in Loops \ {w} :
              /\ Released(w)[v].pc = loops[v].pc
              /\ Released(w)[v].link = loops[v].link
              /\ Released(w)[v].answer = loops[v].answer
              /\ Released(w)[v].before = loops[v].before
BY Fields DEF Released, IdleLoop, LoopRec, Pay

LEMMA ReleaseGoesOn ==
  ASSUME TypeOK, NEW w \in Loops, loops' = Released(w)
  PROVE  LoopsGoOn /\ LoopDone(w)
BY ReleasedLoops DEF LoopsGoOn, LoopKept, LoopDone

\* The claim of a link ends and what it shows stays.
LEMMA ClaimEnds ==
  ASSUME IInv, UNCHANGED <<erp, target, older>>, LoopsGoOn,
         requests' \in 0 .. MaxRequests, failures' \in 0 .. MaxFailures,
         NEW l \in Links, NEW new \in LinkRec,
         links' = [links EXCEPT ![l] = new],
         links[l].st # "absent",
         new.pay = links[l].pay, new.holder = None,
         new.st = "completed" => new.pay \in Terminal,
         \A v \in Loops : loops'[v].pc = "open" => loops[v].link # l
  PROVE  IInv'
<1>1. /\ \A k \in Links \ {l} : links'[k] = links[k]
      /\ links'[l] = new
  BY DEF IInv, TypeOK
<1>2. TypeOK'
  BY <1>1, Fields DEF IInv, TypeOK, LoopsGoOn
<1>3. RowIsConfirmed' /\ LinksAreConfirmed'
  BY <1>1 DEF IInv, RowIsConfirmed, LinksAreConfirmed
<1>4. AnswersAreConfirmed'
  BY DEF IInv, AnswersAreConfirmed, LoopsGoOn, LoopKept, LoopDone, Terminal
<1>5. ClaimsProcess' /\ LinksHaveRow'
  BY <1>1 DEF IInv, ClaimsProcess, LinksHaveRow
<1>6. OpenHolds'
  BY <1>1 DEF IInv, OpenHolds, LoopsGoOn, LoopKept, LoopDone, Holds, LoopsHaveLinks
<1>7. LoopsHaveLinks'
  BY DEF IInv, LoopsHaveLinks, LoopsGoOn, LoopKept, LoopDone
<1>8. ASSUME NEW v \in Loops, ReadOpen(v)'
      PROVE  ReadOpen(v) /\ LoopKept(v)
  BY <1>1, <1>8, CanonicalAssumption
     DEF IInv, ReadOpen, LoopsGoOn, LoopKept, LoopDone, Holds, LoopsHaveLinks
<1>9. LateIsOlder' /\ LateIsBefore'
  <2>1. LateIsOlder'
    BY <1>8 DEF IInv, LateIsOlder, LoopKept
  <2>2. ASSUME NEW v \in Loops, NEW w \in Loops, ReadOpen(v)',
               loops'[w].pc = "open", loops'[w].answer \in Terminal
        PROVE  loops'[v].link \in loops'[w].before
    BY <1>8, <2>2 DEF IInv, LateIsBefore, LoopKept, LoopDone, LoopsGoOn
  <2> QED
    BY <2>1, <2>2 DEF LateIsBefore
<1>10. CompletedLinksMirror'
  BY <1>1, <1>3 DEF IInv, CompletedLinksMirror, LinksAreConfirmed
<1> QED
  BY <1>2, <1>3, <1>4, <1>5, <1>6, <1>7, <1>9, <1>10 DEF IInv

LEMMA Counters ==
  ASSUME IInv
  PROVE  /\ Request => requests' \in 0 .. MaxRequests
         /\ failures < MaxFailures /\ failures' = failures + 1
              => failures' \in 0 .. MaxFailures
BY CanonicalAssumption DEF IInv, TypeOK, Request

LEMMA ReopenUnpaidStep ==
  ASSUME IInv, NEW l \in Links, ReopenUnpaid(l) PROVE IInv'
<1> DEFINE new == [links[l] EXCEPT !.st = "waiting"]
<1>1. /\ links[l] \in LinkRec /\ links[l].holder = None
      /\ links[l].st \notin {"absent", "processing"}
  BY Fields DEF IInv, ReopenUnpaid, Live, ClaimsProcess
<1>2. /\ new \in LinkRec /\ new.pay = links[l].pay /\ new.holder = None
      /\ new.st = "waiting"
  BY <1>1 DEF LinkRec, LinkStatus
<1>3. links' = [links EXCEPT ![l] = new]
  BY DEF ReopenUnpaid, IInv, TypeOK
<1>4. LoopsGoOn /\ \A v \in Loops : loops'[v].pc = "open" => loops[v].link # l
  BY <1>1, CanonicalAssumption
     DEF ReopenUnpaid, IInv, TypeOK, LoopsGoOn, LoopKept, OpenHolds, Holds
<1> HIDE DEF new
<1> QED
  BY <1>1, <1>2, <1>3, <1>4, ClaimEnds, Counters DEF ReopenUnpaid, IInv, TypeOK

LEMMA RequestErroredStep ==
  ASSUME IInv, NEW l \in Links, RequestErrored(l) PROVE IInv'
<1> DEFINE new == [links[l] EXCEPT !.st = "requested"]
<1>1. links[l] \in LinkRec /\ links[l].holder = None /\ links[l].st = "error"
  BY Fields DEF IInv, RequestErrored, ClaimsProcess
<1>2. /\ new \in LinkRec /\ new.pay = links[l].pay /\ new.holder = None
      /\ new.st = "requested"
  BY <1>1 DEF LinkRec, LinkStatus
<1>3. links' = [links EXCEPT ![l] = new]
  BY DEF RequestErrored, IInv, TypeOK
<1>4. LoopsGoOn /\ \A v \in Loops : loops'[v].pc = "open" => loops[v].link # l
  BY <1>1, CanonicalAssumption
     DEF RequestErrored, IInv, TypeOK, LoopsGoOn, LoopKept, OpenHolds, Holds
<1> HIDE DEF new
<1> QED
  BY <1>1, <1>2, <1>3, <1>4, ClaimEnds, Counters DEF RequestErrored, IInv, TypeOK

LEMMA RemoveLinkStep ==
  ASSUME IInv, NEW l \in Links, RemoveLink(l) PROVE IInv'
<1> DEFINE new == [links[l] EXCEPT !.st = "removed"]
<1>1. /\ links[l] \in LinkRec /\ links[l].holder = None
      /\ links[l].st \in {"error", "requested"}
  BY Fields DEF IInv, RemoveLink, ClaimsProcess
<1>2. /\ new \in LinkRec /\ new.pay = links[l].pay /\ new.holder = None
      /\ new.st = "removed"
  BY <1>1 DEF LinkRec, LinkStatus
<1>3. links' = [links EXCEPT ![l] = new]
  BY DEF RemoveLink, IInv, TypeOK
<1>4. LoopsGoOn /\ \A v \in Loops : loops'[v].pc = "open" => loops[v].link # l
  BY <1>1, CanonicalAssumption
     DEF RemoveLink, IInv, TypeOK, LoopsGoOn, LoopKept, OpenHolds, Holds
<1> HIDE DEF new
<1> QED
  BY <1>1, <1>2, <1>3, <1>4, ClaimEnds, Counters DEF RemoveLink, IInv, TypeOK

LEMMA ReopenMemberStep ==
  ASSUME IInv, NEW l \in Links, ReopenMember(l) PROVE IInv'
<1> DEFINE new == [links[l] EXCEPT !.st = "waiting", !.holder = None]
<1>1. links[l] \in LinkRec /\ links[l].st # "absent"
  BY Fields DEF IInv, ReopenMember, Live
<1>2. /\ new \in LinkRec /\ new.pay = links[l].pay /\ new.holder = None
      /\ new.st = "waiting"
  BY <1>1 DEF LinkRec, LinkStatus
<1>3. links' = [links EXCEPT ![l] = new]
  BY <1>1 DEF ReopenMember, IInv, TypeOK, LinkRec
<1>4. LoopsGoOn /\ \A v \in Loops : loops'[v].pc = "open" => loops[v].link # l
  BY DEF ReopenMember, IInv, TypeOK, LoopsGoOn, LoopKept, Locked, Open
<1> HIDE DEF new
<1> QED
  BY <1>1, <1>2, <1>3, <1>4, ClaimEnds, Counters DEF ReopenMember, IInv, TypeOK

LEMMA PersistFailureStep ==
  ASSUME IInv, NEW w \in Loops, PersistFailure(w) PROVE IInv'
<1> DEFINE l == loops[w].link
<1>1. /\ l \in Links /\ links[l] \in LinkRec /\ links[l].holder = w
      /\ links[l].st # "absent"
  BY Fields, CanonicalAssumption
     DEF IInv, PersistFailure, LoopsHaveLinks, Holds, ClaimsProcess
<1>2. PICK st \in {"retrying", "error"} : links' = [links EXCEPT ![l] = Failed(links[l], st)]
  BY DEF PersistFailure
<1>3. LoopsGoOn /\ LoopDone(w)
  BY ReleaseGoesOn DEF PersistFailure, IInv
<1>4. ASSUME NEW v \in Loops, loops'[v].pc = "open" PROVE loops[v].link # l
  BY <1>1, <1>3, <1>4 DEF IInv, LoopsGoOn, LoopKept, LoopDone, OpenHolds, Holds
<1>5. /\ Failed(links[l], st) \in LinkRec /\ Failed(links[l], st).pay = links[l].pay
      /\ Failed(links[l], st).holder = None
      /\ Failed(links[l], st).st = "completed" => Failed(links[l], st).pay \in Terminal
  BY <1>1, FailedRow
<1> HIDE DEF l
<1> QED
  BY <1>1, <1>2, <1>3, <1>4, <1>5, ClaimEnds, Counters DEF PersistFailure, IInv, TypeOK

LEMMA RecoverStep ==
  ASSUME IInv, NEW l \in Links, Recover(l) PROVE IInv'
<1>1. links[l] \in LinkRec /\ links[l].st # "absent"
  BY Fields DEF IInv, Recover
<1>2. PICK st \in {"retrying", "error"} : links' = [links EXCEPT ![l] = Failed(links[l], st)]
  BY DEF Recover
<1>3. LoopsGoOn /\ \A v \in Loops : loops'[v].pc = "open" => loops[v].link # l
  BY DEF Recover, IInv, TypeOK, LoopsGoOn, LoopKept, Locked, Open
<1>4. /\ Failed(links[l], st) \in LinkRec /\ Failed(links[l], st).pay = links[l].pay
      /\ Failed(links[l], st).holder = None
      /\ Failed(links[l], st).st = "completed" => Failed(links[l], st).pay \in Terminal
  BY <1>1, FailedRow
<1>5. failures' \in 0 .. MaxFailures
  BY Counters DEF Recover, IInv, TypeOK
<1> QED
  BY <1>1, <1>2, <1>3, <1>4, <1>5, ClaimEnds DEF Recover, IInv, TypeOK
-----------------------------------------------------------------------------
(* Steps that keep the truth of the row and write other links *)

LEMMA LinksFollow ==
  ASSUME IInv, UNCHANGED <<erp, older>>, LoopsGoOn,
         target' \in RowRec, target'.pay = target.pay, target.exists => target'.exists,
         requests' \in 0 .. MaxRequests, failures' \in 0 .. MaxFailures,
         links' \in [Links -> LinkRec],
         \A k \in Links :
           /\ links'[k].st # "absent" => target'.exists
           /\ links'[k].holder \in {None, links[k].holder}
           /\ links'[k].holder # None => links'[k].st = "processing"
           /\ links'[k].pay \in Terminal => target.pay = links'[k].pay
           /\ links'[k].st = "completed" => links'[k].pay = target.pay,
         \A v \in Loops : loops'[v].pc = "open" => links'[loops[v].link].holder = v
  PROVE  IInv'
<1>1. TypeOK'
  BY DEF IInv, TypeOK, LoopsGoOn, RowRec
<1>2. RowIsConfirmed' /\ LinksAreConfirmed' /\ CompletedLinksMirror'
  BY DEF IInv, RowIsConfirmed, LinksAreConfirmed, CompletedLinksMirror
<1>3. AnswersAreConfirmed'
  BY DEF IInv, AnswersAreConfirmed, LoopsGoOn, LoopKept, LoopDone, Terminal
<1>4. ClaimsProcess' /\ LinksHaveRow'
  BY DEF IInv, ClaimsProcess, LinksHaveRow
<1>5. OpenHolds'
  BY DEF OpenHolds, LoopsGoOn, LoopKept, LoopDone, Holds
<1>6. LoopsHaveLinks'
  BY DEF IInv, LoopsHaveLinks, LoopsGoOn, LoopKept, LoopDone
<1>7. ASSUME NEW v \in Loops, ReadOpen(v)'
      PROVE  ReadOpen(v) /\ LoopKept(v)
  BY <1>7, CanonicalAssumption
     DEF IInv, ReadOpen, LoopsGoOn, LoopKept, LoopDone, Holds, LoopsHaveLinks
<1>8. LateIsOlder'
  BY <1>7 DEF IInv, LateIsOlder, LoopKept
<1>9. LateIsBefore'
  <2>1. ASSUME NEW v \in Loops, NEW w \in Loops, ReadOpen(v)',
               loops'[w].pc = "open", loops'[w].answer \in Terminal
        PROVE  loops'[v].link \in loops'[w].before
    BY <1>7, <2>1 DEF IInv, LateIsBefore, LoopKept, LoopDone, LoopsGoOn
  <2> QED
    BY <2>1 DEF LateIsBefore
<1> QED
  BY <1>1, <1>2, <1>3, <1>4, <1>5, <1>6, <1>8, <1>9 DEF IInv

\* What holds of a link before a step.
LEMMA LinkFacts ==
  ASSUME IInv, NEW k \in Links
  PROVE  /\ links[k] \in LinkRec
         /\ links[k].st # "absent" => target.exists
         /\ links[k].holder # None => links[k].st = "processing"
         /\ links[k].pay \in Terminal => target.pay = links[k].pay
         /\ links[k].st = "completed" => links[k].pay = target.pay
BY Fields DEF IInv, LinksHaveRow, ClaimsProcess, LinksAreConfirmed, CompletedLinksMirror

LEMMA SameLoops ==
  ASSUME IInv, UNCHANGED loops
  PROVE  LoopsGoOn
BY DEF IInv, TypeOK, LoopsGoOn, LoopKept

LEMMA ImportStep ==
  ASSUME IInv, NEW l \in Links, NEW a \in Amounts, Import(l, a) PROVE IInv'
<1> DEFINE new == [st |-> "waiting", pay |-> "none", amount |-> a, holder |-> None]
<1>1. new \in LinkRec /\ new.st = "waiting" /\ new.pay = "none" /\ new.holder = None
  BY DEF LinkRec, LinkStatus, Pay
<1>2. /\ target' \in RowRec /\ target'.pay = target.pay /\ target'.exists
      /\ UNCHANGED <<erp, older>>
  BY Fields DEF Import, IInv, RowRec, LinksHaveRow, Pay
<1>3. links' = [links EXCEPT ![l] = Bind(new, target')]
  BY DEF Import
<1> HIDE DEF new
<1>4. /\ Bind(new, target') \in LinkRec
      /\ Bind(new, target').pay \in {"none", target.pay}
      /\ Bind(new, target').st = "completed" => Bind(new, target').pay = target.pay
      /\ Bind(new, target').holder = None
  BY <1>1, <1>2, BoundRow DEF Terminal
<1>5. \A k \in Links : links'[k] = IF k = l THEN Bind(new, target') ELSE links[k]
  BY <1>3 DEF IInv, TypeOK
<1>6. links' \in [Links -> LinkRec]
  BY <1>3, <1>4 DEF IInv, TypeOK
<1>7. \A k \in Links :
        /\ links'[k].holder \in {None, links[k].holder}
        /\ links'[k].holder # None => links'[k].st = "processing"
        /\ links'[k].pay \in Terminal => target.pay = links'[k].pay
        /\ links'[k].st = "completed" => links'[k].pay = target.pay
  BY <1>4, <1>5, LinkFacts DEF Terminal
<1>8. LoopsGoOn
  BY SameLoops DEF Import
<1>9. links[l].holder = None
  BY LinkFacts DEF Import
<1>10. \A v \in Loops : loops'[v].pc = "open" => links'[loops[v].link].holder = v
  BY <1>5, <1>9, CanonicalAssumption
     DEF Import, IInv, OpenHolds, Holds, LoopsHaveLinks
<1> QED
  BY <1>2, <1>6, <1>7, <1>8, <1>10, LinksFollow, Counters DEF Import, IInv, TypeOK

LEMMA UpdateLinkStep ==
  ASSUME IInv, NEW l \in Links, NEW a \in Amounts, UpdateLink(l, a) PROVE IInv'
<1> DEFINE old == [links[l] EXCEPT !.amount = a]
           mid == [links EXCEPT ![l] = Bind(old, target)]
<1>1. /\ links[l] \in LinkRec /\ target \in RowRec
      /\ links[l].st \notin {"absent", "removed"}
      /\ \A v \in Open : loops[v].link # l
  BY Fields DEF IInv, UpdateLink, Live, Locked
<1>2. /\ old \in LinkRec /\ old.st = links[l].st /\ old.pay = links[l].pay
      /\ old.holder = links[l].holder
  BY <1>1 DEF LinkRec
<1>3. links' = SyncLinks(mid, target)
  BY DEF UpdateLink
<1>4. target' = target /\ UNCHANGED <<erp, older, failures>>
  BY DEF UpdateLink
<1> HIDE DEF old
<1>5. /\ Bind(old, target) \in LinkRec
      /\ Bind(old, target).st = "processing" => links[l].st = "processing"
      /\ Bind(old, target).holder \in {None, links[l].holder}
      /\ Bind(old, target).holder # None => Bind(old, target).st = "processing"
      /\ Bind(old, target).pay \in Terminal => target.pay = Bind(old, target).pay
  BY <1>1, <1>2, BoundRow, LinkFacts DEF Terminal
<1>6. /\ mid \in [Links -> LinkRec]
      /\ \A k \in Links : mid[k] = IF k = l THEN Bind(old, target) ELSE links[k]
  BY <1>5 DEF IInv, TypeOK
<1> HIDE DEF mid
<1>7. /\ links' \in [Links -> LinkRec]
      /\ \A k \in Links :
           IF mid[k].st \in {"absent", "removed", "processing"}
           THEN links'[k] = mid[k]
           ELSE /\ links'[k].pay = target.pay
                /\ links'[k].st \notin {"absent", "removed", "processing"}
                /\ links'[k].holder \in {None, mid[k].holder}
  BY <1>1, <1>3, <1>6, SyncedLinks
<1>8. target.exists
  BY <1>1, LinkFacts
<1>9. \A k \in Links :
        /\ mid[k].holder \in {None, links[k].holder}
        /\ mid[k].holder # None => mid[k].st = "processing"
        /\ mid[k].pay \in Terminal => target.pay = mid[k].pay
  BY <1>5, <1>6, LinkFacts
<1>10. \A k \in Links :
        /\ links'[k].holder \in {None, links[k].holder}
        /\ links'[k].holder # None => links'[k].st = "processing"
        /\ links'[k].pay \in Terminal => target.pay = links'[k].pay
        /\ links'[k].st = "completed" => links'[k].pay = target.pay
  BY <1>7, <1>9
<1>11. LoopsGoOn
  <2>1. PICK passed \in {{}, IF target.pay = "none" THEN Open ELSE {}} :
          loops' = [w \in Loops |-> IF w \in passed THEN [loops[w] EXCEPT !.outrun = TRUE]
                                    ELSE loops[w]]
    BY DEF UpdateLink
  <2>2. \A w \in Loops : loops[w] \in LoopRec
    BY Fields DEF IInv
  <2>3. loops' \in [Loops -> LoopRec]
    BY <2>1, <2>2, LoopWritten
  <2>4. ASSUME NEW w \in Loops PROVE LoopKept(w)
    BY <2>1, <2>2, LoopWritten DEF LoopKept
  <2> QED
    BY <2>3, <2>4 DEF LoopsGoOn
<1>12. ASSUME NEW v \in Loops, loops'[v].pc = "open"
       PROVE  links'[loops[v].link].holder = v
  <2>1. loops[v].pc = "open" /\ loops[v].link \in Links
    BY <1>11, <1>12 DEF LoopsGoOn, LoopKept, LoopDone, IInv, LoopsHaveLinks
  <2>2. /\ loops[v].link # l /\ links[loops[v].link].holder = v
        /\ links[loops[v].link].st = "processing"
    BY <1>1, <2>1, CanonicalAssumption DEF Open, IInv, OpenHolds, Holds, ClaimsProcess
  <2> QED
    BY <1>6, <1>7, <2>1, <2>2
<1> QED
  BY <1>1, <1>4, <1>7, <1>8, <1>10, <1>11, <1>12, LinksFollow, Counters
     DEF UpdateLink, IInv, TypeOK
-----------------------------------------------------------------------------
(* The worker *)

LEMMA InitIInv == Init => IInv
<1> SUFFICES ASSUME Init PROVE IInv
  OBVIOUS
<1>1. TypeOK
  BY CanonicalAssumption
     DEF Init, TypeOK, LinkRec, LinkStatus, LoopRec, IdleLoop, Pay, Answers
<1> QED
  BY <1>1 DEF Init, IInv, RowIsConfirmed, AnswersAreConfirmed, LinksAreConfirmed,
     ClaimsProcess, OpenHolds, LoopsHaveLinks, LinksHaveRow, LateIsOlder,
     LateIsBefore, ReadOpen, CompletedLinksMirror, IdleLoop, Terminal

LEMMA ErpChangesStep ==
  ASSUME IInv, ErpChanges PROVE IInv'
<1>1. erp \notin Terminal /\ erp' \in Answers
  BY ConfirmedIsFinal, CanonicalAssumption DEF ErpChanges
<1>2. UNCHANGED <<target, links, older, loops, requests, failures>>
  BY DEF ErpChanges
<1>3. /\ target.pay \notin Terminal
      /\ \A w \in Loops : loops[w].answer \notin Terminal
  BY <1>1 DEF IInv, RowIsConfirmed, AnswersAreConfirmed
<1>4. TypeOK' /\ RowIsConfirmed' /\ AnswersAreConfirmed' /\ LinksAreConfirmed'
  BY <1>1, <1>2, <1>3
     DEF IInv, TypeOK, RowIsConfirmed, AnswersAreConfirmed, LinksAreConfirmed
<1> QED
  BY <1>2, <1>3, <1>4
     DEF IInv, ClaimsProcess, OpenHolds, LoopsHaveLinks, LinksHaveRow, LateIsOlder,
         LateIsBefore, ReadOpen, CompletedLinksMirror, Holds

LEMMA ClaimStep ==
  ASSUME IInv, NEW w \in Loops, NEW l \in Links, Claim(w, l) PROVE IInv'
<1> DEFINE new == [links[l] EXCEPT !.st = "processing", !.holder = w]
<1>1. /\ links[l] \in LinkRec /\ links[l].holder = None /\ target.exists
      /\ links[l].st # "absent" /\ loops[w].pc = "idle"
  BY LinkFacts DEF Claim
<1>2. /\ new \in LinkRec /\ new.pay = links[l].pay /\ new.holder = w
      /\ new.st = "processing"
  BY <1>1 DEF LinkRec, LinkStatus
<1>3. links' = [links EXCEPT ![l] = new]
  BY <1>1 DEF Claim, IInv, TypeOK, LinkRec
<1> HIDE DEF new
<1>4. \A k \in Links : links'[k] = IF k = l THEN new ELSE links[k]
  BY <1>3 DEF IInv, TypeOK
<1>5. /\ links' \in [Links -> LinkRec] /\ older' = older \ {l}
      /\ UNCHANGED <<erp, target, requests, failures>>
  BY <1>2, <1>3 DEF Claim, IInv, TypeOK
<1>6. /\ loops' \in [Loops -> LoopRec]
      /\ loops'[w].pc = "consult" /\ loops'[w].link = l /\ loops'[w].answer = "none"
      /\ \A v \in Loops \ {w} :
           /\ loops'[v].pc = loops[v].pc /\ loops'[v].link = loops[v].link
           /\ loops'[v].answer = loops[v].answer
           /\ loops'[v].before = loops[v].before \ {l}
  <2>1. \A v \in Loops : loops[v] \in LoopRec
    BY Fields DEF IInv
  <2>2. /\ [loops[w] EXCEPT !.pc = "consult", !.link = l, !.answer = "none"] \in LoopRec
        /\ loops'[w] = [loops[w] EXCEPT !.pc = "consult", !.link = l, !.answer = "none"]
    <3>1. [loops[w] EXCEPT !.pc = "consult", !.link = l, !.answer = "none"] \in LoopRec
      <4>1. loops[w] \in LoopRec /\ "none" \in Pay
        BY <2>1 DEF Pay
      <4> QED
        BY <4>1 DEF LoopRec
    <3>2. loops'[w] = [loops[w] EXCEPT !.pc = "consult", !.link = l, !.answer = "none"]
      BY Zenon DEF Claim
    <3> QED
      BY <3>1, <3>2
  <2>3. ASSUME NEW v \in Loops \ {w}
        PROVE  /\ loops'[v] = [loops[v] EXCEPT !.before = loops[v].before \ {l}]
               /\ loops'[v] \in LoopRec
    BY <2>1 DEF Claim, LoopRec
  <2>4. loops' \in [Loops -> LoopRec]
    BY <2>2, <2>3 DEF Claim
  <2> QED
    BY <2>1, <2>2, <2>3, <2>4 DEF LoopRec
<1>7. TypeOK'
  BY <1>5, <1>6 DEF IInv, TypeOK
<1>8. RowIsConfirmed' /\ LinksAreConfirmed' /\ CompletedLinksMirror' /\ LinksHaveRow'
  BY <1>1, <1>2, <1>4, <1>5
     DEF IInv, RowIsConfirmed, LinksAreConfirmed, CompletedLinksMirror, LinksHaveRow
<1>9. AnswersAreConfirmed' /\ LoopsHaveLinks'
  BY <1>5, <1>6 DEF IInv, AnswersAreConfirmed, LoopsHaveLinks, Terminal
<1>10. ClaimsProcess'
  BY <1>2, <1>4 DEF IInv, ClaimsProcess
<1>11. OpenHolds'
  BY <1>1, <1>4, <1>6, CanonicalAssumption DEF IInv, OpenHolds, Holds, LoopsHaveLinks
<1>12. ASSUME NEW v \in Loops, ReadOpen(v)'
       PROVE  v # w /\ ReadOpen(v) /\ loops'[v].link = loops[v].link /\ loops[v].link # l
  <2>1. v # w
    BY <1>6, <1>12 DEF ReadOpen
  <2>2. loops'[v].link = loops[v].link /\ loops[v].link \in Links
    BY <1>6, <1>12, <2>1 DEF ReadOpen, IInv, LoopsHaveLinks
  <2>3. loops[v].link # l
    BY <1>2, <1>4, <1>12, <2>1, <2>2 DEF ReadOpen, Holds
  <2> QED
    BY <1>4, <1>6, <1>12, <2>1, <2>2, <2>3 DEF ReadOpen, Holds
<1>13. LateIsOlder'
  BY <1>5, <1>12 DEF IInv, LateIsOlder
<1>14. LateIsBefore'
  BY <1>6, <1>12 DEF IInv, LateIsBefore
<1> QED
  BY <1>7, <1>8, <1>9, <1>10, <1>11, <1>13, <1>14 DEF IInv

LEMMA ConsultStep ==
  ASSUME IInv, NEW w \in Loops, Consult(w) PROVE IInv'
<1>1. UNCHANGED <<erp, target, links, older, requests, failures>> /\ loops[w].pc = "consult"
  BY DEF Consult
<1>2. /\ loops' \in [Loops -> LoopRec]
      /\ loops'[w].pc = "answered" /\ loops'[w].answer = erp
      /\ loops'[w].link = loops[w].link /\ loops'[w].before = loops[w].before
      /\ \A v \in Loops \ {w} : loops'[v] = loops[v]
  <2>1. loops[w] \in LoopRec /\ erp \in Pay
    BY Fields DEF IInv, TypeOK, Pay
  <2>2. [loops[w] EXCEPT !.pc = "answered", !.answer = erp] \in LoopRec
    BY <2>1 DEF LoopRec
  <2>3. loops' = [loops EXCEPT ![w] = [loops[w] EXCEPT !.pc = "answered", !.answer = erp]]
    BY <2>1 DEF Consult, IInv, TypeOK, LoopRec
  <2> QED
    BY <2>1, <2>2, <2>3 DEF IInv, TypeOK, LoopRec
<1>3. TypeOK' /\ RowIsConfirmed' /\ LinksAreConfirmed' /\ CompletedLinksMirror'
      /\ LinksHaveRow' /\ ClaimsProcess'
  BY <1>1, <1>2
     DEF IInv, TypeOK, RowIsConfirmed, LinksAreConfirmed, CompletedLinksMirror,
         LinksHaveRow, ClaimsProcess
<1>4. AnswersAreConfirmed' /\ LoopsHaveLinks' /\ OpenHolds'
  BY <1>1, <1>2 DEF IInv, AnswersAreConfirmed, LoopsHaveLinks, OpenHolds, Holds
<1>5. ASSUME NEW v \in Loops, ReadOpen(v)'
      PROVE  /\ loops'[v].link = loops[v].link
             /\ IF v = w THEN erp \notin Terminal ELSE ReadOpen(v)
  BY <1>1, <1>2, <1>5 DEF ReadOpen, Holds
<1>6. LateIsOlder'
  BY <1>1, <1>5 DEF IInv, LateIsOlder, RowIsConfirmed
<1>7. LateIsBefore'
  BY <1>1, <1>2, <1>5 DEF IInv, LateIsBefore, AnswersAreConfirmed
<1> QED
  BY <1>3, <1>4, <1>6, <1>7 DEF IInv

\* A loop gives its work up: its claim, if it has one, stays.
LEMMA GiveUp ==
  ASSUME IInv, NEW w \in Loops, loops' = Released(w),
         failures' \in 0 .. MaxFailures,
         UNCHANGED <<erp, target, links, older, requests>>
  PROVE  IInv'
<1>1. LoopsGoOn /\ LoopDone(w)
  BY ReleaseGoesOn DEF IInv
<1>2. /\ target \in RowRec /\ links \in [Links -> LinkRec] /\ requests \in 0 .. MaxRequests
      /\ \A k \in Links :
           /\ links[k].st # "absent" => target.exists
           /\ links[k].holder # None => links[k].st = "processing"
           /\ links[k].pay \in Terminal => target.pay = links[k].pay
           /\ links[k].st = "completed" => links[k].pay = target.pay
  BY Fields, LinkFacts DEF IInv, TypeOK
<1>3. \A v \in Loops : loops'[v].pc = "open" => links'[loops[v].link].holder = v
  BY <1>1 DEF IInv, OpenHolds, Holds, LoopsGoOn, LoopKept, LoopDone
<1> QED
  BY <1>1, <1>2, <1>3, LinksFollow

\* An aborted transaction leaves what its loop read behind.
LEMMA AbortedStep ==
  ASSUME IInv, NEW w \in Loops, Aborted(w) PROVE IInv'
<1> DEFINE new == [IdleLoop EXCEPT !.pc = "failing", !.link = loops[w].link]
<1>1. /\ UNCHANGED <<erp, target, links, older, requests>>
      /\ failures' \in 0 .. MaxFailures
      /\ loops' = [Released(w) EXCEPT ![w] = new]
  BY Counters DEF Aborted
<1>2. /\ loops[w] \in LoopRec /\ loops[w].pc = "open" /\ loops[w].link \in Links
  BY Fields DEF Aborted, IInv, LoopsHaveLinks
<1>3. /\ new \in LoopRec /\ new.pc = "failing" /\ new.link = loops[w].link
      /\ new.answer = "none"
  BY <1>2 DEF IdleLoop, LoopRec, Pay
<1> HIDE DEF new
<1>4. /\ Released(w) \in [Loops -> LoopRec]
      /\ \A v \in Loops \ {w} :
            /\ Released(w)[v].pc = loops[v].pc
            /\ Released(w)[v].link = loops[v].link
            /\ Released(w)[v].answer = loops[v].answer
            /\ Released(w)[v].before = loops[v].before
  BY ReleasedLoops DEF IInv
<1>5. /\ loops' \in [Loops -> LoopRec]
      /\ loops'[w].pc = "failing" /\ loops'[w].link = loops[w].link
      /\ loops'[w].answer = "none"
      /\ \A v \in Loops \ {w} : LoopKept(v)
  BY <1>1, <1>3, <1>4 DEF LoopKept
<1>6. TypeOK' /\ RowIsConfirmed' /\ LinksAreConfirmed' /\ CompletedLinksMirror'
      /\ LinksHaveRow' /\ ClaimsProcess'
  BY <1>1, <1>5
     DEF IInv, TypeOK, RowIsConfirmed, LinksAreConfirmed, CompletedLinksMirror,
         LinksHaveRow, ClaimsProcess
<1>7. AnswersAreConfirmed' /\ LoopsHaveLinks'
  BY <1>1, <1>2, <1>5
     DEF IInv, AnswersAreConfirmed, LoopsHaveLinks, LoopKept, Terminal
<1>8. OpenHolds'
  BY <1>1, <1>5 DEF IInv, OpenHolds, Holds, LoopKept
<1>9. ASSUME NEW v \in Loops, ReadOpen(v)'
      PROVE  ReadOpen(v) /\ LoopKept(v)
  BY <1>1, <1>5, <1>9 DEF ReadOpen, Holds, LoopKept
<1>10. LateIsOlder'
  BY <1>1, <1>9 DEF IInv, LateIsOlder, LoopKept
<1>11. LateIsBefore'
  BY <1>5, <1>9 DEF IInv, LateIsBefore, LoopKept
<1> QED
  BY <1>6, <1>7, <1>8, <1>10, <1>11 DEF IInv

LEMMA BeginStep ==
  ASSUME IInv, NEW w \in Loops, Begin(w) PROVE IInv'
<1>1. /\ UNCHANGED <<erp, target, links, older, requests, failures>>
      /\ loops[w].pc = "answered" /\ Holds(w)
  BY DEF Begin
<1>2. /\ loops' \in [Loops -> LoopRec]
      /\ loops'[w].pc = "open" /\ loops'[w].answer = loops[w].answer
      /\ loops'[w].link = loops[w].link
      /\ loops'[w].before = {l \in Links : links[l].st = "processing"}
      /\ \A v \in Loops \ {w} : loops'[v] = loops[v]
  <2> DEFINE begun == [loops[w] EXCEPT !.pc = "open",
                                       !.before = {l \in Links : links[l].st = "processing"},
                                       !.ahead = Open,
                                       !.outrun = FALSE]
  <2>1. loops[w] \in LoopRec
    BY Fields DEF IInv
  <2>2. begun \in LoopRec
    BY <2>1 DEF LoopRec, Open
  <2>3. loops' = [loops EXCEPT ![w] = begun]
    BY <2>1 DEF Begin, IInv, TypeOK, LoopRec
  <2> QED
    BY <2>1, <2>2, <2>3 DEF IInv, TypeOK, LoopRec
<1>3. TypeOK' /\ RowIsConfirmed' /\ LinksAreConfirmed' /\ CompletedLinksMirror'
      /\ LinksHaveRow' /\ ClaimsProcess'
  BY <1>1, <1>2
     DEF IInv, TypeOK, RowIsConfirmed, LinksAreConfirmed, CompletedLinksMirror,
         LinksHaveRow, ClaimsProcess
<1>4. AnswersAreConfirmed' /\ LoopsHaveLinks' /\ OpenHolds'
  BY <1>1, <1>2 DEF IInv, AnswersAreConfirmed, LoopsHaveLinks, OpenHolds, Holds
<1>5. ASSUME NEW v \in Loops, ReadOpen(v)'
      PROVE  /\ loops'[v].link = loops[v].link /\ ReadOpen(v)
             /\ loops[v].link \in Links /\ links[loops[v].link].st = "processing"
  <2>1. loops'[v].link = loops[v].link /\ ReadOpen(v)
    BY <1>1, <1>2, <1>5 DEF ReadOpen, Holds
  <2> QED
    BY <2>1, CanonicalAssumption DEF ReadOpen, Holds, IInv, LoopsHaveLinks, ClaimsProcess
<1>6. LateIsOlder'
  BY <1>1, <1>5 DEF IInv, LateIsOlder
<1>7. LateIsBefore'
  BY <1>2, <1>5 DEF IInv, LateIsBefore
<1> QED
  BY <1>3, <1>4, <1>6, <1>7 DEF IInv

\* What was read before a confirmation is not promoted over it.
LEMMA LateIsRefused ==
  ASSUME IInv, NEW w \in Loops, loops[w].pc = "open",
         target.pay \in Terminal, loops[w].answer # target.pay
  PROVE  StaleReversal(w)
<1>1. Holds(w)
  BY DEF IInv, OpenHolds
<1>2. loops[w].answer \notin Terminal
  BY DEF IInv, AnswersAreConfirmed, RowIsConfirmed
<1>3. ReadOpen(w)
  BY <1>1, <1>2 DEF ReadOpen
<1> QED
  BY <1>2, <1>3 DEF IInv, LateIsOlder, StaleReversal
LEMMA PersistStep ==
  ASSUME IInv, NEW w \in Loops, Persist(w)
  PROVE  IInv' /\ (target.pay \in Terminal => target'.pay \in Terminal)
<1> DEFINE me == loops[w]
           promoted == ~StaleReversal(w) /\ ~me.outrun
           new == [st |-> "completed", pay |-> me.answer, amount |-> ErpAmount, holder |-> None]
           answered == [links EXCEPT ![me.link] = new]
<1>1. /\ me \in LoopRec /\ me.pc = "open" /\ me.link \in Links
      /\ links[me.link].holder = w /\ links[me.link].st = "processing"
      /\ target \in RowRec /\ target.exists
  BY Fields, LinkFacts, CanonicalAssumption
     DEF Persist, IInv, OpenHolds, Holds, LoopsHaveLinks, ClaimsProcess
<1>2. /\ target' \in RowRec /\ target'.exists
      /\ target'.pay = IF promoted THEN me.answer ELSE target.pay
  BY <1>1, CanonicalAssumption DEF Persist, RowRec, LoopRec
<1>3. UNCHANGED <<erp, requests, failures>>
  BY DEF Persist
<1>4. older' = IF promoted THEN me.before \ {me.link} ELSE older \ {me.link}
  BY DEF Persist
<1>5. links' = SyncLinks(answered, target')
  BY DEF Persist, Restored
<1>6. /\ loops' \in [Loops -> LoopRec]
      /\ loops'[w].pc = "idle" /\ loops'[w].answer = "none"
      /\ \A v \in Loops \ {w} : LoopKept(v)
  <2>1. /\ Released(w) \in [Loops -> LoopRec]
        /\ Released(w)[w].pc = "idle" /\ Released(w)[w].answer = "none"
        /\ \A v \in Loops \ {w} :
              /\ Released(w)[v].pc = loops[v].pc
              /\ Released(w)[v].link = loops[v].link
              /\ Released(w)[v].answer = loops[v].answer
              /\ Released(w)[v].before = loops[v].before
    BY ReleasedLoops DEF IInv
  <2>2. loops' = [v \in Loops |->
                    IF promoted /\ v \in me.ahead
                    THEN [Released(w)[v] EXCEPT !.outrun = TRUE] ELSE Released(w)[v]]
    BY DEF Persist
  <2>3. \A v \in Loops : Released(w)[v] \in LoopRec
    BY <2>1
  <2>4. \A v \in Loops :
          /\ loops'[v] \in LoopRec
          /\ loops'[v].pc = Released(w)[v].pc /\ loops'[v].link = Released(w)[v].link
          /\ loops'[v].answer = Released(w)[v].answer
          /\ loops'[v].before = Released(w)[v].before
    BY <2>2, <2>3, LoopWritten
  <2>5. loops' \in [Loops -> LoopRec]
    BY <2>2, <2>4
  <2> QED
    BY <2>1, <2>4, <2>5 DEF LoopKept
<1>7. /\ new \in LinkRec /\ new.st = "completed" /\ new.holder = None
  BY <1>1, CanonicalAssumption DEF LinkRec, LinkStatus, LoopRec
<1> HIDE DEF new
<1>8. /\ answered \in [Links -> LinkRec]
      /\ \A k \in Links : answered[k] = IF k = me.link THEN new ELSE links[k]
  BY <1>1, <1>7 DEF IInv, TypeOK
<1> HIDE DEF answered
<1>9. /\ links' \in [Links -> LinkRec]
      /\ \A k \in Links :
           IF answered[k].st \in {"absent", "removed", "processing"}
           THEN links'[k] = answered[k]
           ELSE /\ links'[k].pay = target'.pay
                /\ links'[k].st \notin {"absent", "removed", "processing"}
                /\ links'[k].holder \in {None, answered[k].holder}
  BY <1>2, <1>5, <1>8, SyncedLinks
<1>10. target.pay \in Terminal => target'.pay = target.pay
  BY <1>1, <1>2, LateIsRefused
<1>11. \A k \in Links \ {me.link} :
         IF links[k].st \in {"absent", "removed", "processing"}
         THEN links'[k] = links[k]
         ELSE links'[k].pay = target'.pay /\ links'[k].holder = None
              /\ links'[k].st \notin {"absent", "removed", "processing"}
  BY <1>8, <1>9, LinkFacts
<1>12. /\ links'[me.link].pay = target'.pay /\ links'[me.link].holder = None
       /\ links'[me.link].st \notin {"absent", "removed", "processing"}
  BY <1>1, <1>7, <1>8, <1>9
<1>13. TypeOK'
  BY <1>1, <1>2, <1>3, <1>4, <1>6, <1>9 DEF IInv, TypeOK, RowRec, LoopRec
<1>14. RowIsConfirmed'
  BY <1>1, <1>2, <1>3 DEF IInv, RowIsConfirmed, AnswersAreConfirmed
<1>15. AnswersAreConfirmed' /\ LoopsHaveLinks'
  BY <1>3, <1>6 DEF IInv, AnswersAreConfirmed, LoopsHaveLinks, LoopKept, Terminal
<1>16. LinksAreConfirmed' /\ CompletedLinksMirror'
  BY <1>10, <1>11, <1>12, LinkFacts DEF LinksAreConfirmed, CompletedLinksMirror
<1>17. ClaimsProcess' /\ LinksHaveRow'
  BY <1>2, <1>11, <1>12, LinkFacts DEF ClaimsProcess, LinksHaveRow
<1>18. OpenHolds'
  <2>1. ASSUME NEW v \in Loops, loops'[v].pc = "open"
        PROVE  links'[loops'[v].link].holder = v
    <3>1. v # w /\ loops[v].pc = "open" /\ loops'[v].link = loops[v].link
      BY <1>6, <2>1 DEF LoopKept
    <3>2. loops[v].link \in Links /\ links[loops[v].link].holder = v
      BY <3>1 DEF IInv, OpenHolds, Holds, LoopsHaveLinks
    <3>3. loops[v].link # me.link /\ links[loops[v].link].st = "processing"
      BY <1>1, <3>1, <3>2, CanonicalAssumption DEF IInv, ClaimsProcess
    <3> QED
      BY <1>11, <3>1, <3>2, <3>3
  <2> QED
    BY <2>1 DEF OpenHolds, Holds
<1>19. ASSUME NEW v \in Loops, ReadOpen(v)'
       PROVE  v # w /\ ReadOpen(v) /\ LoopKept(v) /\ loops[v].link # me.link
  <2>1. v # w /\ LoopKept(v) /\ loops[v].link \in Links
    BY <1>6, <1>19 DEF ReadOpen, LoopKept, IInv, LoopsHaveLinks
  <2>2. links'[loops[v].link].holder = v
    BY <1>19, <2>1 DEF ReadOpen, Holds, LoopKept
  <2>3. loops[v].link # me.link /\ links[loops[v].link].holder = v
    BY <1>11, <1>12, <2>1, <2>2, CanonicalAssumption
  <2> QED
    BY <1>19, <2>1, <2>3 DEF ReadOpen, Holds, LoopKept
<1>20. LateIsOlder'
  <2>1. ASSUME NEW v \in Loops, ReadOpen(v)', target'.pay \in Terminal
        PROVE  loops'[v].link \in older'
    <3>1. v # w /\ ReadOpen(v) /\ LoopKept(v) /\ loops[v].link # me.link
      BY <1>19, <2>1
    <3>2. CASE promoted
      BY <1>1, <1>2, <1>4, <2>1, <3>1, <3>2 DEF IInv, LateIsBefore, LoopKept
    <3>3. CASE ~promoted
      BY <1>2, <1>4, <2>1, <3>1, <3>3 DEF IInv, LateIsOlder, LoopKept
    <3> QED
      BY <3>2, <3>3
  <2> QED
    BY <2>1 DEF LateIsOlder
<1>21. LateIsBefore'
  <2>1. ASSUME NEW v \in Loops, NEW u \in Loops, ReadOpen(v)',
               loops'[u].pc = "open", loops'[u].answer \in Terminal
        PROVE  loops'[v].link \in loops'[u].before
    <3>1. ReadOpen(v) /\ LoopKept(v) /\ LoopKept(u)
      BY <1>6, <1>19, <2>1
    <3> QED
      BY <2>1, <3>1 DEF IInv, LateIsBefore, LoopKept
  <2> QED
    BY <2>1 DEF LateIsBefore
<1> QED
  BY <1>10, <1>13, <1>14, <1>15, <1>16, <1>17, <1>18, <1>20, <1>21 DEF IInv

LEMMA NextStep ==
  ASSUME IInv, [Next]_vars
  PROVE  IInv' /\ (target.pay \in Terminal => target'.pay \in Terminal)
<1>1. CASE UNCHANGED vars
  BY <1>1
     DEF vars, IInv, TypeOK, RowIsConfirmed, AnswersAreConfirmed, LinksAreConfirmed,
         ClaimsProcess, OpenHolds, LoopsHaveLinks, LinksHaveRow, LateIsOlder,
         LateIsBefore, ReadOpen, CompletedLinksMirror, Holds
<1>2. CASE ErpChanges
  BY <1>2, ErpChangesStep DEF ErpChanges
<1>3. ASSUME NEW l \in Links, Operator(l) \/ Recover(l)
      PROVE  IInv' /\ target'.pay = target.pay
  <2>1. ASSUME NEW a \in Amounts, Import(l, a) PROVE target'.pay = target.pay
    BY <2>1, Fields DEF Import, IInv, LinksHaveRow, RowRec, Pay
  <2>2. ASSUME NEW a \in Amounts, Import(l, a) \/ UpdateLink(l, a)
        PROVE  IInv' /\ target'.pay = target.pay
    BY <2>1, <2>2, ImportStep, UpdateLinkStep DEF UpdateLink
  <2>3. CASE \/ ReopenUnpaid(l) \/ RequestErrored(l) \/ ReopenMember(l)
             \/ RemoveLink(l) \/ Recover(l)
    BY <2>3, ReopenUnpaidStep, RequestErroredStep, ReopenMemberStep, RemoveLinkStep,
       RecoverStep
       DEF ReopenUnpaid, RequestErrored, ReopenMember, RemoveLink, Recover
  <2> QED
    BY <1>3, <2>2, <2>3 DEF Operator
<1>4. ASSUME NEW w \in Loops, Worker(w) \/ PersistFailure(w) \/ Aborted(w) \/ Die(w)
      PROVE  IInv' /\ (target.pay \in Terminal => target'.pay \in Terminal)
  <2>1. CASE \E l \in Links : Claim(w, l)
    BY <2>1, ClaimStep DEF Claim
  <2>2. CASE Consult(w) \/ Begin(w) \/ PersistFailure(w)
    BY <2>2, ConsultStep, BeginStep, PersistFailureStep
       DEF Consult, Begin, PersistFailure
  <2>3. CASE Refused(w)
    BY <2>3, GiveUp DEF Refused, IInv, TypeOK
  <2>4. CASE Persist(w)
    BY <2>4, PersistStep
  <2>5. CASE Die(w)
    BY <2>5, GiveUp, Counters DEF Die
  <2>6. CASE Aborted(w)
    BY <2>6, AbortedStep DEF Aborted
  <2> QED
    BY <1>4, <2>1, <2>2, <2>3, <2>4, <2>5, <2>6 DEF Worker
<1> QED
  BY <1>1, <1>2, <1>3, <1>4 DEF Next

-----------------------------------------------------------------------------
(* Theorems *)

\* The invariant above holds in every state of an installment.
THEOREM Inductive == Spec => []IInv
<1>1. IInv /\ [Next]_vars => IInv'
  BY NextStep
<1> QED
  BY InitIInv, <1>1, PTL DEF Spec

\* The rows, the links and the loops keep their types.
THEOREM TypeCorrect == Spec => []TypeOK
<1>1. IInv => TypeOK
  BY DEF IInv
<1> QED
  BY <1>1, Inductive, PTL

\* A completed link shows what the canonical row says.
THEOREM CompletedMirror == Spec => []CompletedLinksMirror
<1>1. IInv => CompletedLinksMirror
  BY DEF IInv
<1> QED
  BY <1>1, Inductive, PTL

\* No late answer reopens a confirmed installment.
THEOREM NoLateReversal == Spec => ConfirmationStands
<1>1. IInv /\ [Next]_vars => [target.pay \in Terminal => target'.pay \in Terminal]_vars
  BY NextStep
<1> QED
  BY <1>1, Inductive, PTL DEF Spec, ConfirmationStands

-----------------------------------------------------------------------------
(* The pools *)

LEMMA PoolsStart == Stages => Pipeline!IInv
<1>1. Stages => Pipeline!Init
  BY DEF Stages, PipelineAtRest
<1> QED BY <1>1, PoolsAssumption, SizesAssumption, Pipeline!InitOK

LEMMA PoolsGoOn ==
  Pipeline!IInv /\ [Step]_<<vars, erpVars, pipelineVars>> => Pipeline!IInv'
<1> SUFFICES ASSUME Pipeline!IInv, [Step]_<<vars, erpVars, pipelineVars>>
             PROVE  Pipeline!IInv'
  OBVIOUS
<1>1. [Pipeline!Next]_(Pipeline!vars)
  BY DEF Step, pipelineVars, Pipeline!vars
<1> QED BY <1>1, PoolsAssumption, SizesAssumption, Pipeline!PipelineStep

\* The promise of a block settles after every item was persisted and nothing is
\* in flight, and is rejected exactly when one of them failed
\* (runSplitProcessingPipeline), whatever the sizes of the block and the pools.
THEOREM BlocksAreDrained == ConsultationSpec => []Drained
<1>1. Pipeline!IInv => Drained
  BY PoolsAssumption, SizesAssumption, Pipeline!DrainedWhenSettled DEF Drained
<1> QED BY <1>1, PoolsStart, PoolsGoOn, PTL DEF ConsultationSpec
===============================================================================
