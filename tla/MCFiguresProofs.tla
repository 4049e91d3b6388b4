--------------------------- MODULE MCFiguresProofs ---------------------------
(***************************************************************************)
(* The count at the end of a cycle of the worker is true, for any number   *)
(* of installments, batches and persistence loops.                         *)
(***************************************************************************)
EXTENDS MCFigures, Sequences, TLAPS

Cells == Installments \X Screens!WorkBatches

\* A transaction, the cycle and a removal, by their fields.
IsTx(t) ==
  t \in [pc : {t.pc}, link : {t.link}, answer : {t.answer}, todo : {t.todo},
         counted : {t.counted}, written : {t.written}]
IsCycle(c) ==
  c \in [pc : {c.pc}, batch : {c.batch}, counted : {c.counted}, alone : {c.alone}]
IsRemoval(r) == r \in [pc : {r.pc}, link : {r.link}, counted : {r.counted}]

Shapes ==
  /\ DOMAIN figureLinks = Cells /\ DOMAIN totals = Screens!WorkBatches
  /\ DOMAIN tx = Loops /\ \A w \in Loops : IsTx(tx[w])
  /\ IsRemoval(removal) /\ IsCycle(cycle) /\ cycle.pc \in {"idle", "persisting", "counted"}
  /\ cycle.pc # "idle" => cycle.batch \in Screens!WorkBatches

\* An open transaction is on a link of the cycle, which nobody else has and which
\* is processing until the commit.
OpenLinks ==
  \A w \in Screens!Open :
    /\ cycle.pc = "persisting" /\ tx[w].link \in Cells
    /\ tx[w].link[2] = cycle.batch /\ figureLinks[tx[w].link].st = "processing"
    /\ \A v \in Screens!Open : tx[v].link = tx[w].link => v = w

\* The link that is being removed is never one that a loop works on.
RemovedRests ==
  removal.pc # "idle" =>
    removal.link \in Cells /\ figureLinks[removal.link].st # "processing"

\* What the cycle has counted is still so.
CountStands ==
  cycle.pc = "counted" /\ cycle.alone =>
    cycle.counted = Screens!CountLinks(Screens!Of(cycle.batch))

TotalsInv == Shapes /\ OpenLinks /\ RemovedRests /\ CountStands

-----------------------------------------------------------------------------
(* The loops *)

LEMMA AnsweredKept ==
  ASSUME TotalsInv, NEW w \in Loops, NEW l \in Cells, Screens!Answered(w, l)
  PROVE  TotalsInv'
<1> USE DEF TotalsInv
<1>1. PICK t :
        /\ tx' = [tx EXCEPT ![w] = t] /\ IsTx(t) /\ t.pc = "next" /\ t.link = l
  <2>1. PICK a, todo :
          tx' = [tx EXCEPT ![w] = [Screens!IdleTx EXCEPT !.pc = "next", !.link = l,
                                                         !.answer = a, !.todo = todo]]
    BY Zenon DEF Screens!Answered
  <2> DEFINE t == [Screens!IdleTx EXCEPT !.pc = "next", !.link = l,
                                         !.answer = a, !.todo = todo]
  <2>2. IsTx(t) /\ t.pc = "next" /\ t.link = l
    BY DEF IsTx, Screens!IdleTx
  <2> HIDE DEF t
  <2> QED
    BY <2>1, <2>2 DEF t
<1>2. /\ tx'[w].pc = "next" /\ tx'[w].link = l /\ IsTx(tx'[w]) /\ DOMAIN tx' = Loops
      /\ \A v \in Loops \ {w} : tx'[v] = tx[v]
  BY <1>1 DEF Shapes, IsTx
<1>3. /\ cycle.pc = "persisting" /\ l[2] = cycle.batch /\ figureLinks[l].st = "processing"
      /\ \A v \in Screens!Open : tx[v].link # l
      /\ UNCHANGED <<figureLinks, totals, cycle, removal>>
  BY DEF Screens!Answered, Screens!Mine
<1>4. Shapes'
  BY <1>2, <1>3 DEF Shapes, Cells, Screens!WorkBatches
<1>5. OpenLinks'
  BY <1>2, <1>3 DEF OpenLinks, Screens!Open, Cells, Screens!WorkBatches
<1>6. RemovedRests' /\ CountStands'
  BY <1>3 DEF RemovedRests, CountStands
<1> QED
  BY <1>4, <1>5, <1>6

LEMMA FailedKept ==
  ASSUME TotalsInv, NEW w \in Loops, NEW l \in Cells, Screens!Failed(w, l)
  PROVE  TotalsInv'
<1> USE DEF TotalsInv
<1>1. PICK st \in {"completed", "error", "waiting"} :
        figureLinks' = [figureLinks EXCEPT ![l].st = st]
  BY DEF Screens!Failed
<1>2. /\ cycle.pc = "persisting" /\ figureLinks[l].st = "processing"
      /\ \A v \in Screens!Open : tx[v].link # l
      /\ UNCHANGED <<totals, tx, cycle, removal>>
  BY DEF Screens!Failed, Screens!Mine
<1>3. DOMAIN figureLinks' = Cells /\ \A k \in Cells \ {l} : figureLinks'[k] = figureLinks[k]
  BY <1>1 DEF Shapes
<1>4. Shapes'
  BY <1>2, <1>3 DEF Shapes, Cells, Screens!WorkBatches
<1>5. OpenLinks'
  BY <1>2, <1>3 DEF OpenLinks, Screens!Open, Cells, Screens!WorkBatches
<1>6. RemovedRests'
  BY <1>1, <1>2, <1>3 DEF RemovedRests
<1>7. CountStands'
  BY <1>2 DEF CountStands
<1> QED
  BY <1>4, <1>5, <1>6, <1>7

\* The counts and the writes of the transactions leave the links alone.
LEMMA CountsKept ==
  ASSUME TotalsInv, NEW w \in Loops, Screens!CountBatch(w) \/ Screens!WriteBatch(w)
  PROVE  TotalsInv'
<1> USE DEF TotalsInv
<1>1. UNCHANGED <<figureLinks, cycle, removal>> /\ tx[w].pc # "idle"
  BY DEF Screens!CountBatch, Screens!WriteBatch
<1>2. DOMAIN totals' = Screens!WorkBatches
  BY DEF Shapes, Screens!CountBatch, Screens!WriteBatch
<1>3. PICK t : tx' = [tx EXCEPT ![w] = t] /\ IsTx(t) /\ t.pc # "idle" /\ t.link = tx[w].link
  <2> DEFINE old == tx[w]
             Counted(c) == [old EXCEPT !.pc = "counted", !.counted = c]
             Written(todo, written) ==
               [old EXCEPT !.pc = "next", !.todo = todo, !.written = written]
  <2>1. IsTx(old)
    BY DEF Shapes
  <2>2. \A c : /\ IsTx(Counted(c))
               /\ Counted(c).pc = "counted" /\ Counted(c).link = old.link
    BY <2>1 DEF IsTx
  <2>3. \A d, s : /\ IsTx(Written(d, s))
                  /\ Written(d, s).pc = "next" /\ Written(d, s).link = old.link
    BY <2>1 DEF IsTx
  <2>4. Screens!CountBatch(w) => \E c : tx' = [tx EXCEPT ![w] = Counted(c)]
    BY DEF Screens!CountBatch
  <2>5. Screens!WriteBatch(w) =>
          tx' = [tx EXCEPT ![w] = Written(Tail(old.todo), old.written \cup {Head(old.todo)})]
    BY DEF Shapes, Screens!WriteBatch
  <2> HIDE DEF Counted, Written
  <2> QED
    BY <2>2, <2>3, <2>4, <2>5
<1>4. /\ DOMAIN tx' = Loops /\ \A v \in Loops : IsTx(tx'[v]) /\ tx'[v].link = tx[v].link
      /\ Screens!Open' = Screens!Open
  BY <1>1, <1>3 DEF Shapes, Screens!Open
<1>5. Shapes'
  BY <1>1, <1>2, <1>4 DEF Shapes, Cells, Screens!WorkBatches, IsCycle
<1>6. OpenLinks'
  BY <1>1, <1>4 DEF OpenLinks, Screens!Open, Cells, Screens!WorkBatches
<1>7. RemovedRests' /\ CountStands'
  BY <1>1 DEF RemovedRests, CountStands, Screens!Of
<1> QED
  BY <1>5, <1>6, <1>7

\* A commit leaves the links that other loops work on.
LEMMA CommitKept ==
  ASSUME TotalsInv, NEW w \in Loops, Screens!Commit(w)
  PROVE  TotalsInv'
<1> USE DEF TotalsInv
<1>1. /\ figureLinks' = Screens!Seen(w) /\ tx' = [tx EXCEPT ![w] = Screens!IdleTx]
      /\ UNCHANGED <<totals, cycle, removal>> /\ w \in Screens!Open
  BY DEF Screens!Commit, Screens!Open
<1>2. /\ IsTx(Screens!IdleTx) /\ Screens!IdleTx.pc = "idle"
  BY DEF IsTx, Screens!IdleTx
<1>3. /\ DOMAIN tx' = Loops /\ tx'[w] = Screens!IdleTx
      /\ \A v \in Loops \ {w} : tx'[v] = tx[v]
  BY <1>1 DEF Shapes
<1>4. Screens!Open' = Screens!Open \ {w} /\ \A v \in Screens!Open \ {w} : tx'[v] = tx[v]
  BY <1>2, <1>3 DEF Screens!Open
<1>5. DOMAIN figureLinks' = Cells
  BY <1>1 DEF Shapes, Screens!Seen
<1>6. ASSUME NEW l \in Cells, l # tx[w].link, figureLinks[l].st = "processing"
      PROVE  figureLinks'[l] = figureLinks[l]
  BY <1>1, <1>6 DEF Shapes, Screens!Seen
<1>7. ASSUME NEW l \in Cells, figureLinks[l].st # "processing"
      PROVE  figureLinks'[l].st # "processing"
  <2>1. figureLinks'[l] = figureLinks[l] \/ figureLinks'[l].st \in {"completed", "waiting", figureLinks[l].st}
    BY <1>1, <1>7 DEF Shapes, Screens!Seen, Screens!Synced
  <2> QED
    BY <1>7, <2>1
<1>8. Shapes'
  BY <1>1, <1>2, <1>3, <1>5 DEF Shapes, Cells, Screens!WorkBatches, IsCycle
<1>9. OpenLinks'
  BY <1>1, <1>4, <1>6 DEF OpenLinks, Cells, Screens!WorkBatches
<1>10. RemovedRests'
  BY <1>1, <1>7 DEF RemovedRests
<1>11. CountStands'
  BY <1>1 DEF CountStands, OpenLinks
<1> QED
  BY <1>8, <1>9, <1>10, <1>11

-----------------------------------------------------------------------------
(* The cycle *)

LEMMA NobodyOpen ==
  ASSUME TotalsInv, cycle.pc # "persisting" \/ Screens!Drained
  PROVE  Screens!Open = {}
<1> SUFFICES ASSUME NEW w \in Screens!Open PROVE FALSE
  OBVIOUS
<1>1. /\ cycle.pc = "persisting" /\ tx[w].link \in Cells
      /\ tx[w].link[2] = cycle.batch /\ figureLinks[tx[w].link].st = "processing"
  BY DEF TotalsInv, OpenLinks
<1>2. tx[w].link = <<tx[w].link[1], cycle.batch>> /\ tx[w].link[1] \in Installments
  BY <1>1 DEF Cells
<1> QED
  BY <1>1, <1>2 DEF Screens!Drained

\* Without an open transaction nothing is asked of the loops.
LEMMA LoopsRest ==
  ASSUME TotalsInv, Screens!Open = {}, UNCHANGED tx
  PROVE  OpenLinks'
BY DEF OpenLinks, Screens!Open

LEMMA StartKept ==
  ASSUME TotalsInv, NEW b \in Screens!WorkBatches, Screens!StartCycle(b)
  PROVE  TotalsInv'
<1> USE DEF TotalsInv
<1>1. /\ cycle.pc = "idle" /\ UNCHANGED <<totals, tx, removal>>
      /\ cycle' = [Screens!IdleCycle EXCEPT !.pc = "persisting", !.batch = b]
      /\ figureLinks' = [l \in DOMAIN figureLinks |->
           IF l[2] = b /\ l[1] \in Screens!Claimable(b)
           THEN [figureLinks[l] EXCEPT !.st = "processing"] ELSE figureLinks[l]]
  BY DEF Screens!StartCycle
<1>2. IsCycle(cycle') /\ cycle'.pc = "persisting" /\ cycle'.batch = b
  BY <1>1 DEF IsCycle, Screens!IdleCycle
<1>3. OpenLinks'
  BY <1>1, NobodyOpen, LoopsRest
<1>4. Shapes'
  BY <1>1, <1>2 DEF Shapes, Cells, Screens!WorkBatches
<1>5. RemovedRests'
  <2> SUFFICES ASSUME removal.pc # "idle"
               PROVE  /\ removal.link \in Cells
                      /\ figureLinks'[removal.link].st # "processing"
    BY <1>1 DEF RemovedRests, Cells, Screens!WorkBatches
  <2>1. removal.link \in Cells /\ figureLinks[removal.link].st # "processing"
    BY DEF RemovedRests
  <2>2. ~(removal.link[2] = b /\ removal.link[1] \in Screens!Claimable(b))
    <3>1. removal.link = <<removal.link[1], removal.link[2]>>
      BY <2>1 DEF Cells
    <3>2. Screens!Locked(removal.link)
      BY DEF Screens!Locked
    <3> QED
      BY <3>1, <3>2 DEF Screens!Claimable
  <2> QED
    BY <1>1, <2>1, <2>2 DEF Shapes
<1>6. CountStands'
  BY <1>2 DEF CountStands
<1> QED
  BY <1>3, <1>4, <1>5, <1>6

LEMMA CycleKept ==
  ASSUME TotalsInv, Screens!CountCycle \/ Screens!EndCycle
  PROVE  TotalsInv'
<1> USE DEF TotalsInv
<1>1. Screens!Open = {} /\ UNCHANGED <<figureLinks, tx, removal>>
  BY NobodyOpen DEF Screens!CountCycle, Screens!EndCycle
<1>2. OpenLinks' /\ RemovedRests'
  BY <1>1, LoopsRest DEF RemovedRests, Cells, Screens!WorkBatches
<1>3. CASE Screens!CountCycle
  <2> DEFINE counted == Screens!CountLinks(Screens!Of(cycle.batch))
  <2>1. /\ cycle.pc = "persisting" /\ UNCHANGED totals
        /\ cycle' = [cycle EXCEPT !.pc = "counted", !.counted = counted, !.alone = TRUE]
    BY <1>3 DEF Screens!CountCycle
  <2>2. Screens!Of(cycle.batch) = [i \in Installments |-> figureLinks[i, cycle.batch]]
    BY DEF Screens!Of
  <2> HIDE DEF counted
  <2>3. /\ IsCycle(cycle') /\ cycle'.pc = "counted" /\ cycle'.counted = counted
        /\ cycle'.batch = cycle.batch
    BY <2>1 DEF Shapes, IsCycle
  <2>4. Shapes'
    BY <1>1, <2>1, <2>3 DEF Shapes, Cells, Screens!WorkBatches
  <2>5. CountStands'
    <3>1. Screens!Of(cycle.batch)' = Screens!Of(cycle.batch)
      BY <1>1, <2>3 DEF Screens!Of
    <3> QED
      BY <2>3, <3>1 DEF CountStands, counted
  <2> QED
    BY <1>2, <2>4, <2>5
<1>4. CASE Screens!EndCycle
  <2>1. cycle' = Screens!IdleCycle /\ totals' = [totals EXCEPT ![cycle.batch] = cycle.counted]
    BY <1>4 DEF Screens!EndCycle
  <2>2. IsCycle(cycle') /\ cycle'.pc = "idle"
    BY <2>1 DEF IsCycle, Screens!IdleCycle
  <2>3. Shapes'
    BY <1>1, <2>1, <2>2 DEF Shapes, Cells, Screens!WorkBatches
  <2>4. CountStands'
    BY <2>2 DEF CountStands
  <2> QED
    BY <1>2, <2>3, <2>4
<1> QED
  BY <1>3, <1>4

-----------------------------------------------------------------------------
(* The operators *)

\* One link that no loop works on is changed, and a cycle of its batch notes it.
LEMMA LinkChanged ==
  ASSUME TotalsInv, NEW l \in Cells, figureLinks[l].st # "processing",
         NEW st, figureLinks' = [figureLinks EXCEPT ![l].st = st],
         Screens!Disturbs(l[2]), UNCHANGED tx,
         DOMAIN totals' = Screens!WorkBatches, IsRemoval(removal')
  PROVE  Shapes' /\ OpenLinks' /\ CountStands'
<1> USE DEF TotalsInv
<1>1. DOMAIN figureLinks' = Cells /\ \A k \in Cells \ {l} : figureLinks'[k] = figureLinks[k]
  BY DEF Shapes
<1>2. /\ IsCycle(cycle') /\ cycle'.pc = cycle.pc /\ cycle'.batch = cycle.batch
      /\ cycle'.counted = cycle.counted
      /\ cycle'.alone => cycle.alone /\ cycle.batch # l[2]
  BY DEF Shapes, IsCycle, Screens!Disturbs
<1>3. Shapes'
  BY <1>1, <1>2 DEF Shapes, Cells, Screens!WorkBatches
<1>4. OpenLinks'
  BY <1>1, <1>2 DEF OpenLinks, Screens!Open, Cells, Screens!WorkBatches
<1>5. CountStands'
  <2> SUFFICES ASSUME cycle'.pc = "counted", cycle'.alone
               PROVE  cycle'.counted = Screens!CountLinks(Screens!Of(cycle.batch)')
    BY <1>2 DEF CountStands, Screens!Of
  <2>1. \A i \in Installments : <<i, cycle.batch>> \in Cells \ {l}
    BY <1>2 DEF Shapes, Cells
  <2>2. Screens!Of(cycle.batch)' = Screens!Of(cycle.batch)
    BY <1>1, <1>2, <2>1 DEF Screens!Of
  <2> QED
    BY <1>2, <2>2 DEF CountStands
<1> QED
  BY <1>3, <1>4, <1>5

LEMMA RemovalKept ==
  ASSUME TotalsInv,
         (\E l \in Cells : Screens!RemoveLink(l)) \/ Screens!CountRemoval
  PROVE  TotalsInv'
<1> USE DEF TotalsInv
<1>1. UNCHANGED <<figureLinks, totals, tx, cycle>>
  BY DEF Screens!RemoveLink, Screens!CountRemoval
<1>2. IsRemoval(removal') /\ RemovedRests'
  <2>1. ASSUME NEW l \in Cells, Screens!RemoveLink(l)
        PROVE  IsRemoval(removal') /\ RemovedRests'
    <3>1. /\ removal' = [Screens!IdleRemoval EXCEPT !.pc = "removed", !.link = l]
          /\ figureLinks[l].st = "error"
      BY <2>1 DEF Screens!RemoveLink
    <3>2. IsRemoval(removal') /\ removal'.link = l
      BY <3>1 DEF IsRemoval, Screens!IdleRemoval
    <3> QED
      BY <1>1, <3>1, <3>2 DEF RemovedRests, Cells, Screens!WorkBatches
  <2>2. ASSUME Screens!CountRemoval PROVE IsRemoval(removal') /\ RemovedRests'
    <3>1. removal.pc = "removed" /\ \E c :
            removal' = [removal EXCEPT !.pc = "counted", !.counted = c]
      BY <2>2 DEF Screens!CountRemoval
    <3>2. IsRemoval(removal') /\ removal'.link = removal.link
      BY <3>1 DEF Shapes, IsRemoval
    <3> QED
      BY <1>1, <3>1, <3>2 DEF RemovedRests, Cells, Screens!WorkBatches
  <2> QED
    BY <2>1, <2>2
<1>3. Shapes' /\ OpenLinks' /\ CountStands'
  BY <1>1, <1>2 DEF Shapes, OpenLinks, CountStands, Cells, Screens!WorkBatches, Screens!Open,
     Screens!Of
<1> QED
  BY <1>2, <1>3

LEMMA LinksKept ==
  ASSUME TotalsInv,
         (\E l \in Cells : Screens!ReopenLink(l)) \/ Screens!EndRemoval
  PROVE  TotalsInv'
<1> USE DEF TotalsInv
<1>1. ASSUME NEW l \in Cells, Screens!ReopenLink(l) PROVE TotalsInv'
  <2>1. /\ figureLinks[l].st \in {"completed", "error"} /\ ~Screens!Locked(l)
        /\ figureLinks' = [figureLinks EXCEPT ![l].st = "waiting"]
        /\ Screens!Disturbs(l[2]) /\ UNCHANGED <<totals, tx, removal>>
    BY <1>1 DEF Screens!ReopenLink
  <2>2. Shapes' /\ OpenLinks' /\ CountStands'
    BY <2>1, LinkChanged DEF Shapes, Screens!WorkBatches
  <2>3. RemovedRests'
    BY <2>1 DEF RemovedRests, Shapes, Screens!Locked, Cells, Screens!WorkBatches
  <2> QED
    BY <2>2, <2>3
<1>2. ASSUME Screens!EndRemoval PROVE TotalsInv'
  <2> DEFINE l == removal.link
  <2>1. /\ removal.pc = "counted" /\ removal' = Screens!IdleRemoval
        /\ figureLinks' = [figureLinks EXCEPT ![l].st = "removed"]
        /\ totals' = [totals EXCEPT ![l[2]] = removal.counted]
        /\ Screens!Disturbs(l[2]) /\ UNCHANGED tx
    BY <1>2 DEF Screens!EndRemoval
  <2>2. l \in Cells /\ figureLinks[l].st # "processing"
    BY <2>1 DEF RemovedRests
  <2>3. IsRemoval(removal') /\ removal'.pc = "idle"
    BY <2>1 DEF IsRemoval, Screens!IdleRemoval
  <2>4. DOMAIN totals' = Screens!WorkBatches
    BY <2>1 DEF Shapes
  <2>5. Shapes' /\ OpenLinks' /\ CountStands'
    BY <2>1, <2>2, <2>3, <2>4, LinkChanged
  <2> QED
    BY <2>3, <2>5 DEF RemovedRests
<1> QED
  BY <1>1, <1>2

-----------------------------------------------------------------------------
(* The theorem *)

LEMMA TotalsStart == Screens!Init => TotalsInv
<1> SUFFICES ASSUME Screens!Init PROVE TotalsInv
  OBVIOUS
<1>1. /\ DOMAIN figureLinks = Cells /\ DOMAIN totals = Screens!WorkBatches
      /\ tx = [w \in Loops |-> Screens!IdleTx]
      /\ cycle = Screens!IdleCycle /\ removal = Screens!IdleRemoval
  BY DEF Screens!Init, Cells
<1>2. IsTx(Screens!IdleTx) /\ Screens!IdleTx.pc = "idle"
  BY DEF IsTx, Screens!IdleTx
<1>3. IsCycle(Screens!IdleCycle) /\ Screens!IdleCycle.pc = "idle"
  BY DEF IsCycle, Screens!IdleCycle
<1>4. IsRemoval(Screens!IdleRemoval) /\ Screens!IdleRemoval.pc = "idle"
  BY DEF IsRemoval, Screens!IdleRemoval
<1> QED
  BY <1>1, <1>2, <1>3, <1>4 DEF TotalsInv, Shapes, OpenLinks, RemovedRests, CountStands,
     Screens!Open

LEMMA TotalsKept == TotalsInv /\ [Screens!Next]_(Screens!vars) => TotalsInv'
<1> SUFFICES ASSUME TotalsInv, [Screens!Next]_(Screens!vars) PROVE TotalsInv'
  OBVIOUS
<1>1. DOMAIN figureLinks = Cells
  BY DEF TotalsInv, Shapes
<1>2. CASE Screens!Next
  BY <1>1, <1>2, AnsweredKept, FailedKept, CountsKept, CommitKept, StartKept, CycleKept,
     RemovalKept, LinksKept DEF Screens!Next, Screens!Loop
<1>3. CASE UNCHANGED Screens!vars
  BY <1>3 DEF Screens!vars, TotalsInv, Shapes, OpenLinks, RemovedRests, CountStands, Cells,
     Screens!WorkBatches, Screens!Open, Screens!Of
<1> QED
  BY <1>2, <1>3

\* What the end of a cycle (recalculateBatch) writes to the row of the batch is
\* what its links say then, whatever loops and operators did meanwhile, unless an
\* operator changed a link of the batch between the count and the write.
THEOREM CyclesCountTrue == FiguresSpec => OwnTotalsAreTrue
<1>1. Parts => TotalsInv
  BY TotalsStart DEF Parts
<1>2. [Step]_<<part, vars, figureVars, reportVars>> => [Screens!Next]_(Screens!vars)
  BY DEF Step, figureVars, Screens!vars
<1>3. TotalsInv /\ [Screens!Next]_(Screens!vars) =>
        [Screens!EndCycle /\ cycle.alone =>
           totals'[cycle.batch] =
             Screens!CountLinks([i \in Installments |-> figureLinks'[i, cycle.batch]])]_(Screens!vars)
  <2> SUFFICES ASSUME TotalsInv, Screens!EndCycle, cycle.alone
               PROVE  totals'[cycle.batch] =
                 Screens!CountLinks([i \in Installments |-> figureLinks'[i, cycle.batch]])
    OBVIOUS
  <2>1. /\ cycle.pc = "counted" /\ UNCHANGED figureLinks
        /\ totals' = [totals EXCEPT ![cycle.batch] = cycle.counted]
    BY DEF Screens!EndCycle
  <2>2. totals'[cycle.batch] = cycle.counted
    BY <2>1 DEF TotalsInv, Shapes
  <2>3. cycle.counted = Screens!CountLinks(Screens!Of(cycle.batch))
    BY <2>1 DEF TotalsInv, CountStands
  <2>4. Screens!Of(cycle.batch) = [i \in Installments |-> figureLinks'[i, cycle.batch]]
    BY <2>1 DEF Screens!Of
  <2> QED
    BY <2>2, <2>3, <2>4
<1> QED
  BY <1>1, <1>2, <1>3, TotalsKept, PTL DEF FiguresSpec, OwnTotalsAreTrue, Screens!OwnTotalsAreTrue
=============================================================================
