---------------------- MODULE ProcessingPipelineProofs ----------------------
(***************************************************************************)
(* Proofs about ProcessingPipeline, for blocks and pools of any size.      *)
(***************************************************************************)
EXTENDS ProcessingPipeline, TLAPS

Running == result = "running"

\* An item is with one consulter, in the buffer once, or handed to a persister.
ConsultedAlone ==
  \A c \in Consulters : consulting[c] # NoItem =>
    /\ consulting[c] < nextItem /\ handed[consulting[c]] = 0
    /\ \A d \in Consulters : consulting[d] = consulting[c] => d = c
    /\ \A k \in 1..Len(ready) : ready[k] # consulting[c]

ReadyOnce ==
  \A k \in 1..Len(ready) :
    /\ ready[k] < nextItem /\ handed[ready[k]] = 0
    /\ \A m \in 1..Len(ready) : ready[m] = ready[k] => m = k

HandedOnce ==
  /\ \A i \in 1..MaxItems : handed[i] \in {0, 1}
  /\ \A i \in 1..MaxItems : i >= nextItem => handed[i] = 0

\* No item that was taken from the block is lost.
NothingLost ==
  \A i \in Items : i < nextItem =>
    \/ handed[i] = 1
    \/ \E c \in Consulters : consulting[c] = i
    \/ \E k \in 1..Len(ready) : ready[k] = i

\* Who has left, parked or stopped had a reason that still stands.
LoopsOK ==
  /\ \A c \in left : nextItem > size /\ consulting[c] = NoItem
  /\ consultationsDone => left = Consulters
  /\ \A p \in waitingConsumers \cup stopped : persisting[p] = NoItem
  /\ Running /\ waitingConsumers # {} => ready = <<>> /\ ~consultationsDone
  /\ stopped # {} => ready = <<>> /\ consultationsDone

ResultOK ==
  /\ Running => size \in 1..MaxBuffered
  /\ ~Running /\ size \in 1..MaxBuffered =>
       /\ stopped = Persisters /\ consultationsDone
       /\ (result = "rejected") <=> (failed # {})
  /\ ~Running /\ size \notin 1..MaxBuffered =>
       \A c \in Consulters : consulting[c] = NoItem
  /\ ~Running => \A p \in Persisters : persisting[p] = NoItem

IInv == /\ TypeOK /\ ConsultedAlone /\ ReadyOnce /\ HandedOnce /\ NothingLost
        /\ LoopsOK /\ ResultOK

USE PoolsAssumption, SizesAssumption DEF PoolsAssumption, SizesAssumption

\* The entry of the function establishes the invariant.
LEMMA InitOK == Init => IInv
<1> SUFFICES ASSUME Init PROVE IInv
  OBVIOUS
<1>1. TypeOK
  <2>1. ready \in Seq(Items)
    BY DEF Init
  <2>2. result \in {"running", "resolved", "rejected"}
    BY DEF Init
  <2>3. size \in 0..MaxItems /\ 0 \in 0..size
    BY DEF Init
  <2>4. /\ consulting \in [Consulters -> 0..size]
        /\ persisting \in [Persisters -> 0..size]
        /\ handed \in [1..MaxItems -> Nat]
    BY <2>3 DEF Init, NoItem
  <2>5. /\ nextItem \in Nat \ {0} /\ left \subseteq Consulters
        /\ waitingConsumers \subseteq Persisters /\ stopped \subseteq Persisters
        /\ failed \subseteq 1..MaxItems
    BY SMT DEF Init
  <2>6. consultationsDone \in BOOLEAN
    BY Zenon DEF Init
  <2> QED
    BY <2>1, <2>2, <2>3, <2>4, <2>5, <2>6 DEF TypeOK
<1>2. ConsultedAlone /\ ReadyOnce /\ HandedOnce /\ NothingLost
  BY DEF Init, ConsultedAlone, ReadyOnce, HandedOnce, NothingLost, Items, NoItem
<1>3. LoopsOK /\ ResultOK
  BY DEF Init, LoopsOK, ResultOK, Running, NoItem
<1> QED
  BY <1>1, <1>2, <1>3 DEF IInv

\* A consulter takes the next item of the block, or returns.
LEMMA NextConsultationOK ==
  ASSUME IInv, NEW c \in Consulters, NextConsultation(c)  PROVE IInv'
<1> USE DEF IInv, Running
<1>0. UNCHANGED <<size, ready, persisting, waitingConsumers, stopped,
                  consultationsDone, handed, failed, result>>
  BY DEF NextConsultation
<1>a. size \in Nat /\ nextItem \in Nat /\ Items \subseteq Nat
  BY DEF TypeOK, Items
<1>1. CASE nextItem <= size
  <2>0. /\ nextItem' = nextItem + 1 /\ nextItem \in Items /\ nextItem # NoItem
        /\ consulting' = [consulting EXCEPT ![c] = nextItem] /\ left' = left
        /\ handed[nextItem] = 0
    BY <1>1 DEF NextConsultation, InBlock, TypeOK, Items, NoItem, HandedOnce
  <2>1. TypeOK'
    BY <1>0, <2>0 DEF TypeOK, Items
  <2>2. ConsultedAlone'
    BY <1>0, <2>0 DEF TypeOK, ConsultedAlone, ReadyOnce, Items
  <2>3. ReadyOnce' /\ HandedOnce'
    BY <1>0, <2>0 DEF TypeOK, ReadyOnce, HandedOnce, Items
  <2>4. NothingLost'
    <3> SUFFICES ASSUME NEW i \in Items, i < nextItem + 1
                 PROVE \/ handed[i] = 1
                       \/ \E d \in Consulters : consulting'[d] = i
                       \/ \E k \in 1..Len(ready) : ready[k] = i
      BY <1>0, <2>0 DEF NothingLost, Items
    <3>1. consulting'[c] = nextItem /\ consulting[c] = NoItem
      BY <2>0 DEF TypeOK, NextConsultation
    <3>2. \A d \in Consulters : consulting[d] = i => consulting'[d] = i
      BY <2>0, <3>1 DEF TypeOK, Items, NoItem
    <3>3. CASE i = nextItem
      BY <3>1, <3>3
    <3>4. CASE i < nextItem
      <4>1. \/ handed[i] = 1
            \/ \E d \in Consulters : consulting[d] = i
            \/ \E k \in 1..Len(ready) : ready[k] = i
        BY <3>4 DEF NothingLost
      <4> QED
        BY <3>2, <4>1
    <3>5. i \in Nat
      BY <1>a
    <3> QED
      BY <1>a, <3>3, <3>4, <3>5
  <2>5. LoopsOK' /\ ResultOK'
    BY <1>0, <1>1, <2>0 DEF TypeOK, LoopsOK, ResultOK, NextConsultation
  <2> QED
    BY <2>1, <2>2, <2>3, <2>4, <2>5
<1>2. CASE nextItem > size
  <2>0. /\ nextItem' = nextItem + 1 /\ consulting' = consulting
        /\ left' = left \cup {c}
    BY <1>2 DEF NextConsultation, InBlock, TypeOK
  <2>1. TypeOK' /\ ConsultedAlone'
    BY <1>0, <2>0 DEF TypeOK, ConsultedAlone, Items
  <2>2. ReadyOnce' /\ HandedOnce'
    BY <1>0, <2>0 DEF TypeOK, ReadyOnce, HandedOnce, Items
  <2>3. NothingLost'
    <3>1. Items' = Items /\ \A i \in Items : i < nextItem
      BY <1>0, <1>a, <1>2 DEF Items
    <3> QED
      BY <1>0, <2>0, <3>1 DEF NothingLost
  <2>4. LoopsOK' /\ ResultOK'
    BY <1>0, <1>2, <2>0 DEF TypeOK, LoopsOK, ResultOK, NextConsultation
  <2> QED
    BY <2>1, <2>2, <2>3, <2>4
<1> QED
  BY <1>a, <1>1, <1>2

\* A consultation ends: its result is the last of the buffer.
LEMMA ConsultedOK ==
  ASSUME IInv, NEW c \in Consulters, Consulted(c)  PROVE IInv'
<1> USE DEF Consulted, wakeConsumers, IInv, Running
<1>1. /\ Len(ready') = Len(ready) + 1 /\ Len(ready) \in Nat
      /\ ready'[Len(ready) + 1] = consulting[c]
      /\ \A k \in 1..Len(ready) : ready'[k] = ready[k]
      /\ \A k \in 1..Len(ready') : k \in 1..Len(ready) \/ k = Len(ready) + 1
  BY DEF TypeOK, Items, NoItem
<1>2. TypeOK'
  BY DEF TypeOK, Items, NoItem
<1>3. ConsultedAlone'
  BY <1>1 DEF TypeOK, ConsultedAlone, Items, NoItem
<1>4. ReadyOnce'
  BY <1>1 DEF TypeOK, ConsultedAlone, ReadyOnce, Items, NoItem
<1>5. HandedOnce'
  BY DEF HandedOnce
<1>6. NothingLost'
  <2> SUFFICES ASSUME NEW i \in Items, i < nextItem
               PROVE \/ handed[i] = 1
                     \/ \E d \in Consulters : consulting'[d] = i
                     \/ \E k \in 1..Len(ready') : ready'[k] = i
    BY DEF NothingLost, Items
  <2>1. CASE handed[i] = 1
    BY <2>1
  <2>2. CASE \E d \in Consulters : consulting[d] = i
    <3>1. CASE consulting[c] = i
      BY <1>1, <3>1
    <3>2. CASE consulting[c] # i
      BY <2>2, <3>2 DEF TypeOK
    <3> QED
      BY <3>1, <3>2
  <2>3. CASE \E k \in 1..Len(ready) : ready[k] = i
    BY <1>1, <2>3
  <2> QED
    BY <2>1, <2>2, <2>3 DEF NothingLost
<1>7. LoopsOK'
  BY DEF TypeOK, LoopsOK
<1>8. ResultOK'
  BY DEF TypeOK, ResultOK, LoopsOK
<1> QED
  BY <1>2, <1>3, <1>4, <1>5, <1>6, <1>7, <1>8

\* A step that changes neither the items nor who holds them: only the loops.
LEMMA LoopStepOK ==
  ASSUME IInv, TypeOK', LoopsOK', ResultOK',
         UNCHANGED <<size, nextItem, consulting, ready, handed>>
  PROVE  IInv'
BY DEF IInv, ConsultedAlone, ReadyOnce, HandedOnce, NothingLost, Items

\* The last consulter has returned.
LEMMA EndConsultationsOK ==
  ASSUME IInv, EndConsultations  PROVE IInv'
<1> USE DEF EndConsultations, wakeConsumers, IInv, Running
<1>1. TypeOK' /\ LoopsOK' /\ ResultOK'
  BY DEF TypeOK, LoopsOK, ResultOK, Items
<1> QED
  BY <1>1, LoopStepOK

\* A persister takes the oldest result.
LEMMA TakeOK ==
  ASSUME IInv, NEW p \in Persisters, Take(p)  PROVE IInv'
<1> USE DEF Take, Idle, Taken, IInv, Running
<1>1. /\ Len(ready) \in Nat \ {0} /\ Len(ready') = Len(ready) - 1
      /\ Head(ready) = ready[1]
      /\ \A k \in 1..Len(ready') : k + 1 \in 1..Len(ready) /\ ready'[k] = ready[k + 1]
      /\ ready' \in Seq(Items) /\ ready[1] \in Items
  BY DEF TypeOK
<1>2. /\ Items' = Items /\ Items \subseteq 1..MaxItems
      /\ handed[ready[1]] = 0
      /\ handed' = [handed EXCEPT ![ready[1]] = 1]
  <2>1. Items' = Items /\ Items \subseteq 1..MaxItems
    BY DEF TypeOK, Items
  <2>2. handed[ready[1]] = 0
    BY <1>1 DEF ReadyOnce
  <2>3. handed' = [handed EXCEPT ![ready[1]] = handed[ready[1]] + 1]
    BY <1>1
  <2>4. handed[ready[1]] + 1 = 1
    BY <2>2
  <2>5. handed' = [handed EXCEPT ![ready[1]] = 1]
    BY <2>3, <2>4
  <2> QED
    BY <2>1, <2>2, <2>5
<1>3. \A k \in 1..Len(ready') : ready'[k] # ready[1]
  BY <1>1 DEF ReadyOnce
<1>4. TypeOK'
  <2>1. persisting' \in [Persisters -> 0..size]
    BY <1>1 DEF TypeOK, Items
  <2>2. handed' \in [1..MaxItems -> Nat]
    <3>1. handed \in [1..MaxItems -> Nat] /\ 1 \in Nat
      BY DEF TypeOK
    <3> QED
      BY <1>2, <3>1
  <2> QED
    BY <1>1, <1>2, <2>1, <2>2 DEF TypeOK
<1>5. ConsultedAlone'
  <2> SUFFICES ASSUME NEW c \in Consulters, consulting[c] # NoItem
               PROVE  /\ consulting[c] < nextItem /\ handed'[consulting[c]] = 0
                      /\ \A d \in Consulters : consulting[d] = consulting[c] => d = c
                      /\ \A k \in 1..Len(ready') : ready'[k] # consulting[c]
    BY DEF ConsultedAlone
  <2>1. consulting[c] # ready[1]
    BY <1>1 DEF ConsultedAlone
  <2>2. handed'[consulting[c]] = 0
    BY <1>2, <2>1 DEF TypeOK, ConsultedAlone, NoItem, Items
  <2> QED
    BY <1>1, <2>2 DEF ConsultedAlone
<1>6. ReadyOnce'
  BY <1>1, <1>2, <1>3 DEF TypeOK, ReadyOnce, Items
<1>7. HandedOnce'
  <2>1. ready[1] \in Nat /\ nextItem \in Nat /\ ready[1] < nextItem
    BY <1>1 DEF TypeOK, ReadyOnce, Items
  <2> QED
    BY <1>2, <2>1 DEF TypeOK, HandedOnce
<1>8. NothingLost'
  <2> SUFFICES ASSUME NEW i \in Items, i < nextItem
               PROVE \/ handed'[i] = 1
                     \/ \E d \in Consulters : consulting[d] = i
                     \/ \E k \in 1..Len(ready') : ready'[k] = i
    BY <1>2 DEF NothingLost
  <2>1. CASE i = ready[1]
    BY <1>2, <2>1 DEF TypeOK
  <2>2. CASE i # ready[1] /\ \E k \in 1..Len(ready) : ready[k] = i
    <3>1. PICK k \in 1..Len(ready) : ready[k] = i
      BY <2>2
    <3>2. k - 1 \in 1..Len(ready') /\ ready'[k - 1] = i
      BY <1>1, <2>2, <3>1
    <3> QED
      BY <3>2
  <2>3. CASE i # ready[1] /\ handed[i] = 1
    BY <1>2, <2>3 DEF TypeOK
  <2> QED
    BY <2>1, <2>2, <2>3 DEF NothingLost
<1>9. LoopsOK'
  BY DEF TypeOK, LoopsOK
<1>10. ResultOK'
  BY DEF TypeOK, ResultOK
<1> QED
  BY <1>4, <1>5, <1>6, <1>7, <1>8, <1>9, <1>10

\* A persister finds nothing: it parks, or it returns.
LEMMA ParkOrStopOK ==
  ASSUME IInv, NEW p \in Persisters, Park(p) \/ Stop(p)  PROVE IInv'
<1> USE DEF Park, Stop, Idle, IInv, Running
<1>1. TypeOK' /\ LoopsOK' /\ ResultOK'
  <2>1. TypeOK'
    BY DEF TypeOK, Items
  <2>2. LoopsOK'
    BY DEF TypeOK, LoopsOK
  <2>3. ResultOK'
    BY DEF ResultOK
  <2> QED
    BY <2>1, <2>2, <2>3
<1>2. UNCHANGED <<size, nextItem, consulting, ready, handed>>
  OBVIOUS
<1> QED
  BY <1>1, <1>2, LoopStepOK

\* An item was persisted, or its persist threw.
LEMMA PersistedOK ==
  ASSUME IInv, NEW p \in Persisters, NEW ok \in BOOLEAN, Persisted(p, ok)
  PROVE  IInv'
<1> USE DEF Persisted, IInv, Running
<1>1. persisting[p] \in Items /\ Items \subseteq 1..MaxItems /\ Running
  BY DEF TypeOK, Items, NoItem, ResultOK
<1>2. TypeOK'
  <2>1. persisting' \in [Persisters -> 0..size]
    BY DEF TypeOK, NoItem
  <2> QED
    BY <1>1, <2>1 DEF TypeOK, Items
<1>3. LoopsOK' /\ ResultOK'
  BY <1>1 DEF TypeOK, LoopsOK, ResultOK
<1> QED
  BY <1>2, <1>3, LoopStepOK

\* All persisters have returned: the promise settles.
LEMMA FinishOK ==
  ASSUME IInv, Finish  PROVE IInv'
<1> USE DEF Finish, AllPersisted, IInv, Running
<1>1. TypeOK'
  BY DEF TypeOK, Items
<1>2. LoopsOK' /\ ResultOK'
  BY DEF LoopsOK, ResultOK
<1> QED
  BY <1>1, <1>2, LoopStepOK

\* The invariant is inductive ...
LEMMA PipelineStep == IInv /\ [Next]_vars => IInv'
<1> SUFFICES ASSUME IInv, [Next]_vars  PROVE IInv'
  OBVIOUS
<1>1. CASE UNCHANGED vars
  BY <1>1 DEF vars, IInv, TypeOK, ConsultedAlone, ReadyOnce, HandedOnce,
     NothingLost, LoopsOK, ResultOK, Running, Items
<1>2. CASE Next
  BY <1>2, NextConsultationOK, ConsultedOK, EndConsultationsOK, TakeOK,
     ParkOrStopOK, PersistedOK, FinishOK DEF Next, Consultation, Loop
<1> QED
  BY <1>1, <1>2

\* ... and holds in every reachable state.
THEOREM PipelineInvariance == Spec => []IInv
<1> QED
  BY InitOK, PipelineStep, PTL DEF Spec

\* persist is called at most once for an item.
THEOREM PersistsOnce == Spec => []PersistedOnce
<1>1. IInv => PersistedOnce
  BY DEF IInv, HandedOnce, PersistedOnce
<1> QED
  BY <1>1, PipelineInvariance, PTL

\* No wake-up is lost.
THEOREM ParksForAReason == Spec => []ParkedForAReason
<1>1. IInv => ParkedForAReason
  BY DEF IInv, LoopsOK, Running, ParkedForAReason
<1> QED
  BY <1>1, PipelineInvariance, PTL

\* Whoever returned left nothing in the buffer, and nobody consults any more.
LEMMA DrainedWhenSettled == IInv => Drained
<1>1. ASSUME IInv, result # "running", size \in 1..MaxBuffered
      PROVE  /\ \A i \in Items : handed[i] = 1
             /\ \A p \in Persisters : persisting[p] = NoItem
             /\ (result = "rejected") <=> (failed # {})
  <2>1. /\ stopped = Persisters /\ consultationsDone /\ left = Consulters
        /\ ready = <<>> /\ Consulters # {}
    BY <1>1 DEF IInv, LoopsOK, ResultOK, Running
  <2>2. nextItem > size /\ \A c \in Consulters : consulting[c] = NoItem
    BY <1>1, <2>1 DEF IInv, LoopsOK
  <2>3. \A i \in Items : handed[i] = 1
    <3> SUFFICES ASSUME NEW i \in Items  PROVE handed[i] = 1
      OBVIOUS
    <3>1. i < nextItem /\ i # NoItem
      BY <1>1, <2>2 DEF IInv, TypeOK, Items, NoItem
    <3>2. Len(ready) = 0
      BY <2>1
    <3> QED
      BY <1>1, <2>2, <3>1, <3>2 DEF IInv, NothingLost
  <2> QED
    BY <1>1, <2>1, <2>3 DEF IInv, LoopsOK, ResultOK, Running
<1> QED
  BY <1>1 DEF Drained

\* When the promise settles, every item of the block was persisted.
THEOREM SettlesDrained == Spec => []Drained
<1> QED
  BY DrainedWhenSettled, PipelineInvariance, PTL
=============================================================================
