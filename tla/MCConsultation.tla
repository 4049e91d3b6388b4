---------------------------- MODULE MCConsultation ----------------------------
(***************************************************************************)
(* The stages of a consultation, each on an instance of its own: the ERP   *)
(* is read (ErpConsultation), the results of a block go through the pools  *)
(* (ProcessingPipeline), an answer is stored (CanonicalInstallment).  In a *)
(* behavior one stage runs and the others are at rest, in states where     *)
(* none of their fair actions is enabled.                                  *)
(***************************************************************************)
EXTENDS CanonicalInstallment, InstallmentAnalysis, PipelinePools

CONSTANTS Codes, Kinds, Histories, PageSize, MaxPages, MaxChanges,
          c1, c2, p1, p2

VARIABLES history, call, witnessed, changes,
          size, nextItem, consulting, left, ready, persisting,
          waitingConsumers, stopped, consultationsDone, handed, failed, result

erpVars == <<history, call, witnessed, changes>>
pipelineVars == <<size, nextItem, consulting, left, ready, persisting,
                  waitingConsumers, stopped, consultationsDone, handed, failed, result>>

Erp == INSTANCE ErpConsultation
\* With what is proved about it
Pipeline == INSTANCE ProcessingPipelineProofs

-----------------------------------------------------------------------------
(* Instances *)

ConfirmingErp == {<<"unpaid", a>> : a \in {"paid", "agreed"}}

Kind(description, value, paid, plan) ==
  [description |-> description, value |-> value, paid |-> paid, plan |-> plan]

SmallKinds ==
  {Kind("ABERTO", 2, Missing, "A"), Kind("PIX", 2, 1, "A"), Kind("PIX", 1, 2, "B"),
   Kind("PIX", 2, Missing, "B"), Kind("ACORDADO", 2, Missing, "B")}

SmallItems == {Item(c, k) : c \in Codes, k \in SmallKinds}

\* One installment, in every state.
Alone ==
  {<<Item("t", Kind(d, v, p, "A"))>> :
     d \in {"ABERTO", "PIX", "ACORDADO", "EXCLUIDA", "none"},
     v \in {Missing, 1, 2}, p \in {Missing, 0, 1, 2}}

OpenItem == Item("o", Kind("ABERTO", 2, Missing, "A"))

ShortHistories ==
  Alone \cup UNION {[1 .. n -> SmallItems] : n \in 0 .. 2}
    \cup {<<a, t, b>> : a, t \in SmallItems, b \in {OpenItem}}
    \cup {<<OpenItem, OpenItem, t, OpenItem>> : t \in SmallItems}

-----------------------------------------------------------------------------
(* Side by side *)

ErpAtRest ==
  /\ history = <<>> /\ call = [Erp!Idle EXCEPT !.pc = "done"]
  /\ witnessed = {} /\ changes = MaxChanges

\* A block without items.
PipelineAtRest == Pipeline!Init /\ size = 0

\* An installment without links, and no operator.
RowAtRest ==
  /\ erp = "excluded" /\ older = {} /\ failures = 0
  /\ target = [exists |-> FALSE, pay |-> "none", amount |-> ErpAmount]
  /\ links = [l \in Links |-> [st |-> "absent", pay |-> "none",
                               amount |-> ErpAmount, holder |-> None]]
  /\ loops = [w \in Loops |-> IdleLoop]
  /\ requests = MaxRequests

Stages ==
  \/ Erp!Init /\ PipelineAtRest /\ RowAtRest
  \/ Pipeline!Init /\ ErpAtRest /\ RowAtRest
  \/ Init /\ ErpAtRest /\ PipelineAtRest

Step ==
  \/ Erp!Next /\ UNCHANGED <<vars, pipelineVars>>
  \/ Pipeline!Next /\ UNCHANGED <<vars, erpVars>>
  \/ Next /\ UNCHANGED <<erpVars, pipelineVars>>

ConsultationSpec ==
  Stages /\ [][Step]_<<vars, erpVars, pipelineVars>> /\ Fairness /\ Pipeline!Fairness

-----------------------------------------------------------------------------
(* The properties of the stages, with the names they have there *)

AnswerWasTrue == Erp!AnswerWasTrue
AnswerAgrees == Erp!AnswerAgrees
Drained == Pipeline!Drained
Settles == Pipeline!Settles
===============================================================================
