---------------------------- MODULE ReceiptDetails ----------------------------
(***************************************************************************)
(* What the canonical row says of the receipt, besides its status.  The    *)
(* transaction of a result inserts the history before it updates the link, *)
(* and a trigger of the history copies the description to the row; unlike  *)
(* the capture of CanonicalInstallment it does not ask whether the answer  *)
(* is late.                                                                *)
(*                                                                         *)
(*   described  the answer whose DescricaoRecebimento the row has          *)
(***************************************************************************)
EXTENDS CanonicalInstallment

VARIABLE described

detailVars == <<vars, described>>

DetailsInit == Init /\ described = "none"

\* persistSuccess with capture_member_installment_target_details_v1
PersistDetails(w) == Persist(w) /\ described' = loops[w].answer

\* Nothing else inserts a history; a transaction that is rolled back takes its
\* description with it.
OtherStep ==
  \/ ErpChanges
  \/ \E l \in Links : Operator(l) \/ Recover(l)
  \/ \E w \in Loops, l \in Links : Claim(w, l)
  \/ \E w \in Loops : Consult(w) \/ Refused(w) \/ Begin(w)
  \/ \E w \in Loops : PersistFailure(w) \/ Aborted(w) \/ Die(w)

DetailsNext ==
  \/ \E w \in Loops : PersistDetails(w)
  \/ OtherStep /\ UNCHANGED described

DetailsSpec == DetailsInit /\ [][DetailsNext]_detailVars

\* A consultation that was begun before a confirmation does not take it back
\* when it ends after it (031:321): what the row is confirmed as is what its
\* description says, by which the receipts, the Pix and the summary find it.
ConfirmedAsDescribed == target.pay \in Terminal => described = target.pay
=============================================================================
