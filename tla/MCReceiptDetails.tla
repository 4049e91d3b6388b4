--------------------------- MODULE MCReceiptDetails ---------------------------
(* An instance of ReceiptDetails for TLC: an ERP that confirms. *)
EXTENDS ReceiptDetails

ConfirmingErp == {<<"unpaid", a>> : a \in {"paid", "agreed"}}
=============================================================================
