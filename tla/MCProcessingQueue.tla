------------------------- MODULE MCProcessingQueue -------------------------
(* Instances of ProcessingQueue for TLC. *)
EXTENDS ProcessingQueue, TLC

CONSTANTS l1, l2, r1, r2, b1

OneBatch == (l1 :> b1) @@ (l2 :> b1)
SymRuns == Permutations({r1, r2})
Sym == Permutations({l1, l2}) \cup SymRuns
OneLink == l1 :> b1
OnlyMember == l1 :> 1
OneMember == (l1 :> 1) @@ (l2 :> 1)
=============================================================================
