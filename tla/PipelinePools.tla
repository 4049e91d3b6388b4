----------------------------- MODULE PipelinePools -----------------------------
(* The pools and the sizes of ProcessingPipeline. *)
EXTENDS Naturals

CONSTANTS
  Consulters,  \* loops of consultationWorkers
  Persisters,  \* loops of persistenceWorkers
  MaxItems,    \* bound: longest block of this instance
  MaxBuffered  \* maxBufferedResults

ASSUME PoolsAssumption == Consulters # {} /\ Persisters # {}
ASSUME SizesAssumption == MaxItems \in Nat /\ MaxBuffered \in Nat
=============================================================================
