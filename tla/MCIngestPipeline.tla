-------------------------- MODULE MCIngestPipeline --------------------------
(***************************************************************************)
(* Three calls: a1 and a2 carry the same ingestion (an edge device that    *)
(* tries again), b another one.  Two polls overlap.                        *)
(***************************************************************************)
EXTENDS IngestPipeline, TLC

CONSTANTS a1, a2, b, i1, i2

MCIngestionOf == [c \in Call |-> IF c = b THEN i2 ELSE i1]

MCSymmetry == Permutations({a1, a2}) \cup Permutations(Poll)

=============================================================================
