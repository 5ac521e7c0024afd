-------------------------- MODULE MCEmbeddingIndex --------------------------
(* An instance of EmbeddingIndex for TLC.  v1 and v2 differ in the first    *)
(* 4,000 values; tail has its signal after them.                            *)
EXTENDS EmbeddingIndex

CONSTANTS v1, v2, tail

MCVectors == {v1, v2, tail}
MCProj == [v \in MCVectors |-> IF v = tail THEN NoSignal ELSE v]
=============================================================================
