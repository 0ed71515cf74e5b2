--------------------------- MODULE MCBinaryStore ---------------------------
EXTENDS BinaryStore, TLC

CONSTANTS small, large

\* One image fits a chunk, the other only the limit on images.
Sizes == (small :> 2) @@ (large :> 3)

Interchangeable == Permutations(Upload) \cup Permutations(Request)

=============================================================================
