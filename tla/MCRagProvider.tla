--------------------------- MODULE MCRagProvider ---------------------------
EXTENDS RagProvider, TLC

Symmetry == Permutations(Call) \cup Permutations(Document)
=============================================================================
