------------------------ MODULE MCDocumentPipeline ------------------------
(* Symmetry of callers and tasks for TLC.                                  *)
EXTENDS DocumentPipeline, TLC

Symmetry == Permutations(Client) \cup Permutations(Worker)
=============================================================================
