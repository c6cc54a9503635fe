-------------------------- MODULE MCWorkflowRun --------------------------
(* Small pipelines for TLC.                                                *)
EXTENDS WorkflowRun, TLC

\* Step 2 reads step 1 and step 3 stands alone: a failure cascades to one of
\* the two later steps.
Fork == [s \in Step |-> IF s = 2 THEN {1} ELSE {}]

\* Each step reads the one before it.
Chain == [s \in Step |-> IF s = 1 THEN {} ELSE {s - 1}]

Independent == [s \in Step |-> {}]

Symmetry == Permutations(Delivery)
=============================================================================
