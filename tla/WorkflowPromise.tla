-------------------------- MODULE WorkflowPromise --------------------------
(***************************************************************************)
(* What a workflow run promises its caller, with neither deliveries nor    *)
(* rows: a step completes at most once and only after the steps it         *)
(* requires; what it produced is kept from then on; the run publishes      *)
(* exactly what was kept, once, and nothing changes after that.            *)
(***************************************************************************)
CONSTANTS Step, Requires, Output, NoOutput

VARIABLES
  kept,       \* what each completed step produced
  published   \* "no" until the run publishes; then what it published

promise == <<kept, published>>

Init ==
  /\ kept = [s \in Step |-> NoOutput]
  /\ published = [done |-> FALSE, outputs |-> kept]

Complete(s) ==
  /\ ~published.done
  /\ kept[s] = NoOutput
  /\ \A r \in Requires[s] : kept[r] # NoOutput
  /\ \E o \in Output \ {NoOutput} : kept' = [kept EXCEPT ![s] = o]
  /\ UNCHANGED published

Publish ==
  /\ ~published.done
  /\ published' = [done |-> TRUE, outputs |-> kept]
  /\ UNCHANGED kept

Next == Publish \/ \E s \in Step : Complete(s)

Spec == Init /\ [][Next]_promise
=============================================================================
