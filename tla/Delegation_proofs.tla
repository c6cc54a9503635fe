------------------------- MODULE Delegation_proofs -------------------------
(***************************************************************************)
(* Theorems about Delegation, for any toolset, required tools, budget,     *)
(* number of steps and nudges, and any number of parallel calls.           *)
(***************************************************************************)
EXTENDS Delegation, SequenceTheorems, FiniteSetTheorems, TLAPS

\* A call per position, and a conversation with the same positions.
LEMMA Positions ==
    ASSUME calls \in Seq(Calls)
    PROVE  /\ Len(calls) \in Nat /\ DOMAIN calls = 1 .. Len(calls)
           /\ \A i \in DOMAIN calls : calls[i] \in Calls
           /\ \A f \in [DOMAIN calls -> Calls] : f \in Seq(Calls)
<1>1. Len(calls) \in Nat /\ DOMAIN calls = 1 .. Len(calls)
  OBVIOUS
<1>2. \A i \in DOMAIN calls : calls[i] \in Calls
  OBVIOUS
<1>3. ASSUME NEW f \in [1 .. Len(calls) -> Calls] PROVE f \in Seq(Calls)
  BY <1>1
<1> QED
  BY <1>1, <1>2, <1>3

\* What becomes of one call keeps its type.
LEMMA SettledCall ==
    ASSUME NEW q \in Calls
    PROVE  /\ [q EXCEPT !.state = "skipped"] \in Calls
           /\ [q EXCEPT !.sent = @ + 1] \in Calls
           /\ \A size \in Nat : [q EXCEPT !.state = "run", !.sent = @ + 1, !.size = size] \in Calls
<1>1. q.sent + 1 \in Nat
  BY DEF Calls
<1>2. [q EXCEPT !.state = "skipped"] \in Calls
  BY DEF Calls
<1>3. [q EXCEPT !.sent = q.sent + 1] \in Calls
  BY <1>1 DEF Calls
<1>4. \A size \in Nat : [q EXCEPT !.state = "run", !.sent = q.sent + 1, !.size = size] \in Calls
  BY <1>1 DEF Calls
<1> QED
  BY <1>2, <1>3, <1>4

\* What a reply of the model appends to the conversation.
Asked(n, tools) == [i \in 1..n |-> [tool |-> tools[i], step |-> steps + 1,
                                    state |-> "asked", sent |-> 0, size |-> 0]]

LEMMA Grown ==
    ASSUME calls \in Seq(Calls), steps \in 0..MaxSteps, steps < MaxSteps, MaxSteps \in Nat,
           NEW n \in Nat, NEW tools \in [1..n -> Tool]
    PROVE  LET grown == calls \o Asked(n, tools)
           IN  /\ grown \in Seq(Calls)
               /\ DOMAIN calls \subseteq DOMAIN grown
               /\ \A i \in DOMAIN calls : grown[i] = calls[i]
               /\ \A i \in DOMAIN grown \ DOMAIN calls :
                     grown[i].state = "asked" /\ grown[i].step = steps + 1 /\ grown[i].sent = 0
<1> DEFINE asked == Asked(n, tools)
           grown == calls \o asked
<1>1. /\ Len(calls) \in Nat /\ DOMAIN calls = 1 .. Len(calls)
      /\ \A i \in 1 .. Len(calls) : calls[i] \in Calls
  OBVIOUS
<1>2. /\ asked \in Seq(Calls) /\ Len(asked) = n
      /\ \A i \in 1 .. n : asked[i].state = "asked" /\ asked[i].step = steps + 1 /\ asked[i].sent = 0
  <2>1. \A i \in 1 .. n : asked[i] \in Calls
    BY DEF Asked, Calls
  <2> QED
    BY <2>1 DEF Asked
<1> HIDE DEF asked
<1>3. /\ grown \in Seq(Calls) /\ Len(grown) = Len(calls) + n
      /\ DOMAIN grown = 1 .. (Len(calls) + n)
  <2>1. grown \in Seq(Calls) /\ Len(grown) = Len(calls) + n
    BY <1>2, ConcatProperties
  <2> QED
    BY <2>1
<1>4. \A i \in 1 .. Len(calls) : grown[i] = calls[i]
  BY <1>1, <1>2
<1>5. \A i \in (Len(calls) + 1) .. (Len(calls) + n) :
         i - Len(calls) \in 1 .. n /\ grown[i] = asked[i - Len(calls)]
  BY <1>1, <1>2
<1> QED
  BY <1>1, <1>2, <1>3, <1>4, <1>5 DEF asked

\* Every variable keeps its type: the calls a run shows are either under way
\* or settled, and nobody is asked for anything between two steps.
THEOREM TypeCorrect == Spec => []TypeOK
<1> USE DelegationAssumption
<1>1. Init => TypeOK
  <2> SUFFICES ASSUME Init PROVE TypeOK
    OBVIOUS
  <2>0. PICK n \in 0..MaxGiven : \E sizes \in [1..n -> Sizes] : calls =
          [i \in 1..n |-> [tool |-> None, step |-> 0, state |-> "given", sent |-> 1,
                           size |-> sizes[i]]]
    BY DEF Init
  <2>1. PICK sizes \in [1..n -> Sizes] : calls =
          [i \in 1..n |-> [tool |-> None, step |-> 0, state |-> "given", sent |-> 1,
                           size |-> sizes[i]]]
    BY <2>0
  <2>2. calls \in Seq(Calls)
    <3>1. n \in Nat /\ \A i \in 1..n : sizes[i] \in Nat
      <4>1. MaxGiven \in Nat /\ Sizes \subseteq Nat
        BY DelegationAssumption
      <4>2. n \in 0..MaxGiven /\ sizes \in [1..n -> Sizes]
        BY <2>0, <2>1
      <4>3. n \in Nat
        BY <4>1, <4>2
      <4>4. \A i \in 1..n : sizes[i] \in Sizes
        BY <4>2
      <4> QED
        BY <4>1, <4>3, <4>4
    <3>2. calls \in [1..n -> Calls]
      BY <2>1, <3>1 DEF Calls
    <3> QED
      BY <3>1, <3>2
  <2> QED
    BY <2>1, <2>2 DEF Init, TypeOK, In
<1>2. TypeOK /\ [Next]_vars => TypeOK'
  <2> SUFFICES ASSUME TypeOK, [Next]_vars PROVE TypeOK'
    OBVIOUS
  <2>1. CASE Think
    <3>1. CASE calls' = calls
      BY <2>1, <3>1 DEF Think, TypeOK, In, Own, Outputs
    <3>2. CASE \E n \in 1..MaxParallel : \E tools \in [1..n -> Tool] :
                  calls' = calls \o Asked(n, tools)
      <4>1. /\ calls' \in Seq(Calls)
            /\ DOMAIN calls \subseteq DOMAIN calls'
            /\ \A i \in DOMAIN calls : calls'[i] = calls[i]
        BY <2>1, <3>2, Grown DEF Think, TypeOK
      <4>2. (last' = "calls" /\ phase' = "asked") \/ calls' = calls
        BY <2>1 DEF Think
      <4>3. Own \subseteq Own' /\ Outputs \subseteq Outputs'
        BY <4>1 DEF Own, In, Outputs
      <4> QED
        BY <2>1, <3>1, <4>1, <4>2, <4>3 DEF Think, TypeOK
    <3> QED
      BY <2>1, <3>1, <3>2 DEF Think, Asked
  <2>2. CASE BeforeTool
    <3>1. CASE calls' = Skipped
      <4>1. /\ Skipped \in Seq(Calls) /\ DOMAIN Skipped = DOMAIN calls
            /\ \A i \in DOMAIN calls : Skipped[i].state # "asked"
            /\ \A i \in DOMAIN calls : (Skipped[i].state = "given") = (calls[i].state = "given")
        <5>1. Skipped \in [DOMAIN calls -> Calls]
          BY Positions, SettledCall DEF Skipped, TypeOK
        <5>2. \A i \in DOMAIN calls : calls[i] \in Calls
          BY Positions DEF TypeOK
        <5> QED
          BY <5>1, <5>2, Positions DEF Skipped, TypeOK, Calls
      <4> QED
        BY <2>2, <3>1, <4>1 DEF BeforeTool, TypeOK, In, Own, Outputs
    <3>2. CASE phase' = "running" /\ calls' = calls
      BY <2>2, <3>2 DEF BeforeTool, TypeOK, In, Own, Outputs
    <3> QED
      BY <2>2, <3>1, <3>2 DEF BeforeTool
  <2>3. ASSUME NEW i \in DOMAIN calls, Run(i) PROVE TypeOK'
    <3>0. calls \in Seq(Calls) /\ calls[i] \in Calls
      BY Positions DEF TypeOK
    <3>1. \E size \in Nat : calls' = [calls EXCEPT ![i] =
              [calls[i] EXCEPT !.state = "run", !.sent = @ + 1, !.size = size]]
      BY <2>3, <3>0 DEF Run, Calls
    <3>2. calls' \in [DOMAIN calls -> Calls]
      BY <3>0, <3>1, Positions, SettledCall
    <3>3. calls' \in Seq(Calls) /\ DOMAIN calls' = DOMAIN calls
      BY <3>0, <3>2, Positions
    <3>4. /\ calls[i].state = "asked" /\ calls'[i].state = "run"
          /\ \A k \in DOMAIN calls : k # i => calls'[k] = calls[k]
      BY <2>3, <3>0, <3>1, <3>3 DEF Run, Calls
    <3>5. Own' = Own /\ i \in Own
      BY <3>3, <3>4 DEF Own, In
    <3> QED
      BY <2>3, <3>3, <3>5 DEF Run, TypeOK, Outputs
  <2>4. CASE AfterTools \/ Exhaust \/ Close \/ Raise
    BY <2>4 DEF AfterTools, Exhaust, Close, Raise, TypeOK, In, Own, Outputs
  <2>5. CASE OnExit
    BY <2>5 DEF OnExit, TypeOK, In, Own, Outputs
  <2>6. CASE Flush
    <3>1. /\ calls' \in Seq(Calls) /\ DOMAIN calls' = DOMAIN calls
          /\ \A i \in DOMAIN calls : calls'[i].state = calls[i].state
      <4>1. calls \in Seq(Calls) /\ \A i \in DOMAIN calls : calls[i] \in Calls
        BY Positions DEF TypeOK
      <4>2. calls' = [i \in DOMAIN calls |->
                        IF i \in Unstreamed THEN [calls[i] EXCEPT !.sent = @ + 1] ELSE calls[i]]
        BY <2>6 DEF Flush
      <4>3. calls' \in [DOMAIN calls -> Calls]
        BY <4>1, <4>2, SettledCall
      <4>4. \A i \in DOMAIN calls : calls'[i].state = calls[i].state
        BY <4>1, <4>2 DEF Calls
      <4> QED
        BY <4>1, <4>3, <4>4, Positions
    <3>2. output' \in Outputs'
      BY <2>6, <3>1 DEF Flush, Response, Outputs, Gathered, Cut, Material
    <3> QED
      BY <2>6, <3>1, <3>2 DEF Flush, TypeOK, In, Own
  <2>7. CASE UNCHANGED vars
    BY <2>7 DEF vars, TypeOK, In, Own, Outputs
  <2> QED
    BY <2>1, <2>2, <2>3, <2>4, <2>5, <2>6, <2>7 DEF Next, Over
<1> QED
  BY <1>1, <1>2, PTL DEF Spec

-----------------------------------------------------------------------------
\* More results are at least as long, and longer when one of them has a text.
LEMMA Lengths ==
    ASSUME calls \in Seq(Calls), NEW S, NEW T, S \subseteq T, T \subseteq DOMAIN calls
    PROVE  /\ Length(S) \in Nat /\ Length(T) \in Nat /\ Length(S) <= Length(T)
           /\ \A i \in T \ S : calls[i].size > 0 => Length(S) < Length(T)
<1> DEFINE text(R) == UNION {{i} \X (1 .. calls[i].size) : i \in R}
<1>1. ASSUME NEW R, R \subseteq DOMAIN calls
      PROVE  IsFiniteSet(text(R)) /\ Length(R) = Cardinality(text(R)) /\ Length(R) \in Nat
  <2>1. IsFiniteSet(R)
    <3>1. IsFiniteSet(DOMAIN calls)
      BY Positions, FS_Interval
    <3> QED
      BY <1>1, <3>1, FS_Subset
  <2>2. \A i \in R : IsFiniteSet({i} \X (1 .. calls[i].size))
    <3> SUFFICES ASSUME NEW i \in R PROVE IsFiniteSet({i} \X (1 .. calls[i].size))
      OBVIOUS
    <3>1. calls[i].size \in Nat
      BY <1>1, Positions DEF Calls
    <3>2. \A n \in Nat : IsFiniteSet(1 .. n)
      BY FS_Interval
    <3> QED
      BY <3>1, <3>2, FS_Singleton, FS_Product
  <2>3. IsFiniteSet({{i} \X (1 .. calls[i].size) : i \in R})
    <3> DEFINE texts == {{i} \X (1 .. calls[i].size) : i \in R}
               f == [i \in R |-> {i} \X (1 .. calls[i].size)]
    <3>1. f \in Surjection(R, texts)
      BY DEF Surjection
    <3> HIDE DEF f
    <3> QED
      BY <2>1, <3>1, FS_Surjection
  <2>4. IsFiniteSet(text(R))
    BY <2>2, <2>3, FS_UNION
  <2> QED
    BY <2>4, FS_CardinalityType DEF Length
<1>2. text(S) \subseteq text(T)
  OBVIOUS
<1>3. ASSUME NEW i \in T \ S, calls[i].size > 0 PROVE text(S) # text(T)
  <2>1. calls[i].size \in Nat
    BY Positions DEF Calls
  <2>2. <<i, 1>> \in {i} \X (1 .. calls[i].size)
    BY <1>3, <2>1
  <2>3. <<i, 1>> \in text(T)
    BY <2>2
  <2>4. <<i, 1>> \notin text(S)
    BY <1>3
  <2> QED
    BY <2>3, <2>4
<1>4. S \subseteq DOMAIN calls
  OBVIOUS
<1> HIDE DEF text
<1> QED
  BY <1>1, <1>2, <1>3, <1>4, FS_Subset

\* The walk of the digest: what it keeps comes whole after everything before
\* it, and results that fit are kept whole.
LEMMA DigestInOrder ==
    ASSUME calls \in Seq(Calls)
    PROVE  /\ Gathered \subseteq Material
           /\ \A i \in Gathered : Before(i) \subseteq Gathered \ Cut
           /\ Limit = 0 \/ Length(Material) <= Limit =>
                 {i \in Material : calls[i].size > 0} \subseteq Gathered \ Cut
           /\ 1 \in Material => 1 \in Gathered
<1> USE DelegationAssumption
<1>0. /\ Material \subseteq DOMAIN calls /\ DOMAIN calls \subseteq Nat
      /\ \A i \in Material : Before(i) \subseteq Material /\ i \notin Before(i)
      /\ Gathered \subseteq Material
  BY Positions DEF Material, Before, Gathered
<1>1. ASSUME NEW i \in Gathered, NEW j \in Before(i) PROVE j \in Gathered \ Cut
  <2>1. /\ j \in Material /\ i \in Material
        /\ Before(j) \subseteq Before(j) \cup {j} /\ Before(j) \cup {j} \subseteq Before(i)
        /\ Before(i) \subseteq DOMAIN calls /\ Before(j) \cup {j} \subseteq DOMAIN calls
    BY <1>0, <1>1 DEF Before
  <2>2. /\ Length(Before(j)) \in Nat /\ Length(Before(j) \cup {j}) \in Nat /\ Length(Before(i)) \in Nat
        /\ Length(Before(j)) <= Length(Before(j) \cup {j})
        /\ Length(Before(j) \cup {j}) <= Length(Before(i))
    BY <2>1, Lengths
  <2>3. Limit = 0 \/ Length(Before(i)) < Limit
    BY <1>1 DEF Gathered
  <2> QED
    BY <2>1, <2>2, <2>3 DEF Gathered, Cut
<1>2. ASSUME Limit = 0 \/ Length(Material) <= Limit, NEW i \in Material, calls[i].size > 0
      PROVE  i \in Gathered \ Cut
  <2>1. /\ Before(i) \subseteq Before(i) \cup {i} /\ Before(i) \cup {i} \subseteq Material
        /\ i \in (Before(i) \cup {i}) \ Before(i) /\ Before(i) \cup {i} \subseteq DOMAIN calls
    BY <1>0
  <2>2. /\ Length(Before(i)) \in Nat /\ Length(Before(i) \cup {i}) \in Nat /\ Length(Material) \in Nat
        /\ Length(Before(i)) < Length(Before(i) \cup {i})
        /\ Length(Before(i) \cup {i}) <= Length(Material)
    BY <1>0, <1>2, <2>1, Lengths
  <2> QED
    BY <1>2, <2>2 DEF Gathered, Cut
<1>3. 1 \in Material => 1 \in Gathered
  <2>1. Before(1) = {}
    BY <1>0, Positions DEF Before
  <2>2. Length({}) = 0
    BY FS_EmptySet DEF Length
  <2>3. Length(Before(1)) = 0 /\ Limit \in Nat
    BY <2>1, <2>2
  <2> QED
    BY <2>3 DEF Gathered
<1> QED
  BY <1>0, <1>1, <1>2, <1>3

-----------------------------------------------------------------------------
\* A call under way is of the present step, and the calls that ran are not of
\* a later one.
StepsFit ==
    \A i \in DOMAIN calls :
        /\ calls[i].state = "asked" => calls[i].step = steps
        /\ calls[i].state = "run" =>
              calls[i].step <= steps /\ (phase = "asked" => calls[i].step < steps)

\* The calls are in the order of the steps.
Ordered ==
    \A i \in DOMAIN calls :
        calls[i].step <= steps /\ \A j \in DOMAIN calls : i < j => calls[i].step <= calls[j].step

\* The first call is refused by a budget of nothing only.
FirstRuns == 1 \in DOMAIN calls /\ calls[1].state = "skipped" => MaxCalls = 0

\* The calls that ran before step n.
RanBefore(n) == {j \in In("run") : calls[j].step < n}

\* While calls run, those of the earlier steps have left some of the budget.
BudgetLeft == phase = "running" => Cardinality(RanBefore(steps)) < MaxCalls

\* A run that closes before its steps and nudges are used up has run what is
\* required.
ClosesComplete ==
    phase \in {"closing", "flushing", "done"} /\ steps < MaxSteps /\ nudges < MaxNudges =>
        Missing = {}

\* The client has the results of the calls that ran, once each, and of no
\* other until the flush.
StreamedFits ==
    \A i \in Own :
        IF phase = "done" THEN calls[i].sent = 1
        ELSE IF calls[i].state = "run" THEN i \in seen /\ calls[i].sent = 1
        ELSE i \notin seen /\ calls[i].sent = 0

RunInv == StepsFit /\ Ordered /\ FirstRuns /\ BudgetLeft /\ BudgetIsKept /\ ClosesComplete
          /\ StreamedFits /\ WorkIsHandedBack

\* What a step that leaves the calls alone keeps.
LEMMA CallsStay ==
    ASSUME TypeOK, RunInv, UNCHANGED <<calls, steps, seen>>, phase' # "asked", phase' # "running",
           phase # "done", phase' # "done",
           ClosesComplete'
    PROVE  RunInv'
<1>1. /\ StepsFit' /\ BudgetIsKept' /\ BudgetLeft' /\ Ordered' /\ FirstRuns'
  BY DEF RunInv, StepsFit, BudgetIsKept, BudgetLeft, Ordered, FirstRuns, In
<1>2. StreamedFits' /\ WorkIsHandedBack'
  BY DEF RunInv, StreamedFits, WorkIsHandedBack, Own, In
<1> QED
  BY <1>1, <1>2 DEF RunInv

LEMMA RunInvHolds == Spec => []RunInv
<1> USE DelegationAssumption
<1>1. Init => RunInv
  <2> SUFFICES ASSUME Init PROVE RunInv
    OBVIOUS
  <2>0. PICK n \in 0..MaxGiven : \E sizes \in [1..n -> Sizes] : calls =
          [i \in 1..n |-> [tool |-> None, step |-> 0, state |-> "given", sent |-> 1,
                           size |-> sizes[i]]]
    BY DEF Init
  <2>1. PICK sizes \in [1..n -> Sizes] : calls =
          [i \in 1..n |-> [tool |-> None, step |-> 0, state |-> "given", sent |-> 1,
                           size |-> sizes[i]]]
    BY <2>0
  <2>2. \A i \in DOMAIN calls : calls[i].state = "given"
    BY <2>1
  <2>3. Ordered /\ FirstRuns
    BY <2>1, <2>2 DEF Init, Ordered, FirstRuns
  <2> QED
    BY <2>2, <2>3 DEF Init, RunInv, StepsFit, BudgetLeft, BudgetIsKept, ClosesComplete,
                StreamedFits, WorkIsHandedBack, In, Own
<1>2. TypeOK /\ TypeOK' /\ RunInv /\ [Next]_vars => RunInv'
  <2> SUFFICES ASSUME TypeOK, TypeOK', RunInv, [Next]_vars PROVE RunInv'
    OBVIOUS
  <2>0. /\ steps \in Nat
        /\ calls \in Seq(Calls)
        /\ \A i \in DOMAIN calls : calls[i] \in Calls /\ calls[i].step \in Nat
    BY Positions DEF TypeOK, Calls
  <2>1. CASE Think
    <3>1. CASE UNCHANGED calls
      <4>1. /\ phase' \in {"exiting", "asked"} /\ phase = "thinking" /\ steps' = steps + 1
            /\ UNCHANGED <<nudges, seen, output>>
        BY <2>1 DEF Think
      <4>2. In("asked") = {}
        BY <4>1 DEF TypeOK
      <4>3. StepsFit'
        BY <2>0, <3>1, <4>1, <4>2 DEF RunInv, StepsFit, In
      <4>4. Ordered' /\ FirstRuns'
        BY <2>0, <3>1, <4>1 DEF RunInv, Ordered, FirstRuns
      <4> QED
        BY <3>1, <4>1, <4>3, <4>4 DEF RunInv, BudgetLeft, BudgetIsKept, ClosesComplete,
                                StreamedFits, WorkIsHandedBack, In, Own
    <3>2. CASE \E n \in 1..MaxParallel : \E tools \in [1..n -> Tool] :
                  calls' = calls \o Asked(n, tools)
      <4>1. /\ phase' \in {"exiting", "asked"} /\ phase = "thinking" /\ steps' = steps + 1
            /\ UNCHANGED <<nudges, seen, output>>
        BY <2>1 DEF Think
      <4>2. /\ DOMAIN calls \subseteq DOMAIN calls'
            /\ \A i \in DOMAIN calls : calls'[i] = calls[i]
            /\ \A i \in DOMAIN calls' \ DOMAIN calls :
                  calls'[i].state = "asked" /\ calls'[i].step = steps + 1 /\ calls'[i].sent = 0
        <5>0. PICK n \in 1..MaxParallel : \E tools \in [1..n -> Tool] : calls' = calls \o Asked(n, tools)
          BY <3>2
        <5>1. PICK tools \in [1..n -> Tool] : calls' = calls \o Asked(n, tools)
          BY <5>0
        <5>2. n \in Nat /\ steps < MaxSteps /\ MaxSteps \in Nat /\ steps \in 0..MaxSteps
          BY <2>1 DEF Think, TypeOK
        <5> QED
          BY <2>0, <5>1, <5>2, Grown
      <4>8. /\ DOMAIN calls \subseteq Nat /\ DOMAIN calls' \subseteq Nat
            /\ \A i \in DOMAIN calls, j \in DOMAIN calls' : j <= i => j \in DOMAIN calls
        <5>1. calls' \in Seq(Calls)
          BY DEF TypeOK
        <5> QED
          BY <2>0, <5>1
      <4>3. In("asked") = {} /\ In("run")' = In("run") /\ seen \subseteq Own
        BY <4>1, <4>2 DEF TypeOK, In
      <4>4. StepsFit'
        BY <2>0, <4>1, <4>2, <4>3 DEF RunInv, StepsFit, In
      <4>5. BudgetIsKept'
        BY <4>2, <4>3 DEF RunInv, BudgetIsKept, In
      <4>6. StreamedFits'
        BY <4>1, <4>2, <4>3 DEF RunInv, StreamedFits, In, Own
      <4>7. Ordered' /\ FirstRuns'
        <5>1. \A i \in DOMAIN calls, j \in DOMAIN calls' \ DOMAIN calls : i < j
          BY <2>0, <4>2, <4>8
        <5>2. \A i \in DOMAIN calls' : calls'[i].step \in Nat /\ calls'[i].step <= steps'
          BY <2>0, <4>1, <4>2 DEF RunInv, Ordered
        <5>3. \A i, j \in DOMAIN calls' : i < j => calls'[i].step <= calls'[j].step
          <6> SUFFICES ASSUME NEW i \in DOMAIN calls', NEW j \in DOMAIN calls', i < j
                       PROVE  calls'[i].step <= calls'[j].step
            OBVIOUS
          <6>1. CASE j \in DOMAIN calls' \ DOMAIN calls
            BY <2>0, <4>1, <4>2, <5>2, <6>1
          <6>2. CASE i \in DOMAIN calls /\ j \in DOMAIN calls
            BY <4>2, <6>2 DEF RunInv, Ordered
          <6> QED
            BY <4>8, <5>1, <6>1, <6>2
        <5> QED
          BY <4>2, <5>2, <5>3 DEF RunInv, Ordered, FirstRuns
      <4> QED
        BY <4>1, <4>4, <4>5, <4>6, <4>7 DEF RunInv, BudgetLeft, ClosesComplete, WorkIsHandedBack
    <3> QED
      BY <2>1, <3>1, <3>2 DEF Think, Asked
  <2>2. CASE BeforeTool
    <3>1. CASE Spent /\ calls' = Skipped /\ phase' = "thinking"
      <4>1. /\ DOMAIN calls' = DOMAIN calls
            /\ \A i \in DOMAIN calls :
                  /\ calls[i].state = "asked" => calls'[i].state = "skipped"
                  /\ calls[i].state # "asked" => calls'[i] = calls[i]
                  /\ calls'[i].step = calls[i].step /\ calls'[i].sent = calls[i].sent
        BY <2>0, <3>1 DEF Skipped, Calls
      <4>2. In("run")' = In("run") /\ Own' = Own
        BY <4>1 DEF In, Own
      <4>3. StepsFit' /\ BudgetIsKept'
        BY <2>2, <3>1, <4>1, <4>2 DEF BeforeTool, RunInv, StepsFit, BudgetIsKept, In
      <4>4. StreamedFits'
        BY <2>2, <3>1, <4>1, <4>2 DEF BeforeTool, RunInv, StreamedFits, Own, In
      <4>5. Ordered'
        BY <2>2, <4>1 DEF BeforeTool, RunInv, Ordered
      <4>6. FirstRuns'
        <5> SUFFICES ASSUME 1 \in DOMAIN calls, calls[1].state = "asked" PROVE MaxCalls = 0
          BY <4>1 DEF RunInv, FirstRuns
        <5>1. \A i \in DOMAIN calls : calls[i].step >= steps
          BY <2>0, Positions DEF RunInv, StepsFit, Ordered
        <5>2. In("run") = {}
          BY <2>0, <2>2, <5>1 DEF BeforeTool, RunInv, StepsFit, In
        <5> QED
          BY <3>1, <5>2, FS_EmptySet DEF Spent, Count
      <4> QED
        BY <2>2, <3>1, <4>3, <4>4, <4>5, <4>6
           DEF BeforeTool, RunInv, BudgetLeft, ClosesComplete, WorkIsHandedBack
    <3>2. CASE ~Spent /\ calls' = calls /\ phase' = "running"
      <4>1. RanBefore(steps) = In("run")
        BY <2>2, <2>0 DEF BeforeTool, RunInv, StepsFit, RanBefore, In
      <4>2. In("run") = RanBefore(steps)' /\ steps' = steps
        BY <2>2, <3>2, <4>1 DEF BeforeTool, RanBefore, In
      <4>3. Cardinality(In("run")) < MaxCalls
        <5>1. \A i \in In("run") : calls[i].step < steps
          BY <4>1 DEF RanBefore
        <5>2. ~(Cardinality(In("run")) >= MaxCalls)
          BY <3>2 DEF Spent, Count
        <5>3. Cardinality(In("run")) \in Nat
          <6>1. IsFiniteSet(DOMAIN calls)
            BY <2>0, Positions, FS_Interval
          <6>2. IsFiniteSet(In("run"))
            BY <6>1, FS_Subset DEF In
          <6> QED
            BY <6>2, FS_CardinalityType
        <5> QED
          BY <5>2, <5>3
      <4> QED
        BY <2>2, <3>2, <4>2, <4>3 DEF BeforeTool, RunInv, StepsFit, Ordered, FirstRuns, BudgetLeft, BudgetIsKept,
                               ClosesComplete, StreamedFits, WorkIsHandedBack, In, Own
    <3> QED
      BY <2>2, <3>1, <3>2 DEF BeforeTool
  <2>3. ASSUME NEW i \in DOMAIN calls, Run(i) PROVE RunInv'
    <3>1. /\ phase = "running" /\ UNCHANGED <<phase, steps, last, nudges, output>>
          /\ calls[i].state = "asked" /\ seen' = seen \cup {i}
      BY <2>3 DEF Run
    <3>2. /\ DOMAIN calls' = DOMAIN calls
          /\ calls'[i].state = "run" /\ calls'[i].step = calls[i].step
          /\ calls'[i].sent = calls[i].sent + 1
          /\ \A k \in DOMAIN calls : k # i => calls'[k] = calls[k]
      <4>1. PICK size \in Sizes :
              calls' = [calls EXCEPT ![i].state = "run", ![i].sent = @ + 1, ![i].size = size]
        BY <2>3 DEF Run
      <4> QED
        BY <2>0, <4>1 DEF Calls
    <3>3. In("run")' = In("run") \cup {i} /\ Own' = Own /\ i \in Own /\ i \notin In("run")
      BY <3>1, <3>2 DEF In, Own
    <3>4. calls[i].step = steps /\ StepsFit'
      <4>1. calls[i].step = steps
        BY <3>1 DEF RunInv, StepsFit
      <4>2. \A k \in DOMAIN calls' :
              /\ calls'[k].state = "asked" => calls'[k].step = steps
              /\ calls'[k].state = "run" => calls'[k].step <= steps
        BY <2>0, <3>1, <3>2, <4>1 DEF RunInv, StepsFit
      <4> QED
        BY <3>1, <4>1, <4>2 DEF StepsFit
    <3>5. ASSUME NEW n \in 0..steps
          PROVE  {j \in In("run")' : calls'[j].step < n} = {j \in In("run") : calls[j].step < n}
      <4>1. \A j \in In("run") : j # i /\ j \in DOMAIN calls
        BY <3>3 DEF In
      <4>2. ~(calls'[i].step < n)
        BY <2>0, <3>2, <3>4
      <4> QED
        BY <3>2, <3>3, <4>1, <4>2
    <3>6. Cardinality({j \in In("run") : calls[j].step < steps}) < MaxCalls /\ BudgetLeft'
      <4>1. Cardinality({j \in In("run") : calls[j].step < steps}) < MaxCalls
        BY <3>1 DEF RunInv, BudgetLeft, RanBefore
      <4>2. steps \in 0..steps
        BY <2>0
      <4>3. Cardinality({j \in In("run")' : calls'[j].step < steps}) < MaxCalls
        BY <3>5, <4>1, <4>2
      <4> QED
        BY <3>1, <4>1, <4>3 DEF BudgetLeft, RanBefore
    <3>7. BudgetIsKept'
      <4> SUFFICES ASSUME NEW k \in In("run")'
                   PROVE  Cardinality({j \in In("run")' : calls'[j].step < calls'[k].step}) < MaxCalls
        BY DEF BudgetIsKept
      <4>1. CASE k = i
        <5>1. calls'[k].step = steps /\ steps \in 0..steps
          BY <2>0, <3>2, <3>4, <4>1
        <5> QED
          BY <3>5, <3>6, <5>1
      <4>2. CASE k # i
        <5>1. k \in In("run") /\ k \in DOMAIN calls
          BY <3>3, <4>2 DEF In
        <5>2. calls'[k].step = calls[k].step /\ calls[k].step \in 0..steps
          <6>1. calls[k].step <= steps
            BY <5>1 DEF RunInv, StepsFit, In
          <6> QED
            BY <2>0, <3>2, <4>2, <5>1, <6>1
        <5>3. Cardinality({j \in In("run") : calls[j].step < calls[k].step}) < MaxCalls
          BY <5>1 DEF RunInv, BudgetIsKept
        <5> QED
          BY <3>5, <5>2, <5>3
      <4> QED
        BY <4>1, <4>2
    <3>8. StreamedFits'
      BY <3>1, <3>2, <3>3 DEF RunInv, StreamedFits, In, Own
    <3>9. Ordered' /\ FirstRuns'
      <4>1. \A k \in DOMAIN calls : calls'[k].step = calls[k].step
        BY <3>2
      <4> QED
        BY <3>1, <3>2, <4>1 DEF RunInv, Ordered, FirstRuns
    <3> QED
      BY <3>1, <3>4, <3>6, <3>7, <3>8, <3>9 DEF RunInv, ClosesComplete, WorkIsHandedBack
  <2>4. CASE AfterTools \/ Exhaust \/ Close \/ Raise
    <3>1. UNCHANGED <<calls, steps, seen>> /\ phase # "done"
          /\ phase' \in {"thinking", "closing", "flushing", "raised"}
      BY <2>4 DEF AfterTools, Exhaust, Close, Raise
    <3>2. ClosesComplete'
      BY <2>4, <3>1 DEF AfterTools, Exhaust, Close, Raise, RunInv, ClosesComplete, Missing, In
    <3> QED
      BY <3>1, <3>2, CallsStay
  <2>5. CASE OnExit
    <3>1. UNCHANGED <<calls, steps, seen>> /\ phase # "done" /\ phase' \in {"thinking", "closing"}
      BY <2>5 DEF OnExit
    <3>2. ClosesComplete'
      BY <2>5 DEF OnExit, ClosesComplete, Missing, In
    <3> QED
      BY <3>1, <3>2, CallsStay
  <2>6. CASE Flush
    <3>1. phase = "flushing" /\ phase' = "done" /\ UNCHANGED <<steps, last, nudges, seen>>
          /\ output' = Response
      BY <2>6 DEF Flush
    <3>2. /\ DOMAIN calls' = DOMAIN calls
          /\ \A i \in DOMAIN calls :
                /\ calls'[i].state = calls[i].state /\ calls'[i].tool = calls[i].tool
                /\ calls'[i].step = calls[i].step
                /\ i \in seen => calls'[i].sent = calls[i].sent
                /\ i \notin seen => calls'[i].sent = calls[i].sent + 1
      BY <2>0, <2>6 DEF Flush, Unstreamed, Calls
    <3>3. \A state \in {"given", "asked", "run", "skipped"} : In(state)' = In(state)
      BY <3>2 DEF In
    <3>4. StepsFit' /\ BudgetIsKept' /\ BudgetLeft'
      BY <3>1, <3>2, <3>3 DEF RunInv, StepsFit, BudgetIsKept, BudgetLeft, In
    <3>5. ClosesComplete'
      <4>1. Missing' = Missing
        BY <3>2, <3>3 DEF Missing, In
      <4> QED
        BY <3>1, <4>1 DEF RunInv, ClosesComplete
    <3>6. StreamedFits'
      BY <2>0, <3>1, <3>2, <3>3 DEF RunInv, StreamedFits, Own
    <3>7. WorkIsHandedBack'
      <4> SUFFICES ASSUME last # "answer" PROVE WorkIsHandedBack'
        BY <3>1 DEF WorkIsHandedBack, Response
      <4>1. output'.digest = Gathered /\ output'.cut = Cut
        BY <3>1 DEF Response
      <4>2. /\ Material' = Material /\ Length(Material)' = Length(Material)
            /\ \A i \in Material : calls'[i].size = calls[i].size
            /\ \A i \in Gathered : Before(i)' = Before(i)
        <5>1. Material' = Material
          BY <3>2, <3>3 DEF Material
        <5>2. \A i \in DOMAIN calls : calls'[i].size = calls[i].size
          BY <2>0, <2>6 DEF Flush, Calls
        <5>3. {{i} \X (1 .. calls'[i].size) : i \in Material} = {{i} \X (1 .. calls[i].size) : i \in Material}
          BY <5>2 DEF Material
        <5> QED
          BY <5>1, <5>2, <5>3 DEF Length, Before, Material
      <4>3. In("given") = {} /\ In("run") # {} => In("run") \cap Gathered # {}
        <5> SUFFICES ASSUME In("given") = {}, In("run") # {} PROVE In("run") \cap Gathered # {}
          OBVIOUS
        <5>1. 1 \in DOMAIN calls /\ calls[1] \in Calls
          BY <2>0, Positions DEF In
        <5>2. MaxCalls # 0
          <6>1. PICK i \in In("run") : TRUE
            OBVIOUS
          <6>2. IsFiniteSet({j \in In("run") : calls[j].step < calls[i].step})
            <7>1. IsFiniteSet(DOMAIN calls)
              BY <2>0, Positions, FS_Interval
            <7> QED
              BY <7>1, FS_Subset DEF In
          <6>3. Cardinality({j \in In("run") : calls[j].step < calls[i].step}) \in Nat
            BY <6>2, FS_CardinalityType
          <6> QED
            BY <6>1, <6>3 DEF RunInv, BudgetIsKept
        <5>3. calls[1].state # "given" /\ calls[1].state # "asked" /\ calls[1].state # "skipped"
          BY <3>1, <5>1, <5>2 DEF TypeOK, RunInv, FirstRuns, In
        <5>4. calls[1].state = "run"
          BY <5>1, <5>3 DEF Calls
        <5>5. 1 \in In("run") /\ 1 \in Material
          BY <5>1, <5>4 DEF In, Material
        <5> QED
          BY <2>0, <5>5, DigestInOrder
      <4> QED
        BY <2>0, <3>3, <4>1, <4>2, <4>3, DigestInOrder DEF WorkIsHandedBack
    <3>8. Ordered' /\ FirstRuns'
      BY <3>1, <3>2 DEF RunInv, Ordered, FirstRuns
    <3> QED
      BY <3>4, <3>5, <3>6, <3>7, <3>8 DEF RunInv
  <2>7. CASE UNCHANGED vars
    <3>1. StepsFit' /\ Ordered' /\ FirstRuns' /\ ClosesComplete' /\ StreamedFits'
      BY <2>7 DEF vars, RunInv, StepsFit, Ordered, FirstRuns, ClosesComplete, Missing, StreamedFits,
                  In, Own
    <3>2. BudgetLeft' /\ BudgetIsKept'
      BY <2>7 DEF vars, RunInv, BudgetLeft, RanBefore, BudgetIsKept, In
    <3>3. WorkIsHandedBack'
      BY <2>7 DEF vars, RunInv, WorkIsHandedBack, Material, Before, Length, In
    <3> QED
      BY <3>1, <3>2, <3>3 DEF RunInv
  <2> QED
    BY <2>1, <2>2, <2>3, <2>4, <2>5, <2>6, <2>7 DEF Next, Over
<1> QED
  BY <1>1, <1>2, TypeCorrect, PTL DEF Spec

\* For any budget, toolset and number of parallel calls: no call runs once the
\* steps before it have used the budget up, and a run that ends with steps and
\* nudges to spare has run every required tool it has.
THEOREM HooksAlwaysHold == Spec => []HooksHold
<1>1. RunInv => HooksHold
  BY DEF RunInv, HooksHold, RequiredRan, ClosesComplete, Missing
<1> QED
  BY <1>1, RunInvHolds, PTL

\* Every call the client was shown is resolved there exactly once by the end of
\* the run.  Without an answer the coordinator gets, for any limit of the digest
\* and any lengths, the results in their order and whole up to the one at which
\* the limit is used up, all of them when they fit, and one of the run's own at
\* least when none was handed over.
THEOREM NothingIsEverLost == Spec => []NothingIsLost
<1>1. RunInv => NothingIsLost
  BY DEF RunInv, NothingIsLost, OwnPartsClose, StreamedFits
<1> QED
  BY <1>1, RunInvHolds, PTL
=============================================================================
