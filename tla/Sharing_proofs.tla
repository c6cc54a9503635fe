--------------------------- MODULE Sharing_proofs ---------------------------
(***************************************************************************)
(* Theorems about Sharing, Access, Errors and Endpoints, for any users,    *)
(* groups, membership and number of overlapping requests.  First what      *)
(* becomes of the shares, then what a request may reach, whether the two   *)
(* HTTP layers agree and what a client is shown.                           *)
(***************************************************************************)
EXTENDS Endpoints, SequenceTheorems, FiniteSetTheorems, WellFoundedInduction, TLAPS

\* Replacing a group's row, or adding one for a group without, leaves one row
\* per group.
LEMMA WithGroupIsTyped ==
    ASSUME groups \in Seq(Share), NEW row \in Share,
           \A i, j \in DOMAIN groups : groups[i].group = groups[j].group => i = j
    PROVE  /\ WithGroup(row) \in Seq(Share)
           /\ \A i, j \in DOMAIN WithGroup(row) :
                 WithGroup(row)[i].group = WithGroup(row)[j].group => i = j
<1>1. CASE \E r \in GroupRows : r.group = row.group
  <2>1. WithGroup(row) = [i \in 1..Len(groups) |->
                             IF groups[i].group = row.group THEN row ELSE groups[i]]
    BY <1>1 DEF WithGroup
  <2> QED
    BY <2>1
<1>2. CASE ~ \E r \in GroupRows : r.group = row.group
  <2>1. WithGroup(row) = Append(groups, row)
    BY <1>2 DEF WithGroup
  <2>2. \A i \in 1..Len(groups) : groups[i].group # row.group
    BY <1>2 DEF GroupRows
  <2> QED
    BY <2>1, <2>2
<1> QED
  BY <1>1, <1>2

\* A sequence without its i-th element.
LEMMA WithoutIndex ==
    ASSUME NEW S, NEW s \in Seq(S), NEW i \in 1 .. Len(s)
    PROVE  LET rest == SubSeq(s, 1, i - 1) \o SubSeq(s, i + 1, Len(s))
           IN  /\ rest \in Seq(S)
               /\ Len(rest) = Len(s) - 1
               /\ \A j \in 1 .. (Len(s) - 1) : rest[j] = s[IF j < i THEN j ELSE j + 1]
<1>0. /\ Len(s) \in Nat /\ i \in Int
      /\ \A j \in 1 .. Len(s) : s[j] \in S
  OBVIOUS
<1> DEFINE before == SubSeq(s, 1, i - 1)
           after == SubSeq(s, i + 1, Len(s))
           rest == before \o after
<1>1. /\ before \in Seq(S) /\ Len(before) = i - 1
      /\ \A j \in 1 .. (i - 1) : before[j] = s[j]
  <2>1. \A j \in 1 .. (i - 1) : s[j] \in S
    BY <1>0
  <2>2. /\ before \in Seq(S)
        /\ Len(before) = IF 1 <= i - 1 THEN (i - 1) - 1 + 1 ELSE 0
        /\ \A j \in 1 .. ((i - 1) - 1 + 1) : before[j] = s[1 + j - 1]
    BY <1>0, <2>1, SubSeqProperties
  <2> QED
    BY <1>0, <2>2
<1>2. /\ after \in Seq(S) /\ Len(after) = Len(s) - i
      /\ \A j \in 1 .. (Len(s) - i) : after[j] = s[i + j]
  <2>1. \A j \in (i + 1) .. Len(s) : s[j] \in S
    BY <1>0
  <2>2. /\ after \in Seq(S)
        /\ Len(after) = IF i + 1 <= Len(s) THEN Len(s) - (i + 1) + 1 ELSE 0
        /\ \A j \in 1 .. (Len(s) - (i + 1) + 1) : after[j] = s[(i + 1) + j - 1]
    BY <1>0, <2>1, SubSeqProperties
  <2> QED
    BY <1>0, <2>2
<1> HIDE DEF before, after
<1>3. /\ rest \in Seq(S)
      /\ Len(rest) = Len(before) + Len(after)
      /\ \A j \in 1 .. Len(before) + Len(after) : rest[j] =
            IF j <= Len(before) THEN before[j] ELSE after[j - Len(before)]
  BY <1>1, <1>2, ConcatProperties
<1> HIDE DEF rest
<1>4. ASSUME NEW j \in 1 .. (Len(s) - 1)
      PROVE  rest[j] = s[IF j < i THEN j ELSE j + 1]
  <2>0. rest[j] = IF j <= i - 1 THEN before[j] ELSE after[j - (i - 1)]
    <3>1. Len(before) = i - 1 /\ j \in 1 .. Len(before) + Len(after)
      BY <1>0, <1>1, <1>2
    <3> QED
      BY <1>3, <3>1
  <2>1. CASE j < i
    <3>1. j \in 1 .. (i - 1)
      BY <1>0, <2>1
    <3> QED
      BY <1>1, <2>0, <2>1, <3>1
  <2>2. CASE ~(j < i)
    <3>1. rest[j] = after[j - (i - 1)]
      BY <1>0, <2>0, <2>2
    <3>2. j - (i - 1) \in 1 .. (Len(s) - i) /\ i + (j - (i - 1)) = j + 1
      BY <1>0, <2>2
    <3> QED
      BY <1>2, <2>2, <3>1, <3>2
  <2> QED
    BY <2>1, <2>2
<1>5. rest \in Seq(S) /\ Len(rest) = Len(s) - 1
  BY <1>0, <1>1, <1>2, <1>3
<1> QED
  BY <1>4, <1>5 DEF rest, before, after

\* So does taking one row out.
LEMMA WithoutRowIsTyped ==
    ASSUME groups \in Seq(Share), NEW i \in DOMAIN groups,
           \A j, k \in DOMAIN groups : groups[j].group = groups[k].group => j = k,
           NEW rest, rest = SubSeq(groups, 1, i - 1) \o SubSeq(groups, i + 1, Len(groups))
    PROVE  /\ rest \in Seq(Share)
           /\ \A j, k \in DOMAIN rest : rest[j].group = rest[k].group => j = k
<1>0. Len(groups) \in Nat /\ i \in 1 .. Len(groups) /\ DOMAIN groups = 1 .. Len(groups)
  OBVIOUS
<1>1. /\ rest \in Seq(Share)
      /\ Len(rest) = Len(groups) - 1
      /\ \A j \in 1 .. (Len(groups) - 1) : rest[j] = groups[IF j < i THEN j ELSE j + 1]
  BY <1>0, WithoutIndex
<1>2. DOMAIN rest = 1 .. (Len(groups) - 1)
  BY <1>1
<1>3. ASSUME NEW j \in DOMAIN rest, NEW k \in DOMAIN rest, rest[j].group = rest[k].group
      PROVE  j = k
  <2> DEFINE from(n) == IF n < i THEN n ELSE n + 1
  <2>0. j \in 1 .. (Len(groups) - 1) /\ k \in 1 .. (Len(groups) - 1)
    BY <1>2, <1>3
  <2>1. /\ from(j) \in 1 .. Len(groups)
        /\ from(k) \in 1 .. Len(groups)
    <3>1. from(j) \in 1 .. Len(groups)
      BY <1>0, <2>0, SMTT(30)
    <3>2. from(k) \in 1 .. Len(groups)
      BY <1>0, <2>0, SMTT(30)
    <3> QED
      BY <3>1, <3>2
  <2>2. groups[from(j)].group = groups[from(k)].group
    BY <1>1, <1>2, <1>3
  <2>3. from(j) = from(k)
    BY <1>0, <2>1, <2>2
  <2> QED
    BY <1>0, <1>2, <2>3
<1> QED
  BY <1>1, <1>3

-----------------------------------------------------------------------------
\* What a request carries fits its kind, and every row keeps its type.
THEOREM TypeCorrect == Spec => []TypeOK
<1> USE SharingAssumption
<1>1. Init => TypeOK
  BY DEF Init, TypeOK, Idle, Request, WellFormed
<1>2. TypeOK /\ [Next]_vars => TypeOK'
  <2> SUFFICES ASSUME TypeOK, [Next]_vars PROVE TypeOK'
    OBVIOUS
  <2>1. ASSUME NEW c \in Call, call' = End(c) PROVE
          call' \in [Call -> Request] /\ \A d \in Call : WellFormed(call'[d])
    BY <2>1 DEF TypeOK, End, Idle, Request, WellFormed
  <2>2. ASSUME NEW c \in Call, NEW us \in SUBSET User, call' = Forget(End(c), us) PROVE
          call' \in [Call -> Request] /\ \A d \in Call : WellFormed(call'[d])
    <3>1. End(c) \in [Call -> Request] /\ \A d \in Call : WellFormed(End(c)[d])
      BY DEF TypeOK, End, Idle, Request, WellFormed
    <3>2. \A d \in Call : /\ [End(c)[d] EXCEPT !.held = FALSE] \in Request
                          /\ WellFormed([End(c)[d] EXCEPT !.held = FALSE])
      BY <3>1 DEF Request, WellFormed
    <3> QED
      BY <2>2, <3>1, <3>2 DEF Forget
  <2>3. ASSUME NEW c \in Call, NEW q \in Request, WellFormed(q), call' = [call EXCEPT ![c] = q]
        PROVE  call' \in [Call -> Request] /\ \A d \in Call : WellFormed(call'[d])
    BY <2>3 DEF TypeOK
  <2>4. ASSUME NEW c \in Call,
               Edit(c) \/ Delete(c) \/ Grant(c) \/ Admit(c) \/ Expel(c) \/ Change(c) \/ Revoke(c)
        PROVE  TypeOK'
    <3>1. PICK q \in Request : WellFormed(q) /\ call' = [call EXCEPT ![c] = q]
      <4>1. CASE Edit(c)
        BY <4>1 DEF Edit, Managed, Begin, Request, WellFormed, TypeOK
      <4>2. CASE Delete(c)
        BY <4>2 DEF Delete, Begin, Request, WellFormed
      <4>3. CASE Grant(c)
        BY <4>3 DEF Grant, Begin, Request, WellFormed
      <4>4. CASE Admit(c)
        BY <4>4 DEF Admit, Begin, Request, WellFormed
      <4>5. CASE Expel(c)
        BY <4>5 DEF Expel, Begin, Request, WellFormed
      <4>6. CASE Change(c)
        BY <4>6 DEF Change, Begin, Request, WellFormed
      <4>7. CASE Revoke(c)
        BY <4>7 DEF Revoke, Begin, Request, WellFormed
      <4> QED
        BY <2>4, <4>1, <4>2, <4>3, <4>4, <4>5, <4>6, <4>7
    <3>2. UNCHANGED <<kind, object, users, groups>>
      BY <2>4 DEF Edit, Delete, Grant, Admit, Expel, Change, Revoke, Begin
    <3> QED
      BY <2>3, <3>1, <3>2 DEF TypeOK
  <2>5. ASSUME NEW c \in Call, Create(c) PROVE TypeOK'
    <3>1. PICK u \in User : call' = [call EXCEPT ![c] = [Idle EXCEPT !.step = "own", !.who = u]]
      BY <2>5 DEF Create
    <3>2. [Idle EXCEPT !.step = "own", !.who = u] \in Request
          /\ WellFormed([Idle EXCEPT !.step = "own", !.who = u])
      BY DEF Idle, Request, WellFormed
    <3> QED
      BY <2>5, <2>3, <3>1, <3>2 DEF Create, TypeOK
  <2>6. ASSUME NEW c \in Call, Own(c) \/ DoGrant(c) \/ DoChange(c) PROVE TypeOK'
    BY <2>6, <2>1 DEF Own, DoGrant, GrantShare, DoChange, SaveFlag, At, TypeOK, WellFormed
  <2>7. ASSUME NEW c \in Call, Save(c) PROVE TypeOK'
    <3>1. object' \in BOOLEAN \cup {Gone}
      BY <2>7 DEF Save, SaveNamed, SaveMemory, At, TypeOK, WellFormed, Request
    <3> QED
      BY <2>7, <2>1, <3>1 DEF Save, TypeOK
  <2>8. ASSUME NEW c \in Call, Drop(c) PROVE TypeOK'
    BY <2>8, <2>2 DEF Drop, TypeOK
  <2>9. ASSUME NEW c \in Call, DoRevoke(c) PROVE TypeOK'
    <3>1. call[c].who \in User
      BY <2>9 DEF DoRevoke, At, TypeOK, WellFormed
    <3>2. CASE kind = "memory" /\ ~call[c].held
      BY <2>9, <2>1, <3>2 DEF DoRevoke, TypeOK
    <3>3. CASE ~(kind = "memory" /\ ~call[c].held)
      BY <2>9, <2>2, <3>1, <3>3 DEF DoRevoke, TypeOK
    <3> QED
      BY <3>2, <3>3
  <2>10. ASSUME NEW c \in Call, DoAdmit(c) PROVE TypeOK'
    <3> DEFINE row == [group |-> call[c].who, manage |-> call[c].flag]
    <3>1. row \in Share
      BY <2>10 DEF DoAdmit, At, TypeOK, WellFormed, Share
    <3>2. groups' = groups \/ groups' = WithGroup(row)
      BY <2>10 DEF DoAdmit
    <3>3. groups' \in Seq(Share)
          /\ \A i, j \in DOMAIN groups' : groups'[i].group = groups'[j].group => i = j
      BY <3>1, <3>2, WithGroupIsTyped DEF TypeOK
    <3> QED
      BY <2>10, <2>1, <3>3 DEF DoAdmit, TypeOK
  <2>11. ASSUME NEW c \in Call, DoExpel(c) PROVE TypeOK'
    <3>1. groups' \in Seq(Share)
          /\ \A i, j \in DOMAIN groups' : groups'[i].group = groups'[j].group => i = j
      BY <2>11, WithoutRowIsTyped DEF DoExpel, TypeOK
    <3> QED
      BY <2>11, <2>1, <3>1 DEF DoExpel, TypeOK
  <2>12. CASE UNCHANGED vars
    BY <2>12 DEF vars, TypeOK
  <2> QED
    BY <2>4, <2>5, <2>6, <2>7, <2>8, <2>9, <2>10, <2>11, <2>12 DEF Next
<1> QED
  BY <1>1, <1>2, PTL DEF Spec

-----------------------------------------------------------------------------
\* A share read to be changed or revoked, and not deleted since, is still
\* there: what makes a save of a share that is gone fail.
HeldIsThere ==
    \A c \in Call :
        call[c].step \in {"change", "revoke"} /\ call[c].held => users[call[c].who] # None

SharesInv == NoSharesOfNothing /\ HeldIsThere

\* SharesInv is an invariant.
LEMMA SharesInvHolds == Spec => []SharesInv
<1> USE SharingAssumption
<1>1. Init => SharesInv
  BY DEF Init, SharesInv, NoSharesOfNothing, HeldIsThere, Idle
<1>2. TypeOK /\ SharesInv /\ [Next]_vars => SharesInv'
  <2> SUFFICES ASSUME TypeOK, SharesInv, [Next]_vars PROVE SharesInv'
    OBVIOUS
  <2> USE DEF TypeOK, WellFormed, SharesInv, NoSharesOfNothing, HeldIsThere
  <2>1. ASSUME NEW c \in Call,
               Edit(c) \/ Delete(c) \/ Grant(c) \/ Admit(c) \/ Expel(c) \/ Change(c) \/ Revoke(c)
        PROVE  SharesInv'
    BY <2>1 DEF Edit, Delete, Grant, Admit, Expel, Change, Revoke, Begin
  <2>2. ASSUME NEW c \in Call, Create(c) PROVE SharesInv'
    BY <2>2 DEF Create, Idle
  <2>3. ASSUME NEW c \in Call, Own(c) \/ DoGrant(c) \/ DoChange(c) PROVE SharesInv'
    <3>1. CASE Own(c)
      BY <2>3, <3>1 DEF Own, At, End, Idle
    <3>2. CASE DoGrant(c)
      BY <2>3, <3>2 DEF DoGrant, GrantShare, At, End, Idle
    <3>3. CASE DoChange(c)
      BY <2>3, <3>3 DEF DoChange, SaveFlag, At, End, Idle
    <3> QED
      BY <2>3, <3>1, <3>2, <3>3
  <2>4. ASSUME NEW c \in Call, Save(c) PROVE SharesInv'
    <3>1. object' = Gone => object = Gone
      BY <2>4 DEF Save, SaveNamed, SaveMemory, At, Request
    <3> QED
      BY <2>4, <3>1 DEF Save, End, Idle
  <2>5. ASSUME NEW c \in Call, Drop(c) PROVE SharesInv'
    BY <2>5 DEF Drop, Forget, End, Idle, Request
  <2>6. ASSUME NEW c \in Call, DoRevoke(c) PROVE SharesInv'
    BY <2>6 DEF DoRevoke, At, Forget, End, Idle, Request
  <2>7. ASSUME NEW c \in Call, DoAdmit(c) \/ DoExpel(c) PROVE SharesInv'
    <3>1. object = Gone => groups' = <<>>
      BY <2>7 DEF DoAdmit, DoExpel
    <3> QED
      BY <2>7, <3>1 DEF DoAdmit, DoExpel, End, Idle
  <2>8. CASE UNCHANGED vars
    BY <2>8 DEF vars
  <2> QED
    BY <2>1, <2>2, <2>3, <2>4, <2>5, <2>6, <2>7, <2>8 DEF Next
<1> QED
  BY <1>1, <1>2, TypeCorrect, PTL DEF Spec

\* However grants, changes and deletions overlap, nobody keeps a share of a
\* memory or an agent that was deleted.
THEOREM SharesGoWithTheirObject == Spec => []NoSharesOfNothing
<1>1. SharesInv => NoSharesOfNothing
  BY DEF SharesInv
<1> QED
  BY <1>1, SharesInvHolds, PTL

\* No write under way restores a share that was revoked or an agent that was
\* deactivated since it read them.
THEOREM NothingComesBack == Spec => NothingIsRestored
<1> USE SharingAssumption
<1> DEFINE Shared == \A u \in User : users[u] = None /\ users'[u] # None =>
                        \E c \in Call : call[c].step \in {"grant", "own"} /\ call[c].who = u
           Activated == kind = "agent" /\ object = FALSE /\ object' = TRUE =>
                        \E c \in Call : At(c, "save") /\ call[c].flag = TRUE
<1>1. TypeOK /\ SharesInv /\ [Next]_vars => [Shared /\ Activated]_vars
  <2> SUFFICES ASSUME TypeOK, SharesInv, Next PROVE Shared /\ Activated
    OBVIOUS
  <2>1. PICK c \in Call :
          \/ Create(c) \/ Own(c)
          \/ Edit(c) \/ Delete(c) \/ Grant(c) \/ Admit(c) \/ Expel(c) \/ Change(c) \/ Revoke(c)
          \/ Save(c) \/ Drop(c) \/ DoGrant(c) \/ DoChange(c) \/ DoRevoke(c)
          \/ DoAdmit(c) \/ DoExpel(c)
    BY DEF Next
  <2>2. Shared
    <3>1. CASE Own(c) \/ DoGrant(c)
      BY <3>1 DEF Own, DoGrant, GrantShare, At, TypeOK, WellFormed
    <3>2. CASE DoChange(c)
      BY <3>2 DEF DoChange, SaveFlag, At, TypeOK, WellFormed, SharesInv, HeldIsThere
    <3>3. CASE Drop(c) \/ DoRevoke(c)
      BY <3>3 DEF Drop, DoRevoke, At, TypeOK, WellFormed
    <3> QED
      BY <2>1, <3>1, <3>2, <3>3 DEF Create, Edit, Delete, Grant, Admit, Expel, Change, Revoke,
                                    Begin, Save, DoAdmit, DoExpel
  <2>3. Activated
    <3>1. CASE Create(c)
      BY <3>1 DEF Create
    <3>2. CASE Save(c)
      BY <3>2 DEF Save, SaveNamed, At
    <3>3. CASE Drop(c)
      BY <3>3 DEF Drop
    <3> QED
      BY <2>1, <3>1, <3>2, <3>3 DEF Edit, Delete, Grant, Admit, Expel, Change, Revoke, Begin,
                                    Own, DoGrant, DoChange, DoRevoke, DoAdmit, DoExpel
  <2> QED
    BY <2>2, <2>3
<1> QED
  BY <1>1, TypeCorrect, SharesInvHolds, PTL DEF Spec, NothingIsRestored

\* For any membership: the list of memories shows exactly what the rule opens,
\* and whoever manages an agent by any row is allowed to.
THEOREM RulesAlwaysAgree == Spec => []RulesAgree
<1>1. ListsMatchRule
  BY DEF ListsMatchRule, Listed, MemoryRule, Opens
<1>2. AgentManagersManage
  BY SharingAssumption
     DEF AgentManagersManage, ManagersManage, Allowed, AgentRule, Opens, RowsFor
<1>3. RulesAgree
  BY <1>1, <1>2 DEF RulesAgree
<1> QED
  BY <1>3, PTL

(***************************************************************************)
(* What a request may reach (Access, Endpoints).                           *)
(***************************************************************************)

\* a is a question whose answer yes gives its asker the right to do s: one
\* about the same object, by an operation of a tier that is as high.  Using an
\* agent is refused to everybody who does not name one.
Grants(a, s) ==
    /\ a.do = "ask"
    /\ \/ /\ a.domain = "agent" /\ a.op \in UseOperations
          /\ a.of = "keyword" => s.of = "agent" /\ s.tier = "read"
       \/ /\ a.domain = "agent" /\ a.op \notin UseOperations
          /\ s.of \in {"new_row", "connection"} \/ (s.of = "agent" /\ a.of = "agent")
          /\ s.of = "agent" /\ s.tier \in {"manage", "delete"} => a.op \in AgentTiers.manage
       \/ /\ a.domain = "memory" /\ a.of = "memory" /\ s.of = "memory"
          /\ s.tier \in {"read", "write", "manage", "delete"}
          /\ s.tier \in {"manage", "delete"} => RuleTier(a.op) = "manage"
          /\ s.tier = "write" => RuleTier(a.op) # "read"
       \/ a.domain = "memory" /\ a.of = "file_memory" /\ s.of = "file_memory"
       \/ a.domain = "thread" /\ a.of = "thread" /\ s.of = "thread"
       \/ /\ a.domain = "workflow" /\ a.of = "workflow" /\ s.of = "workflow"
          /\ s.tier # "read" => a.op = "MANAGE_WORKFLOW"
       \/ a.domain = "workflow" /\ a.of = "run" /\ s.of = "run"
       \/ a.domain \in {"memory", "thread", "workflow", "integrations"} /\ s.of \in {"new_row",
               "connection"}

\* s fails only if a has failed.
Again(a, s) ==
    \/ a = s
    \/ /\ a.do = "ask" /\ s.do = "ask" /\ a.of = s.of
       /\ a.domain = "thread" /\ s.domain = "thread"

\* Whatever is read or written has been asked for, and after the first write
\* nothing can fail that could have failed before it.
Guarded(steps) ==
    /\ \E n \in Nat : DOMAIN steps = 1..n
    /\ \A i \in DOMAIN steps : IsEffect(steps[i]) =>
            \E j \in 1..(i - 1) : Grants(steps[j], steps[i])
    /\ \A i \in DOMAIN steps : steps[i].do = "write" =>
          \A k \in DOMAIN steps : k > i =>
             IsEffect(steps[k]) \/ \E j \in 1..(i - 1) : Again(steps[j], steps[k])

\* A set of numbers has a least one: the sets {1..n : n \in S} are finite, and
\* finite sets are well-founded by inclusion.
LEMMA Least ==
    ASSUME NEW N \in SUBSET Nat, N # {}
    PROVE  \E x \in N : \A y \in N : x <= y
<1> DEFINE T == {1..n : n \in N}
<1>1. T \subseteq FiniteSubsetsOf(Nat)
  <2>1. \A n \in N : 1..n \subseteq Nat /\ IsFiniteSet(1..n)
    BY FS_Interval
  <2> QED
    BY <2>1 DEF FiniteSubsetsOf
<1>2. IsWellFoundedOn(StrictSubsetOrdering(Nat), FiniteSubsetsOf(Nat))
  BY FS_StrictSubsetOrderingWellFounded
<1>3. T # {}
  OBVIOUS
<1>4. PICK t \in T : \A u \in T : ~ (<<u, t>> \in StrictSubsetOrdering(Nat))
  BY <1>1, <1>2, <1>3, WFMin
<1>5. PICK x \in N : t = 1..x
  OBVIOUS
<1>6. ASSUME NEW y \in N, ~(x <= y) PROVE FALSE
  <2>1. 1..y \subseteq 1..x /\ x \in 1..x /\ x \notin 1..y
    BY <1>6
  <2>2. 1..y \subseteq Nat /\ 1..x \subseteq Nat
    OBVIOUS
  <2>3. <<1..y, 1..x>> \in StrictSubsetOrdering(Nat)
    BY <2>1, <2>2 DEF StrictSubsetOrdering
  <2>4. 1..y \in T
    OBVIOUS
  <2> QED
    BY <1>4, <1>5, <2>3, <2>4
<1> QED
  BY <1>6

\* The first step that fails is one that fails, and none before it does.
LEMMA FirstIsLeast ==
    ASSUME NEW N \in SUBSET Nat, N # {}
    PROVE  First(N) \in N /\ \A j \in N : First(N) <= j
BY Least DEF First

\* The row the memory rule looks at is one of the user's.
LEMMA FirstForIsARow ==
    ASSUME TypeOK, NEW u \in User, RowsFor(u) # {}
    PROVE  FirstFor(u) \in RowsFor(u)
<1> DEFINE mine == {i \in DOMAIN groups : groups[i].group \in GroupsOf[u]}
<1>1. mine \in SUBSET Nat /\ mine # {}
  BY DEF TypeOK, RowsFor, GroupRows
<1>2. PICK i \in mine : \A j \in mine : i <= j
  BY <1>1, Least
<1>3. (CHOOSE k \in mine : \A j \in mine : k <= j) \in mine
  BY <1>2
<1>4. FirstFor(u) = groups[CHOOSE k \in mine : \A j \in mine : k <= j]
  BY DEF FirstFor
<1> QED
  BY <1>3, <1>4 DEF RowsFor, GroupRows

\* What the memory rule opens is opened by a row, or by being public.
LEMMA RulesGoByRows ==
    ASSUME TypeOK, NEW u \in User
    PROVE  /\ MemoryRule(u, "read") => HasRow(u, "read") \/ object = TRUE
           /\ MemoryRule(u, "write") => HasRow(u, "write")
           /\ MemoryRule(u, "manage") =>
                   HasRow(u, "manage") /\ HasRow(u, "delete") /\ HasRow(u, "write")
           /\ AgentRule(u, "read") => HasRow(u, "read")
           /\ AgentRule(u, "manage") => HasRow(u, "manage") /\ HasRow(u, "read")
<1>1. RowsFor(u) # {} => FirstFor(u) \in RowsFor(u)
  BY FirstForIsARow
<1> QED
  BY <1>1 DEF MemoryRule, AgentRule, HasRow, Opens

\* A question that grants a step, answered yes, gives the right to it.
LEMMA GrantsGiveRights ==
    ASSUME TypeOK, NEW names, NEW w \in Worlds(names), NEW a, NEW s, Grants(a, s), Permits(w, a)
    PROVE  Right(w, s)
<1>1. /\ w.who # None => w.who \in User
      /\ w.mine \in BOOLEAN /\ w.staff \in BOOLEAN
      /\ w.mine \/ w.staff => w.who # None
  BY DEF Worlds, Caller
<1>2. CASE a.domain = "agent" /\ a.op \in UseOperations
  <2>1. AgentAnswer(w, a.op, a.of)
    BY <1>2 DEF Permits
  <2>2. a.of = "keyword" /\ (kind = "agent" => w.who # None /\ AgentRule(w.who, "read"))
    BY <1>2, <2>1 DEF AgentAnswer
  <2>3. s.of = "agent" /\ s.tier = "read"
    BY <1>2, <2>2 DEF Grants
  <2>4. kind = "agent" => w.who # None /\ HasRow(w.who, "read")
    BY <1>1, <2>2, RulesGoByRows
  <2> QED
    BY <2>3, <2>4 DEF Right
<1>3. CASE a.domain = "agent" /\ a.op \notin UseOperations
  <2>1. AgentAnswer(w, a.op, a.of)
    BY <1>3 DEF Permits
  <2>2. /\ w.who # None
        /\ a.of = "agent" /\ kind = "agent" =>
              AgentRule(w.who, IF a.op \in AgentTiers.manage THEN "manage" ELSE "read")
    BY <1>3, <2>1 DEF AgentAnswer
  <2>3. CASE s.of \in {"new_row", "connection"}
    BY <2>2, <2>3 DEF Right
  <2>4. CASE s.of = "agent" /\ a.of = "agent"
    <3>1. s.tier \in {"manage", "delete"} => a.op \in AgentTiers.manage
      BY <1>3, <2>4 DEF Grants
    <3>2. CASE s.tier \in {"manage", "delete"}
      <4>1. kind = "agent" => AgentRule(w.who, "manage")
        BY <2>2, <2>4, <3>1, <3>2
      <4>2. kind = "agent" => HasRow(w.who, "manage")
        BY <1>1, <2>2, <4>1, RulesGoByRows
      <4>3. kind = "agent" => HasRow(w.who, s.tier)
        BY <4>2 DEF HasRow
      <4> QED
        BY <2>2, <2>4, <4>3 DEF Right
    <3>3. CASE s.tier \notin {"manage", "delete"}
      <4>1. kind = "agent" => AgentRule(w.who, "manage") \/ AgentRule(w.who, "read")
        BY <2>2, <2>4
      <4>2. kind = "agent" => HasRow(w.who, "read")
        BY <1>1, <2>2, <4>1, RulesGoByRows
      <4>3. kind = "agent" => HasRow(w.who, s.tier)
        BY <3>3, <4>2 DEF HasRow
      <4> QED
        BY <2>2, <2>4, <4>3 DEF Right
    <3> QED
      BY <3>2, <3>3
  <2> QED
    BY <1>3, <2>3, <2>4 DEF Grants
<1>4. CASE a.domain = "memory" /\ a.of = "memory" /\ s.of = "memory"
  <2>1. w.who # None /\ MemoryRule(w.who, RuleTier(a.op))
    BY <1>4 DEF Permits, MemoryAnswer
  <2>2. RuleTier(a.op) \in {"read", "write", "manage"}
    BY DEF RuleTier
  <2>3. /\ s.tier \in {"manage", "delete"} => RuleTier(a.op) = "manage"
        /\ s.tier = "write" => RuleTier(a.op) # "read"
        /\ s.tier \in {"read", "write", "manage", "delete"}
    BY <1>4 DEF Grants
  <2>4. CASE s.tier \in {"manage", "delete"}
    BY <1>1, <1>4, <2>1, <2>3, <2>4, RulesGoByRows DEF Right
  <2>5. CASE s.tier = "write"
    BY <1>1, <1>4, <2>1, <2>2, <2>3, <2>5, RulesGoByRows DEF Right
  <2>6. CASE s.tier = "read"
    <3>1. HasRow(w.who, "read") \/ HasRow(w.who, "write") \/ object = TRUE
      BY <1>1, <2>1, <2>2, RulesGoByRows
    <3>2. HasRow(w.who, "read") \/ object = TRUE
      BY <3>1 DEF HasRow
    <3> QED
      BY <1>4, <2>1, <2>6, <3>2 DEF Right
  <2> QED
    BY <2>3, <2>4, <2>5, <2>6
<1>5. CASE a.domain = "memory" /\ a.of = "file_memory" /\ s.of = "file_memory"
  BY <1>5 DEF Permits, MemoryAnswer, Right
<1>6. CASE a.domain = "thread" /\ a.of = "thread" /\ s.of = "thread"
  BY <1>6 DEF Permits, ThreadAnswer, Right
<1>7. CASE a.domain = "workflow" /\ a.of = "workflow" /\ s.of = "workflow"
  BY <1>7 DEF Grants, Permits, WorkflowAnswer, Right
<1>8. CASE a.domain = "workflow" /\ a.of = "run" /\ s.of = "run"
  BY <1>8 DEF Permits, WorkflowAnswer, Right
<1>9. CASE a.domain \in {"memory", "thread", "workflow", "integrations"} /\ s.of \in {"new_row",
        "connection"}
  BY <1>9 DEF Permits, MemoryAnswer, ThreadAnswer, WorkflowAnswer, Right
<1> QED
  BY <1>2, <1>3, <1>4, <1>5, <1>6, <1>7, <1>8, <1>9 DEF Grants

\* A step that asks again what was asked before fails as that did.
LEMMA AgainFails ==
    ASSUME NEW w, NEW a, NEW s, Again(a, s), Fails(w, s)
    PROVE  Fails(w, a)
<1>1. CASE a = s
  BY <1>1
<1>2. CASE a # s
  <2>1. a.do = "ask" /\ s.do = "ask" /\ a.of = s.of /\ a.domain = "thread" /\ s.domain = "thread"
    BY <1>2 DEF Again
  <2>2. Permits(w, a) = ThreadAnswer(w, a.op, a.of) /\ Permits(w, s) = ThreadAnswer(w, s.op, s.of)
    BY <2>1 DEF Permits
  <2>3. ~ThreadAnswer(w, s.op, s.of)
    BY <2>1, <2>2 DEF Fails
  <2>4. ~ThreadAnswer(w, a.op, a.of)
    BY <2>1, <2>3 DEF ThreadAnswer
  <2> QED
    BY <2>1, <2>2, <2>4 DEF Fails
<1> QED
  BY <1>1, <1>2

\* The steps a request takes are those before the first that fails.
LEMMA TakenIsUnfailed ==
    ASSUME NEW w, NEW steps, NEW n \in Nat, DOMAIN steps = 1..n, NEW s \in Range(Taken(w, steps))
    PROVE  \E i \in DOMAIN steps : s = steps[i] /\ \A j \in 1..i : ~Fails(w, steps[j])
<1> DEFINE stops == Stops(w, steps)
<1>0. stops \in SUBSET Nat /\ \A i \in 1..n : i \notin stops => ~Fails(w, steps[i])
  BY DEF Stops
<1>1. CASE stops = {}
  <2>1. Taken(w, steps) = steps
    BY <1>1 DEF Taken
  <2>2. PICK i \in DOMAIN steps : s = steps[i]
    BY <2>1 DEF Range
  <2>3. \A j \in 1..i : ~Fails(w, steps[j])
    BY <1>0, <1>1
  <2> QED
    BY <2>2, <2>3
<1>2. CASE stops # {}
  <2> DEFINE f == First(stops)
  <2>1. f \in stops /\ f \in 1..n /\ \A j \in stops : f <= j
    <3>1. f \in stops /\ \A j \in stops : f <= j
      BY <1>0, <1>2, FirstIsLeast
    <3> QED
      BY <3>1 DEF Stops
  <2>2. Taken(w, steps) = SubSeq(steps, 1, f - 1)
    BY <1>2 DEF Taken
  <2> HIDE DEF f, stops
  <2>3. f \in Int /\ f - 1 \in Int /\ 1 \in Int
    BY <2>1
  <2>4. /\ Len(SubSeq(steps, 1, f - 1)) = f - 1
        /\ SubSeq(steps, 1, f - 1) \in Seq({steps[i] : i \in 1..n})
        /\ \A i \in 1..(f - 1) : SubSeq(steps, 1, f - 1)[i] = steps[i]
    <3> DEFINE T == {steps[i] : i \in 1..n}
    <3>1. \A i \in 1..(f - 1) : steps[i] \in T
      BY <2>1
    <3> HIDE DEF T
    <3>2. /\ SubSeq(steps, 1, f - 1) \in Seq(T)
          /\ Len(SubSeq(steps, 1, f - 1)) = IF 1 <= f - 1 THEN f - 1 - 1 + 1 ELSE 0
          /\ \A i \in 1..(f - 1 - 1 + 1) : SubSeq(steps, 1, f - 1)[i] = steps[1 + i - 1]
      BY <2>3, <3>1, SubSeqProperties
    <3>3. (IF 1 <= f - 1 THEN f - 1 - 1 + 1 ELSE 0) = f - 1
      BY <2>1
    <3>4. \A i \in 1..(f - 1) : SubSeq(steps, 1, f - 1)[i] = steps[i]
      <4>1. f - 1 - 1 + 1 = f - 1 /\ \A i \in 1..(f - 1) : 1 + i - 1 = i
        BY <2>3
      <4> QED
        BY <3>2, <4>1
    <3> QED
      BY <3>2, <3>3, <3>4 DEF T
  <2>5. DOMAIN Taken(w, steps) = 1..(f - 1)
    BY <2>2, <2>4
  <2>6. PICK i \in 1..(f - 1) : s = Taken(w, steps)[i]
    BY <2>5 DEF Range
  <2>7. i \in 1..n /\ s = steps[i]
    BY <2>1, <2>2, <2>4, <2>6
  <2>8. \A j \in 1..i : j \in 1..n /\ j \notin stops
    BY <2>1, <2>6, <2>7
  <2> QED
    BY <1>0, <2>7, <2>8
<1> QED
  BY <1>1, <1>2

\* Guarded requests are sound, for everybody.
LEMMA GuardedIsSound ==
    ASSUME TypeOK, NEW names, NEW w \in Worlds(names), NEW steps, Guarded(steps),
            NEW s \in Range(Taken(w, steps))
    PROVE  /\ IsEffect(s) => Right(w, s)
           /\ s.do = "write" => Outcome(w, steps) = "ok"
<1>1. PICK n \in Nat : DOMAIN steps = 1..n
  BY DEF Guarded
<1>2. PICK i \in DOMAIN steps : s = steps[i] /\ \A j \in 1..i : ~Fails(w, steps[j])
  BY <1>1, TakenIsUnfailed
<1>3. ASSUME IsEffect(s) PROVE Right(w, s)
  <2>1. PICK j \in 1..(i - 1) : Grants(steps[j], s)
    BY <1>1, <1>2, <1>3 DEF Guarded
  <2>2. ~Fails(w, steps[j])
    BY <1>1, <1>2, <2>1
  <2>3. Permits(w, steps[j])
    BY <2>1, <2>2 DEF Fails, Grants
  <2> QED
    BY <1>2, <1>3, <2>1, <2>3, GrantsGiveRights
<1>4. ASSUME s.do = "write" PROVE Outcome(w, steps) = "ok"
  <2>1. ASSUME NEW k \in DOMAIN steps, Fails(w, steps[k]) PROVE FALSE
    <3>1. k > i
      BY <1>1, <1>2, <2>1
    <3>2. ~IsEffect(steps[k])
      BY <2>1 DEF Fails, IsEffect
    <3>3. PICK j \in 1..(i - 1) : Again(steps[j], steps[k])
      BY <1>2, <1>4, <3>1, <3>2 DEF Guarded
    <3>4. Fails(w, steps[j])
      BY <2>1, <3>3, AgainFails
    <3> QED
      BY <1>1, <1>2, <3>3, <3>4
  <2>2. Stops(w, steps) = {}
    BY <2>1 DEF Stops
  <2> QED
    BY <2>2 DEF Outcome
<1> QED
  BY <1>3, <1>4

\* One and two.
LEMMA Join1x2 ==
    ASSUME NEW a, NEW b, NEW c
    PROVE  <<a>> \o <<b, c>> = <<a, b, c>>
<1> DEFINE T == {a, b, c}
<1>1. <<a>> \in Seq(T) /\ <<b, c>> \in Seq(T) /\ <<a, b, c>> \in Seq(T)
  OBVIOUS
<1>2. /\ <<a>> \o <<b, c>> \in Seq(T) /\ Len(<<a>> \o <<b, c>>) = 3
      /\ \A i \in 1..3 : (<<a>> \o <<b, c>>)[i] = <<a, b, c>>[i]
  BY <1>1, ConcatProperties
<1> QED
  BY <1>1, <1>2, SeqEqual

\* One and three.
LEMMA Join1x3 ==
    ASSUME NEW a, NEW b, NEW c, NEW d
    PROVE  <<a>> \o <<b, c, d>> = <<a, b, c, d>>
<1> DEFINE T == {a, b, c, d}
<1>1. <<a>> \in Seq(T) /\ <<b, c, d>> \in Seq(T) /\ <<a, b, c, d>> \in Seq(T)
  OBVIOUS
<1>2. /\ <<a>> \o <<b, c, d>> \in Seq(T) /\ Len(<<a>> \o <<b, c, d>>) = 4
      /\ \A i \in 1..4 : (<<a>> \o <<b, c, d>>)[i] = <<a, b, c, d>>[i]
  BY <1>1, ConcatProperties
<1> QED
  BY <1>1, <1>2, SeqEqual

\* Two and one.
LEMMA Join2x1 ==
    ASSUME NEW a, NEW b, NEW c
    PROVE  <<a, b>> \o <<c>> = <<a, b, c>>
<1> DEFINE T == {a, b, c}
<1>1. <<a, b>> \in Seq(T) /\ <<c>> \in Seq(T) /\ <<a, b, c>> \in Seq(T)
  OBVIOUS
<1>2. /\ <<a, b>> \o <<c>> \in Seq(T) /\ Len(<<a, b>> \o <<c>>) = 3
      /\ \A i \in 1..3 : (<<a, b>> \o <<c>>)[i] = <<a, b, c>>[i]
  BY <1>1, ConcatProperties
<1> QED
  BY <1>1, <1>2, SeqEqual

\* Two and two.
LEMMA Join2x2 ==
    ASSUME NEW a, NEW b, NEW c, NEW d
    PROVE  <<a, b>> \o <<c, d>> = <<a, b, c, d>>
<1> DEFINE T == {a, b, c, d}
<1>1. <<a, b>> \in Seq(T) /\ <<c, d>> \in Seq(T) /\ <<a, b, c, d>> \in Seq(T)
  OBVIOUS
<1>2. /\ <<a, b>> \o <<c, d>> \in Seq(T) /\ Len(<<a, b>> \o <<c, d>>) = 4
      /\ \A i \in 1..4 : (<<a, b>> \o <<c, d>>)[i] = <<a, b, c, d>>[i]
  BY <1>1, ConcatProperties
<1> QED
  BY <1>1, <1>2, SeqEqual

\* Two and three.
LEMMA Join2x3 ==
    ASSUME NEW a, NEW b, NEW c, NEW d, NEW e
    PROVE  <<a, b>> \o <<c, d, e>> = <<a, b, c, d, e>>
<1> DEFINE T == {a, b, c, d, e}
<1>1. <<a, b>> \in Seq(T) /\ <<c, d, e>> \in Seq(T) /\ <<a, b, c, d, e>> \in Seq(T)
  OBVIOUS
<1>2. /\ <<a, b>> \o <<c, d, e>> \in Seq(T) /\ Len(<<a, b>> \o <<c, d, e>>) = 5
      /\ \A i \in 1..5 : (<<a, b>> \o <<c, d, e>>)[i] = <<a, b, c, d, e>>[i]
  BY <1>1, ConcatProperties
<1> QED
  BY <1>1, <1>2, SeqEqual

\* Three and one.
LEMMA Join3x1 ==
    ASSUME NEW a, NEW b, NEW c, NEW d
    PROVE  <<a, b, c>> \o <<d>> = <<a, b, c, d>>
<1> DEFINE T == {a, b, c, d}
<1>1. <<a, b, c>> \in Seq(T) /\ <<d>> \in Seq(T) /\ <<a, b, c, d>> \in Seq(T)
  OBVIOUS
<1>2. /\ <<a, b, c>> \o <<d>> \in Seq(T) /\ Len(<<a, b, c>> \o <<d>>) = 4
      /\ \A i \in 1..4 : (<<a, b, c>> \o <<d>>)[i] = <<a, b, c, d>>[i]
  BY <1>1, ConcatProperties
<1> QED
  BY <1>1, <1>2, SeqEqual

\* Three and two.
LEMMA Join3x2 ==
    ASSUME NEW a, NEW b, NEW c, NEW d, NEW e
    PROVE  <<a, b, c>> \o <<d, e>> = <<a, b, c, d, e>>
<1> DEFINE T == {a, b, c, d, e}
<1>1. <<a, b, c>> \in Seq(T) /\ <<d, e>> \in Seq(T) /\ <<a, b, c, d, e>> \in Seq(T)
  OBVIOUS
<1>2. /\ <<a, b, c>> \o <<d, e>> \in Seq(T) /\ Len(<<a, b, c>> \o <<d, e>>) = 5
      /\ \A i \in 1..5 : (<<a, b, c>> \o <<d, e>>)[i] = <<a, b, c, d, e>>[i]
  BY <1>1, ConcatProperties
<1> QED
  BY <1>1, <1>2, SeqEqual

\* Three and three.
LEMMA Join3x3 ==
    ASSUME NEW a, NEW b, NEW c, NEW d, NEW e, NEW f
    PROVE  <<a, b, c>> \o <<d, e, f>> = <<a, b, c, d, e, f>>
<1> DEFINE T == {a, b, c, d, e, f}
<1>1. <<a, b, c>> \in Seq(T) /\ <<d, e, f>> \in Seq(T) /\ <<a, b, c, d, e, f>> \in Seq(T)
  OBVIOUS
<1>2. /\ <<a, b, c>> \o <<d, e, f>> \in Seq(T) /\ Len(<<a, b, c>> \o <<d, e, f>>) = 6
      /\ \A i \in 1..6 : (<<a, b, c>> \o <<d, e, f>>)[i] = <<a, b, c, d, e, f>>[i]
  BY <1>1, ConcatProperties
<1> QED
  BY <1>1, <1>2, SeqEqual

\* Four and one.
LEMMA Join4x1 ==
    ASSUME NEW a, NEW b, NEW c, NEW d, NEW e
    PROVE  <<a, b, c, d>> \o <<e>> = <<a, b, c, d, e>>
<1> DEFINE T == {a, b, c, d, e}
<1>1. <<a, b, c, d>> \in Seq(T) /\ <<e>> \in Seq(T) /\ <<a, b, c, d, e>> \in Seq(T)
  OBVIOUS
<1>2. /\ <<a, b, c, d>> \o <<e>> \in Seq(T) /\ Len(<<a, b, c, d>> \o <<e>>) = 5
      /\ \A i \in 1..5 : (<<a, b, c, d>> \o <<e>>)[i] = <<a, b, c, d, e>>[i]
  BY <1>1, ConcatProperties
<1> QED
  BY <1>1, <1>2, SeqEqual

\* Four and two.
LEMMA Join4x2 ==
    ASSUME NEW a, NEW b, NEW c, NEW d, NEW e, NEW f
    PROVE  <<a, b, c, d>> \o <<e, f>> = <<a, b, c, d, e, f>>
<1> DEFINE T == {a, b, c, d, e, f}
<1>1. <<a, b, c, d>> \in Seq(T) /\ <<e, f>> \in Seq(T) /\ <<a, b, c, d, e, f>> \in Seq(T)
  OBVIOUS
<1>2. /\ <<a, b, c, d>> \o <<e, f>> \in Seq(T) /\ Len(<<a, b, c, d>> \o <<e, f>>) = 6
      /\ \A i \in 1..6 : (<<a, b, c, d>> \o <<e, f>>)[i] = <<a, b, c, d, e, f>>[i]
  BY <1>1, ConcatProperties
<1> QED
  BY <1>1, <1>2, SeqEqual

\* Four and three.
LEMMA Join4x3 ==
    ASSUME NEW a, NEW b, NEW c, NEW d, NEW e, NEW f, NEW g
    PROVE  <<a, b, c, d>> \o <<e, f, g>> = <<a, b, c, d, e, f, g>>
<1> DEFINE T == {a, b, c, d, e, f, g}
<1>1. <<a, b, c, d>> \in Seq(T) /\ <<e, f, g>> \in Seq(T) /\ <<a, b, c, d, e, f, g>> \in Seq(T)
  OBVIOUS
<1>2. /\ <<a, b, c, d>> \o <<e, f, g>> \in Seq(T) /\ Len(<<a, b, c, d>> \o <<e, f, g>>) = 7
      /\ \A i \in 1..7 : (<<a, b, c, d>> \o <<e, f, g>>)[i] = <<a, b, c, d, e, f, g>>[i]
  BY <1>1, ConcatProperties
<1> QED
  BY <1>1, <1>2, SeqEqual

\* Five and one.
LEMMA Join5x1 ==
    ASSUME NEW a, NEW b, NEW c, NEW d, NEW e, NEW f
    PROVE  <<a, b, c, d, e>> \o <<f>> = <<a, b, c, d, e, f>>
<1> DEFINE T == {a, b, c, d, e, f}
<1>1. <<a, b, c, d, e>> \in Seq(T) /\ <<f>> \in Seq(T) /\ <<a, b, c, d, e, f>> \in Seq(T)
  OBVIOUS
<1>2. /\ <<a, b, c, d, e>> \o <<f>> \in Seq(T) /\ Len(<<a, b, c, d, e>> \o <<f>>) = 6
      /\ \A i \in 1..6 : (<<a, b, c, d, e>> \o <<f>>)[i] = <<a, b, c, d, e, f>>[i]
  BY <1>1, ConcatProperties
<1> QED
  BY <1>1, <1>2, SeqEqual

\* Five and two.
LEMMA Join5x2 ==
    ASSUME NEW a, NEW b, NEW c, NEW d, NEW e, NEW f, NEW g
    PROVE  <<a, b, c, d, e>> \o <<f, g>> = <<a, b, c, d, e, f, g>>
<1> DEFINE T == {a, b, c, d, e, f, g}
<1>1. <<a, b, c, d, e>> \in Seq(T) /\ <<f, g>> \in Seq(T) /\ <<a, b, c, d, e, f, g>> \in Seq(T)
  OBVIOUS
<1>2. /\ <<a, b, c, d, e>> \o <<f, g>> \in Seq(T) /\ Len(<<a, b, c, d, e>> \o <<f, g>>) = 7
      /\ \A i \in 1..7 : (<<a, b, c, d, e>> \o <<f, g>>)[i] = <<a, b, c, d, e, f, g>>[i]
  BY <1>1, ConcatProperties
<1> QED
  BY <1>1, <1>2, SeqEqual

\* Six and one.
LEMMA Join6x1 ==
    ASSUME NEW a, NEW b, NEW c, NEW d, NEW e, NEW f, NEW g
    PROVE  <<a, b, c, d, e, f>> \o <<g>> = <<a, b, c, d, e, f, g>>
<1> DEFINE T == {a, b, c, d, e, f, g}
<1>1. <<a, b, c, d, e, f>> \in Seq(T) /\ <<g>> \in Seq(T) /\ <<a, b, c, d, e, f, g>> \in Seq(T)
  OBVIOUS
<1>2. /\ <<a, b, c, d, e, f>> \o <<g>> \in Seq(T) /\ Len(<<a, b, c, d, e, f>> \o <<g>>) = 7
      /\ \A i \in 1..7 : (<<a, b, c, d, e, f>> \o <<g>>)[i] = <<a, b, c, d, e, f, g>>[i]
  BY <1>1, ConcatProperties
<1> QED
  BY <1>1, <1>2, SeqEqual

\* Six and two.
LEMMA Join6x2 ==
    ASSUME NEW a, NEW b, NEW c, NEW d, NEW e, NEW f, NEW g, NEW h
    PROVE  <<a, b, c, d, e, f>> \o <<g, h>> = <<a, b, c, d, e, f, g, h>>
<1> DEFINE T == {a, b, c, d, e, f, g, h}
<1>1. <<a, b, c, d, e, f>> \in Seq(T) /\ <<g, h>> \in Seq(T) /\ <<a, b, c, d, e, f, g,
        h>> \in Seq(T)
  OBVIOUS
<1>2. /\ <<a, b, c, d, e, f>> \o <<g, h>> \in Seq(T) /\ Len(<<a, b, c, d, e, f>> \o <<g, h>>) = 8
      /\ \A i \in 1..8 : (<<a, b, c, d, e, f>> \o <<g, h>>)[i] = <<a, b, c, d, e, f, g, h>>[i]
  BY <1>1, ConcatProperties
<1> QED
  BY <1>1, <1>2, SeqEqual

\* One and five.
LEMMA Join1x5 ==
    ASSUME NEW a, NEW b, NEW c, NEW d, NEW e, NEW f
    PROVE  <<a>> \o <<b, c, d, e, f>> = <<a, b, c, d, e, f>>
<1> DEFINE T == {a, b, c, d, e, f}
<1>1. /\ <<a>> \in Seq(T) /\ <<b, c, d, e, f>> \in Seq(T)
      /\ <<a, b, c, d, e, f>> \in Seq(T)
  OBVIOUS
<1>2. /\ <<a>> \o <<b, c, d, e, f>> \in Seq(T)
      /\ Len(<<a>> \o <<b, c, d, e, f>>) = 6
      /\ \A i \in 1..6 : (<<a>> \o <<b, c, d, e, f>>)[i]
                            = <<a, b, c, d, e, f>>[i]
  BY <1>1, ConcatProperties
<1> QED
  BY <1>1, <1>2, SeqEqual

\* One and six.
LEMMA Join1x6 ==
    ASSUME NEW a, NEW b, NEW c, NEW d, NEW e, NEW f, NEW g
    PROVE  <<a>> \o <<b, c, d, e, f, g>> = <<a, b, c, d, e, f, g>>
<1> DEFINE T == {a, b, c, d, e, f, g}
<1>1. /\ <<a>> \in Seq(T) /\ <<b, c, d, e, f, g>> \in Seq(T)
      /\ <<a, b, c, d, e, f, g>> \in Seq(T)
  OBVIOUS
<1>2. /\ <<a>> \o <<b, c, d, e, f, g>> \in Seq(T)
      /\ Len(<<a>> \o <<b, c, d, e, f, g>>) = 7
      /\ \A i \in 1..7 : (<<a>> \o <<b, c, d, e, f, g>>)[i]
                            = <<a, b, c, d, e, f, g>>[i]
  BY <1>1, ConcatProperties
<1> QED
  BY <1>1, <1>2, SeqEqual

\* Six and three.
LEMMA Join6x3 ==
    ASSUME NEW a, NEW b, NEW c, NEW d, NEW e, NEW f, NEW g, NEW h, NEW j
    PROVE  <<a, b, c, d, e, f>> \o <<g, h, j>> = <<a, b, c, d, e, f, g, h, j>>
<1> DEFINE T == {a, b, c, d, e, f, g, h, j}
<1>1. <<a, b, c, d, e, f>> \in Seq(T) /\ <<g, h, j>> \in Seq(T) /\ <<a, b, c, d, e, f, g, h,
        j>> \in Seq(T)
  OBVIOUS
<1>2. /\ <<a, b, c, d, e, f>> \o <<g, h,
        j>> \in Seq(T) /\ Len(<<a, b, c, d, e, f>> \o <<g, h, j>>) = 9
      /\ \A i \in 1..9 : (<<a, b, c, d, e, f>> \o <<g, h, j>>)[i] = <<a, b, c, d, e, f, g, h, j>>[i]
  BY <1>1, ConcatProperties
<1> QED
  BY <1>1, <1>2, SeqEqual

\* Seven and three.
LEMMA Join7x3 ==
    ASSUME NEW a, NEW b, NEW c, NEW d, NEW e, NEW f, NEW g, NEW h, NEW j, NEW k
    PROVE  <<a, b, c, d, e, f, g>> \o <<h, j, k>> = <<a, b, c, d, e, f, g, h, j, k>>
<1> DEFINE T == {a, b, c, d, e, f, g, h, j, k}
<1>1. /\ <<a, b, c, d, e, f, g>> \in Seq(T) /\ <<h, j, k>> \in Seq(T)
      /\ <<a, b, c, d, e, f, g, h, j, k>> \in Seq(T)
  OBVIOUS
<1>2. /\ <<a, b, c, d, e, f, g>> \o <<h, j, k>> \in Seq(T)
      /\ Len(<<a, b, c, d, e, f, g>> \o <<h, j, k>>) = 10
      /\ \A i \in 1..10 : (<<a, b, c, d, e, f, g>> \o <<h, j, k>>)[i]
                            = <<a, b, c, d, e, f, g, h, j, k>>[i]
  BY <1>1, ConcatProperties
<1> QED
  BY <1>1, <1>2, SeqEqual

\* One more after two.
LEMMA Add2 ==
    ASSUME NEW a, NEW b, NEW c
    PROVE  Append(<<a, b>>, c) = <<a, b, c>>
<1> DEFINE T == {a, b, c}
<1>1. <<a, b>> \in Seq(T) /\ c \in T /\ <<c>> \in Seq(T)
  OBVIOUS
<1>2. Append(<<a, b>>, c) = <<a, b>> \o <<c>>
  BY <1>1, AppendIsConcat
<1> QED
  BY <1>2, Join2x1

\* One more after three.
LEMMA Add3 ==
    ASSUME NEW a, NEW b, NEW c, NEW d
    PROVE  Append(<<a, b, c>>, d) = <<a, b, c, d>>
<1> DEFINE T == {a, b, c, d}
<1>1. <<a, b, c>> \in Seq(T) /\ d \in T /\ <<d>> \in Seq(T)
  OBVIOUS
<1>2. Append(<<a, b, c>>, d) = <<a, b, c>> \o <<d>>
  BY <1>1, AppendIsConcat
<1> QED
  BY <1>2, Join3x1

\* One more after four.
LEMMA Add4 ==
    ASSUME NEW a, NEW b, NEW c, NEW d, NEW e
    PROVE  Append(<<a, b, c, d>>, e) = <<a, b, c, d, e>>
<1> DEFINE T == {a, b, c, d, e}
<1>1. <<a, b, c, d>> \in Seq(T) /\ e \in T /\ <<e>> \in Seq(T)
  OBVIOUS
<1>2. Append(<<a, b, c, d>>, e) = <<a, b, c, d>> \o <<e>>
  BY <1>1, AppendIsConcat
<1> QED
  BY <1>2, Join4x1

\* One more after five.
LEMMA Add5 ==
    ASSUME NEW a, NEW b, NEW c, NEW d, NEW e, NEW f
    PROVE  Append(<<a, b, c, d, e>>, f) = <<a, b, c, d, e, f>>
<1> DEFINE T == {a, b, c, d, e, f}
<1>1. <<a, b, c, d, e>> \in Seq(T) /\ f \in T /\ <<f>> \in Seq(T)
  OBVIOUS
<1>2. Append(<<a, b, c, d, e>>, f) = <<a, b, c, d, e>> \o <<f>>
  BY <1>1, AppendIsConcat
<1> QED
  BY <1>2, Join5x1

\* One more after six.
LEMMA Add6 ==
    ASSUME NEW a, NEW b, NEW c, NEW d, NEW e, NEW f, NEW g
    PROVE  Append(<<a, b, c, d, e, f>>, g) = <<a, b, c, d, e, f, g>>
<1> DEFINE T == {a, b, c, d, e, f, g}
<1>1. <<a, b, c, d, e, f>> \in Seq(T) /\ g \in T /\ <<g>> \in Seq(T)
  OBVIOUS
<1>2. Append(<<a, b, c, d, e, f>>, g) = <<a, b, c, d, e, f>> \o <<g>>
  BY <1>1, AppendIsConcat
<1> QED
  BY <1>2, Join6x1

\* Steps that only look.
LEMMA Guard1x0 ==
    ASSUME NEW a,
           ~IsEffect(a)
    PROVE  Guarded(<<a>>)
<1>1. DOMAIN <<a>> = 1..1
  OBVIOUS
<1> QED
  BY <1>1 DEF Guarded, IsEffect

\* Steps that can fail, one, and then what they grant.
LEMMA Guard1x1 ==
    ASSUME NEW a, NEW r,
           ~IsEffect(a),
           IsEffect(r),
           Grants(a, r)
    PROVE  Guarded(<<a, r>>)
<1>1. DOMAIN <<a, r>> = 1..2
  OBVIOUS
<1> QED
  BY <1>1 DEF Guarded, IsEffect

\* Steps that can fail, two, and then what they grant.
LEMMA Guard2x1 ==
    ASSUME NEW a, NEW b, NEW r,
           ~IsEffect(a), ~IsEffect(b),
           IsEffect(r),
           Grants(a, r) \/ Grants(b, r)
    PROVE  Guarded(<<a, b, r>>)
<1>1. DOMAIN <<a, b, r>> = 1..3
  OBVIOUS
<1> QED
  BY <1>1 DEF Guarded, IsEffect

\* Steps that only look.
LEMMA Guard3x0 ==
    ASSUME NEW a, NEW b, NEW c,
           ~IsEffect(a), ~IsEffect(b), ~IsEffect(c)
    PROVE  Guarded(<<a, b, c>>)
<1>1. DOMAIN <<a, b, c>> = 1..3
  OBVIOUS
<1> QED
  BY <1>1 DEF Guarded, IsEffect

\* Steps that can fail, three, and then what they grant.
LEMMA Guard3x1 ==
    ASSUME NEW a, NEW b, NEW c, NEW r,
           ~IsEffect(a), ~IsEffect(b), ~IsEffect(c),
           IsEffect(r),
           Grants(a, r) \/ Grants(b, r) \/ Grants(c, r)
    PROVE  Guarded(<<a, b, c, r>>)
<1>1. DOMAIN <<a, b, c, r>> = 1..4
  OBVIOUS
<1> QED
  BY <1>1 DEF Guarded, IsEffect

\* Steps that can fail, three, and then what they grant.
LEMMA Guard3x2 ==
    ASSUME NEW a, NEW b, NEW c, NEW r, NEW s,
           ~IsEffect(a), ~IsEffect(b), ~IsEffect(c),
           IsEffect(r), IsEffect(s),
           Grants(a, r) \/ Grants(b, r) \/ Grants(c, r),
           Grants(a, s) \/ Grants(b, s) \/ Grants(c, s)
    PROVE  Guarded(<<a, b, c, r, s>>)
<1>1. DOMAIN <<a, b, c, r, s>> = 1..5
  OBVIOUS
<1> QED
  BY <1>1 DEF Guarded, IsEffect

\* Steps that can fail, four, and then what they grant.
LEMMA Guard4x1 ==
    ASSUME NEW a, NEW b, NEW c, NEW d, NEW r,
           ~IsEffect(a), ~IsEffect(b), ~IsEffect(c), ~IsEffect(d),
           IsEffect(r),
           Grants(a, r) \/ Grants(b, r) \/ Grants(c, r) \/ Grants(d, r)
    PROVE  Guarded(<<a, b, c, d, r>>)
<1>1. DOMAIN <<a, b, c, d, r>> = 1..5
  OBVIOUS
<1> QED
  BY <1>1 DEF Guarded, IsEffect

\* Steps that can fail, four, and then what they grant.
LEMMA Guard4x2 ==
    ASSUME NEW a, NEW b, NEW c, NEW d, NEW r, NEW s,
           ~IsEffect(a), ~IsEffect(b), ~IsEffect(c), ~IsEffect(d),
           IsEffect(r), IsEffect(s),
           Grants(a, r) \/ Grants(b, r) \/ Grants(c, r) \/ Grants(d, r),
           Grants(a, s) \/ Grants(b, s) \/ Grants(c, s) \/ Grants(d, s)
    PROVE  Guarded(<<a, b, c, d, r, s>>)
<1>1. DOMAIN <<a, b, c, d, r, s>> = 1..6
  OBVIOUS
<1> QED
  BY <1>1 DEF Guarded, IsEffect

\* Steps that can fail, five, and then what they grant.
LEMMA Guard5x1 ==
    ASSUME NEW a, NEW b, NEW c, NEW d, NEW e, NEW r,
           ~IsEffect(a), ~IsEffect(b), ~IsEffect(c), ~IsEffect(d), ~IsEffect(e),
           IsEffect(r),
           Grants(a, r) \/ Grants(b, r) \/ Grants(c, r) \/ Grants(d, r) \/ Grants(e, r)
    PROVE  Guarded(<<a, b, c, d, e, r>>)
<1>1. DOMAIN <<a, b, c, d, e, r>> = 1..6
  OBVIOUS
<1> QED
  BY <1>1 DEF Guarded, IsEffect

\* Steps that can fail, five, and then what they grant.
LEMMA Guard5x2 ==
    ASSUME NEW a, NEW b, NEW c, NEW d, NEW e, NEW r, NEW s,
           ~IsEffect(a), ~IsEffect(b), ~IsEffect(c), ~IsEffect(d), ~IsEffect(e),
           IsEffect(r), IsEffect(s),
           Grants(a, r) \/ Grants(b, r) \/ Grants(c, r) \/ Grants(d, r) \/ Grants(e, r),
           Grants(a, s) \/ Grants(b, s) \/ Grants(c, s) \/ Grants(d, s) \/ Grants(e, s)
    PROVE  Guarded(<<a, b, c, d, e, r, s>>)
<1>1. DOMAIN <<a, b, c, d, e, r, s>> = 1..7
  OBVIOUS
<1> QED
  BY <1>1 DEF Guarded, IsEffect

\* Steps that can fail, six, and then what they grant.
LEMMA Guard6x1 ==
    ASSUME NEW a, NEW b, NEW c, NEW d, NEW e, NEW f, NEW r,
           ~IsEffect(a), ~IsEffect(b), ~IsEffect(c), ~IsEffect(d), ~IsEffect(e), ~IsEffect(f),
           IsEffect(r),
           Grants(a, r) \/ Grants(b, r) \/ Grants(c, r) \/ Grants(d, r) \/ Grants(e,
                   r) \/ Grants(f, r)
    PROVE  Guarded(<<a, b, c, d, e, f, r>>)
<1>1. DOMAIN <<a, b, c, d, e, f, r>> = 1..7
  OBVIOUS
<1> QED
  BY <1>1 DEF Guarded, IsEffect

\* Steps that can fail, six, and then what they grant.
LEMMA Guard6x2 ==
    ASSUME NEW a, NEW b, NEW c, NEW d, NEW e, NEW f, NEW r, NEW s,
           ~IsEffect(a), ~IsEffect(b), ~IsEffect(c), ~IsEffect(d), ~IsEffect(e), ~IsEffect(f),
           IsEffect(r), IsEffect(s),
           Grants(a, r) \/ Grants(b, r) \/ Grants(c, r) \/ Grants(d, r) \/ Grants(e,
                   r) \/ Grants(f, r),
           Grants(a, s) \/ Grants(b, s) \/ Grants(c, s) \/ Grants(d, s) \/ Grants(e,
                   s) \/ Grants(f, s)
    PROVE  Guarded(<<a, b, c, d, e, f, r, s>>)
<1>1. DOMAIN <<a, b, c, d, e, f, r, s>> = 1..8
  OBVIOUS
<1> QED
  BY <1>1 DEF Guarded, IsEffect

\* Steps that can fail, seven, and then what they grant.
LEMMA Guard7x1 ==
    ASSUME NEW a, NEW b, NEW c, NEW d, NEW e, NEW f, NEW g, NEW r,
           ~IsEffect(a), ~IsEffect(b), ~IsEffect(c), ~IsEffect(d), ~IsEffect(e), ~IsEffect(f),
                   ~IsEffect(g),
           IsEffect(r),
           Grants(a, r) \/ Grants(b, r) \/ Grants(c, r) \/ Grants(d, r) \/ Grants(e,
                   r) \/ Grants(f, r) \/ Grants(g, r)
    PROVE  Guarded(<<a, b, c, d, e, f, g, r>>)
<1>1. DOMAIN <<a, b, c, d, e, f, g, r>> = 1..8
  OBVIOUS
<1> QED
  BY <1>1 DEF Guarded, IsEffect

\* Steps that can fail, seven, and then what they grant.
LEMMA Guard7x2 ==
    ASSUME NEW a, NEW b, NEW c, NEW d, NEW e, NEW f, NEW g, NEW r, NEW s,
           ~IsEffect(a), ~IsEffect(b), ~IsEffect(c), ~IsEffect(d), ~IsEffect(e), ~IsEffect(f),
           ~IsEffect(g),
           IsEffect(r), IsEffect(s),
           \/ Grants(a, r) \/ Grants(b, r) \/ Grants(c, r) \/ Grants(d, r) \/ Grants(e, r)
           \/ Grants(f, r) \/ Grants(g, r),
           \/ Grants(a, s) \/ Grants(b, s) \/ Grants(c, s) \/ Grants(d, s) \/ Grants(e, s)
           \/ Grants(f, s) \/ Grants(g, s)
    PROVE  Guarded(<<a, b, c, d, e, f, g, r, s>>)
<1>1. DOMAIN <<a, b, c, d, e, f, g, r, s>> = 1..9
  OBVIOUS
<1> QED
  BY <1>1 DEF Guarded, IsEffect

\* Steps that can fail, nine, and then what they grant.
LEMMA Guard9x1 ==
    ASSUME NEW a, NEW b, NEW c, NEW d, NEW e, NEW f, NEW g, NEW h, NEW j, NEW r,
           ~IsEffect(a), ~IsEffect(b), ~IsEffect(c), ~IsEffect(d), ~IsEffect(e), ~IsEffect(f),
           ~IsEffect(g), ~IsEffect(h), ~IsEffect(j),
           IsEffect(r),
           \/ Grants(a, r) \/ Grants(b, r) \/ Grants(c, r) \/ Grants(d, r) \/ Grants(e, r)
           \/ Grants(f, r) \/ Grants(g, r) \/ Grants(h, r) \/ Grants(j, r)
    PROVE  Guarded(<<a, b, c, d, e, f, g, h, j, r>>)
<1>1. DOMAIN <<a, b, c, d, e, f, g, h, j, r>> = 1..10
  OBVIOUS
<1> QED
  BY <1>1 DEF Guarded, IsEffect

\* A page is looked for after the file was read.
LEMMA GuardPage ==
    ASSUME NEW a, NEW b, NEW c, NEW d, NEW r, NEW f,
           ~IsEffect(a), ~IsEffect(b), ~IsEffect(c), ~IsEffect(d), ~IsEffect(f),
           IsEffect(r), r.do # "write", Grants(c, r)
    PROVE  Guarded(<<a, b, c, d, r, f>>)
<1>1. DOMAIN <<a, b, c, d, r, f>> = 1..6
  OBVIOUS
<1> QED
  BY <1>1 DEF Guarded, IsEffect

\* What the kinds of steps do.
LEMMA Kinds ==
    /\ \A what : ~IsEffect(Find(what)) /\ Find(what).do # "write"
    /\ \A what, answer : ~IsEffect(Need(what, answer)) /\ Need(what, answer).do # "write"
    /\ \A domain, op, of : ~IsEffect(Ask(domain, op, of)) /\ Ask(domain, op, of).do # "write"
    /\ \A domain, op, of : ~IsEffect(Hide(domain, op, of)) /\ Hide(domain, op, of).do # "write"
    /\ \A of, tier : IsEffect(Read(of, tier)) /\ Read(of, tier).do # "write"
    /\ \A of, tier : IsEffect(Write(of, tier))
<1> USE DEF IsEffect
<1>1. \A what : ~IsEffect(Find(what)) /\ Find(what).do # "write"
  BY DEF Find
<1>2. \A what, answer : ~IsEffect(Need(what, answer)) /\ Need(what, answer).do # "write"
  BY DEF Need
<1>3. \A domain, op, of : ~IsEffect(Ask(domain, op, of)) /\ Ask(domain, op, of).do # "write"
  BY DEF Ask
<1>4. \A domain, op, of : ~IsEffect(Hide(domain, op, of)) /\ Hide(domain, op, of).do # "write"
  BY DEF Hide, Ask
<1>5. \A of, tier : IsEffect(Read(of, tier)) /\ Read(of, tier).do # "write"
  BY DEF Read
<1>6. \A of, tier : IsEffect(Write(of, tier))
  BY DEF Write
<1> QED
  BY <1>1, <1>2, <1>3, <1>4, <1>5, <1>6

\* Questions about a memory.
LEMMA MemoryGrants ==
    /\ \A op : Grants(Ask("memory", op, "memory"), Read("memory", "read"))
    /\ \A op \in {"UPDATE_MEMORY", "DELETE_MEMORY"} :
          /\ Grants(Ask("memory", op, "memory"), Write("memory", "manage"))
          /\ Grants(Ask("memory", op, "memory"), Write("memory", "delete"))
    /\ \A op \in {"UPLOAD_DOCUMENT", "DELETE_DOCUMENT"} :
          Grants(Ask("memory", op, "memory"), Write("memory", "write"))
    /\ \A op : Grants(Ask("memory", op, "file_memory"), Read("file_memory", "read"))
<1>1. RuleTier("UPDATE_MEMORY") = "manage" /\ RuleTier("DELETE_MEMORY") = "manage"
  BY DEF RuleTier, MemoryTiers
<1>2. RuleTier("UPLOAD_DOCUMENT") = "write" /\ RuleTier("DELETE_DOCUMENT") = "write"
  BY DEF RuleTier, MemoryTiers
<1> QED
  BY <1>1, <1>2 DEF Grants, Ask, Read, Write

\* Questions about a thread.
LEMMA ThreadGrants ==
    \A op, tier : /\ Grants(Ask("thread", op, "thread"), Read("thread", tier))
                  /\ Grants(Ask("thread", op, "thread"), Write("thread", tier))
BY DEF Grants, Ask, Read, Write

\* Questions that ask for a row of one's own.
LEMMA NewRowGrants ==
    ASSUME NEW domain \in {"memory", "thread", "workflow", "integrations"},
           NEW new \in {"new_row", "connection"}, NEW op, NEW of, NEW tier
    PROVE  /\ Grants(Ask(domain, op, of), Write(new, tier))
           /\ Grants(Ask(domain, op, of), Read(new, tier))
<1>1. Ask(domain, op, of).do = "ask" /\ Ask(domain, op, of).domain = domain
  BY DEF Ask
<1>2. Write(new, tier).of = new /\ Read(new, tier).of = new
  BY DEF Write, Read
<1> QED
  BY <1>1, <1>2 DEF Grants

\* Questions about an agent.
LEMMA AgentGrants ==
    /\ \A op \in UseOperations : Grants(Ask("agent", op, "keyword"), Read("agent", "read"))
    /\ Grants(Ask("agent", "VIEW_AGENT", "agent"), Read("agent", "read"))
    /\ \A op \in {"UPDATE_AGENT", "DELETE_AGENT"} :
          /\ Grants(Ask("agent", op, "agent"), Read("agent", "manage"))
          /\ Grants(Ask("agent", op, "agent"), Write("agent", "manage"))
    /\ Grants(Ask("agent", "CREATE_AGENT", "nothing"), Write("new_row", "own"))
    /\ \A s : Grants(Ask("agent", "CHAT", "nothing"), s)
<1>1. \A op \in {"VIEW_AGENT", "UPDATE_AGENT", "DELETE_AGENT", "CREATE_AGENT"} :
        op \notin UseOperations
  BY DEF UseOperations
<1>2. "CHAT" \in UseOperations
  BY DEF UseOperations
<1>3. AgentTiers.manage = {"UPDATE_AGENT", "DELETE_AGENT"}
  BY DEF AgentTiers
<1> QED
  BY <1>1, <1>2, <1>3 DEF Grants, Ask, Read, Write

\* Questions about a workflow or a run.
LEMMA WorkflowGrants ==
    /\ \A op : Grants(Ask("workflow", op, "workflow"), Read("workflow", "read"))
    /\ \A tier : /\ Grants(Hide("workflow", "MANAGE_WORKFLOW", "workflow"), Read("workflow", tier))
                 /\ Grants(Hide("workflow", "MANAGE_WORKFLOW", "workflow"), Write("workflow", tier))
    /\ \A op, tier : /\ Grants(Hide("workflow", op, "run"), Read("run", tier))
                     /\ Grants(Hide("workflow", op, "run"), Write("run", tier))
BY DEF Grants, Ask, Hide, Read, Write

\* The calls of MemoryCalls, written out.
LEMMA MemoryCallsSteps ==
    /\ MemoryCalls.create_memory = <<Ask("memory", "CREATE_MEMORY", "nothing"),
            Write("new_row", "own")>>
    /\ MemoryCalls.get_memory = <<Find("memory"), Ask("memory", "VIEW_MEMORY", "memory"),
            Read("memory", "read")>>
    /\ MemoryCalls.update_memory = <<Find("memory"), Ask("memory", "UPDATE_MEMORY", "memory"),
            Write("memory", "manage")>>
    /\ MemoryCalls.delete_memory = <<Find("memory"), Ask("memory", "DELETE_MEMORY", "memory"),
            Write("memory", "delete")>>
<1>1. MemoryCalls.create_memory = <<Ask("memory", "CREATE_MEMORY", "nothing"),
        Write("new_row", "own")>>
  BY DEF MemoryCalls
<1>2. MemoryCalls.get_memory = <<Find("memory"), Ask("memory", "VIEW_MEMORY", "memory"),
        Read("memory", "read")>>
  BY Add2 DEF MemoryCalls, Of
<1>3. MemoryCalls.update_memory = <<Find("memory"), Ask("memory", "UPDATE_MEMORY", "memory"),
        Write("memory", "manage")>>
  BY Add2 DEF MemoryCalls, Of
<1>4. MemoryCalls.delete_memory = <<Find("memory"), Ask("memory", "DELETE_MEMORY", "memory"),
        Write("memory", "delete")>>
  BY Add2 DEF MemoryCalls, Of
<1> QED
  BY <1>1, <1>2, <1>3, <1>4

\* MemoryCalls asks before it reads or writes.
LEMMA MemoryCallsAreGuarded == \A e \in DOMAIN MemoryCalls : Guarded(MemoryCalls[e])
<1>1. Guarded(MemoryCalls.create_memory)
  BY MemoryCallsSteps, Kinds, NewRowGrants, Guard1x1
<1>2. Guarded(MemoryCalls.get_memory)
  BY MemoryCallsSteps, Kinds, MemoryGrants, Guard2x1
<1>3. Guarded(MemoryCalls.update_memory)
  BY MemoryCallsSteps, Kinds, MemoryGrants, Guard2x1
<1>4. Guarded(MemoryCalls.delete_memory)
  BY MemoryCallsSteps, Kinds, MemoryGrants, Guard2x1
<1> QED
  BY <1>1, <1>2, <1>3, <1>4 DEF MemoryCalls

\* The calls of MemorySharing, written out.
LEMMA MemorySharingSteps ==
    /\ MemorySharing.list_memory_users = <<Find("memory"), Ask("memory", "VIEW_MEMORY", "memory"),
            Read("memory", "read")>>
    /\ MemorySharing.list_memory_groups = <<Find("memory"),
            Ask("memory", "VIEW_MEMORY", "memory"), Read("memory", "read")>>
    /\ MemorySharing.add_memory_user = <<Find("memory"), Ask("memory", "UPDATE_MEMORY", "memory"),
            Find("target"), Write("memory", "manage")>>
    /\ MemorySharing.add_memory_group = <<Find("memory"),
            Ask("memory", "UPDATE_MEMORY", "memory"), Find("target"), Write("memory", "manage")>>
    /\ MemorySharing.update_memory_user = <<Find("memory"),
            Ask("memory", "UPDATE_MEMORY", "memory"), Find("share"), Write("memory", "manage")>>
    /\ MemorySharing.remove_memory_user = <<Find("memory"),
            Ask("memory", "UPDATE_MEMORY", "memory"), Find("share"), Write("memory", "manage")>>
    /\ MemorySharing.remove_memory_group = <<Find("memory"),
            Ask("memory", "UPDATE_MEMORY", "memory"), Write("memory", "manage")>>
<1>1. MemorySharing.list_memory_users = <<Find("memory"), Ask("memory", "VIEW_MEMORY", "memory"),
        Read("memory", "read")>>
  BY Add2 DEF MemorySharing, Of
<1>2. MemorySharing.list_memory_groups = <<Find("memory"), Ask("memory", "VIEW_MEMORY", "memory"),
        Read("memory", "read")>>
  BY Add2 DEF MemorySharing, Of
<1>3. MemorySharing.add_memory_user = <<Find("memory"), Ask("memory", "UPDATE_MEMORY", "memory"),
        Find("target"), Write("memory", "manage")>>
  BY Join2x2 DEF MemorySharing, Of
<1>4. MemorySharing.add_memory_group = <<Find("memory"), Ask("memory", "UPDATE_MEMORY", "memory"),
        Find("target"), Write("memory", "manage")>>
  BY Join2x2 DEF MemorySharing, Of
<1>5. MemorySharing.update_memory_user = <<Find("memory"),
        Ask("memory", "UPDATE_MEMORY", "memory"), Find("share"), Write("memory", "manage")>>
  BY Join2x2 DEF MemorySharing, Of
<1>6. MemorySharing.remove_memory_user = <<Find("memory"),
        Ask("memory", "UPDATE_MEMORY", "memory"), Find("share"), Write("memory", "manage")>>
  BY Join2x2 DEF MemorySharing, Of
<1>7. MemorySharing.remove_memory_group = <<Find("memory"),
        Ask("memory", "UPDATE_MEMORY", "memory"), Write("memory", "manage")>>
  BY Add2 DEF MemorySharing, Of
<1> QED
  BY <1>1, <1>2, <1>3, <1>4, <1>5, <1>6, <1>7

\* MemorySharing asks before it reads or writes.
LEMMA MemorySharingAreGuarded == \A e \in DOMAIN MemorySharing : Guarded(MemorySharing[e])
<1>1. Guarded(MemorySharing.list_memory_users)
  BY MemorySharingSteps, Kinds, MemoryGrants, Guard2x1
<1>2. Guarded(MemorySharing.list_memory_groups)
  BY MemorySharingSteps, Kinds, MemoryGrants, Guard2x1
<1>3. Guarded(MemorySharing.add_memory_user)
  BY MemorySharingSteps, Kinds, MemoryGrants, Guard3x1
<1>4. Guarded(MemorySharing.add_memory_group)
  BY MemorySharingSteps, Kinds, MemoryGrants, Guard3x1
<1>5. Guarded(MemorySharing.update_memory_user)
  BY MemorySharingSteps, Kinds, MemoryGrants, Guard3x1
<1>6. Guarded(MemorySharing.remove_memory_user)
  BY MemorySharingSteps, Kinds, MemoryGrants, Guard3x1
<1>7. Guarded(MemorySharing.remove_memory_group)
  BY MemorySharingSteps, Kinds, MemoryGrants, Guard2x1
<1> QED
  BY <1>1, <1>2, <1>3, <1>4, <1>5, <1>6, <1>7 DEF MemorySharing

\* The calls of DocumentCalls, written out.
LEMMA DocumentCallsSteps ==
    /\ DocumentCalls.upload_document = <<Find("memory"),
            Ask("memory", "UPLOAD_DOCUMENT", "memory"), Need("small", "invalid"),
            Need("new_file", "conflict"), Write("memory", "write")>>
    /\ DocumentCalls.list_documents = <<Find("memory"), Ask("memory", "LIST_DOCUMENTS", "memory"),
            Read("memory", "read")>>
    /\ DocumentCalls.get_document = <<Find("memory"), Ask("memory", "VIEW_DOCUMENT", "memory"),
            Find("document"), Read("memory", "read")>>
    /\ DocumentCalls.delete_document = <<Find("memory"),
            Ask("memory", "DELETE_DOCUMENT", "memory"), Find("document"), Write("memory", "write")>>
<1>1. DocumentCalls.upload_document = <<Find("memory"),
        Ask("memory", "UPLOAD_DOCUMENT", "memory"), Need("small", "invalid"),
        Need("new_file", "conflict"), Write("memory", "write")>>
  BY Join2x3 DEF DocumentCalls, Of
<1>2. DocumentCalls.list_documents = <<Find("memory"), Ask("memory", "LIST_DOCUMENTS", "memory"),
        Read("memory", "read")>>
  BY Add2 DEF DocumentCalls, Of
<1>3. DocumentCalls.get_document = <<Find("memory"), Ask("memory", "VIEW_DOCUMENT", "memory"),
        Find("document"), Read("memory", "read")>>
  BY Join2x2 DEF DocumentCalls, Of
<1>4. DocumentCalls.delete_document = <<Find("memory"),
        Ask("memory", "DELETE_DOCUMENT", "memory"), Find("document"), Write("memory", "write")>>
  BY Join2x2 DEF DocumentCalls, Of
<1> QED
  BY <1>1, <1>2, <1>3, <1>4

\* DocumentCalls asks before it reads or writes.
LEMMA DocumentCallsAreGuarded == \A e \in DOMAIN DocumentCalls : Guarded(DocumentCalls[e])
<1>1. Guarded(DocumentCalls.upload_document)
  BY DocumentCallsSteps, Kinds, MemoryGrants, Guard4x1
<1>2. Guarded(DocumentCalls.list_documents)
  BY DocumentCallsSteps, Kinds, MemoryGrants, Guard2x1
<1>3. Guarded(DocumentCalls.get_document)
  BY DocumentCallsSteps, Kinds, MemoryGrants, Guard3x1
<1>4. Guarded(DocumentCalls.delete_document)
  BY DocumentCallsSteps, Kinds, MemoryGrants, Guard3x1
<1> QED
  BY <1>1, <1>2, <1>3, <1>4 DEF DocumentCalls

\* The calls of LinkCalls, written out.
LEMMA LinkCallsSteps ==
    /\ LinkCalls.link_memory_to_thread = <<Find("thread"),
            Ask("thread", "UPDATE_THREAD", "thread"), Find("memory"),
            Ask("memory", "LINK_MEMORY", "memory"), Write("thread", "manage"),
            Read("memory", "read")>>
    /\ LinkCalls.unlink_memory_from_thread = <<Find("thread"),
            Ask("thread", "UPDATE_THREAD", "thread"), Find("memory"),
            Ask("memory", "UNLINK_MEMORY", "memory"), Find("link"), Write("thread", "manage"),
            Read("memory", "read")>>
    /\ LinkCalls.bulk_connect_memories = <<Find("thread"),
            Ask("thread", "UPDATE_THREAD", "thread"), Find("memory"),
            Ask("memory", "LINK_MEMORY", "memory"), Write("thread", "manage"),
            Read("memory", "read")>>
    /\ LinkCalls.list_thread_memories = <<Find("thread"), Ask("thread", "VIEW_THREAD", "thread"),
            Read("thread", "read")>>
<1>1. LinkCalls.link_memory_to_thread = <<Find("thread"),
        Ask("thread", "UPDATE_THREAD", "thread"), Find("memory"),
        Ask("memory", "LINK_MEMORY", "memory"), Write("thread", "manage"), Read("memory", "read")>>
  <2>1. <<Find("thread"), Ask("thread", "UPDATE_THREAD", "thread")>> \o <<Find("memory"),
          Ask("memory", "LINK_MEMORY", "memory")>>
        = <<Find("thread"), Ask("thread", "UPDATE_THREAD", "thread"), Find("memory"),
                Ask("memory", "LINK_MEMORY", "memory")>>
    BY Join2x2
  <2>2. <<Find("thread"), Ask("thread", "UPDATE_THREAD", "thread"), Find("memory"),
          Ask("memory", "LINK_MEMORY", "memory")>> \o <<Write("thread", "manage"),
          Read("memory", "read")>>
        = <<Find("thread"), Ask("thread", "UPDATE_THREAD", "thread"), Find("memory"),
                Ask("memory", "LINK_MEMORY", "memory"), Write("thread", "manage"),
                Read("memory", "read")>>
    BY Join4x2
  <2> QED
    BY <2>1, <2>2 DEF LinkCalls, Of
<1>2. LinkCalls.unlink_memory_from_thread = <<Find("thread"),
        Ask("thread", "UPDATE_THREAD", "thread"), Find("memory"),
        Ask("memory", "UNLINK_MEMORY", "memory"), Find("link"), Write("thread", "manage"),
        Read("memory", "read")>>
  <2>1. <<Find("thread"), Ask("thread", "UPDATE_THREAD", "thread")>> \o <<Find("memory"),
          Ask("memory", "UNLINK_MEMORY", "memory")>>
        = <<Find("thread"), Ask("thread", "UPDATE_THREAD", "thread"), Find("memory"),
                Ask("memory", "UNLINK_MEMORY", "memory")>>
    BY Join2x2
  <2>2. <<Find("thread"), Ask("thread", "UPDATE_THREAD", "thread"), Find("memory"),
          Ask("memory", "UNLINK_MEMORY", "memory")>> \o <<Find("link")>>
        = <<Find("thread"), Ask("thread", "UPDATE_THREAD", "thread"), Find("memory"),
                Ask("memory", "UNLINK_MEMORY", "memory"), Find("link")>>
    BY Join4x1
  <2>3. <<Find("thread"), Ask("thread", "UPDATE_THREAD", "thread"), Find("memory"),
          Ask("memory", "UNLINK_MEMORY", "memory"), Find("link")>> \o <<Write("thread", "manage"),
          Read("memory", "read")>>
        = <<Find("thread"), Ask("thread", "UPDATE_THREAD", "thread"), Find("memory"),
                Ask("memory", "UNLINK_MEMORY", "memory"), Find("link"), Write("thread", "manage"),
                Read("memory", "read")>>
    BY Join5x2
  <2> QED
    BY <2>1, <2>2, <2>3 DEF LinkCalls, Of
<1>3. LinkCalls.bulk_connect_memories = <<Find("thread"),
        Ask("thread", "UPDATE_THREAD", "thread"), Find("memory"),
        Ask("memory", "LINK_MEMORY", "memory"), Write("thread", "manage"), Read("memory", "read")>>
  <2>1. <<Find("thread"), Ask("thread", "UPDATE_THREAD", "thread")>> \o <<Find("memory"),
          Ask("memory", "LINK_MEMORY", "memory")>>
        = <<Find("thread"), Ask("thread", "UPDATE_THREAD", "thread"), Find("memory"),
                Ask("memory", "LINK_MEMORY", "memory")>>
    BY Join2x2
  <2>2. <<Find("thread"), Ask("thread", "UPDATE_THREAD", "thread"), Find("memory"),
          Ask("memory", "LINK_MEMORY", "memory")>> \o <<Write("thread", "manage"),
          Read("memory", "read")>>
        = <<Find("thread"), Ask("thread", "UPDATE_THREAD", "thread"), Find("memory"),
                Ask("memory", "LINK_MEMORY", "memory"), Write("thread", "manage"),
                Read("memory", "read")>>
    BY Join4x2
  <2> QED
    BY <2>1, <2>2 DEF LinkCalls, Of
<1>4. LinkCalls.list_thread_memories = <<Find("thread"), Ask("thread", "VIEW_THREAD", "thread"),
        Read("thread", "read")>>
  BY DEF LinkCalls
<1> QED
  BY <1>1, <1>2, <1>3, <1>4

\* LinkCalls asks before it reads or writes.
LEMMA LinkCallsAreGuarded == \A e \in DOMAIN LinkCalls : Guarded(LinkCalls[e])
<1>1. Guarded(LinkCalls.link_memory_to_thread)
  BY LinkCallsSteps, Kinds, MemoryGrants, ThreadGrants, Guard4x2
<1>2. Guarded(LinkCalls.unlink_memory_from_thread)
  BY LinkCallsSteps, Kinds, MemoryGrants, ThreadGrants, Guard5x2
<1>3. Guarded(LinkCalls.bulk_connect_memories)
  BY LinkCallsSteps, Kinds, MemoryGrants, ThreadGrants, Guard4x2
<1>4. Guarded(LinkCalls.list_thread_memories)
  BY LinkCallsSteps, Kinds, ThreadGrants, Guard2x1
<1> QED
  BY <1>1, <1>2, <1>3, <1>4 DEF LinkCalls

\* The calls of SwitchCalls, written out.
LEMMA SwitchCallsSteps ==
    /\ SwitchCalls.toggle_memory_active = <<Find("thread"),
            Ask("thread", "UPDATE_THREAD", "thread"), Find("link"), Find("memory"),
            Ask("memory", "LINK_MEMORY", "memory"), Write("thread", "manage"),
            Read("memory", "read")>>
    /\ SwitchCalls.disconnect_memory_from_thread = <<Find("thread"),
            Ask("thread", "UPDATE_THREAD", "thread"), Find("link"), Find("memory"),
            Ask("memory", "UNLINK_MEMORY", "memory"), Write("thread", "manage"),
            Read("memory", "read")>>
<1>1. SwitchCalls.toggle_memory_active = <<Find("thread"),
        Ask("thread", "UPDATE_THREAD", "thread"), Find("link"), Find("memory"),
        Ask("memory", "LINK_MEMORY", "memory"), Write("thread", "manage"), Read("memory", "read")>>
  <2>1. <<Find("thread"), Ask("thread", "UPDATE_THREAD", "thread"),
          Find("link")>> \o <<Find("memory"), Ask("memory", "LINK_MEMORY", "memory")>>
        = <<Find("thread"), Ask("thread", "UPDATE_THREAD", "thread"), Find("link"),
                Find("memory"), Ask("memory", "LINK_MEMORY", "memory")>>
    BY Join3x2
  <2>2. <<Find("thread"), Ask("thread", "UPDATE_THREAD", "thread"), Find("link"), Find("memory"),
          Ask("memory", "LINK_MEMORY", "memory")>> \o <<Write("thread", "manage"),
          Read("memory", "read")>>
        = <<Find("thread"), Ask("thread", "UPDATE_THREAD", "thread"), Find("link"),
                Find("memory"), Ask("memory", "LINK_MEMORY", "memory"), Write("thread", "manage"),
                Read("memory", "read")>>
    BY Join5x2
  <2> QED
    BY <2>1, <2>2 DEF SwitchCalls, Of
<1>2. SwitchCalls.disconnect_memory_from_thread = <<Find("thread"),
        Ask("thread", "UPDATE_THREAD", "thread"), Find("link"), Find("memory"),
        Ask("memory", "UNLINK_MEMORY", "memory"), Write("thread", "manage"),
        Read("memory", "read")>>
  <2>1. <<Find("thread"), Ask("thread", "UPDATE_THREAD", "thread"),
          Find("link")>> \o <<Find("memory"), Ask("memory", "UNLINK_MEMORY", "memory")>>
        = <<Find("thread"), Ask("thread", "UPDATE_THREAD", "thread"), Find("link"),
                Find("memory"), Ask("memory", "UNLINK_MEMORY", "memory")>>
    BY Join3x2
  <2>2. <<Find("thread"), Ask("thread", "UPDATE_THREAD", "thread"), Find("link"), Find("memory"),
          Ask("memory", "UNLINK_MEMORY", "memory")>> \o <<Write("thread", "manage"),
          Read("memory", "read")>>
        = <<Find("thread"), Ask("thread", "UPDATE_THREAD", "thread"), Find("link"),
                Find("memory"), Ask("memory", "UNLINK_MEMORY", "memory"),
                Write("thread", "manage"), Read("memory", "read")>>
    BY Join5x2
  <2> QED
    BY <2>1, <2>2 DEF SwitchCalls, Of
<1> QED
  BY <1>1, <1>2

\* SwitchCalls asks before it reads or writes.
LEMMA SwitchCallsAreGuarded == \A e \in DOMAIN SwitchCalls : Guarded(SwitchCalls[e])
<1>1. Guarded(SwitchCalls.toggle_memory_active)
  BY SwitchCallsSteps, Kinds, MemoryGrants, ThreadGrants, Guard5x2
<1>2. Guarded(SwitchCalls.disconnect_memory_from_thread)
  BY SwitchCallsSteps, Kinds, MemoryGrants, ThreadGrants, Guard5x2
<1> QED
  BY <1>1, <1>2 DEF SwitchCalls

\* The calls of FileCalls, written out.
LEMMA FileCallsSteps ==
    /\ FileCalls.upload_first_file = <<Find("thread"), Find("agent"),
            Ask("thread", "UPLOAD_FILE", "thread"), Ask("agent", "UPLOAD_FILE", "keyword"),
            Need("uploads", "denied"), Need("small", "invalid"), Write("thread", "write")>>
    /\ FileCalls.upload_thread_file = <<Find("thread"), Find("agent"),
            Ask("thread", "UPLOAD_FILE", "thread"), Ask("agent", "UPLOAD_FILE", "keyword"),
            Need("uploads", "denied"), Need("small", "invalid"), Need("new_file", "conflict"),
            Write("thread", "write")>>
    /\ FileCalls.list_thread_files = <<Find("thread"), Find("agent"),
            Ask("thread", "VIEW_FILE", "thread"), Ask("agent", "VIEW_FILE", "keyword"),
            Read("thread", "read")>>
    /\ FileCalls.get_thread_file = <<Find("thread"), Find("agent"),
            Ask("thread", "VIEW_FILE", "thread"), Ask("agent", "VIEW_FILE", "keyword"),
            Find("file"), Read("thread", "read")>>
    /\ FileCalls.delete_thread_file = <<Find("thread"), Find("agent"),
            Ask("thread", "DELETE_FILE", "thread"), Ask("agent", "DELETE_FILE", "keyword"),
            Find("file"), Write("thread", "manage")>>
<1>1. FileCalls.upload_first_file = <<Find("thread"), Find("agent"),
        Ask("thread", "UPLOAD_FILE", "thread"), Ask("agent", "UPLOAD_FILE", "keyword"),
        Need("uploads", "denied"), Need("small", "invalid"), Write("thread", "write")>>
  <2>1. <<Find("thread"), Find("agent"), Ask("thread", "UPLOAD_FILE", "thread"),
          Ask("agent", "UPLOAD_FILE", "keyword")>> \o <<Need("uploads", "denied"),
          Need("small", "invalid")>>
        = <<Find("thread"), Find("agent"), Ask("thread", "UPLOAD_FILE", "thread"),
                Ask("agent", "UPLOAD_FILE", "keyword"), Need("uploads", "denied"),
                Need("small", "invalid")>>
    BY Join4x2
  <2>2. Append(<<Find("thread"), Find("agent"), Ask("thread", "UPLOAD_FILE", "thread"),
          Ask("agent", "UPLOAD_FILE", "keyword"), Need("uploads", "denied"),
          Need("small", "invalid")>>, Write("thread", "write"))
        = <<Find("thread"), Find("agent"), Ask("thread", "UPLOAD_FILE", "thread"),
                Ask("agent", "UPLOAD_FILE", "keyword"), Need("uploads", "denied"),
                Need("small", "invalid"), Write("thread", "write")>>
    BY Add6
  <2> QED
    BY <2>1, <2>2 DEF FileCalls, FileOf
<1>2. FileCalls.upload_thread_file = <<Find("thread"), Find("agent"),
        Ask("thread", "UPLOAD_FILE", "thread"), Ask("agent", "UPLOAD_FILE", "keyword"),
        Need("uploads", "denied"), Need("small", "invalid"), Need("new_file", "conflict"),
        Write("thread", "write")>>
  <2>1. <<Find("thread"), Find("agent"), Ask("thread", "UPLOAD_FILE", "thread"),
          Ask("agent", "UPLOAD_FILE", "keyword")>> \o <<Need("uploads", "denied"),
          Need("small", "invalid")>>
        = <<Find("thread"), Find("agent"), Ask("thread", "UPLOAD_FILE", "thread"),
                Ask("agent", "UPLOAD_FILE", "keyword"), Need("uploads", "denied"),
                Need("small", "invalid")>>
    BY Join4x2
  <2>2. <<Find("thread"), Find("agent"), Ask("thread", "UPLOAD_FILE", "thread"),
          Ask("agent", "UPLOAD_FILE", "keyword"), Need("uploads", "denied"),
          Need("small", "invalid")>> \o <<Need("new_file", "conflict"), Write("thread", "write")>>
        = <<Find("thread"), Find("agent"), Ask("thread", "UPLOAD_FILE", "thread"),
                Ask("agent", "UPLOAD_FILE", "keyword"), Need("uploads", "denied"),
                Need("small", "invalid"), Need("new_file", "conflict"), Write("thread", "write")>>
    BY Join6x2
  <2> QED
    BY <2>1, <2>2 DEF FileCalls, FileOf
<1>3. FileCalls.list_thread_files = <<Find("thread"), Find("agent"),
        Ask("thread", "VIEW_FILE", "thread"), Ask("agent", "VIEW_FILE", "keyword"),
        Read("thread", "read")>>
  BY Add4 DEF FileCalls, FileOf
<1>4. FileCalls.get_thread_file = <<Find("thread"), Find("agent"),
        Ask("thread", "VIEW_FILE", "thread"), Ask("agent", "VIEW_FILE", "keyword"), Find("file"),
        Read("thread", "read")>>
  BY Join4x2 DEF FileCalls, FileOf
<1>5. FileCalls.delete_thread_file = <<Find("thread"), Find("agent"),
        Ask("thread", "DELETE_FILE", "thread"), Ask("agent", "DELETE_FILE", "keyword"),
        Find("file"), Write("thread", "manage")>>
  BY Join4x2 DEF FileCalls, FileOf
<1> QED
  BY <1>1, <1>2, <1>3, <1>4, <1>5

\* FileCalls asks before it reads or writes.
LEMMA FileCallsAreGuarded == \A e \in DOMAIN FileCalls : Guarded(FileCalls[e])
<1>1. Guarded(FileCalls.upload_first_file)
  BY FileCallsSteps, Kinds, ThreadGrants, Guard6x1 DEF UseOperations
<1>2. Guarded(FileCalls.upload_thread_file)
  BY FileCallsSteps, Kinds, ThreadGrants, Guard7x1 DEF UseOperations
<1>3. Guarded(FileCalls.list_thread_files)
  BY FileCallsSteps, Kinds, ThreadGrants, Guard4x1 DEF UseOperations
<1>4. Guarded(FileCalls.get_thread_file)
  BY FileCallsSteps, Kinds, ThreadGrants, Guard5x1 DEF UseOperations
<1>5. Guarded(FileCalls.delete_thread_file)
  BY FileCallsSteps, Kinds, ThreadGrants, Guard5x1 DEF UseOperations
<1> QED
  BY <1>1, <1>2, <1>3, <1>4, <1>5 DEF FileCalls

\* The calls of StatusCalls, written out.
LEMMA StatusCallsSteps ==
    /\ StatusCalls.get_document_status = <<Find("memory"), Find("document"),
            Ask("memory", "VIEW_DOCUMENT", "memory"), Read("memory", "read")>>
    /\ StatusCalls.get_task_status = <<Find("memory"), Find("document"),
            Ask("memory", "VIEW_DOCUMENT", "memory"), Read("memory", "read")>>
    /\ StatusCalls.get_file_status = <<Find("document"),
            Ask("memory", "VIEW_DOCUMENT", "file_memory"), Read("file_memory", "read")>>
<1>1. StatusCalls.get_document_status = <<Find("memory"), Find("document"),
        Ask("memory", "VIEW_DOCUMENT", "memory"), Read("memory", "read")>>
  BY Join1x3 DEF StatusCalls
<1>2. StatusCalls.get_task_status = <<Find("memory"), Find("document"),
        Ask("memory", "VIEW_DOCUMENT", "memory"), Read("memory", "read")>>
  BY Join1x3 DEF StatusCalls
<1>3. StatusCalls.get_file_status = <<Find("document"),
        Ask("memory", "VIEW_DOCUMENT", "file_memory"), Read("file_memory", "read")>>
  BY DEF StatusCalls
<1> QED
  BY <1>1, <1>2, <1>3

\* StatusCalls asks before it reads or writes.
LEMMA StatusCallsAreGuarded == \A e \in DOMAIN StatusCalls : Guarded(StatusCalls[e])
<1>1. Guarded(StatusCalls.get_document_status)
  BY StatusCallsSteps, Kinds, MemoryGrants, Guard3x1
<1>2. Guarded(StatusCalls.get_task_status)
  BY StatusCallsSteps, Kinds, MemoryGrants, Guard3x1
<1>3. Guarded(StatusCalls.get_file_status)
  BY StatusCallsSteps, Kinds, MemoryGrants, Guard2x1
<1> QED
  BY <1>1, <1>2, <1>3 DEF StatusCalls

\* The calls of RetryCalls, written out.
LEMMA RetryCallsSteps ==
    /\ RetryCalls.retry_document = <<Find("memory"), Find("document"),
            Need("retryable", "invalid"), Ask("memory", "UPLOAD_DOCUMENT", "memory"),
            Write("memory", "write")>>
    /\ RetryCalls.retry_file = <<Find("thread"), Find("document"), Need("retryable", "invalid"),
            Find("agent"), Ask("thread", "UPLOAD_FILE", "thread"),
            Ask("agent", "UPLOAD_FILE", "keyword"), Write("thread", "write")>>
<1>1. RetryCalls.retry_document = <<Find("memory"), Find("document"),
        Need("retryable", "invalid"), Ask("memory", "UPLOAD_DOCUMENT", "memory"),
        Write("memory", "write")>>
  BY DEF RetryCalls
<1>2. RetryCalls.retry_file = <<Find("thread"), Find("document"), Need("retryable", "invalid"),
        Find("agent"), Ask("thread", "UPLOAD_FILE", "thread"),
        Ask("agent", "UPLOAD_FILE", "keyword"), Write("thread", "write")>>
  BY DEF RetryCalls
<1> QED
  BY <1>1, <1>2

\* RetryCalls asks before it reads or writes.
LEMMA RetryCallsAreGuarded == \A e \in DOMAIN RetryCalls : Guarded(RetryCalls[e])
<1>1. Guarded(RetryCalls.retry_document)
  BY RetryCallsSteps, Kinds, MemoryGrants, Guard4x1
<1>2. Guarded(RetryCalls.retry_file)
  BY RetryCallsSteps, Kinds, ThreadGrants, Guard6x1 DEF UseOperations
<1> QED
  BY <1>1, <1>2 DEF RetryCalls

\* The calls of CancelCalls, written out.
LEMMA CancelCallsSteps ==
    /\ CancelCalls.cancel_document = <<Find("memory"), Find("document"),
            Ask("memory", "UPLOAD_DOCUMENT", "memory"), Need("cancellable", "invalid"),
            Write("memory", "write")>>
    /\ CancelCalls.cancel_file = <<Find("thread"), Find("document"), Find("agent"),
            Ask("thread", "UPLOAD_FILE", "thread"), Ask("agent", "UPLOAD_FILE", "keyword"),
            Need("cancellable", "invalid"), Write("thread", "write")>>
<1>1. CancelCalls.cancel_document = <<Find("memory"), Find("document"),
        Ask("memory", "UPLOAD_DOCUMENT", "memory"), Need("cancellable", "invalid"),
        Write("memory", "write")>>
  BY DEF CancelCalls
<1>2. CancelCalls.cancel_file = <<Find("thread"), Find("document"), Find("agent"),
        Ask("thread", "UPLOAD_FILE", "thread"), Ask("agent", "UPLOAD_FILE", "keyword"),
        Need("cancellable", "invalid"), Write("thread", "write")>>
  BY DEF CancelCalls
<1> QED
  BY <1>1, <1>2

\* CancelCalls asks before it reads or writes.
LEMMA CancelCallsAreGuarded == \A e \in DOMAIN CancelCalls : Guarded(CancelCalls[e])
<1>1. Guarded(CancelCalls.cancel_document)
  BY CancelCallsSteps, Kinds, MemoryGrants, Guard4x1
<1>2. Guarded(CancelCalls.cancel_file)
  BY CancelCallsSteps, Kinds, ThreadGrants, Guard6x1 DEF UseOperations
<1> QED
  BY <1>1, <1>2 DEF CancelCalls

\* The calls of SourceCalls, written out.
LEMMA SourceCallsSteps ==
    /\ SourceCalls.get_chunk_content = <<Find("memory"), Find("entry"),
            Ask("memory", "VIEW_DOCUMENT", "memory"), Read("memory", "read")>>
    /\ SourceCalls.get_source_document = <<Find("memory"), Find("document"),
            Ask("memory", "VIEW_DOCUMENT", "memory"), Find("preview"), Read("memory", "read")>>
    /\ SourceCalls.get_source_file = <<Find("memory"), Find("document"),
            Ask("memory", "VIEW_DOCUMENT", "memory"), Find("preview"), Read("memory", "read")>>
    /\ SourceCalls.render_source_page = <<Find("memory"), Find("document"),
            Ask("memory", "VIEW_DOCUMENT", "memory"), Find("preview"), Read("memory", "read"),
            Find("page")>>
<1>1. SourceCalls.get_chunk_content = <<Find("memory"), Find("entry"),
        Ask("memory", "VIEW_DOCUMENT", "memory"), Read("memory", "read")>>
  BY DEF SourceCalls
<1>2. SourceCalls.get_source_document = <<Find("memory"), Find("document"),
        Ask("memory", "VIEW_DOCUMENT", "memory"), Find("preview"), Read("memory", "read")>>
  BY DEF SourceCalls
<1>3. SourceCalls.get_source_file = <<Find("memory"), Find("document"),
        Ask("memory", "VIEW_DOCUMENT", "memory"), Find("preview"), Read("memory", "read")>>
  BY DEF SourceCalls
<1>4. SourceCalls.render_source_page = <<Find("memory"), Find("document"),
        Ask("memory", "VIEW_DOCUMENT", "memory"), Find("preview"), Read("memory", "read"),
        Find("page")>>
  BY Add5 DEF SourceCalls
<1> QED
  BY <1>1, <1>2, <1>3, <1>4

\* SourceCalls asks before it reads or writes.
LEMMA SourceCallsAreGuarded == \A e \in DOMAIN SourceCalls : Guarded(SourceCalls[e])
<1>1. Guarded(SourceCalls.get_chunk_content)
  BY SourceCallsSteps, Kinds, MemoryGrants, Guard3x1
<1>2. Guarded(SourceCalls.get_source_document)
  BY SourceCallsSteps, Kinds, MemoryGrants, Guard4x1
<1>3. Guarded(SourceCalls.get_source_file)
  BY SourceCallsSteps, Kinds, MemoryGrants, Guard4x1
<1>4. Guarded(SourceCalls.render_source_page)
  BY SourceCallsSteps, Kinds, MemoryGrants, GuardPage
<1> QED
  BY <1>1, <1>2, <1>3, <1>4 DEF SourceCalls

\* The calls of ThreadCalls, written out.
LEMMA ThreadCallsSteps ==
    /\ ThreadCalls.create_thread = <<Find("agent"), Ask("thread", "CREATE_THREAD", "nothing"),
            Write("new_row", "own")>>
    /\ ThreadCalls.get_thread = <<Find("thread"), Ask("thread", "VIEW_THREAD", "thread"),
            Read("thread", "read")>>
    /\ ThreadCalls.update_thread = <<Find("thread"), Ask("thread", "UPDATE_THREAD", "thread"),
            Write("thread", "manage")>>
    /\ ThreadCalls.delete_thread = <<Find("thread"), Ask("thread", "DELETE_THREAD", "thread"),
            Write("thread", "manage")>>
<1>1. ThreadCalls.create_thread = <<Find("agent"), Ask("thread", "CREATE_THREAD", "nothing"),
        Write("new_row", "own")>>
  BY DEF ThreadCalls
<1>2. ThreadCalls.get_thread = <<Find("thread"), Ask("thread", "VIEW_THREAD", "thread"),
        Read("thread", "read")>>
  BY Add2 DEF ThreadCalls, OwnThread
<1>3. ThreadCalls.update_thread = <<Find("thread"), Ask("thread", "UPDATE_THREAD", "thread"),
        Write("thread", "manage")>>
  BY Add2 DEF ThreadCalls, OwnThread
<1>4. ThreadCalls.delete_thread = <<Find("thread"), Ask("thread", "DELETE_THREAD", "thread"),
        Write("thread", "manage")>>
  BY Add2 DEF ThreadCalls, OwnThread
<1> QED
  BY <1>1, <1>2, <1>3, <1>4

\* ThreadCalls asks before it reads or writes.
LEMMA ThreadCallsAreGuarded == \A e \in DOMAIN ThreadCalls : Guarded(ThreadCalls[e])
<1>1. Guarded(ThreadCalls.create_thread)
  BY ThreadCallsSteps, Kinds, NewRowGrants, Guard2x1
<1>2. Guarded(ThreadCalls.get_thread)
  BY ThreadCallsSteps, Kinds, ThreadGrants, Guard2x1
<1>3. Guarded(ThreadCalls.update_thread)
  BY ThreadCallsSteps, Kinds, ThreadGrants, Guard2x1
<1>4. Guarded(ThreadCalls.delete_thread)
  BY ThreadCallsSteps, Kinds, ThreadGrants, Guard2x1
<1> QED
  BY <1>1, <1>2, <1>3, <1>4 DEF ThreadCalls

\* The calls of MessageCalls, written out.
LEMMA MessageCallsSteps ==
    /\ MessageCalls.rate_message = <<Find("thread"), Ask("thread", "RATE_MESSAGE", "thread"),
            Find("agent"), Find("message"), Write("thread", "write")>>
    /\ MessageCalls.delete_message = <<Find("thread"), Ask("thread", "DELETE_MESSAGE", "thread"),
            Find("agent"), Find("message"), Write("thread", "manage")>>
    /\ MessageCalls.restore_message = <<Find("thread"), Ask("thread", "RESTORE_MESSAGE", "thread"),
            Find("agent"), Find("message"), Write("thread", "manage")>>
<1>1. MessageCalls.rate_message = <<Find("thread"), Ask("thread", "RATE_MESSAGE", "thread"),
        Find("agent"), Find("message"), Write("thread", "write")>>
  BY Join2x3 DEF MessageCalls, OwnThread
<1>2. MessageCalls.delete_message = <<Find("thread"), Ask("thread", "DELETE_MESSAGE", "thread"),
        Find("agent"), Find("message"), Write("thread", "manage")>>
  BY Join2x3 DEF MessageCalls, OwnThread
<1>3. MessageCalls.restore_message = <<Find("thread"), Ask("thread", "RESTORE_MESSAGE", "thread"),
        Find("agent"), Find("message"), Write("thread", "manage")>>
  BY Join2x3 DEF MessageCalls, OwnThread
<1> QED
  BY <1>1, <1>2, <1>3

\* MessageCalls asks before it reads or writes.
LEMMA MessageCallsAreGuarded == \A e \in DOMAIN MessageCalls : Guarded(MessageCalls[e])
<1>1. Guarded(MessageCalls.rate_message)
  BY MessageCallsSteps, Kinds, ThreadGrants, Guard4x1
<1>2. Guarded(MessageCalls.delete_message)
  BY MessageCallsSteps, Kinds, ThreadGrants, Guard4x1
<1>3. Guarded(MessageCalls.restore_message)
  BY MessageCallsSteps, Kinds, ThreadGrants, Guard4x1
<1> QED
  BY <1>1, <1>2, <1>3 DEF MessageCalls

\* The calls of ThreadViews, written out.
LEMMA ThreadViewsSteps ==
    /\ ThreadViews.thread_file_meta = <<Find("thread"), Ask("thread", "VIEW_THREAD", "thread"),
            Read("thread", "read")>>
    /\ ThreadViews.thread_sources = <<Find("thread"), Ask("thread", "VIEW_THREAD", "thread"),
            Read("thread", "read")>>
<1>1. ThreadViews.thread_file_meta = <<Find("thread"), Ask("thread", "VIEW_THREAD", "thread"),
        Read("thread", "read")>>
  BY Add2 DEF ThreadViews, OwnThread
<1>2. ThreadViews.thread_sources = <<Find("thread"), Ask("thread", "VIEW_THREAD", "thread"),
        Read("thread", "read")>>
  BY Add2 DEF ThreadViews, OwnThread
<1> QED
  BY <1>1, <1>2

\* ThreadViews asks before it reads or writes.
LEMMA ThreadViewsAreGuarded == \A e \in DOMAIN ThreadViews : Guarded(ThreadViews[e])
<1>1. Guarded(ThreadViews.thread_file_meta)
  BY ThreadViewsSteps, Kinds, ThreadGrants, Guard2x1
<1>2. Guarded(ThreadViews.thread_sources)
  BY ThreadViewsSteps, Kinds, ThreadGrants, Guard2x1
<1> QED
  BY <1>1, <1>2 DEF ThreadViews

\* The calls of TraceCalls, written out.
LEMMA TraceCallsSteps ==
    /\ TraceCalls.thread_traces = <<Find("thread"), Ask("thread", "VIEW_THREAD", "thread"),
            Read("thread", "read")>>
    /\ TraceCalls.thread_token_usage = <<Find("thread"), Ask("thread", "VIEW_THREAD", "thread"),
            Read("thread", "read")>>
    /\ TraceCalls.message_traces = <<Find("message"), Find("thread"),
            Ask("thread", "VIEW_THREAD", "thread"), Read("thread", "read")>>
    /\ TraceCalls.message_token_usage = <<Find("message"), Find("thread"),
            Ask("thread", "VIEW_THREAD", "thread"), Read("thread", "read")>>
<1>1. TraceCalls.thread_traces = <<Find("thread"), Ask("thread", "VIEW_THREAD", "thread"),
        Read("thread", "read")>>
  BY Add2 DEF TraceCalls, OwnThread
<1>2. TraceCalls.thread_token_usage = <<Find("thread"), Ask("thread", "VIEW_THREAD", "thread"),
        Read("thread", "read")>>
  BY Add2 DEF TraceCalls, OwnThread
<1>3. TraceCalls.message_traces = <<Find("message"), Find("thread"),
        Ask("thread", "VIEW_THREAD", "thread"), Read("thread", "read")>>
  <2>1. Append(<<Find("thread"), Ask("thread", "VIEW_THREAD", "thread")>>, Read("thread", "read"))
        = <<Find("thread"), Ask("thread", "VIEW_THREAD", "thread"), Read("thread", "read")>>
    BY Add2
  <2>2. <<Find("message")>> \o <<Find("thread"), Ask("thread", "VIEW_THREAD", "thread"),
          Read("thread", "read")>>
        = <<Find("message"), Find("thread"), Ask("thread", "VIEW_THREAD", "thread"),
                Read("thread", "read")>>
    BY Join1x3
  <2> QED
    BY <2>1, <2>2 DEF TraceCalls, OwnThread
<1>4. TraceCalls.message_token_usage = <<Find("message"), Find("thread"),
        Ask("thread", "VIEW_THREAD", "thread"), Read("thread", "read")>>
  <2>1. Append(<<Find("thread"), Ask("thread", "VIEW_THREAD", "thread")>>, Read("thread", "read"))
        = <<Find("thread"), Ask("thread", "VIEW_THREAD", "thread"), Read("thread", "read")>>
    BY Add2
  <2>2. <<Find("message")>> \o <<Find("thread"), Ask("thread", "VIEW_THREAD", "thread"),
          Read("thread", "read")>>
        = <<Find("message"), Find("thread"), Ask("thread", "VIEW_THREAD", "thread"),
                Read("thread", "read")>>
    BY Join1x3
  <2> QED
    BY <2>1, <2>2 DEF TraceCalls, OwnThread
<1> QED
  BY <1>1, <1>2, <1>3, <1>4

\* TraceCalls asks before it reads or writes.
LEMMA TraceCallsAreGuarded == \A e \in DOMAIN TraceCalls : Guarded(TraceCalls[e])
<1>1. Guarded(TraceCalls.thread_traces)
  BY TraceCallsSteps, Kinds, ThreadGrants, Guard2x1
<1>2. Guarded(TraceCalls.thread_token_usage)
  BY TraceCallsSteps, Kinds, ThreadGrants, Guard2x1
<1>3. Guarded(TraceCalls.message_traces)
  BY TraceCallsSteps, Kinds, ThreadGrants, Guard3x1
<1>4. Guarded(TraceCalls.message_token_usage)
  BY TraceCallsSteps, Kinds, ThreadGrants, Guard3x1
<1> QED
  BY <1>1, <1>2, <1>3, <1>4 DEF TraceCalls

\* The calls of ThreadAgent, written out.
LEMMA ThreadAgentSteps ==
    /\ ThreadAgent.get_agent = <<Find("thread"), Ask("thread", "VIEW_THREAD", "thread"),
            Find("agent")>>
<1>1. ThreadAgent.get_agent = <<Find("thread"), Ask("thread", "VIEW_THREAD", "thread"),
        Find("agent")>>
  BY Add2 DEF ThreadAgent, OwnThread
<1> QED
  BY <1>1

\* ThreadAgent asks before it reads or writes.
LEMMA ThreadAgentAreGuarded == \A e \in DOMAIN ThreadAgent : Guarded(ThreadAgent[e])
<1>1. Guarded(ThreadAgent.get_agent)
  BY ThreadAgentSteps, Kinds, Guard3x0
<1> QED
  BY <1>1 DEF ThreadAgent

\* The calls of History, written out.
LEMMA HistorySteps ==
    /\ History.history = <<Ask("agent", "VIEW_THREAD", "keyword"), Find("thread"),
            Ask("thread", "VIEW_THREAD", "thread"), Read("thread", "read"), Read("agent", "read")>>
    /\ History.history_with_files = <<Ask("agent", "VIEW_THREAD", "keyword"), Find("thread"),
            Ask("thread", "VIEW_THREAD", "thread"), Find("thread"),
            Ask("thread", "VIEW_FILE", "thread"), Ask("agent", "VIEW_FILE", "keyword"),
            Read("thread", "read"), Read("agent", "read")>>
<1>1. History.history = <<Ask("agent", "VIEW_THREAD", "keyword"), Find("thread"),
        Ask("thread", "VIEW_THREAD", "thread"), Read("thread", "read"), Read("agent", "read")>>
  <2>1. <<Ask("agent", "VIEW_THREAD", "keyword")>> \o <<Find("thread"),
          Ask("thread", "VIEW_THREAD", "thread")>>
        = <<Ask("agent", "VIEW_THREAD", "keyword"), Find("thread"),
                Ask("thread", "VIEW_THREAD", "thread")>>
    BY Join1x2
  <2>2. <<Ask("agent", "VIEW_THREAD", "keyword"), Find("thread"),
          Ask("thread", "VIEW_THREAD", "thread")>> \o <<Read("thread", "read"),
          Read("agent", "read")>>
        = <<Ask("agent", "VIEW_THREAD", "keyword"), Find("thread"),
                Ask("thread", "VIEW_THREAD", "thread"), Read("thread", "read"),
                Read("agent", "read")>>
    BY Join3x2
  <2> QED
    BY <2>1, <2>2 DEF History, OwnThread
<1>2. History.history_with_files = <<Ask("agent", "VIEW_THREAD", "keyword"), Find("thread"),
        Ask("thread", "VIEW_THREAD", "thread"), Find("thread"),
        Ask("thread", "VIEW_FILE", "thread"), Ask("agent", "VIEW_FILE", "keyword"),
        Read("thread", "read"), Read("agent", "read")>>
  <2>1. <<Ask("agent", "VIEW_THREAD", "keyword")>> \o <<Find("thread"),
          Ask("thread", "VIEW_THREAD", "thread")>>
        = <<Ask("agent", "VIEW_THREAD", "keyword"), Find("thread"),
                Ask("thread", "VIEW_THREAD", "thread")>>
    BY Join1x2
  <2>2. <<Ask("agent", "VIEW_THREAD", "keyword"), Find("thread"),
          Ask("thread", "VIEW_THREAD", "thread")>> \o <<Find("thread"),
          Ask("thread", "VIEW_FILE", "thread"), Ask("agent", "VIEW_FILE", "keyword")>>
        = <<Ask("agent", "VIEW_THREAD", "keyword"), Find("thread"),
                Ask("thread", "VIEW_THREAD", "thread"), Find("thread"),
                Ask("thread", "VIEW_FILE", "thread"), Ask("agent", "VIEW_FILE", "keyword")>>
    BY Join3x3
  <2>3. <<Ask("agent", "VIEW_THREAD", "keyword"), Find("thread"),
          Ask("thread", "VIEW_THREAD", "thread"), Find("thread"),
          Ask("thread", "VIEW_FILE", "thread"),
          Ask("agent", "VIEW_FILE", "keyword")>> \o <<Read("thread", "read"),
          Read("agent", "read")>>
        = <<Ask("agent", "VIEW_THREAD", "keyword"), Find("thread"),
                Ask("thread", "VIEW_THREAD", "thread"), Find("thread"),
                Ask("thread", "VIEW_FILE", "thread"), Ask("agent", "VIEW_FILE", "keyword"),
                Read("thread", "read"), Read("agent", "read")>>
    BY Join6x2
  <2> QED
    BY <2>1, <2>2, <2>3 DEF History, OwnThread, ResolveAttachments
<1> QED
  BY <1>1, <1>2

\* History asks before it reads or writes.
LEMMA HistoryAreGuarded == \A e \in DOMAIN History : Guarded(History[e])
<1>1. Guarded(History.history)
  BY HistorySteps, Kinds, AgentGrants, ThreadGrants, Guard3x2 DEF UseOperations
<1>2. Guarded(History.history_with_files)
  BY HistorySteps, Kinds, AgentGrants, ThreadGrants, Guard6x2 DEF UseOperations
<1> QED
  BY <1>1, <1>2 DEF History

\* The calls of AsView, written out.
LEMMA AsViewSteps ==
    /\ AsView.as_view = <<Ask("agent", "CHAT", "keyword"), Find("thread"),
            Ask("thread", "VIEW_THREAD", "thread"), Write("thread", "write"),
            Read("agent", "read")>>
    /\ AsView.as_view_with_files = <<Ask("agent", "CHAT", "keyword"), Find("thread"),
            Ask("thread", "VIEW_THREAD", "thread"), Find("thread"),
            Ask("thread", "VIEW_FILE", "thread"), Ask("agent", "VIEW_FILE", "keyword"),
            Write("thread", "write"), Read("agent", "read")>>
<1>1. AsView.as_view = <<Ask("agent", "CHAT", "keyword"), Find("thread"),
        Ask("thread", "VIEW_THREAD", "thread"), Write("thread", "write"), Read("agent", "read")>>
  <2>1. <<Ask("agent", "CHAT", "keyword")>> \o <<Find("thread"),
          Ask("thread", "VIEW_THREAD", "thread")>>
        = <<Ask("agent", "CHAT", "keyword"), Find("thread"),
                Ask("thread", "VIEW_THREAD", "thread")>>
    BY Join1x2
  <2>2. <<Ask("agent", "CHAT", "keyword"), Find("thread"),
          Ask("thread", "VIEW_THREAD", "thread")>> \o <<Write("thread", "write"),
          Read("agent", "read")>>
        = <<Ask("agent", "CHAT", "keyword"), Find("thread"),
                Ask("thread", "VIEW_THREAD", "thread"), Write("thread", "write"),
                Read("agent", "read")>>
    BY Join3x2
  <2> QED
    BY <2>1, <2>2 DEF AsView, OwnThread
<1>2. AsView.as_view_with_files = <<Ask("agent", "CHAT", "keyword"), Find("thread"),
        Ask("thread", "VIEW_THREAD", "thread"), Find("thread"),
        Ask("thread", "VIEW_FILE", "thread"), Ask("agent", "VIEW_FILE", "keyword"),
        Write("thread", "write"), Read("agent", "read")>>
  <2>1. <<Ask("agent", "CHAT", "keyword")>> \o <<Find("thread"),
          Ask("thread", "VIEW_THREAD", "thread")>>
        = <<Ask("agent", "CHAT", "keyword"), Find("thread"),
                Ask("thread", "VIEW_THREAD", "thread")>>
    BY Join1x2
  <2>2. <<Ask("agent", "CHAT", "keyword"), Find("thread"),
          Ask("thread", "VIEW_THREAD", "thread")>> \o <<Find("thread"),
          Ask("thread", "VIEW_FILE", "thread"), Ask("agent", "VIEW_FILE", "keyword")>>
        = <<Ask("agent", "CHAT", "keyword"), Find("thread"),
                Ask("thread", "VIEW_THREAD", "thread"), Find("thread"),
                Ask("thread", "VIEW_FILE", "thread"), Ask("agent", "VIEW_FILE", "keyword")>>
    BY Join3x3
  <2>3. <<Ask("agent", "CHAT", "keyword"), Find("thread"), Ask("thread", "VIEW_THREAD", "thread"),
          Find("thread"), Ask("thread", "VIEW_FILE", "thread"),
          Ask("agent", "VIEW_FILE", "keyword")>> \o <<Write("thread", "write"),
          Read("agent", "read")>>
        = <<Ask("agent", "CHAT", "keyword"), Find("thread"),
                Ask("thread", "VIEW_THREAD", "thread"), Find("thread"),
                Ask("thread", "VIEW_FILE", "thread"), Ask("agent", "VIEW_FILE", "keyword"),
                Write("thread", "write"), Read("agent", "read")>>
    BY Join6x2
  <2> QED
    BY <2>1, <2>2, <2>3 DEF AsView, OwnThread, ResolveAttachments
<1> QED
  BY <1>1, <1>2

\* AsView asks before it reads or writes.
LEMMA AsViewAreGuarded == \A e \in DOMAIN AsView : Guarded(AsView[e])
<1>1. Guarded(AsView.as_view)
  BY AsViewSteps, Kinds, AgentGrants, ThreadGrants, Guard3x2 DEF UseOperations
<1>2. Guarded(AsView.as_view_with_files)
  BY AsViewSteps, Kinds, AgentGrants, ThreadGrants, Guard6x2 DEF UseOperations
<1> QED
  BY <1>1, <1>2 DEF AsView

\* The calls of AgentMemories, written out.
LEMMA AgentMemoriesSteps ==
    /\ AgentMemories.link_memories = <<Write("thread", "manage")>>
    /\ AgentMemories.unlink_memories = <<Write("thread", "manage")>>
    /\ AgentMemories.link_new_thread = <<Write("new_row", "own")>>
<1>1. AgentMemories.link_memories = <<Write("thread", "manage")>>
  BY DEF AgentMemories
<1>2. AgentMemories.unlink_memories = <<Write("thread", "manage")>>
  BY DEF AgentMemories
<1>3. AgentMemories.link_new_thread = <<Write("new_row", "own")>>
  BY DEF AgentMemories
<1> QED
  BY <1>1, <1>2, <1>3

\* The calls of AgentChecks, written out.
LEMMA AgentChecksSteps ==
    /\ AgentChecks.find_agent = <<Find("agent")>>
    /\ AgentChecks.find_new_agent = <<Find("new_agent")>>
    /\ AgentChecks.check_view = <<Ask("agent", "VIEW_AGENT", "agent"), Read("agent", "read")>>
    /\ AgentChecks.check_admin = <<Ask("agent", "UPDATE_AGENT", "agent"), Write("agent", "manage")>>
    /\ AgentChecks.check_chat = <<Ask("agent", "CHAT", "nothing")>>
    /\ AgentChecks.run = <<Read("agent", "read")>>
<1>1. AgentChecks.find_agent = <<Find("agent")>>
  BY DEF AgentChecks
<1>2. AgentChecks.find_new_agent = <<Find("new_agent")>>
  BY DEF AgentChecks
<1>3. AgentChecks.check_view = <<Ask("agent", "VIEW_AGENT", "agent"), Read("agent", "read")>>
  BY DEF AgentChecks
<1>4. AgentChecks.check_admin = <<Ask("agent", "UPDATE_AGENT", "agent"), Write("agent", "manage")>>
  BY DEF AgentChecks
<1>5. AgentChecks.check_chat = <<Ask("agent", "CHAT", "nothing")>>
  BY DEF AgentChecks
<1>6. AgentChecks.run = <<Read("agent", "read")>>
  BY DEF AgentChecks
<1> QED
  BY <1>1, <1>2, <1>3, <1>4, <1>5, <1>6

\* AgentChecks asks before it reads or writes.
LEMMA AgentChecksAreGuarded == \A e \in DOMAIN AgentChecks \ {"run"} : Guarded(AgentChecks[e])
<1>1. Guarded(AgentChecks.find_agent)
  BY AgentChecksSteps, Kinds, Guard1x0
<1>2. Guarded(AgentChecks.find_new_agent)
  BY AgentChecksSteps, Kinds, Guard1x0
<1>3. Guarded(AgentChecks.check_view)
  BY AgentChecksSteps, Kinds, AgentGrants, Guard1x1
<1>4. Guarded(AgentChecks.check_admin)
  BY AgentChecksSteps, Kinds, AgentGrants, Guard1x1
<1>5. Guarded(AgentChecks.check_chat)
  BY AgentChecksSteps, Kinds, Guard1x0
<1> QED
  BY <1>1, <1>2, <1>3, <1>4, <1>5 DEF AgentChecks

\* The calls of AgentViews, written out.
LEMMA AgentViewsSteps ==
    /\ AgentViews.get_agent_info = <<Find("agent"), Ask("agent", "VIEW_AGENT", "agent"),
            Read("agent", "read")>>
    /\ AgentViews.get_integration_status = <<Find("agent"), Ask("agent", "VIEW_AGENT", "agent"),
            Read("agent", "read")>>
<1>1. AgentViews.get_agent_info = <<Find("agent"), Ask("agent", "VIEW_AGENT", "agent"),
        Read("agent", "read")>>
  BY DEF AgentViews
<1>2. AgentViews.get_integration_status = <<Find("agent"), Ask("agent", "VIEW_AGENT", "agent"),
        Read("agent", "read")>>
  BY DEF AgentViews
<1> QED
  BY <1>1, <1>2

\* AgentViews asks before it reads or writes.
LEMMA AgentViewsAreGuarded == \A e \in DOMAIN AgentViews : Guarded(AgentViews[e])
<1>1. Guarded(AgentViews.get_agent_info)
  BY AgentViewsSteps, Kinds, AgentGrants, Guard2x1
<1>2. Guarded(AgentViews.get_integration_status)
  BY AgentViewsSteps, Kinds, AgentGrants, Guard2x1
<1> QED
  BY <1>1, <1>2 DEF AgentViews

\* The calls of AgentSharing, written out.
LEMMA AgentSharingSteps ==
    /\ AgentSharing.list_agent_users = <<Find("agent"), Find("agent_row"),
            Ask("agent", "UPDATE_AGENT", "agent"), Read("agent", "manage")>>
    /\ AgentSharing.list_agent_groups = <<Find("agent"), Find("agent_row"),
            Ask("agent", "UPDATE_AGENT", "agent"), Read("agent", "manage")>>
    /\ AgentSharing.add_agent_user = <<Find("agent"), Find("agent_row"),
            Ask("agent", "UPDATE_AGENT", "agent"), Find("target"), Write("agent", "manage")>>
    /\ AgentSharing.add_agent_group = <<Find("agent"), Find("agent_row"),
            Ask("agent", "UPDATE_AGENT", "agent"), Find("target"), Write("agent", "manage")>>
    /\ AgentSharing.update_agent_user = <<Find("agent"), Find("agent_row"),
            Ask("agent", "UPDATE_AGENT", "agent"), Find("share"), Write("agent", "manage")>>
    /\ AgentSharing.remove_agent_user = <<Find("agent"), Find("agent_row"),
            Ask("agent", "UPDATE_AGENT", "agent"), Find("share"), Write("agent", "manage")>>
    /\ AgentSharing.remove_agent_group = <<Find("agent"), Find("agent_row"),
            Ask("agent", "UPDATE_AGENT", "agent"), Find("share"), Write("agent", "manage")>>
<1>1. AgentSharing.list_agent_users = <<Find("agent"), Find("agent_row"),
        Ask("agent", "UPDATE_AGENT", "agent"), Read("agent", "manage")>>
  BY Add3 DEF AgentSharing
<1>2. AgentSharing.list_agent_groups = <<Find("agent"), Find("agent_row"),
        Ask("agent", "UPDATE_AGENT", "agent"), Read("agent", "manage")>>
  BY Add3 DEF AgentSharing
<1>3. AgentSharing.add_agent_user = <<Find("agent"), Find("agent_row"),
        Ask("agent", "UPDATE_AGENT", "agent"), Find("target"), Write("agent", "manage")>>
  BY Join3x2 DEF AgentSharing
<1>4. AgentSharing.add_agent_group = <<Find("agent"), Find("agent_row"),
        Ask("agent", "UPDATE_AGENT", "agent"), Find("target"), Write("agent", "manage")>>
  BY Join3x2 DEF AgentSharing
<1>5. AgentSharing.update_agent_user = <<Find("agent"), Find("agent_row"),
        Ask("agent", "UPDATE_AGENT", "agent"), Find("share"), Write("agent", "manage")>>
  BY Join3x2 DEF AgentSharing
<1>6. AgentSharing.remove_agent_user = <<Find("agent"), Find("agent_row"),
        Ask("agent", "UPDATE_AGENT", "agent"), Find("share"), Write("agent", "manage")>>
  BY Join3x2 DEF AgentSharing
<1>7. AgentSharing.remove_agent_group = <<Find("agent"), Find("agent_row"),
        Ask("agent", "UPDATE_AGENT", "agent"), Find("share"), Write("agent", "manage")>>
  BY Join3x2 DEF AgentSharing
<1> QED
  BY <1>1, <1>2, <1>3, <1>4, <1>5, <1>6, <1>7

\* AgentSharing asks before it reads or writes.
LEMMA AgentSharingAreGuarded == \A e \in DOMAIN AgentSharing : Guarded(AgentSharing[e])
<1>1. Guarded(AgentSharing.list_agent_users)
  BY AgentSharingSteps, Kinds, AgentGrants, Guard3x1
<1>2. Guarded(AgentSharing.list_agent_groups)
  BY AgentSharingSteps, Kinds, AgentGrants, Guard3x1
<1>3. Guarded(AgentSharing.add_agent_user)
  BY AgentSharingSteps, Kinds, AgentGrants, Guard4x1
<1>4. Guarded(AgentSharing.add_agent_group)
  BY AgentSharingSteps, Kinds, AgentGrants, Guard4x1
<1>5. Guarded(AgentSharing.update_agent_user)
  BY AgentSharingSteps, Kinds, AgentGrants, Guard4x1
<1>6. Guarded(AgentSharing.remove_agent_user)
  BY AgentSharingSteps, Kinds, AgentGrants, Guard4x1
<1>7. Guarded(AgentSharing.remove_agent_group)
  BY AgentSharingSteps, Kinds, AgentGrants, Guard4x1
<1> QED
  BY <1>1, <1>2, <1>3, <1>4, <1>5, <1>6, <1>7 DEF AgentSharing

\* The calls of RuntimeCalls, written out.
LEMMA RuntimeCallsSteps ==
    /\ RuntimeCalls.get_runtime_agent = <<Find("agent_row"), Ask("agent", "VIEW_AGENT", "agent"),
            Read("agent", "read")>>
    /\ RuntimeCalls.create_runtime_agent = <<Ask("agent", "CREATE_AGENT", "nothing"),
            Write("new_row", "own")>>
    /\ RuntimeCalls.update_runtime_agent = <<Find("agent_row"),
            Ask("agent", "UPDATE_AGENT", "agent"), Need("valid", "invalid"),
            Write("agent", "manage")>>
    /\ RuntimeCalls.delete_runtime_agent = <<Find("agent_row"),
            Ask("agent", "DELETE_AGENT", "agent"), Write("agent", "manage")>>
<1>1. RuntimeCalls.get_runtime_agent = <<Find("agent_row"), Ask("agent", "VIEW_AGENT", "agent"),
        Read("agent", "read")>>
  BY Add2 DEF RuntimeCalls
<1>2. RuntimeCalls.create_runtime_agent = <<Ask("agent", "CREATE_AGENT", "nothing"),
        Write("new_row", "own")>>
  BY DEF RuntimeCalls
<1>3. RuntimeCalls.update_runtime_agent = <<Find("agent_row"),
        Ask("agent", "UPDATE_AGENT", "agent"), Need("valid", "invalid"), Write("agent", "manage")>>
  BY Join2x2 DEF RuntimeCalls
<1>4. RuntimeCalls.delete_runtime_agent = <<Find("agent_row"),
        Ask("agent", "DELETE_AGENT", "agent"), Write("agent", "manage")>>
  BY Add2 DEF RuntimeCalls
<1> QED
  BY <1>1, <1>2, <1>3, <1>4

\* RuntimeCalls asks before it reads or writes.
LEMMA RuntimeCallsAreGuarded == \A e \in DOMAIN RuntimeCalls : Guarded(RuntimeCalls[e])
<1>1. Guarded(RuntimeCalls.get_runtime_agent)
  BY RuntimeCallsSteps, Kinds, AgentGrants, Guard2x1
<1>2. Guarded(RuntimeCalls.create_runtime_agent)
  BY RuntimeCallsSteps, Kinds, AgentGrants, NewRowGrants, Guard1x1
<1>3. Guarded(RuntimeCalls.update_runtime_agent)
  BY RuntimeCallsSteps, Kinds, AgentGrants, Guard3x1
<1>4. Guarded(RuntimeCalls.delete_runtime_agent)
  BY RuntimeCallsSteps, Kinds, AgentGrants, Guard2x1
<1> QED
  BY <1>1, <1>2, <1>3, <1>4 DEF RuntimeCalls

\* The calls of WorkflowRuns, written out.
LEMMA WorkflowRunsSteps ==
    /\ WorkflowRuns.run_workflow = <<Ask("workflow", "RUN_WORKFLOW", "nothing"),
            Need("valid", "invalid"), Need("fits", "invalid"), Write("new_row", "own")>>
    /\ WorkflowRuns.run_by_id = <<Ask("workflow", "RUN_WORKFLOW", "nothing"), Find("workflow"),
            Find("active"), Ask("workflow", "RUN_WORKFLOW", "workflow"),
            Need("readable", "invalid"), Need("legal", "configuration"), Need("fits", "invalid"),
            Read("workflow", "read"), Write("new_row", "own")>>
    /\ WorkflowRuns.resume_run = <<Need("no_inputs", "invalid"),
            Ask("workflow", "RUN_WORKFLOW", "nothing"), Find("workflow"),
            Find("active"), Ask("workflow", "RUN_WORKFLOW", "workflow"),
            Need("readable", "invalid"), Need("legal", "configuration"), Find("run"),
            Hide("workflow", "VIEW_WORKFLOW", "run"), Write("run", "write")>>
<1> DEFINE record == <<Ask("workflow", "RUN_WORKFLOW", "nothing"), Find("workflow"),
                Find("active"), Ask("workflow", "RUN_WORKFLOW", "workflow"),
                Need("readable", "invalid"), Need("legal", "configuration")>>
<1>1. WorkflowRuns.run_workflow = <<Ask("workflow", "RUN_WORKFLOW", "nothing"),
        Need("valid", "invalid"), Need("fits", "invalid"), Write("new_row", "own")>>
  BY Join1x3 DEF WorkflowRuns
<1>2. <<Ask("workflow", "RUN_WORKFLOW", "nothing")>> \o <<Find("workflow"), Find("active"),
          Ask("workflow", "RUN_WORKFLOW", "workflow"), Need("readable", "invalid"),
          Need("legal", "configuration")>> = record
  BY Join1x5
<1>3. WorkflowRuns.run_by_id = <<Ask("workflow", "RUN_WORKFLOW", "nothing"), Find("workflow"),
        Find("active"), Ask("workflow", "RUN_WORKFLOW", "workflow"), Need("readable", "invalid"),
        Need("legal", "configuration"), Need("fits", "invalid"), Read("workflow", "read"),
        Write("new_row", "own")>>
  <2>1. WorkflowRuns.run_by_id
        = record \o <<Need("fits", "invalid"), Read("workflow", "read"), Write("new_row", "own")>>
    BY <1>2 DEF WorkflowRuns
  <2> QED
    BY <2>1, Join6x3
<1>4. WorkflowRuns.resume_run = <<Need("no_inputs", "invalid"),
        Ask("workflow", "RUN_WORKFLOW", "nothing"), Find("workflow"), Find("active"),
        Ask("workflow", "RUN_WORKFLOW", "workflow"), Need("readable", "invalid"),
        Need("legal", "configuration"), Find("run"), Hide("workflow", "VIEW_WORKFLOW", "run"),
        Write("run", "write")>>
  <2>1. WorkflowRuns.resume_run
        = <<Need("no_inputs", "invalid")>> \o record
          \o <<Find("run"), Hide("workflow", "VIEW_WORKFLOW", "run"), Write("run", "write")>>
    BY <1>2 DEF WorkflowRuns
  <2>2. <<Need("no_inputs", "invalid")>> \o record
        = <<Need("no_inputs", "invalid"), Ask("workflow", "RUN_WORKFLOW", "nothing"),
            Find("workflow"), Find("active"), Ask("workflow", "RUN_WORKFLOW", "workflow"),
            Need("readable", "invalid"), Need("legal", "configuration")>>
    BY Join1x6
  <2>3. <<Need("no_inputs", "invalid"), Ask("workflow", "RUN_WORKFLOW", "nothing"),
            Find("workflow"), Find("active"), Ask("workflow", "RUN_WORKFLOW", "workflow"),
            Need("readable", "invalid"), Need("legal", "configuration")>>
          \o <<Find("run"), Hide("workflow", "VIEW_WORKFLOW", "run"), Write("run", "write")>>
        = <<Need("no_inputs", "invalid"), Ask("workflow", "RUN_WORKFLOW", "nothing"),
            Find("workflow"), Find("active"), Ask("workflow", "RUN_WORKFLOW", "workflow"),
            Need("readable", "invalid"), Need("legal", "configuration"), Find("run"),
            Hide("workflow", "VIEW_WORKFLOW", "run"), Write("run", "write")>>
    BY Join7x3
  <2> QED
    BY <2>1, <2>2, <2>3, Zenon
<1> QED
  BY <1>1, <1>3, <1>4

\* WorkflowRuns asks before it reads or writes.
LEMMA WorkflowRunsAreGuarded == \A e \in DOMAIN WorkflowRuns : Guarded(WorkflowRuns[e])
<1>1. Guarded(WorkflowRuns.run_workflow)
  BY WorkflowRunsSteps, Kinds, NewRowGrants, Guard3x1
<1>2. Guarded(WorkflowRuns.run_by_id)
  BY WorkflowRunsSteps, Kinds, NewRowGrants, WorkflowGrants, Guard7x2
<1>3. Guarded(WorkflowRuns.resume_run)
  BY WorkflowRunsSteps, Kinds, WorkflowGrants, Guard9x1
<1> QED
  BY <1>1, <1>2, <1>3 DEF WorkflowRuns

\* The calls of WorkflowCalls, written out.
LEMMA WorkflowCallsSteps ==
    /\ WorkflowCalls.create_workflow = <<Ask("workflow", "MANAGE_WORKFLOW", "nothing"),
            Need("valid", "invalid"), Write("new_row", "own")>>
    /\ WorkflowCalls.get_workflow = <<Find("workflow"),
            Hide("workflow", "MANAGE_WORKFLOW", "workflow"), Read("workflow", "manage")>>
    /\ WorkflowCalls.update_workflow = <<Find("workflow"),
            Hide("workflow", "MANAGE_WORKFLOW", "workflow"), Need("valid", "invalid"),
            Write("workflow", "manage")>>
    /\ WorkflowCalls.delete_workflow = <<Find("workflow"),
            Hide("workflow", "MANAGE_WORKFLOW", "workflow"), Write("workflow", "manage")>>
    /\ WorkflowCalls.get_run = <<Find("run"), Hide("workflow", "VIEW_WORKFLOW", "run"),
            Read("run", "read")>>
<1>1. WorkflowCalls.create_workflow = <<Ask("workflow", "MANAGE_WORKFLOW", "nothing"),
        Need("valid", "invalid"), Write("new_row", "own")>>
  BY DEF WorkflowCalls
<1>2. WorkflowCalls.get_workflow = <<Find("workflow"),
        Hide("workflow", "MANAGE_WORKFLOW", "workflow"), Read("workflow", "manage")>>
  BY Add2 DEF WorkflowCalls
<1>3. WorkflowCalls.update_workflow = <<Find("workflow"),
        Hide("workflow", "MANAGE_WORKFLOW", "workflow"), Need("valid", "invalid"),
        Write("workflow", "manage")>>
  BY Join2x2 DEF WorkflowCalls
<1>4. WorkflowCalls.delete_workflow = <<Find("workflow"),
        Hide("workflow", "MANAGE_WORKFLOW", "workflow"), Write("workflow", "manage")>>
  BY Add2 DEF WorkflowCalls
<1>5. WorkflowCalls.get_run = <<Find("run"), Hide("workflow", "VIEW_WORKFLOW", "run"),
        Read("run", "read")>>
  BY DEF WorkflowCalls
<1> QED
  BY <1>1, <1>2, <1>3, <1>4, <1>5

\* WorkflowCalls asks before it reads or writes.
LEMMA WorkflowCallsAreGuarded == \A e \in DOMAIN WorkflowCalls : Guarded(WorkflowCalls[e])
<1>1. Guarded(WorkflowCalls.create_workflow)
  BY WorkflowCallsSteps, Kinds, NewRowGrants, Guard2x1
<1>2. Guarded(WorkflowCalls.get_workflow)
  BY WorkflowCallsSteps, Kinds, WorkflowGrants, Guard2x1
<1>3. Guarded(WorkflowCalls.update_workflow)
  BY WorkflowCallsSteps, Kinds, WorkflowGrants, Guard3x1
<1>4. Guarded(WorkflowCalls.delete_workflow)
  BY WorkflowCallsSteps, Kinds, WorkflowGrants, Guard2x1
<1>5. Guarded(WorkflowCalls.get_run)
  BY WorkflowCallsSteps, Kinds, WorkflowGrants, Guard2x1
<1> QED
  BY <1>1, <1>2, <1>3, <1>4, <1>5 DEF WorkflowCalls

\* The calls of IntegrationCalls, written out.
LEMMA IntegrationCallsSteps ==
    /\ IntegrationCalls.connect_integration = <<Find("integration"),
            Ask("integrations", "MANAGE_INTEGRATION", "nothing"), Need("connectable", "invalid"),
            Write("connection", "own")>>
    /\ IntegrationCalls.disconnect_integration = <<Find("integration"),
            Ask("integrations", "MANAGE_INTEGRATION", "nothing"), Find("connection"),
            Write("connection", "own")>>
    /\ IntegrationCalls.reconnect_integration = <<Find("integration"),
            Ask("integrations", "USE_INTEGRATION", "nothing"), Read("connection", "own")>>
<1>1. IntegrationCalls.connect_integration = <<Find("integration"),
        Ask("integrations", "MANAGE_INTEGRATION", "nothing"), Need("connectable", "invalid"),
        Write("connection", "own")>>
  BY Join2x2 DEF IntegrationCalls
<1>2. IntegrationCalls.disconnect_integration = <<Find("integration"),
        Ask("integrations", "MANAGE_INTEGRATION", "nothing"), Find("connection"),
        Write("connection", "own")>>
  BY Join2x2 DEF IntegrationCalls
<1>3. IntegrationCalls.reconnect_integration = <<Find("integration"),
        Ask("integrations", "USE_INTEGRATION", "nothing"), Read("connection", "own")>>
  BY Add2 DEF IntegrationCalls
<1> QED
  BY <1>1, <1>2, <1>3

\* IntegrationCalls asks before it reads or writes.
LEMMA IntegrationCallsAreGuarded == \A e \in DOMAIN IntegrationCalls : Guarded(IntegrationCalls[e])
<1>1. Guarded(IntegrationCalls.connect_integration)
  BY IntegrationCallsSteps, Kinds, NewRowGrants, Guard3x1
<1>2. Guarded(IntegrationCalls.disconnect_integration)
  BY IntegrationCallsSteps, Kinds, NewRowGrants, Guard3x1
<1>3. Guarded(IntegrationCalls.reconnect_integration)
  BY IntegrationCallsSteps, Kinds, NewRowGrants, Guard2x1
<1> QED
  BY <1>1, <1>2, <1>3 DEF IntegrationCalls

\* A name is that of an entry of one of the tables, and has its value.
LEMMA TogetherHasTables ==
    ASSUME NEW tables, NEW e \in DOMAIN Together(tables)
    PROVE  \E t \in tables : e \in DOMAIN t /\ Together(tables)[e] = t[e]
<1>1. e \in UNION {DOMAIN t : t \in tables}
  BY DEF Together
<1>2. Together(tables)[e] = (CHOOSE t \in tables : e \in DOMAIN t)[e]
  BY <1>1 DEF Together
<1>3. (CHOOSE t \in tables : e \in DOMAIN t) \in {t \in tables : e \in DOMAIN t}
  BY <1>1
<1> QED
  BY <1>2, <1>3

\* A name is looked up in the table that has it.
LEMMA TogetherIs ==
    ASSUME NEW tables, NEW t \in tables, NEW e \in DOMAIN t, \A u \in tables : e \in DOMAIN u =>
            u = t
    PROVE  e \in DOMAIN Together(tables) /\ Together(tables)[e] = t[e]
<1>1. e \in DOMAIN Together(tables)
  BY DEF Together
<1> QED
  BY <1>1, TogetherHasTables

\* The names of the services' calls.
LEMMA CallNames ==
    /\ DOMAIN MemoryCalls = {"create_memory", "get_memory", "update_memory", "delete_memory"}
    /\ DOMAIN MemorySharing = {"list_memory_users", "list_memory_groups", "add_memory_user",
            "add_memory_group", "update_memory_user", "remove_memory_user", "remove_memory_group"}
    /\ DOMAIN DocumentCalls = {"upload_document", "list_documents", "get_document",
            "delete_document"}
    /\ DOMAIN LinkCalls = {"link_memory_to_thread", "unlink_memory_from_thread",
            "bulk_connect_memories", "list_thread_memories"}
    /\ DOMAIN SwitchCalls = {"toggle_memory_active", "disconnect_memory_from_thread"}
    /\ DOMAIN FileCalls = {"upload_first_file", "upload_thread_file", "list_thread_files",
            "get_thread_file", "delete_thread_file"}
    /\ DOMAIN StatusCalls = {"get_document_status", "get_task_status", "get_file_status"}
    /\ DOMAIN RetryCalls = {"retry_document", "retry_file"}
    /\ DOMAIN CancelCalls = {"cancel_document", "cancel_file"}
    /\ DOMAIN SourceCalls = {"get_chunk_content", "get_source_document", "get_source_file",
            "render_source_page"}
    /\ DOMAIN ThreadCalls = {"create_thread", "get_thread", "update_thread", "delete_thread"}
    /\ DOMAIN MessageCalls = {"rate_message", "delete_message", "restore_message"}
    /\ DOMAIN ThreadViews = {"thread_file_meta", "thread_sources"}
    /\ DOMAIN TraceCalls = {"thread_traces", "thread_token_usage", "message_traces",
            "message_token_usage"}
    /\ DOMAIN ThreadAgent = {"get_agent"}
    /\ DOMAIN History = {"history", "history_with_files"}
    /\ DOMAIN AsView = {"as_view", "as_view_with_files"}
    /\ DOMAIN AgentMemories = {"link_memories", "unlink_memories", "link_new_thread"}
    /\ DOMAIN AgentChecks = {"find_agent", "find_new_agent", "check_view", "check_admin",
            "check_chat", "run"}
    /\ DOMAIN AgentViews = {"get_agent_info", "get_integration_status"}
    /\ DOMAIN AgentSharing = {"list_agent_users", "list_agent_groups", "add_agent_user",
            "add_agent_group", "update_agent_user", "remove_agent_user", "remove_agent_group"}
    /\ DOMAIN RuntimeCalls = {"get_runtime_agent", "create_runtime_agent", "update_runtime_agent",
            "delete_runtime_agent"}
    /\ DOMAIN WorkflowRuns = {"run_workflow", "run_by_id", "resume_run"}
    /\ DOMAIN WorkflowCalls = {"create_workflow", "get_workflow", "update_workflow",
            "delete_workflow", "get_run"}
    /\ DOMAIN IntegrationCalls = {"connect_integration", "disconnect_integration",
            "reconnect_integration"}
<1>1. DOMAIN MemoryCalls = {"create_memory", "get_memory", "update_memory", "delete_memory"}
  BY DEF MemoryCalls
<1>2. DOMAIN MemorySharing = {"list_memory_users", "list_memory_groups", "add_memory_user",
        "add_memory_group", "update_memory_user", "remove_memory_user", "remove_memory_group"}
  BY DEF MemorySharing
<1>3. DOMAIN DocumentCalls = {"upload_document", "list_documents", "get_document",
        "delete_document"}
  BY DEF DocumentCalls
<1>4. DOMAIN LinkCalls = {"link_memory_to_thread", "unlink_memory_from_thread",
        "bulk_connect_memories", "list_thread_memories"}
  BY DEF LinkCalls
<1>5. DOMAIN SwitchCalls = {"toggle_memory_active", "disconnect_memory_from_thread"}
  BY DEF SwitchCalls
<1>6. DOMAIN FileCalls = {"upload_first_file", "upload_thread_file", "list_thread_files",
        "get_thread_file", "delete_thread_file"}
  BY DEF FileCalls
<1>7. DOMAIN StatusCalls = {"get_document_status", "get_task_status", "get_file_status"}
  BY DEF StatusCalls
<1>8. DOMAIN RetryCalls = {"retry_document", "retry_file"}
  BY DEF RetryCalls
<1>9. DOMAIN CancelCalls = {"cancel_document", "cancel_file"}
  BY DEF CancelCalls
<1>10. DOMAIN SourceCalls = {"get_chunk_content", "get_source_document", "get_source_file",
        "render_source_page"}
  BY DEF SourceCalls
<1>11. DOMAIN ThreadCalls = {"create_thread", "get_thread", "update_thread", "delete_thread"}
  BY DEF ThreadCalls
<1>12. DOMAIN MessageCalls = {"rate_message", "delete_message", "restore_message"}
  BY DEF MessageCalls
<1>13. DOMAIN ThreadViews = {"thread_file_meta", "thread_sources"}
  BY DEF ThreadViews
<1>14. DOMAIN TraceCalls = {"thread_traces", "thread_token_usage", "message_traces",
        "message_token_usage"}
  BY DEF TraceCalls
<1>15. DOMAIN ThreadAgent = {"get_agent"}
  BY DEF ThreadAgent
<1>16. DOMAIN History = {"history", "history_with_files"}
  BY DEF History
<1>17. DOMAIN AsView = {"as_view", "as_view_with_files"}
  BY DEF AsView
<1>18. DOMAIN AgentMemories = {"link_memories", "unlink_memories", "link_new_thread"}
  BY DEF AgentMemories
<1>19. DOMAIN AgentChecks = {"find_agent", "find_new_agent", "check_view", "check_admin",
        "check_chat", "run"}
  BY DEF AgentChecks
<1>20. DOMAIN AgentViews = {"get_agent_info", "get_integration_status"}
  BY DEF AgentViews
<1>21. DOMAIN AgentSharing = {"list_agent_users", "list_agent_groups", "add_agent_user",
        "add_agent_group", "update_agent_user", "remove_agent_user", "remove_agent_group"}
  BY DEF AgentSharing
<1>22. DOMAIN RuntimeCalls = {"get_runtime_agent", "create_runtime_agent", "update_runtime_agent",
        "delete_runtime_agent"}
  BY DEF RuntimeCalls
<1>23. DOMAIN WorkflowRuns = {"run_workflow", "run_by_id", "resume_run"}
  BY DEF WorkflowRuns
<1>24. DOMAIN WorkflowCalls = {"create_workflow", "get_workflow", "update_workflow",
        "delete_workflow", "get_run"}
  BY DEF WorkflowCalls
<1>25. DOMAIN IntegrationCalls = {"connect_integration", "disconnect_integration",
        "reconnect_integration"}
  BY DEF IntegrationCalls
<1> QED
  BY <1>1, <1>2, <1>3, <1>4, <1>5, <1>6, <1>7, <1>8, <1>9, <1>10, <1>11, <1>12, <1>13, <1>14,
          <1>15, <1>16, <1>17, <1>18, <1>19, <1>20, <1>21, <1>22, <1>23, <1>24, <1>25

\* What some calls of an endpoint leave to the others to ask.
Bare == {"link_memories", "unlink_memories", "link_new_thread", "run"}

\* Every other call is sound by itself.
LEMMA CallsAreGuarded ==
    ASSUME NEW e \in DOMAIN Calls \ Bare
    PROVE  Guarded(Calls[e])
<1>1. PICK t \in CallTables : e \in DOMAIN t /\ Calls[e] = t[e]
  BY TogetherHasTables DEF Calls
<1>2. CASE t = MemoryCalls
  BY <1>1, <1>2, MemoryCallsAreGuarded
<1>3. CASE t = MemorySharing
  BY <1>1, <1>3, MemorySharingAreGuarded
<1>4. CASE t = DocumentCalls
  BY <1>1, <1>4, DocumentCallsAreGuarded
<1>5. CASE t = LinkCalls
  BY <1>1, <1>5, LinkCallsAreGuarded
<1>6. CASE t = SwitchCalls
  BY <1>1, <1>6, SwitchCallsAreGuarded
<1>7. CASE t = FileCalls
  BY <1>1, <1>7, FileCallsAreGuarded
<1>8. CASE t = StatusCalls
  BY <1>1, <1>8, StatusCallsAreGuarded
<1>9. CASE t = RetryCalls
  BY <1>1, <1>9, RetryCallsAreGuarded
<1>10. CASE t = CancelCalls
  BY <1>1, <1>10, CancelCallsAreGuarded
<1>11. CASE t = SourceCalls
  BY <1>1, <1>11, SourceCallsAreGuarded
<1>12. CASE t = ThreadCalls
  BY <1>1, <1>12, ThreadCallsAreGuarded
<1>13. CASE t = MessageCalls
  BY <1>1, <1>13, MessageCallsAreGuarded
<1>14. CASE t = ThreadViews
  BY <1>1, <1>14, ThreadViewsAreGuarded
<1>15. CASE t = TraceCalls
  BY <1>1, <1>15, TraceCallsAreGuarded
<1>16. CASE t = ThreadAgent
  BY <1>1, <1>16, ThreadAgentAreGuarded
<1>17. CASE t = History
  BY <1>1, <1>17, HistoryAreGuarded
<1>18. CASE t = AsView
  BY <1>1, <1>18, AsViewAreGuarded
<1>19. CASE t = AgentMemories
  BY <1>1, <1>19, CallNames DEF Bare
<1>20. CASE t = AgentChecks
  BY <1>1, <1>20, AgentChecksAreGuarded DEF Bare
<1>21. CASE t = AgentViews
  BY <1>1, <1>21, AgentViewsAreGuarded
<1>22. CASE t = AgentSharing
  BY <1>1, <1>22, AgentSharingAreGuarded
<1>23. CASE t = RuntimeCalls
  BY <1>1, <1>23, RuntimeCallsAreGuarded
<1>24. CASE t = WorkflowRuns
  BY <1>1, <1>24, WorkflowRunsAreGuarded
<1>25. CASE t = WorkflowCalls
  BY <1>1, <1>25, WorkflowCallsAreGuarded
<1>26. CASE t = IntegrationCalls
  BY <1>1, <1>26, IntegrationCallsAreGuarded
<1> QED
  BY <1>1, <1>2, <1>3, <1>4, <1>5, <1>6, <1>7, <1>8, <1>9, <1>10, <1>11, <1>12, <1>13, <1>14,
          <1>15, <1>16, <1>17, <1>18, <1>19, <1>20, <1>21, <1>22, <1>23, <1>24, <1>25,
          <1>26 DEF CallTables

\* The steps of the calls that endpoints put together.
LEMMA CallSteps ==
    /\ Calls.create_thread = <<Find("agent"), Ask("thread", "CREATE_THREAD", "nothing"),
            Write("new_row", "own")>>
    /\ Calls.link_new_thread = <<Write("new_row", "own")>>
    /\ Calls.get_agent = <<Find("thread"), Ask("thread", "VIEW_THREAD", "thread"), Find("agent")>>
    /\ Calls.history = <<Ask("agent", "VIEW_THREAD", "keyword"), Find("thread"),
            Ask("thread", "VIEW_THREAD", "thread"), Read("thread", "read"), Read("agent", "read")>>
    /\ Calls.history_with_files = <<Ask("agent", "VIEW_THREAD", "keyword"), Find("thread"),
            Ask("thread", "VIEW_THREAD", "thread"), Find("thread"),
            Ask("thread", "VIEW_FILE", "thread"), Ask("agent", "VIEW_FILE", "keyword"),
            Read("thread", "read"), Read("agent", "read")>>
    /\ Calls.as_view = <<Ask("agent", "CHAT", "keyword"), Find("thread"),
            Ask("thread", "VIEW_THREAD", "thread"), Write("thread", "write"),
            Read("agent", "read")>>
    /\ Calls.as_view_with_files = <<Ask("agent", "CHAT", "keyword"), Find("thread"),
            Ask("thread", "VIEW_THREAD", "thread"), Find("thread"),
            Ask("thread", "VIEW_FILE", "thread"), Ask("agent", "VIEW_FILE", "keyword"),
            Write("thread", "write"), Read("agent", "read")>>
    /\ Calls.find_new_agent = <<Find("new_agent")>>
    /\ Calls.get_thread = <<Find("thread"), Ask("thread", "VIEW_THREAD", "thread"),
            Read("thread", "read")>>
    /\ Calls.unlink_memories = <<Write("thread", "manage")>>
    /\ Calls.update_thread = <<Find("thread"), Ask("thread", "UPDATE_THREAD", "thread"),
            Write("thread", "manage")>>
    /\ Calls.link_memories = <<Write("thread", "manage")>>
    /\ Calls.check_chat = <<Ask("agent", "CHAT", "nothing")>>
    /\ Calls.run = <<Read("agent", "read")>>
    /\ Calls.find_agent = <<Find("agent")>>
    /\ Calls.get_agent_info = <<Find("agent"), Ask("agent", "VIEW_AGENT", "agent"),
            Read("agent", "read")>>
    /\ Calls.check_view = <<Ask("agent", "VIEW_AGENT", "agent"), Read("agent", "read")>>
    /\ Calls.get_integration_status = <<Find("agent"), Ask("agent", "VIEW_AGENT", "agent"),
            Read("agent", "read")>>
    /\ Calls.check_admin = <<Ask("agent", "UPDATE_AGENT", "agent"), Write("agent", "manage")>>
<1>1. Calls.create_thread = <<Find("agent"), Ask("thread", "CREATE_THREAD", "nothing"),
        Write("new_row", "own")>>
  <2>1. \A u \in CallTables : "create_thread" \in DOMAIN u => u = ThreadCalls
    BY CallNames DEF CallTables
  <2>2. "create_thread" \in DOMAIN ThreadCalls /\ ThreadCalls \in CallTables
    BY CallNames DEF CallTables
  <2> QED
    BY <2>1, <2>2, TogetherIs, ThreadCallsSteps DEF Calls
<1>2. Calls.link_new_thread = <<Write("new_row", "own")>>
  <2>1. \A u \in CallTables : "link_new_thread" \in DOMAIN u => u = AgentMemories
    BY CallNames DEF CallTables
  <2>2. "link_new_thread" \in DOMAIN AgentMemories /\ AgentMemories \in CallTables
    BY CallNames DEF CallTables
  <2> QED
    BY <2>1, <2>2, TogetherIs, AgentMemoriesSteps DEF Calls
<1>3. Calls.get_agent = <<Find("thread"), Ask("thread", "VIEW_THREAD", "thread"), Find("agent")>>
  <2>1. \A u \in CallTables : "get_agent" \in DOMAIN u => u = ThreadAgent
    BY CallNames DEF CallTables
  <2>2. "get_agent" \in DOMAIN ThreadAgent /\ ThreadAgent \in CallTables
    BY CallNames DEF CallTables
  <2> QED
    BY <2>1, <2>2, TogetherIs, ThreadAgentSteps DEF Calls
<1>4. Calls.history = <<Ask("agent", "VIEW_THREAD", "keyword"), Find("thread"),
        Ask("thread", "VIEW_THREAD", "thread"), Read("thread", "read"), Read("agent", "read")>>
  <2>1. \A u \in CallTables : "history" \in DOMAIN u => u = History
    BY CallNames DEF CallTables
  <2>2. "history" \in DOMAIN History /\ History \in CallTables
    BY CallNames DEF CallTables
  <2> QED
    BY <2>1, <2>2, TogetherIs, HistorySteps DEF Calls
<1>5. Calls.history_with_files = <<Ask("agent", "VIEW_THREAD", "keyword"), Find("thread"),
        Ask("thread", "VIEW_THREAD", "thread"), Find("thread"),
        Ask("thread", "VIEW_FILE", "thread"), Ask("agent", "VIEW_FILE", "keyword"),
        Read("thread", "read"), Read("agent", "read")>>
  <2>1. \A u \in CallTables : "history_with_files" \in DOMAIN u => u = History
    BY CallNames DEF CallTables
  <2>2. "history_with_files" \in DOMAIN History /\ History \in CallTables
    BY CallNames DEF CallTables
  <2> QED
    BY <2>1, <2>2, TogetherIs, HistorySteps DEF Calls
<1>6. Calls.as_view = <<Ask("agent", "CHAT", "keyword"), Find("thread"),
        Ask("thread", "VIEW_THREAD", "thread"), Write("thread", "write"), Read("agent", "read")>>
  <2>1. \A u \in CallTables : "as_view" \in DOMAIN u => u = AsView
    BY CallNames DEF CallTables
  <2>2. "as_view" \in DOMAIN AsView /\ AsView \in CallTables
    BY CallNames DEF CallTables
  <2> QED
    BY <2>1, <2>2, TogetherIs, AsViewSteps DEF Calls
<1>7. Calls.as_view_with_files = <<Ask("agent", "CHAT", "keyword"), Find("thread"),
        Ask("thread", "VIEW_THREAD", "thread"), Find("thread"),
        Ask("thread", "VIEW_FILE", "thread"), Ask("agent", "VIEW_FILE", "keyword"),
        Write("thread", "write"), Read("agent", "read")>>
  <2>1. \A u \in CallTables : "as_view_with_files" \in DOMAIN u => u = AsView
    BY CallNames DEF CallTables
  <2>2. "as_view_with_files" \in DOMAIN AsView /\ AsView \in CallTables
    BY CallNames DEF CallTables
  <2> QED
    BY <2>1, <2>2, TogetherIs, AsViewSteps DEF Calls
<1>8. Calls.find_new_agent = <<Find("new_agent")>>
  <2>1. \A u \in CallTables : "find_new_agent" \in DOMAIN u => u = AgentChecks
    BY CallNames DEF CallTables
  <2>2. "find_new_agent" \in DOMAIN AgentChecks /\ AgentChecks \in CallTables
    BY CallNames DEF CallTables
  <2> QED
    BY <2>1, <2>2, TogetherIs, AgentChecksSteps DEF Calls
<1>9. Calls.get_thread = <<Find("thread"), Ask("thread", "VIEW_THREAD", "thread"),
        Read("thread", "read")>>
  <2>1. \A u \in CallTables : "get_thread" \in DOMAIN u => u = ThreadCalls
    BY CallNames DEF CallTables
  <2>2. "get_thread" \in DOMAIN ThreadCalls /\ ThreadCalls \in CallTables
    BY CallNames DEF CallTables
  <2> QED
    BY <2>1, <2>2, TogetherIs, ThreadCallsSteps DEF Calls
<1>10. Calls.unlink_memories = <<Write("thread", "manage")>>
  <2>1. \A u \in CallTables : "unlink_memories" \in DOMAIN u => u = AgentMemories
    BY CallNames DEF CallTables
  <2>2. "unlink_memories" \in DOMAIN AgentMemories /\ AgentMemories \in CallTables
    BY CallNames DEF CallTables
  <2> QED
    BY <2>1, <2>2, TogetherIs, AgentMemoriesSteps DEF Calls
<1>11. Calls.update_thread = <<Find("thread"), Ask("thread", "UPDATE_THREAD", "thread"),
        Write("thread", "manage")>>
  <2>1. \A u \in CallTables : "update_thread" \in DOMAIN u => u = ThreadCalls
    BY CallNames DEF CallTables
  <2>2. "update_thread" \in DOMAIN ThreadCalls /\ ThreadCalls \in CallTables
    BY CallNames DEF CallTables
  <2> QED
    BY <2>1, <2>2, TogetherIs, ThreadCallsSteps DEF Calls
<1>12. Calls.link_memories = <<Write("thread", "manage")>>
  <2>1. \A u \in CallTables : "link_memories" \in DOMAIN u => u = AgentMemories
    BY CallNames DEF CallTables
  <2>2. "link_memories" \in DOMAIN AgentMemories /\ AgentMemories \in CallTables
    BY CallNames DEF CallTables
  <2> QED
    BY <2>1, <2>2, TogetherIs, AgentMemoriesSteps DEF Calls
<1>13. Calls.check_chat = <<Ask("agent", "CHAT", "nothing")>>
  <2>1. \A u \in CallTables : "check_chat" \in DOMAIN u => u = AgentChecks
    BY CallNames DEF CallTables
  <2>2. "check_chat" \in DOMAIN AgentChecks /\ AgentChecks \in CallTables
    BY CallNames DEF CallTables
  <2> QED
    BY <2>1, <2>2, TogetherIs, AgentChecksSteps DEF Calls
<1>14. Calls.run = <<Read("agent", "read")>>
  <2>1. \A u \in CallTables : "run" \in DOMAIN u => u = AgentChecks
    BY CallNames DEF CallTables
  <2>2. "run" \in DOMAIN AgentChecks /\ AgentChecks \in CallTables
    BY CallNames DEF CallTables
  <2> QED
    BY <2>1, <2>2, TogetherIs, AgentChecksSteps DEF Calls
<1>15. Calls.find_agent = <<Find("agent")>>
  <2>1. \A u \in CallTables : "find_agent" \in DOMAIN u => u = AgentChecks
    BY CallNames DEF CallTables
  <2>2. "find_agent" \in DOMAIN AgentChecks /\ AgentChecks \in CallTables
    BY CallNames DEF CallTables
  <2> QED
    BY <2>1, <2>2, TogetherIs, AgentChecksSteps DEF Calls
<1>16. Calls.get_agent_info = <<Find("agent"), Ask("agent", "VIEW_AGENT", "agent"),
        Read("agent", "read")>>
  <2>1. \A u \in CallTables : "get_agent_info" \in DOMAIN u => u = AgentViews
    BY CallNames DEF CallTables
  <2>2. "get_agent_info" \in DOMAIN AgentViews /\ AgentViews \in CallTables
    BY CallNames DEF CallTables
  <2> QED
    BY <2>1, <2>2, TogetherIs, AgentViewsSteps DEF Calls
<1>17. Calls.check_view = <<Ask("agent", "VIEW_AGENT", "agent"), Read("agent", "read")>>
  <2>1. \A u \in CallTables : "check_view" \in DOMAIN u => u = AgentChecks
    BY CallNames DEF CallTables
  <2>2. "check_view" \in DOMAIN AgentChecks /\ AgentChecks \in CallTables
    BY CallNames DEF CallTables
  <2> QED
    BY <2>1, <2>2, TogetherIs, AgentChecksSteps DEF Calls
<1>18. Calls.get_integration_status = <<Find("agent"), Ask("agent", "VIEW_AGENT", "agent"),
        Read("agent", "read")>>
  <2>1. \A u \in CallTables : "get_integration_status" \in DOMAIN u => u = AgentViews
    BY CallNames DEF CallTables
  <2>2. "get_integration_status" \in DOMAIN AgentViews /\ AgentViews \in CallTables
    BY CallNames DEF CallTables
  <2> QED
    BY <2>1, <2>2, TogetherIs, AgentViewsSteps DEF Calls
<1>19. Calls.check_admin = <<Ask("agent", "UPDATE_AGENT", "agent"), Write("agent", "manage")>>
  <2>1. \A u \in CallTables : "check_admin" \in DOMAIN u => u = AgentChecks
    BY CallNames DEF CallTables
  <2>2. "check_admin" \in DOMAIN AgentChecks /\ AgentChecks \in CallTables
    BY CallNames DEF CallTables
  <2> QED
    BY <2>1, <2>2, TogetherIs, AgentChecksSteps DEF Calls
<1> QED
  BY <1>1, <1>2, <1>3, <1>4, <1>5, <1>6, <1>7, <1>8, <1>9, <1>10, <1>11, <1>12, <1>13, <1>14,
          <1>15, <1>16, <1>17, <1>18, <1>19

\* One sequence after another.
Followed(s, t) == s \o t

\* Up to six sequences, one after another.
LEMMA Flattened ==
    ASSUME NEW s, NEW n \in 1..6, Len(s) = n
    PROVE  /\ n = 1 => FlattenSeq(s) = s[1]
           /\ n = 2 => FlattenSeq(s) = Followed(s[1], s[2])
           /\ n = 3 => FlattenSeq(s) = Followed(Followed(s[1], s[2]), s[3])
           /\ n = 5 => FlattenSeq(s) = Followed(Followed(Followed(Followed(s[1], s[2]), s[3]),
                   s[4]), s[5])
           /\ n = 6 => FlattenSeq(s) = Followed(Followed(Followed(Followed(Followed(s[1], s[2]),
                   s[3]), s[4]), s[5]), s[6])
<1> DEFINE Joining(g) == g = [i \in 1..n |-> IF i = 1 THEN s[i] ELSE Followed(g[i - 1], s[i])]
           flat == CHOOSE g : Joining(g)
<1>1. \E g : Joining(g)
  <2>1. PICK b : b = Followed(s[1], s[2])
    OBVIOUS
  <2>2. PICK c : c = Followed(b, s[3])
    OBVIOUS
  <2>3. PICK d : d = Followed(c, s[4])
    OBVIOUS
  <2>4. PICK e : e = Followed(d, s[5])
    OBVIOUS
  <2>5. PICK f : f = Followed(e, s[6])
    OBVIOUS
  <2> DEFINE u == <<s[1], b, c, d, e, f>>
             whole == [i \in 1..n |-> u[i]]
  <2>6. \A i \in 1..n : i = 1 \/ i = 2 \/ i = 3 \/ i = 4 \/ i = 5 \/ i = 6
    OBVIOUS
  <2>7. ASSUME NEW i \in 1..n, i # 1 PROVE u[i] = Followed(u[i - 1], s[i])
    BY <2>1, <2>2, <2>3, <2>4, <2>5, <2>6, <2>7
  <2>8. u[1] = s[1]
    OBVIOUS
  <2> HIDE DEF u
  <2>9. ASSUME NEW i \in 1..n PROVE whole[i] = IF i = 1 THEN s[i] ELSE Followed(whole[i - 1], s[i])
    <3>1. CASE i = 1
      BY <2>8, <3>1
    <3>2. CASE i # 1
      <4>1. i - 1 \in 1..n
        BY <3>2
      <4>2. whole[i - 1] = u[i - 1] /\ whole[i] = u[i]
        BY <4>1
      <4> QED
        BY <2>7, <3>2, <4>2
    <3> QED
      BY <3>1, <3>2
  <2>10. Joining(whole)
    BY <2>9
  <2> QED
    BY <2>10
<1>2. Joining(flat)
  <2> HIDE DEF Joining
  <2> QED
    BY <1>1
<1>3. FlattenSeq(s) = flat[n]
  BY DEF FlattenSeq, Followed
<1> HIDE DEF flat
<1>4. flat[1] = s[1] /\ \A i \in 2..n : flat[i] = Followed(flat[i - 1], s[i])
  <2>1. flat = [i \in 1..n |-> IF i = 1 THEN s[i] ELSE Followed(flat[i - 1], s[i])]
    BY <1>2
  <2>2. \A i \in 1..n : flat[i] = IF i = 1 THEN s[i] ELSE Followed(flat[i - 1], s[i])
    <3>1. flat = [i \in 1..n |-> IF i = 1 THEN s[i] ELSE Followed(flat[i - 1], s[i])] =>
            \A i \in 1..n : flat[i] = IF i = 1 THEN s[i] ELSE Followed(flat[i - 1], s[i])
      BY ZenonT(30)
    <3> QED
      BY <2>1, <3>1
  <2> QED
    BY <2>2
<1> HIDE DEF Is
<1>5. n >= 2 => flat[2] = Followed(flat[1], s[2])
  BY <1>4
<1>6. n >= 3 => flat[3] = Followed(flat[2], s[3])
  BY <1>4
<1>7. n >= 4 => flat[4] = Followed(flat[3], s[4])
  BY <1>4
<1>8. n >= 5 => flat[5] = Followed(flat[4], s[5])
  BY <1>4
<1>9. n >= 6 => flat[6] = Followed(flat[5], s[6])
  BY <1>4
<1> QED
  BY <1>3, <1>4, <1>5, <1>6, <1>7, <1>8, <1>9

\* The steps of an endpoint's calls.
LEMMA StepsOfCalls ==
    /\ \A a :
          StepsOf(<<a>>) = Calls[a]
    /\ \A a, b :
          StepsOf(<<a, b>>) = Followed(Calls[a], Calls[b])
    /\ \A a, b, c :
          StepsOf(<<a, b, c>>) = Followed(Followed(Calls[a], Calls[b]), Calls[c])
    /\ \A a, b, c, d, e :
          StepsOf(<<a, b, c, d,
                  e>>) = Followed(Followed(Followed(Followed(Calls[a], Calls[b]), Calls[c]),
                  Calls[d]), Calls[e])
    /\ \A a, b, c, d, e, f :
          StepsOf(<<a, b, c, d, e,
                  f>>) = Followed(Followed(Followed(Followed(Followed(Calls[a], Calls[b]),
                  Calls[c]), Calls[d]), Calls[e]), Calls[f])
<1> DEFINE steps(calls) == [i \in DOMAIN calls |-> Calls[calls[i]]]
<1>1. ASSUME NEW a
      PROVE  StepsOf(<<a>>) = Calls[a]
  <2>1. Len(steps(<<a>>)) = 1 /\ steps(<<a>>)[1] = Calls[a]
    OBVIOUS
  <2>2. StepsOf(<<a>>) = FlattenSeq(steps(<<a>>))
    BY DEF StepsOf
  <2> HIDE DEF steps
  <2>3. 1 \in 1..6
    OBVIOUS
  <2>4. FlattenSeq(steps(<<a>>)) = Calls[a]
    BY <2>1, <2>3, Flattened
  <2> QED
    BY <2>2, <2>4
<1>2. ASSUME NEW a, NEW b
      PROVE  StepsOf(<<a, b>>) = Followed(Calls[a], Calls[b])
  <2>1. Len(steps(<<a, b>>)) = 2 /\ steps(<<a, b>>)[1] = Calls[a] /\ steps(<<a, b>>)[2] = Calls[b]
    OBVIOUS
  <2>2. StepsOf(<<a, b>>) = FlattenSeq(steps(<<a, b>>))
    BY DEF StepsOf
  <2> HIDE DEF steps
  <2>3. 2 \in 1..6
    OBVIOUS
  <2>4. FlattenSeq(steps(<<a, b>>)) = Followed(Calls[a], Calls[b])
    BY <2>1, <2>3, Flattened
  <2> QED
    BY <2>2, <2>4
<1>3. ASSUME NEW a, NEW b, NEW c
      PROVE  StepsOf(<<a, b, c>>) = Followed(Followed(Calls[a], Calls[b]), Calls[c])
  <2>1. Len(steps(<<a, b, c>>)) = 3 /\ steps(<<a, b, c>>)[1] = Calls[a] /\ steps(<<a, b,
          c>>)[2] = Calls[b] /\ steps(<<a, b, c>>)[3] = Calls[c]
    OBVIOUS
  <2>2. StepsOf(<<a, b, c>>) = FlattenSeq(steps(<<a, b, c>>))
    BY DEF StepsOf
  <2> HIDE DEF steps
  <2>3. 3 \in 1..6
    OBVIOUS
  <2>4. FlattenSeq(steps(<<a, b, c>>)) = Followed(Followed(Calls[a], Calls[b]), Calls[c])
    BY <2>1, <2>3, Flattened
  <2> QED
    BY <2>2, <2>4
<1>4. ASSUME NEW a, NEW b, NEW c, NEW d, NEW e
      PROVE  StepsOf(<<a, b, c, d,
              e>>) = Followed(Followed(Followed(Followed(Calls[a], Calls[b]), Calls[c]),
              Calls[d]), Calls[e])
  <2>1. Len(steps(<<a, b, c, d, e>>)) = 5 /\ steps(<<a, b, c, d, e>>)[1] = Calls[a] /\ steps(<<a,
          b, c, d, e>>)[2] = Calls[b] /\ steps(<<a, b, c, d, e>>)[3] = Calls[c] /\ steps(<<a, b,
          c, d, e>>)[4] = Calls[d] /\ steps(<<a, b, c, d, e>>)[5] = Calls[e]
    OBVIOUS
  <2>2. StepsOf(<<a, b, c, d, e>>) = FlattenSeq(steps(<<a, b, c, d, e>>))
    BY DEF StepsOf
  <2> HIDE DEF steps
  <2>3. 5 \in 1..6
    OBVIOUS
  <2>4. FlattenSeq(steps(<<a, b, c, d,
          e>>)) = Followed(Followed(Followed(Followed(Calls[a], Calls[b]), Calls[c]), Calls[d]),
          Calls[e])
    BY <2>1, <2>3, Flattened
  <2> QED
    BY <2>2, <2>4
<1>5. ASSUME NEW a, NEW b, NEW c, NEW d, NEW e, NEW f
      PROVE  StepsOf(<<a, b, c, d, e,
              f>>) = Followed(Followed(Followed(Followed(Followed(Calls[a], Calls[b]), Calls[c]),
              Calls[d]), Calls[e]), Calls[f])
  <2>1. Len(steps(<<a, b, c, d, e, f>>)) = 6 /\ steps(<<a, b, c, d, e,
          f>>)[1] = Calls[a] /\ steps(<<a, b, c, d, e, f>>)[2] = Calls[b] /\ steps(<<a, b, c, d,
          e, f>>)[3] = Calls[c] /\ steps(<<a, b, c, d, e, f>>)[4] = Calls[d] /\ steps(<<a, b, c,
          d, e, f>>)[5] = Calls[e] /\ steps(<<a, b, c, d, e, f>>)[6] = Calls[f]
    OBVIOUS
  <2>2. StepsOf(<<a, b, c, d, e, f>>) = FlattenSeq(steps(<<a, b, c, d, e, f>>))
    BY DEF StepsOf
  <2> HIDE DEF steps
  <2>3. 6 \in 1..6
    OBVIOUS
  <2>4. FlattenSeq(steps(<<a, b, c, d, e,
          f>>)) = Followed(Followed(Followed(Followed(Followed(Calls[a], Calls[b]), Calls[c]),
          Calls[d]), Calls[e]), Calls[f])
    BY <2>1, <2>3, Flattened
  <2> QED
    BY <2>2, <2>4
<1> QED
  BY <1>1, <1>2, <1>3, <1>4, <1>5

\* One and one.
LEMMA Join1x1 ==
    ASSUME NEW a, NEW b
    PROVE  <<a>> \o <<b>> = <<a, b>>
<1> DEFINE T == {a, b}
<1>1. <<a>> \in Seq(T) /\ <<b>> \in Seq(T) /\ <<a, b>> \in Seq(T)
  OBVIOUS
<1>2. /\ <<a>> \o <<b>> \in Seq(T) /\ Len(<<a>> \o <<b>>) = 2
      /\ \A i \in 1..2 : (<<a>> \o <<b>>)[i] = <<a, b>>[i]
  BY <1>1, ConcatProperties
<1> QED
  BY <1>1, <1>2, SeqEqual

\* Three and five.
LEMMA Join3x5 ==
    ASSUME NEW a, NEW b, NEW c, NEW d, NEW e, NEW f, NEW g, NEW h
    PROVE  <<a, b, c>> \o <<d, e, f, g, h>> = <<a, b, c, d, e, f, g, h>>
<1> DEFINE T == {a, b, c, d, e, f, g, h}
<1>1. <<a, b, c>> \in Seq(T) /\ <<d, e, f, g, h>> \in Seq(T) /\ <<a, b, c, d, e, f, g,
        h>> \in Seq(T)
  OBVIOUS
<1>2. /\ <<a, b, c>> \o <<d, e, f, g, h>> \in Seq(T) /\ Len(<<a, b, c>> \o <<d, e, f, g, h>>) = 8
      /\ \A i \in 1..8 : (<<a, b, c>> \o <<d, e, f, g, h>>)[i] = <<a, b, c, d, e, f, g, h>>[i]
  BY <1>1, ConcatProperties
<1> QED
  BY <1>1, <1>2, SeqEqual

\* Three and eight.
LEMMA Join3x8 ==
    ASSUME NEW a, NEW b, NEW c, NEW d, NEW e, NEW f, NEW g, NEW h, NEW j, NEW k, NEW l
    PROVE  <<a, b, c>> \o <<d, e, f, g, h, j, k, l>> = <<a, b, c, d, e, f, g, h, j, k, l>>
<1> DEFINE T == {a, b, c, d, e, f, g, h, j, k, l}
<1>1. <<a, b, c>> \in Seq(T) /\ <<d, e, f, g, h, j, k, l>> \in Seq(T) /\ <<a, b, c, d, e, f, g, h,
        j, k, l>> \in Seq(T)
  OBVIOUS
<1>2. /\ <<a, b, c>> \o <<d, e, f, g, h, j, k,
        l>> \in Seq(T) /\ Len(<<a, b, c>> \o <<d, e, f, g, h, j, k, l>>) = 11
      /\ \A i \in 1..11 :
              (<<a, b, c>> \o <<d, e, f, g, h, j, k, l>>)[i] = <<a, b, c, d, e, f, g, h, j, k,
              l>>[i]
  BY <1>1, ConcatProperties
<1> QED
  BY <1>1, <1>2, SeqEqual

\* Five and three.
LEMMA Join5x3 ==
    ASSUME NEW a, NEW b, NEW c, NEW d, NEW e, NEW f, NEW g, NEW h
    PROVE  <<a, b, c, d, e>> \o <<f, g, h>> = <<a, b, c, d, e, f, g, h>>
<1> DEFINE T == {a, b, c, d, e, f, g, h}
<1>1. <<a, b, c, d, e>> \in Seq(T) /\ <<f, g, h>> \in Seq(T) /\ <<a, b, c, d, e, f, g,
        h>> \in Seq(T)
  OBVIOUS
<1>2. /\ <<a, b, c, d, e>> \o <<f, g, h>> \in Seq(T) /\ Len(<<a, b, c, d, e>> \o <<f, g, h>>) = 8
      /\ \A i \in 1..8 : (<<a, b, c, d, e>> \o <<f, g, h>>)[i] = <<a, b, c, d, e, f, g, h>>[i]
  BY <1>1, ConcatProperties
<1> QED
  BY <1>1, <1>2, SeqEqual

\* Eight and one.
LEMMA Join8x1 ==
    ASSUME NEW a, NEW b, NEW c, NEW d, NEW e, NEW f, NEW g, NEW h, NEW j
    PROVE  <<a, b, c, d, e, f, g, h>> \o <<j>> = <<a, b, c, d, e, f, g, h, j>>
<1> DEFINE T == {a, b, c, d, e, f, g, h, j}
<1>1. <<a, b, c, d, e, f, g, h>> \in Seq(T) /\ <<j>> \in Seq(T) /\ <<a, b, c, d, e, f, g, h,
        j>> \in Seq(T)
  OBVIOUS
<1>2. /\ <<a, b, c, d, e, f, g,
        h>> \o <<j>> \in Seq(T) /\ Len(<<a, b, c, d, e, f, g, h>> \o <<j>>) = 9
      /\ \A i \in 1..9 : (<<a, b, c, d, e, f, g, h>> \o <<j>>)[i] = <<a, b, c, d, e, f, g, h, j>>[i]
  BY <1>1, ConcatProperties
<1> QED
  BY <1>1, <1>2, SeqEqual

\* Nine and three.
LEMMA Join9x3 ==
    ASSUME NEW a, NEW b, NEW c, NEW d, NEW e, NEW f, NEW g, NEW h, NEW j, NEW k, NEW l, NEW m
    PROVE  <<a, b, c, d, e, f, g, h, j>> \o <<k, l, m>> = <<a, b, c, d, e, f, g, h, j, k, l, m>>
<1> DEFINE T == {a, b, c, d, e, f, g, h, j, k, l, m}
<1>1. <<a, b, c, d, e, f, g, h, j>> \in Seq(T) /\ <<k, l, m>> \in Seq(T) /\ <<a, b, c, d, e, f, g,
        h, j, k, l, m>> \in Seq(T)
  OBVIOUS
<1>2. /\ <<a, b, c, d, e, f, g, h, j>> \o <<k, l,
        m>> \in Seq(T) /\ Len(<<a, b, c, d, e, f, g, h, j>> \o <<k, l, m>>) = 12
      /\ \A i \in 1..12 :
              (<<a, b, c, d, e, f, g, h, j>> \o <<k, l, m>>)[i] = <<a, b, c, d, e, f, g, h, j, k,
              l, m>>[i]
  BY <1>1, ConcatProperties
<1> QED
  BY <1>1, <1>2, SeqEqual

\* Steps that can fail, two, and then what they grant.
LEMMA Guard2x2 ==
    ASSUME NEW a, NEW b, NEW r, NEW s,
           ~IsEffect(a), ~IsEffect(b),
           IsEffect(r), IsEffect(s),
           Grants(a, r) \/ Grants(b, r),
           Grants(a, s) \/ Grants(b, s)
    PROVE  Guarded(<<a, b, r, s>>)
<1>1. DOMAIN <<a, b, r, s>> = 1..4
  OBVIOUS
<1> QED
  BY <1>1 DEF Guarded, IsEffect

\* Steps that can fail, nine, and then what they grant.
LEMMA Guard9x2 ==
    ASSUME NEW a, NEW b, NEW c, NEW d, NEW e, NEW f, NEW g, NEW h, NEW j, NEW r, NEW s,
           ~IsEffect(a), ~IsEffect(b), ~IsEffect(c), ~IsEffect(d), ~IsEffect(e), ~IsEffect(f),
                   ~IsEffect(g), ~IsEffect(h), ~IsEffect(j),
           IsEffect(r), IsEffect(s),
           Grants(a, r) \/ Grants(b, r) \/ Grants(c, r) \/ Grants(d, r) \/ Grants(e,
                   r) \/ Grants(f, r) \/ Grants(g, r) \/ Grants(h, r) \/ Grants(j, r),
           Grants(a, s) \/ Grants(b, s) \/ Grants(c, s) \/ Grants(d, s) \/ Grants(e,
                   s) \/ Grants(f, s) \/ Grants(g, s) \/ Grants(h, s) \/ Grants(j, s)
    PROVE  Guarded(<<a, b, c, d, e, f, g, h, j, r, s>>)
<1>1. DOMAIN <<a, b, c, d, e, f, g, h, j, r, s>> = 1..11
  OBVIOUS
<1> QED
  BY <1>1 DEF Guarded, IsEffect

\* What is read twice is asked about twice.
LEMMA GuardTools ==
    ASSUME NEW a, NEW b, NEW r, ~IsEffect(a), ~IsEffect(b), IsEffect(r), r.do # "write",
            Grants(b, r)
    PROVE  Guarded(<<a, b, r, a, b, r>>)
<1>1. DOMAIN <<a, b, r, a, b, r>> = 1..6
  OBVIOUS
<1> QED
  BY <1>1 DEF Guarded, IsEffect

\* Renaming asks to see the thread and then to change it.
LEMMA GuardRename ==
    ASSUME NEW b, NEW c, NEW d, NEW r, NEW x, ~IsEffect(b), ~IsEffect(c), ~IsEffect(d),
           IsEffect(r), r.do # "write", IsEffect(x), Grants(c, r), Grants(c, x), Grants(d, x)
    PROVE  Guarded(<<b, c, r, b, d, x>>) /\ Guarded(<<b, c, r, b, d, x, b, c, r>>)
<1>1. DOMAIN <<b, c, r, b, d, x>> = 1..6 /\ DOMAIN <<b, c, r, b, d, x, b, c, r>> = 1..9
  OBVIOUS
<1>2. Again(b, b) /\ Again(c, c)
  BY DEF Again
<1>3. Guarded(<<b, c, r, b, d, x>>)
  BY <1>1 DEF Guarded, IsEffect
<1>4. Guarded(<<b, c, r, b, d, x, b, c, r>>)
  BY <1>1, <1>2 DEF Guarded, IsEffect
<1> QED
  BY <1>3, <1>4

\* Moving asks to see the thread and then to change it, and is done in three writes.
LEMMA GuardSwitch ==
    ASSUME NEW a, NEW b, NEW c, NEW d, NEW r, NEW x,
           ~IsEffect(a), ~IsEffect(b), ~IsEffect(c), ~IsEffect(d),
           IsEffect(r), r.do # "write", IsEffect(x), Grants(c, r), Grants(c, x), Again(c, d)
    PROVE  Guarded(<<a, b, c, r, x, b, d, x, x>>) /\ Guarded(<<a, b, c, r, x, b, d, x, x, b, c, r>>)
<1>1. DOMAIN <<a, b, c, r, x, b, d, x, x>> = 1..9 /\ DOMAIN <<a, b, c, r, x, b, d, x, x, b, c,
        r>> = 1..12
  OBVIOUS
<1>2. Again(b, b) /\ Again(c, c)
  BY DEF Again
<1>3. Guarded(<<a, b, c, r, x, b, d, x, x>>)
  BY <1>1, <1>2 DEF Guarded, IsEffect
<1>4. Guarded(<<a, b, c, r, x, b, d, x, x, b, c, r>>)
  BY <1>1, <1>2 DEF Guarded, IsEffect
<1> QED
  BY <1>3, <1>4

\* The steps of the endpoints that make several calls.
LEMMA ComposedSteps ==
    /\ StepsOf(<<"create_thread", "link_new_thread">>) =
          <<Find("agent"), Ask("thread", "CREATE_THREAD", "nothing"), Write("new_row", "own"),
                  Write("new_row", "own")>>
    /\ StepsOf(<<"get_agent", "history">>) =
          <<Find("thread"), Ask("thread", "VIEW_THREAD", "thread"), Find("agent"),
                  Ask("agent", "VIEW_THREAD", "keyword"), Find("thread"),
                  Ask("thread", "VIEW_THREAD", "thread"), Read("thread", "read"),
                  Read("agent", "read")>>
    /\ StepsOf(<<"get_agent", "history_with_files">>) =
          <<Find("thread"), Ask("thread", "VIEW_THREAD", "thread"), Find("agent"),
                  Ask("agent", "VIEW_THREAD", "keyword"), Find("thread"),
                  Ask("thread", "VIEW_THREAD", "thread"), Find("thread"),
                  Ask("thread", "VIEW_FILE", "thread"), Ask("agent", "VIEW_FILE", "keyword"),
                  Read("thread", "read"), Read("agent", "read")>>
    /\ StepsOf(<<"get_agent", "as_view">>) =
          <<Find("thread"), Ask("thread", "VIEW_THREAD", "thread"), Find("agent"),
                  Ask("agent", "CHAT", "keyword"), Find("thread"),
                  Ask("thread", "VIEW_THREAD", "thread"), Write("thread", "write"),
                  Read("agent", "read")>>
    /\ StepsOf(<<"get_agent", "as_view_with_files">>) =
          <<Find("thread"), Ask("thread", "VIEW_THREAD", "thread"), Find("agent"),
                  Ask("agent", "CHAT", "keyword"), Find("thread"),
                  Ask("thread", "VIEW_THREAD", "thread"), Find("thread"),
                  Ask("thread", "VIEW_FILE", "thread"), Ask("agent", "VIEW_FILE", "keyword"),
                  Write("thread", "write"), Read("agent", "read")>>
    /\ StepsOf(<<"get_agent", "check_chat", "run">>) =
          <<Find("thread"), Ask("thread", "VIEW_THREAD", "thread"), Find("agent"),
                  Ask("agent", "CHAT", "nothing"), Read("agent", "read")>>
    /\ StepsOf(<<"find_agent", "get_agent_info">>) =
          <<Find("agent"), Find("agent"), Ask("agent", "VIEW_AGENT", "agent"),
                  Read("agent", "read")>>
    /\ StepsOf(<<"find_agent", "check_view", "get_integration_status">>) =
          <<Find("agent"), Ask("agent", "VIEW_AGENT", "agent"), Read("agent", "read"),
                  Find("agent"), Ask("agent", "VIEW_AGENT", "agent"), Read("agent", "read")>>
    /\ StepsOf(<<"find_agent", "check_chat", "run">>) =
          <<Find("agent"), Ask("agent", "CHAT", "nothing"), Read("agent", "read")>>
    /\ StepsOf(<<"find_agent", "check_admin">>) =
          <<Find("agent"), Ask("agent", "UPDATE_AGENT", "agent"), Write("agent", "manage")>>
    /\ StepsOf(<<"find_new_agent", "get_thread", "unlink_memories", "update_thread",
            "link_memories">>) =
          <<Find("new_agent"), Find("thread"), Ask("thread", "VIEW_THREAD", "thread"),
                  Read("thread", "read"), Write("thread", "manage"), Find("thread"),
                  Ask("thread", "UPDATE_THREAD", "thread"), Write("thread", "manage"),
                  Write("thread", "manage")>>
    /\ StepsOf(<<"find_new_agent", "get_thread", "unlink_memories", "update_thread",
            "link_memories", "get_thread">>) =
          <<Find("new_agent"), Find("thread"), Ask("thread", "VIEW_THREAD", "thread"),
                  Read("thread", "read"), Write("thread", "manage"), Find("thread"),
                  Ask("thread", "UPDATE_THREAD", "thread"), Write("thread", "manage"),
                  Write("thread", "manage"), Find("thread"),
                  Ask("thread", "VIEW_THREAD", "thread"), Read("thread", "read")>>
    /\ StepsOf(<<"get_thread", "update_thread">>) =
          <<Find("thread"), Ask("thread", "VIEW_THREAD", "thread"), Read("thread", "read"),
                  Find("thread"), Ask("thread", "UPDATE_THREAD", "thread"),
                  Write("thread", "manage")>>
    /\ StepsOf(<<"get_thread", "update_thread", "get_thread">>) =
          <<Find("thread"), Ask("thread", "VIEW_THREAD", "thread"), Read("thread", "read"),
                  Find("thread"), Ask("thread", "UPDATE_THREAD", "thread"),
                  Write("thread", "manage"), Find("thread"),
                  Ask("thread", "VIEW_THREAD", "thread"), Read("thread", "read")>>
<1>1. StepsOf(<<"create_thread", "link_new_thread">>) =
          <<Find("agent"), Ask("thread", "CREATE_THREAD", "nothing"), Write("new_row", "own"),
                  Write("new_row", "own")>>
  <2>1. StepsOf(<<"create_thread", "link_new_thread">>) = Followed(Calls["create_thread"],
          Calls["link_new_thread"])
    BY StepsOfCalls
  <2>2. Followed(<<Find("agent"), Ask("thread", "CREATE_THREAD", "nothing"),
          Write("new_row", "own")>>, <<Write("new_row", "own")>>)
        = <<Find("agent"), Ask("thread", "CREATE_THREAD", "nothing"), Write("new_row", "own"),
                Write("new_row", "own")>>
    BY Join3x1 DEF Followed
  <2> QED
    BY <2>1, <2>2, CallSteps
<1>2. StepsOf(<<"get_agent", "history">>) =
          <<Find("thread"), Ask("thread", "VIEW_THREAD", "thread"), Find("agent"),
                  Ask("agent", "VIEW_THREAD", "keyword"), Find("thread"),
                  Ask("thread", "VIEW_THREAD", "thread"), Read("thread", "read"),
                  Read("agent", "read")>>
  <2>1. StepsOf(<<"get_agent", "history">>) = Followed(Calls["get_agent"], Calls["history"])
    BY StepsOfCalls
  <2>2. Followed(<<Find("thread"), Ask("thread", "VIEW_THREAD", "thread"), Find("agent")>>,
          <<Ask("agent", "VIEW_THREAD", "keyword"), Find("thread"),
          Ask("thread", "VIEW_THREAD", "thread"), Read("thread", "read"), Read("agent", "read")>>)
        = <<Find("thread"), Ask("thread", "VIEW_THREAD", "thread"), Find("agent"),
                Ask("agent", "VIEW_THREAD", "keyword"), Find("thread"),
                Ask("thread", "VIEW_THREAD", "thread"), Read("thread", "read"),
                Read("agent", "read")>>
    BY Join3x5 DEF Followed
  <2> QED
    BY <2>1, <2>2, CallSteps
<1>3. StepsOf(<<"get_agent", "history_with_files">>) =
          <<Find("thread"), Ask("thread", "VIEW_THREAD", "thread"), Find("agent"),
                  Ask("agent", "VIEW_THREAD", "keyword"), Find("thread"),
                  Ask("thread", "VIEW_THREAD", "thread"), Find("thread"),
                  Ask("thread", "VIEW_FILE", "thread"), Ask("agent", "VIEW_FILE", "keyword"),
                  Read("thread", "read"), Read("agent", "read")>>
  <2>1. StepsOf(<<"get_agent", "history_with_files">>) = Followed(Calls["get_agent"],
          Calls["history_with_files"])
    BY StepsOfCalls
  <2>2. Followed(<<Find("thread"), Ask("thread", "VIEW_THREAD", "thread"), Find("agent")>>,
          <<Ask("agent", "VIEW_THREAD", "keyword"), Find("thread"),
          Ask("thread", "VIEW_THREAD", "thread"), Find("thread"),
          Ask("thread", "VIEW_FILE", "thread"), Ask("agent", "VIEW_FILE", "keyword"),
          Read("thread", "read"), Read("agent", "read")>>)
        = <<Find("thread"), Ask("thread", "VIEW_THREAD", "thread"), Find("agent"),
                Ask("agent", "VIEW_THREAD", "keyword"), Find("thread"),
                Ask("thread", "VIEW_THREAD", "thread"), Find("thread"),
                Ask("thread", "VIEW_FILE", "thread"), Ask("agent", "VIEW_FILE", "keyword"),
                Read("thread", "read"), Read("agent", "read")>>
    BY Join3x8 DEF Followed
  <2> QED
    BY <2>1, <2>2, CallSteps
<1>4. StepsOf(<<"get_agent", "as_view">>) =
          <<Find("thread"), Ask("thread", "VIEW_THREAD", "thread"), Find("agent"),
                  Ask("agent", "CHAT", "keyword"), Find("thread"),
                  Ask("thread", "VIEW_THREAD", "thread"), Write("thread", "write"),
                  Read("agent", "read")>>
  <2>1. StepsOf(<<"get_agent", "as_view">>) = Followed(Calls["get_agent"], Calls["as_view"])
    BY StepsOfCalls
  <2>2. Followed(<<Find("thread"), Ask("thread", "VIEW_THREAD", "thread"), Find("agent")>>,
          <<Ask("agent", "CHAT", "keyword"), Find("thread"),
          Ask("thread", "VIEW_THREAD", "thread"), Write("thread", "write"), Read("agent", "read")>>)
        = <<Find("thread"), Ask("thread", "VIEW_THREAD", "thread"), Find("agent"),
                Ask("agent", "CHAT", "keyword"), Find("thread"),
                Ask("thread", "VIEW_THREAD", "thread"), Write("thread", "write"),
                Read("agent", "read")>>
    BY Join3x5 DEF Followed
  <2> QED
    BY <2>1, <2>2, CallSteps
<1>5. StepsOf(<<"get_agent", "as_view_with_files">>) =
          <<Find("thread"), Ask("thread", "VIEW_THREAD", "thread"), Find("agent"),
                  Ask("agent", "CHAT", "keyword"), Find("thread"),
                  Ask("thread", "VIEW_THREAD", "thread"), Find("thread"),
                  Ask("thread", "VIEW_FILE", "thread"), Ask("agent", "VIEW_FILE", "keyword"),
                  Write("thread", "write"), Read("agent", "read")>>
  <2>1. StepsOf(<<"get_agent", "as_view_with_files">>) = Followed(Calls["get_agent"],
          Calls["as_view_with_files"])
    BY StepsOfCalls
  <2>2. Followed(<<Find("thread"), Ask("thread", "VIEW_THREAD", "thread"), Find("agent")>>,
          <<Ask("agent", "CHAT", "keyword"), Find("thread"),
          Ask("thread", "VIEW_THREAD", "thread"), Find("thread"),
          Ask("thread", "VIEW_FILE", "thread"), Ask("agent", "VIEW_FILE", "keyword"),
          Write("thread", "write"), Read("agent", "read")>>)
        = <<Find("thread"), Ask("thread", "VIEW_THREAD", "thread"), Find("agent"),
                Ask("agent", "CHAT", "keyword"), Find("thread"),
                Ask("thread", "VIEW_THREAD", "thread"), Find("thread"),
                Ask("thread", "VIEW_FILE", "thread"), Ask("agent", "VIEW_FILE", "keyword"),
                Write("thread", "write"), Read("agent", "read")>>
    BY Join3x8 DEF Followed
  <2> QED
    BY <2>1, <2>2, CallSteps
<1>6. StepsOf(<<"get_agent", "check_chat", "run">>) =
          <<Find("thread"), Ask("thread", "VIEW_THREAD", "thread"), Find("agent"),
                  Ask("agent", "CHAT", "nothing"), Read("agent", "read")>>
  <2>1. StepsOf(<<"get_agent", "check_chat", "run">>) = Followed(Followed(Calls["get_agent"],
          Calls["check_chat"]), Calls["run"])
    BY StepsOfCalls
  <2>2. Followed(<<Find("thread"), Ask("thread", "VIEW_THREAD", "thread"), Find("agent")>>,
          <<Ask("agent", "CHAT", "nothing")>>)
        = <<Find("thread"), Ask("thread", "VIEW_THREAD", "thread"), Find("agent"),
                Ask("agent", "CHAT", "nothing")>>
    BY Join3x1 DEF Followed
  <2>3. Followed(<<Find("thread"), Ask("thread", "VIEW_THREAD", "thread"), Find("agent"),
          Ask("agent", "CHAT", "nothing")>>, <<Read("agent", "read")>>)
        = <<Find("thread"), Ask("thread", "VIEW_THREAD", "thread"), Find("agent"),
                Ask("agent", "CHAT", "nothing"), Read("agent", "read")>>
    BY Join4x1 DEF Followed
  <2> QED
    BY <2>1, <2>2, <2>3, CallSteps
<1>7. StepsOf(<<"find_agent", "get_agent_info">>) =
          <<Find("agent"), Find("agent"), Ask("agent", "VIEW_AGENT", "agent"),
                  Read("agent", "read")>>
  <2>1. StepsOf(<<"find_agent", "get_agent_info">>) = Followed(Calls["find_agent"],
          Calls["get_agent_info"])
    BY StepsOfCalls
  <2>2. Followed(<<Find("agent")>>,
          <<Find("agent"), Ask("agent", "VIEW_AGENT", "agent"), Read("agent", "read")>>)
        = <<Find("agent"), Find("agent"), Ask("agent", "VIEW_AGENT", "agent"),
                Read("agent", "read")>>
    BY Join1x3 DEF Followed
  <2> QED
    BY <2>1, <2>2, CallSteps
<1>8. StepsOf(<<"find_agent", "check_view", "get_integration_status">>) =
          <<Find("agent"), Ask("agent", "VIEW_AGENT", "agent"), Read("agent", "read"),
                  Find("agent"), Ask("agent", "VIEW_AGENT", "agent"), Read("agent", "read")>>
  <2>1. StepsOf(<<"find_agent", "check_view",
          "get_integration_status">>) = Followed(Followed(Calls["find_agent"],
          Calls["check_view"]), Calls["get_integration_status"])
    BY StepsOfCalls
  <2>2. Followed(<<Find("agent")>>, <<Ask("agent", "VIEW_AGENT", "agent"), Read("agent", "read")>>)
        = <<Find("agent"), Ask("agent", "VIEW_AGENT", "agent"), Read("agent", "read")>>
    BY Join1x2 DEF Followed
  <2>3. Followed(<<Find("agent"), Ask("agent", "VIEW_AGENT", "agent"), Read("agent", "read")>>,
          <<Find("agent"), Ask("agent", "VIEW_AGENT", "agent"), Read("agent", "read")>>)
        = <<Find("agent"), Ask("agent", "VIEW_AGENT", "agent"), Read("agent", "read"),
                Find("agent"), Ask("agent", "VIEW_AGENT", "agent"), Read("agent", "read")>>
    BY Join3x3 DEF Followed
  <2> QED
    BY <2>1, <2>2, <2>3, CallSteps
<1>9. StepsOf(<<"find_agent", "check_chat", "run">>) =
          <<Find("agent"), Ask("agent", "CHAT", "nothing"), Read("agent", "read")>>
  <2>1. StepsOf(<<"find_agent", "check_chat", "run">>) = Followed(Followed(Calls["find_agent"],
          Calls["check_chat"]), Calls["run"])
    BY StepsOfCalls
  <2>2. Followed(<<Find("agent")>>, <<Ask("agent", "CHAT", "nothing")>>)
        = <<Find("agent"), Ask("agent", "CHAT", "nothing")>>
    BY Join1x1 DEF Followed
  <2>3. Followed(<<Find("agent"), Ask("agent", "CHAT", "nothing")>>, <<Read("agent", "read")>>)
        = <<Find("agent"), Ask("agent", "CHAT", "nothing"), Read("agent", "read")>>
    BY Join2x1 DEF Followed
  <2> QED
    BY <2>1, <2>2, <2>3, CallSteps
<1>10. StepsOf(<<"find_agent", "check_admin">>) =
          <<Find("agent"), Ask("agent", "UPDATE_AGENT", "agent"), Write("agent", "manage")>>
  <2>1. StepsOf(<<"find_agent", "check_admin">>) = Followed(Calls["find_agent"],
          Calls["check_admin"])
    BY StepsOfCalls
  <2>2. Followed(<<Find("agent")>>,
          <<Ask("agent", "UPDATE_AGENT", "agent"), Write("agent", "manage")>>)
        = <<Find("agent"), Ask("agent", "UPDATE_AGENT", "agent"), Write("agent", "manage")>>
    BY Join1x2 DEF Followed
  <2> QED
    BY <2>1, <2>2, CallSteps
<1>11. StepsOf(<<"find_new_agent", "get_thread", "unlink_memories", "update_thread",
        "link_memories">>) =
          <<Find("new_agent"), Find("thread"), Ask("thread", "VIEW_THREAD", "thread"),
                  Read("thread", "read"), Write("thread", "manage"), Find("thread"),
                  Ask("thread", "UPDATE_THREAD", "thread"), Write("thread", "manage"),
                  Write("thread", "manage")>>
  <2>1. StepsOf(<<"find_new_agent", "get_thread", "unlink_memories", "update_thread",
          "link_memories">>) = Followed(Followed(Followed(Followed(Calls["find_new_agent"],
          Calls["get_thread"]), Calls["unlink_memories"]), Calls["update_thread"]),
          Calls["link_memories"])
    BY StepsOfCalls
  <2>2. Followed(<<Find("new_agent")>>,
          <<Find("thread"), Ask("thread", "VIEW_THREAD", "thread"), Read("thread", "read")>>)
        = <<Find("new_agent"), Find("thread"), Ask("thread", "VIEW_THREAD", "thread"),
                Read("thread", "read")>>
    BY Join1x3 DEF Followed
  <2>3. Followed(<<Find("new_agent"), Find("thread"), Ask("thread", "VIEW_THREAD", "thread"),
          Read("thread", "read")>>, <<Write("thread", "manage")>>)
        = <<Find("new_agent"), Find("thread"), Ask("thread", "VIEW_THREAD", "thread"),
                Read("thread", "read"), Write("thread", "manage")>>
    BY Join4x1 DEF Followed
  <2>4. Followed(<<Find("new_agent"), Find("thread"), Ask("thread", "VIEW_THREAD", "thread"),
          Read("thread", "read"), Write("thread", "manage")>>,
          <<Find("thread"), Ask("thread", "UPDATE_THREAD", "thread"), Write("thread", "manage")>>)
        = <<Find("new_agent"), Find("thread"), Ask("thread", "VIEW_THREAD", "thread"),
                Read("thread", "read"), Write("thread", "manage"), Find("thread"),
                Ask("thread", "UPDATE_THREAD", "thread"), Write("thread", "manage")>>
    BY Join5x3 DEF Followed
  <2>5. Followed(<<Find("new_agent"), Find("thread"), Ask("thread", "VIEW_THREAD", "thread"),
          Read("thread", "read"), Write("thread", "manage"), Find("thread"),
          Ask("thread", "UPDATE_THREAD", "thread"), Write("thread", "manage")>>,
          <<Write("thread", "manage")>>)
        = <<Find("new_agent"), Find("thread"), Ask("thread", "VIEW_THREAD", "thread"),
                Read("thread", "read"), Write("thread", "manage"), Find("thread"),
                Ask("thread", "UPDATE_THREAD", "thread"), Write("thread", "manage"),
                Write("thread", "manage")>>
    BY Join8x1 DEF Followed
  <2> QED
    BY <2>1, <2>2, <2>3, <2>4, <2>5, CallSteps
<1>12. StepsOf(<<"find_new_agent", "get_thread", "unlink_memories", "update_thread",
        "link_memories", "get_thread">>) =
          <<Find("new_agent"), Find("thread"), Ask("thread", "VIEW_THREAD", "thread"),
                  Read("thread", "read"), Write("thread", "manage"), Find("thread"),
                  Ask("thread", "UPDATE_THREAD", "thread"), Write("thread", "manage"),
                  Write("thread", "manage"), Find("thread"),
                  Ask("thread", "VIEW_THREAD", "thread"), Read("thread", "read")>>
  <2>1. StepsOf(<<"find_new_agent", "get_thread", "unlink_memories", "update_thread",
          "link_memories",
          "get_thread">>) = Followed(Followed(Followed(Followed(Followed(Calls["find_new_agent"],
          Calls["get_thread"]), Calls["unlink_memories"]), Calls["update_thread"]),
          Calls["link_memories"]), Calls["get_thread"])
    BY StepsOfCalls
  <2>2. Followed(<<Find("new_agent")>>,
          <<Find("thread"), Ask("thread", "VIEW_THREAD", "thread"), Read("thread", "read")>>)
        = <<Find("new_agent"), Find("thread"), Ask("thread", "VIEW_THREAD", "thread"),
                Read("thread", "read")>>
    BY Join1x3 DEF Followed
  <2>3. Followed(<<Find("new_agent"), Find("thread"), Ask("thread", "VIEW_THREAD", "thread"),
          Read("thread", "read")>>, <<Write("thread", "manage")>>)
        = <<Find("new_agent"), Find("thread"), Ask("thread", "VIEW_THREAD", "thread"),
                Read("thread", "read"), Write("thread", "manage")>>
    BY Join4x1 DEF Followed
  <2>4. Followed(<<Find("new_agent"), Find("thread"), Ask("thread", "VIEW_THREAD", "thread"),
          Read("thread", "read"), Write("thread", "manage")>>,
          <<Find("thread"), Ask("thread", "UPDATE_THREAD", "thread"), Write("thread", "manage")>>)
        = <<Find("new_agent"), Find("thread"), Ask("thread", "VIEW_THREAD", "thread"),
                Read("thread", "read"), Write("thread", "manage"), Find("thread"),
                Ask("thread", "UPDATE_THREAD", "thread"), Write("thread", "manage")>>
    BY Join5x3 DEF Followed
  <2>5. Followed(<<Find("new_agent"), Find("thread"), Ask("thread", "VIEW_THREAD", "thread"),
          Read("thread", "read"), Write("thread", "manage"), Find("thread"),
          Ask("thread", "UPDATE_THREAD", "thread"), Write("thread", "manage")>>,
          <<Write("thread", "manage")>>)
        = <<Find("new_agent"), Find("thread"), Ask("thread", "VIEW_THREAD", "thread"),
                Read("thread", "read"), Write("thread", "manage"), Find("thread"),
                Ask("thread", "UPDATE_THREAD", "thread"), Write("thread", "manage"),
                Write("thread", "manage")>>
    BY Join8x1 DEF Followed
  <2>6. Followed(<<Find("new_agent"), Find("thread"), Ask("thread", "VIEW_THREAD", "thread"),
          Read("thread", "read"), Write("thread", "manage"), Find("thread"),
          Ask("thread", "UPDATE_THREAD", "thread"), Write("thread", "manage"),
          Write("thread", "manage")>>,
          <<Find("thread"), Ask("thread", "VIEW_THREAD", "thread"), Read("thread", "read")>>)
        = <<Find("new_agent"), Find("thread"), Ask("thread", "VIEW_THREAD", "thread"),
                Read("thread", "read"), Write("thread", "manage"), Find("thread"),
                Ask("thread", "UPDATE_THREAD", "thread"), Write("thread", "manage"),
                Write("thread", "manage"), Find("thread"), Ask("thread", "VIEW_THREAD", "thread"),
                Read("thread", "read")>>
    BY Join9x3 DEF Followed
  <2> QED
    BY <2>1, <2>2, <2>3, <2>4, <2>5, <2>6, CallSteps
<1>13. StepsOf(<<"get_thread", "update_thread">>) =
          <<Find("thread"), Ask("thread", "VIEW_THREAD", "thread"), Read("thread", "read"),
                  Find("thread"), Ask("thread", "UPDATE_THREAD", "thread"),
                  Write("thread", "manage")>>
  <2>1. StepsOf(<<"get_thread", "update_thread">>) = Followed(Calls["get_thread"],
          Calls["update_thread"])
    BY StepsOfCalls
  <2>2. Followed(<<Find("thread"), Ask("thread", "VIEW_THREAD", "thread"),
          Read("thread", "read")>>,
          <<Find("thread"), Ask("thread", "UPDATE_THREAD", "thread"), Write("thread", "manage")>>)
        = <<Find("thread"), Ask("thread", "VIEW_THREAD", "thread"), Read("thread", "read"),
                Find("thread"), Ask("thread", "UPDATE_THREAD", "thread"),
                Write("thread", "manage")>>
    BY Join3x3 DEF Followed
  <2> QED
    BY <2>1, <2>2, CallSteps
<1>14. StepsOf(<<"get_thread", "update_thread", "get_thread">>) =
          <<Find("thread"), Ask("thread", "VIEW_THREAD", "thread"), Read("thread", "read"),
                  Find("thread"), Ask("thread", "UPDATE_THREAD", "thread"),
                  Write("thread", "manage"), Find("thread"),
                  Ask("thread", "VIEW_THREAD", "thread"), Read("thread", "read")>>
  <2>1. StepsOf(<<"get_thread", "update_thread",
          "get_thread">>) = Followed(Followed(Calls["get_thread"], Calls["update_thread"]),
          Calls["get_thread"])
    BY StepsOfCalls
  <2>2. Followed(<<Find("thread"), Ask("thread", "VIEW_THREAD", "thread"),
          Read("thread", "read")>>,
          <<Find("thread"), Ask("thread", "UPDATE_THREAD", "thread"), Write("thread", "manage")>>)
        = <<Find("thread"), Ask("thread", "VIEW_THREAD", "thread"), Read("thread", "read"),
                Find("thread"), Ask("thread", "UPDATE_THREAD", "thread"),
                Write("thread", "manage")>>
    BY Join3x3 DEF Followed
  <2>3. Followed(<<Find("thread"), Ask("thread", "VIEW_THREAD", "thread"), Read("thread", "read"),
          Find("thread"), Ask("thread", "UPDATE_THREAD", "thread"), Write("thread", "manage")>>,
          <<Find("thread"), Ask("thread", "VIEW_THREAD", "thread"), Read("thread", "read")>>)
        = <<Find("thread"), Ask("thread", "VIEW_THREAD", "thread"), Read("thread", "read"),
                Find("thread"), Ask("thread", "UPDATE_THREAD", "thread"),
                Write("thread", "manage"), Find("thread"), Ask("thread", "VIEW_THREAD", "thread"),
                Read("thread", "read")>>
    BY Join6x3 DEF Followed
  <2> QED
    BY <2>1, <2>2, <2>3, CallSteps
<1> QED
  BY <1>1, <1>2, <1>3, <1>4, <1>5, <1>6, <1>7, <1>8, <1>9, <1>10, <1>11, <1>12, <1>13, <1>14

\* The endpoints that make several calls.
LEMMA ComposedAreGuarded ==
    /\ Guarded(StepsOf(<<"create_thread", "link_new_thread">>))
    /\ Guarded(StepsOf(<<"get_agent", "history">>))
    /\ Guarded(StepsOf(<<"get_agent", "history_with_files">>))
    /\ Guarded(StepsOf(<<"get_agent", "as_view">>))
    /\ Guarded(StepsOf(<<"get_agent", "as_view_with_files">>))
    /\ Guarded(StepsOf(<<"get_agent", "check_chat", "run">>))
    /\ Guarded(StepsOf(<<"find_agent", "get_agent_info">>))
    /\ Guarded(StepsOf(<<"find_agent", "check_view", "get_integration_status">>))
    /\ Guarded(StepsOf(<<"find_agent", "check_chat", "run">>))
    /\ Guarded(StepsOf(<<"find_agent", "check_admin">>))
    /\ Guarded(StepsOf(<<"find_new_agent", "get_thread", "unlink_memories", "update_thread",
            "link_memories">>))
    /\ Guarded(StepsOf(<<"find_new_agent", "get_thread", "unlink_memories", "update_thread",
            "link_memories", "get_thread">>))
    /\ Guarded(StepsOf(<<"get_thread", "update_thread">>))
    /\ Guarded(StepsOf(<<"get_thread", "update_thread", "get_thread">>))
<1>1. Guarded(StepsOf(<<"create_thread", "link_new_thread">>))
  <2>1. Guarded(<<Find("agent"), Ask("thread", "CREATE_THREAD", "nothing"),
          Write("new_row", "own"), Write("new_row", "own")>>)
    BY Kinds, NewRowGrants, Guard2x2
  <2> QED
    BY <2>1, ComposedSteps
<1>2. Guarded(StepsOf(<<"get_agent", "history">>))
  <2>1. Guarded(<<Find("thread"), Ask("thread", "VIEW_THREAD", "thread"), Find("agent"),
          Ask("agent", "VIEW_THREAD", "keyword"), Find("thread"),
          Ask("thread", "VIEW_THREAD", "thread"), Read("thread", "read"), Read("agent", "read")>>)
    BY Kinds, AgentGrants, ThreadGrants, Guard6x2 DEF UseOperations
  <2> QED
    BY <2>1, ComposedSteps
<1>3. Guarded(StepsOf(<<"get_agent", "history_with_files">>))
  <2>1. Guarded(<<Find("thread"), Ask("thread", "VIEW_THREAD", "thread"), Find("agent"),
          Ask("agent", "VIEW_THREAD", "keyword"), Find("thread"),
          Ask("thread", "VIEW_THREAD", "thread"), Find("thread"),
          Ask("thread", "VIEW_FILE", "thread"), Ask("agent", "VIEW_FILE", "keyword"),
          Read("thread", "read"), Read("agent", "read")>>)
    BY Kinds, AgentGrants, ThreadGrants, Guard9x2 DEF UseOperations
  <2> QED
    BY <2>1, ComposedSteps
<1>4. Guarded(StepsOf(<<"get_agent", "as_view">>))
  <2>1. Guarded(<<Find("thread"), Ask("thread", "VIEW_THREAD", "thread"), Find("agent"),
          Ask("agent", "CHAT", "keyword"), Find("thread"), Ask("thread", "VIEW_THREAD", "thread"),
          Write("thread", "write"), Read("agent", "read")>>)
    BY Kinds, AgentGrants, ThreadGrants, Guard6x2 DEF UseOperations
  <2> QED
    BY <2>1, ComposedSteps
<1>5. Guarded(StepsOf(<<"get_agent", "as_view_with_files">>))
  <2>1. Guarded(<<Find("thread"), Ask("thread", "VIEW_THREAD", "thread"), Find("agent"),
          Ask("agent", "CHAT", "keyword"), Find("thread"), Ask("thread", "VIEW_THREAD", "thread"),
          Find("thread"), Ask("thread", "VIEW_FILE", "thread"),
          Ask("agent", "VIEW_FILE", "keyword"), Write("thread", "write"), Read("agent", "read")>>)
    BY Kinds, AgentGrants, ThreadGrants, Guard9x2 DEF UseOperations
  <2> QED
    BY <2>1, ComposedSteps
<1>6. Guarded(StepsOf(<<"get_agent", "check_chat", "run">>))
  <2>1. Guarded(<<Find("thread"), Ask("thread", "VIEW_THREAD", "thread"), Find("agent"),
          Ask("agent", "CHAT", "nothing"), Read("agent", "read")>>)
    BY Kinds, AgentGrants, Guard4x1
  <2> QED
    BY <2>1, ComposedSteps
<1>7. Guarded(StepsOf(<<"find_agent", "get_agent_info">>))
  <2>1. Guarded(<<Find("agent"), Find("agent"), Ask("agent", "VIEW_AGENT", "agent"),
          Read("agent", "read")>>)
    BY Kinds, AgentGrants, Guard3x1
  <2> QED
    BY <2>1, ComposedSteps
<1>8. Guarded(StepsOf(<<"find_agent", "check_view", "get_integration_status">>))
  <2>1. Guarded(<<Find("agent"), Ask("agent", "VIEW_AGENT", "agent"), Read("agent", "read"),
          Find("agent"), Ask("agent", "VIEW_AGENT", "agent"), Read("agent", "read")>>)
    BY Kinds, AgentGrants, GuardTools
  <2> QED
    BY <2>1, ComposedSteps
<1>9. Guarded(StepsOf(<<"find_agent", "check_chat", "run">>))
  <2>1. Guarded(<<Find("agent"), Ask("agent", "CHAT", "nothing"), Read("agent", "read")>>)
    BY Kinds, AgentGrants, Guard2x1
  <2> QED
    BY <2>1, ComposedSteps
<1>10. Guarded(StepsOf(<<"find_agent", "check_admin">>))
  <2>1. Guarded(<<Find("agent"), Ask("agent", "UPDATE_AGENT", "agent"), Write("agent", "manage")>>)
    BY Kinds, AgentGrants, Guard2x1
  <2> QED
    BY <2>1, ComposedSteps
<1>11. Guarded(StepsOf(<<"find_new_agent", "get_thread", "unlink_memories", "update_thread",
        "link_memories">>))
  <2>1. Again(Ask("thread", "VIEW_THREAD", "thread"), Ask("thread", "UPDATE_THREAD", "thread"))
    BY DEF Again, Ask
  <2>2. Guarded(<<Find("new_agent"), Find("thread"), Ask("thread", "VIEW_THREAD", "thread"),
          Read("thread", "read"), Write("thread", "manage"), Find("thread"),
          Ask("thread", "UPDATE_THREAD", "thread"), Write("thread", "manage"),
          Write("thread", "manage")>>)
    BY <2>1, Kinds, ThreadGrants, GuardSwitch
  <2> QED
    BY <2>2, ComposedSteps
<1>12. Guarded(StepsOf(<<"find_new_agent", "get_thread", "unlink_memories", "update_thread",
        "link_memories", "get_thread">>))
  <2>1. Again(Ask("thread", "VIEW_THREAD", "thread"), Ask("thread", "UPDATE_THREAD", "thread"))
    BY DEF Again, Ask
  <2>2. Guarded(<<Find("new_agent"), Find("thread"), Ask("thread", "VIEW_THREAD", "thread"),
          Read("thread", "read"), Write("thread", "manage"), Find("thread"),
          Ask("thread", "UPDATE_THREAD", "thread"), Write("thread", "manage"),
          Write("thread", "manage"), Find("thread"), Ask("thread", "VIEW_THREAD", "thread"),
          Read("thread", "read")>>)
    BY <2>1, Kinds, ThreadGrants, GuardSwitch
  <2> QED
    BY <2>2, ComposedSteps
<1>13. Guarded(StepsOf(<<"get_thread", "update_thread">>))
  <2>1. Guarded(<<Find("thread"), Ask("thread", "VIEW_THREAD", "thread"), Read("thread", "read"),
          Find("thread"), Ask("thread", "UPDATE_THREAD", "thread"), Write("thread", "manage")>>)
    BY Kinds, ThreadGrants, GuardRename
  <2> QED
    BY <2>1, ComposedSteps
<1>14. Guarded(StepsOf(<<"get_thread", "update_thread", "get_thread">>))
  <2>1. Guarded(<<Find("thread"), Ask("thread", "VIEW_THREAD", "thread"), Read("thread", "read"),
          Find("thread"), Ask("thread", "UPDATE_THREAD", "thread"), Write("thread", "manage"),
          Find("thread"), Ask("thread", "VIEW_THREAD", "thread"), Read("thread", "read")>>)
    BY Kinds, ThreadGrants, GuardRename
  <2> QED
    BY <2>1, ComposedSteps
<1> QED
  BY <1>1, <1>2, <1>3, <1>4, <1>5, <1>6, <1>7, <1>8, <1>9, <1>10, <1>11, <1>12, <1>13, <1>14

\* The names in a table of calls are names of Calls.
LEMMA KnownCalls == \A t \in CallTables : DOMAIN t \subseteq DOMAIN Calls
BY DEF Calls, Together

\* An endpoint that makes the one call of its name.
LEMMA AloneIsGuarded ==
    ASSUME NEW names \in SUBSET (DOMAIN Calls \ Bare), NEW e \in DOMAIN Itself(names)
    PROVE  Guarded(StepsOf(Itself(names)[e]))
<1>1. e \in names /\ Itself(names)[e] = <<e>>
  BY DEF Itself
<1>2. StepsOf(<<e>>) = Calls[e]
  BY StepsOfCalls
<1> QED
  BY <1>1, <1>2, CallsAreGuarded

\* NinjaThreads asks before it reads or writes.
LEMMA NinjaThreadsAreGuarded == \A e \in DOMAIN NinjaThreads : Guarded(StepsOf(NinjaThreads[e]))
<1>1. NinjaThreads.create_thread = <<"create_thread", "link_new_thread">>
  BY DEF NinjaThreads
<1>2. NinjaThreads.get_thread_history = <<"get_agent", "history">>
  BY DEF NinjaThreads
<1>3. NinjaThreads.get_thread_history_with_files = <<"get_agent", "history_with_files">>
  BY DEF NinjaThreads
<1>4. NinjaThreads.chat = <<"get_agent", "as_view">>
  BY DEF NinjaThreads
<1>5. NinjaThreads.chat_with_files = <<"get_agent", "as_view_with_files">>
  BY DEF NinjaThreads
<1>6. NinjaThreads.switch_thread = <<"find_new_agent", "get_thread", "unlink_memories",
        "update_thread", "link_memories">>
  BY DEF NinjaThreads
<1>7. NinjaThreads.rename_thread = <<"get_thread", "update_thread">>
  BY DEF NinjaThreads
<1>8. NinjaThreads.run_thread = <<"get_agent", "check_chat", "run">>
  BY DEF NinjaThreads
<1>9. NinjaThreads.delete_thread = <<"delete_thread">>
  BY DEF NinjaThreads
<1>10. {"delete_thread"} \subseteq DOMAIN Calls \ Bare
  BY CallNames, KnownCalls DEF CallTables, Bare
<1>11. \A c \in {"delete_thread"} : Guarded(StepsOf(<<c>>))
  BY <1>10, StepsOfCalls, CallsAreGuarded
<1>12. DOMAIN NinjaThreads = {"create_thread", "get_thread_history",
        "get_thread_history_with_files", "chat", "chat_with_files", "switch_thread",
        "rename_thread", "run_thread", "delete_thread"}
  BY DEF NinjaThreads
<1> QED
  BY <1>1, <1>2, <1>3, <1>4, <1>5, <1>6, <1>7, <1>8, <1>9, <1>11, <1>12, ComposedAreGuarded

\* NinjaThreadViews asks before it reads or writes.
LEMMA NinjaThreadViewsAreGuarded ==
    \A e \in DOMAIN NinjaThreadViews : Guarded(StepsOf(NinjaThreadViews[e]))
<1> DEFINE names == {"thread_file_meta", "thread_sources", "rate_message", "delete_message",
        "restore_message", "thread_traces", "thread_token_usage", "message_traces",
        "message_token_usage"}
<1>1. names \subseteq DOMAIN Calls
  <2>1. {"rate_message", "delete_message", "restore_message"} \subseteq DOMAIN Calls
    BY CallNames, KnownCalls DEF CallTables
  <2>2. {"thread_file_meta", "thread_sources"} \subseteq DOMAIN Calls
    BY CallNames, KnownCalls DEF CallTables
  <2>3. {"thread_traces", "thread_token_usage", "message_traces",
          "message_token_usage"} \subseteq DOMAIN Calls
    BY CallNames, KnownCalls DEF CallTables
  <2> QED
    BY <2>1, <2>2, <2>3
<1>2. names \cap Bare = {}
  BY DEF Bare
<1>3. NinjaThreadViews = Itself(names)
  BY DEF NinjaThreadViews
<1> HIDE DEF names
<1> QED
  BY <1>1, <1>2, <1>3, AloneIsGuarded

\* NinjaAgentSharing asks before it reads or writes.
LEMMA NinjaAgentSharingAreGuarded ==
    \A e \in DOMAIN NinjaAgentSharing : Guarded(StepsOf(NinjaAgentSharing[e]))
<1> DEFINE names == {"create_runtime_agent", "get_runtime_agent", "update_runtime_agent",
        "delete_runtime_agent", "list_agent_users", "add_agent_user", "update_agent_user",
        "remove_agent_user", "list_agent_groups", "add_agent_group", "remove_agent_group"}
<1>1. names \subseteq DOMAIN Calls
  <2>1. {"list_agent_users", "add_agent_user", "update_agent_user", "remove_agent_user",
          "list_agent_groups", "add_agent_group", "remove_agent_group"} \subseteq DOMAIN Calls
    BY CallNames, KnownCalls DEF CallTables
  <2>2. {"create_runtime_agent", "get_runtime_agent", "update_runtime_agent",
          "delete_runtime_agent"} \subseteq DOMAIN Calls
    BY CallNames, KnownCalls DEF CallTables
  <2> QED
    BY <2>1, <2>2
<1>2. names \cap Bare = {}
  BY DEF Bare
<1>3. NinjaAgentSharing = Itself(names)
  BY DEF NinjaAgentSharing
<1> HIDE DEF names
<1> QED
  BY <1>1, <1>2, <1>3, AloneIsGuarded

\* NinjaAgents asks before it reads or writes.
LEMMA NinjaAgentsAreGuarded == \A e \in DOMAIN NinjaAgents : Guarded(StepsOf(NinjaAgents[e]))
<1>1. NinjaAgents.get_agent_info = <<"find_agent", "get_agent_info">>
  BY DEF NinjaAgents
<1>2. NinjaAgents.get_agent_tools = <<"find_agent", "check_view", "get_integration_status">>
  BY DEF NinjaAgents
<1>3. NinjaAgents.run_agent = <<"find_agent", "check_chat", "run">>
  BY DEF NinjaAgents
<1>4. NinjaAgents.reindex_agent = <<"find_agent", "check_admin">>
  BY DEF NinjaAgents
<1>5. DOMAIN NinjaAgents = {"get_agent_info", "get_agent_tools", "run_agent", "reindex_agent"}
  BY DEF NinjaAgents
<1> QED
  BY <1>1, <1>2, <1>3, <1>4, <1>5, ComposedAreGuarded

\* NinjaMemories asks before it reads or writes.
LEMMA NinjaMemoriesAreGuarded == \A e \in DOMAIN NinjaMemories : Guarded(StepsOf(NinjaMemories[e]))
<1> DEFINE names == {"create_memory", "get_memory", "update_memory", "delete_memory",
        "upload_document", "get_document_status", "cancel_document", "get_task_status",
        "list_documents", "get_document", "delete_document", "link_memory_to_thread",
        "unlink_memory_from_thread", "list_thread_memories"}
<1>1. names \subseteq DOMAIN Calls
  <2>1. {"cancel_document"} \subseteq DOMAIN Calls
    BY CallNames, KnownCalls DEF CallTables
  <2>2. {"upload_document", "list_documents", "get_document",
          "delete_document"} \subseteq DOMAIN Calls
    BY CallNames, KnownCalls DEF CallTables
  <2>3. {"link_memory_to_thread", "unlink_memory_from_thread",
          "list_thread_memories"} \subseteq DOMAIN Calls
    BY CallNames, KnownCalls DEF CallTables
  <2>4. {"create_memory", "get_memory", "update_memory", "delete_memory"} \subseteq DOMAIN Calls
    BY CallNames, KnownCalls DEF CallTables
  <2>5. {"get_document_status", "get_task_status"} \subseteq DOMAIN Calls
    BY CallNames, KnownCalls DEF CallTables
  <2> QED
    BY <2>1, <2>2, <2>3, <2>4, <2>5
<1>2. names \cap Bare = {}
  BY DEF Bare
<1>3. NinjaMemories = Itself(names)
  BY DEF NinjaMemories
<1> HIDE DEF names
<1> QED
  BY <1>1, <1>2, <1>3, AloneIsGuarded

\* NinjaMemoryThreads asks before it reads or writes.
LEMMA NinjaMemoryThreadsAreGuarded ==
    \A e \in DOMAIN NinjaMemoryThreads : Guarded(StepsOf(NinjaMemoryThreads[e]))
<1> DEFINE names == {"bulk_connect_memories", "upload_first_file", "upload_thread_file",
        "get_file_status", "cancel_file", "list_thread_files", "delete_thread_file",
        "toggle_memory_active", "disconnect_memory_from_thread", "list_memory_users",
        "add_memory_user"}
<1>1. names \subseteq DOMAIN Calls
  <2>1. {"cancel_file"} \subseteq DOMAIN Calls
    BY CallNames, KnownCalls DEF CallTables
  <2>2. {"upload_first_file", "upload_thread_file", "list_thread_files",
          "delete_thread_file"} \subseteq DOMAIN Calls
    BY CallNames, KnownCalls DEF CallTables
  <2>3. {"bulk_connect_memories"} \subseteq DOMAIN Calls
    BY CallNames, KnownCalls DEF CallTables
  <2>4. {"list_memory_users", "add_memory_user"} \subseteq DOMAIN Calls
    BY CallNames, KnownCalls DEF CallTables
  <2>5. {"get_file_status"} \subseteq DOMAIN Calls
    BY CallNames, KnownCalls DEF CallTables
  <2>6. {"toggle_memory_active", "disconnect_memory_from_thread"} \subseteq DOMAIN Calls
    BY CallNames, KnownCalls DEF CallTables
  <2> QED
    BY <2>1, <2>2, <2>3, <2>4, <2>5, <2>6
<1>2. names \cap Bare = {}
  BY DEF Bare
<1>3. NinjaMemoryThreads = Itself(names)
  BY DEF NinjaMemoryThreads
<1> HIDE DEF names
<1> QED
  BY <1>1, <1>2, <1>3, AloneIsGuarded

\* FileDownload asks before it reads or writes.
LEMMA FileDownloadAreGuarded == \A e \in DOMAIN FileDownload : Guarded(StepsOf(FileDownload[e]))
<1>1. FileDownload.download_thread_file = <<"get_thread_file">>
  BY DEF FileDownload
<1>2. {"get_thread_file"} \subseteq DOMAIN Calls \ Bare
  BY CallNames, KnownCalls DEF CallTables, Bare
<1>3. \A c \in {"get_thread_file"} : Guarded(StepsOf(<<c>>))
  BY <1>2, StepsOfCalls, CallsAreGuarded
<1>4. DOMAIN FileDownload = {"download_thread_file"}
  BY DEF FileDownload
<1> QED
  BY <1>1, <1>3, <1>4

\* NinjaMemorySharing asks before it reads or writes.
LEMMA NinjaMemorySharingAreGuarded ==
    \A e \in DOMAIN NinjaMemorySharing : Guarded(StepsOf(NinjaMemorySharing[e]))
<1> DEFINE names == {"update_memory_user", "remove_memory_user", "list_memory_groups",
        "add_memory_group", "remove_memory_group", "get_chunk_content", "get_source_document",
        "get_source_file", "render_source_page"}
<1>1. names \subseteq DOMAIN Calls
  <2>1. {"update_memory_user", "remove_memory_user", "list_memory_groups", "add_memory_group",
          "remove_memory_group"} \subseteq DOMAIN Calls
    BY CallNames, KnownCalls DEF CallTables
  <2>2. {"get_chunk_content", "get_source_document", "get_source_file",
          "render_source_page"} \subseteq DOMAIN Calls
    BY CallNames, KnownCalls DEF CallTables
  <2> QED
    BY <2>1, <2>2
<1>2. names \cap Bare = {}
  BY DEF Bare
<1>3. NinjaMemorySharing = Itself(names)
  BY DEF NinjaMemorySharing
<1> HIDE DEF names
<1> QED
  BY <1>1, <1>2, <1>3, AloneIsGuarded

\* NinjaWorkflows asks before it reads or writes.
LEMMA NinjaWorkflowsAreGuarded ==
    \A e \in DOMAIN NinjaWorkflows : Guarded(StepsOf(NinjaWorkflows[e]))
<1> DEFINE names == {"run_workflow", "create_workflow", "get_workflow", "update_workflow",
        "delete_workflow", "run_by_id", "resume_run", "get_run"}
<1>1. names \subseteq DOMAIN Calls
  <2>1. {"create_workflow", "get_workflow", "update_workflow", "delete_workflow",
          "get_run"} \subseteq DOMAIN Calls
    BY CallNames, KnownCalls DEF CallTables
  <2>2. {"run_workflow", "run_by_id", "resume_run"} \subseteq DOMAIN Calls
    BY CallNames, KnownCalls DEF CallTables
  <2> QED
    BY <2>1, <2>2
<1>2. names \cap Bare = {}
  BY DEF Bare
<1>3. NinjaWorkflows = Itself(names)
  BY DEF NinjaWorkflows
<1> HIDE DEF names
<1> QED
  BY <1>1, <1>2, <1>3, AloneIsGuarded

\* NinjaIntegrations asks before it reads or writes.
LEMMA NinjaIntegrationsAreGuarded ==
    \A e \in DOMAIN NinjaIntegrations : Guarded(StepsOf(NinjaIntegrations[e]))
<1> DEFINE names == {"connect_integration", "disconnect_integration", "reconnect_integration"}
<1>1. names \subseteq DOMAIN Calls
  <2>1. {"connect_integration", "disconnect_integration",
          "reconnect_integration"} \subseteq DOMAIN Calls
    BY CallNames, KnownCalls DEF CallTables
  <2> QED
    BY <2>1
<1>2. names \cap Bare = {}
  BY DEF Bare
<1>3. NinjaIntegrations = Itself(names)
  BY DEF NinjaIntegrations
<1> HIDE DEF names
<1> QED
  BY <1>1, <1>2, <1>3, AloneIsGuarded

\* DrfThreads asks before it reads or writes.
LEMMA DrfThreadsAreGuarded == \A e \in DOMAIN DrfThreads : Guarded(StepsOf(DrfThreads[e]))
<1>1. DrfThreads.create_thread = <<"create_thread", "link_new_thread">>
  BY DEF DrfThreads
<1>2. DrfThreads.get_thread_history = <<"get_agent", "history">>
  BY DEF DrfThreads
<1>3. DrfThreads.get_thread_history_with_files = <<"get_agent", "history_with_files">>
  BY DEF DrfThreads
<1>4. DrfThreads.switch_thread = <<"find_new_agent", "get_thread", "unlink_memories",
        "update_thread", "link_memories", "get_thread">>
  BY DEF DrfThreads
<1>5. DrfThreads.rename_thread = <<"get_thread", "update_thread", "get_thread">>
  BY DEF DrfThreads
<1>6. DrfThreads.run_thread = <<"get_agent", "check_chat", "run">>
  BY DEF DrfThreads
<1>7. DrfThreads.delete_thread = <<"delete_thread">>
  BY DEF DrfThreads
<1>8. DrfThreads.thread_sources = <<"thread_sources">>
  BY DEF DrfThreads
<1>9. DrfThreads.thread_file_meta = <<"thread_file_meta">>
  BY DEF DrfThreads
<1>10. DrfThreads.thread_traces = <<"thread_traces">>
  BY DEF DrfThreads
<1>11. {"delete_thread", "thread_file_meta", "thread_sources",
        "thread_traces"} \subseteq DOMAIN Calls \ Bare
  BY CallNames, KnownCalls DEF CallTables, Bare
<1>12. \A c \in {"delete_thread", "thread_file_meta", "thread_sources", "thread_traces"} :
        Guarded(StepsOf(<<c>>))
  BY <1>11, StepsOfCalls, CallsAreGuarded
<1>13. DOMAIN DrfThreads = {"create_thread", "get_thread_history",
        "get_thread_history_with_files", "switch_thread", "rename_thread", "run_thread",
        "delete_thread", "thread_sources", "thread_file_meta", "thread_traces"}
  BY DEF DrfThreads
<1> QED
  BY <1>1, <1>2, <1>3, <1>4, <1>5, <1>6, <1>7, <1>8, <1>9, <1>10, <1>12, <1>13, ComposedAreGuarded

\* ChatView asks before it reads or writes.
LEMMA ChatViewAreGuarded == \A e \in DOMAIN ChatView : Guarded(StepsOf(ChatView[e]))
<1>1. ChatView.chat = <<"get_agent", "as_view">>
  BY DEF ChatView
<1>2. ChatView.chat_with_files = <<"get_agent", "as_view_with_files">>
  BY DEF ChatView
<1>3. DOMAIN ChatView = {"chat", "chat_with_files"}
  BY DEF ChatView
<1> QED
  BY <1>1, <1>2, <1>3, ComposedAreGuarded

\* DrfThreadParts asks before it reads or writes.
LEMMA DrfThreadPartsAreGuarded ==
    \A e \in DOMAIN DrfThreadParts : Guarded(StepsOf(DrfThreadParts[e]))
<1> DEFINE names == {"thread_token_usage", "rate_message", "delete_message", "restore_message",
        "list_thread_memories", "bulk_connect_memories", "toggle_memory_active",
        "disconnect_memory_from_thread", "list_thread_files", "upload_first_file",
        "upload_thread_file", "delete_thread_file", "get_file_status"}
<1>1. names \subseteq DOMAIN Calls
  <2>1. {"list_thread_files", "upload_first_file", "upload_thread_file",
          "delete_thread_file"} \subseteq DOMAIN Calls
    BY CallNames, KnownCalls DEF CallTables
  <2>2. {"list_thread_memories", "bulk_connect_memories"} \subseteq DOMAIN Calls
    BY CallNames, KnownCalls DEF CallTables
  <2>3. {"rate_message", "delete_message", "restore_message"} \subseteq DOMAIN Calls
    BY CallNames, KnownCalls DEF CallTables
  <2>4. {"get_file_status"} \subseteq DOMAIN Calls
    BY CallNames, KnownCalls DEF CallTables
  <2>5. {"toggle_memory_active", "disconnect_memory_from_thread"} \subseteq DOMAIN Calls
    BY CallNames, KnownCalls DEF CallTables
  <2>6. {"thread_token_usage"} \subseteq DOMAIN Calls
    BY CallNames, KnownCalls DEF CallTables
  <2> QED
    BY <2>1, <2>2, <2>3, <2>4, <2>5, <2>6
<1>2. names \cap Bare = {}
  BY DEF Bare
<1>3. DrfThreadParts = Itself(names)
  BY DEF DrfThreadParts
<1> HIDE DEF names
<1> QED
  BY <1>1, <1>2, <1>3, AloneIsGuarded

\* DrfMessages asks before it reads or writes.
LEMMA DrfMessagesAreGuarded == \A e \in DOMAIN DrfMessages : Guarded(StepsOf(DrfMessages[e]))
<1> DEFINE names == {"message_traces", "message_token_usage"}
<1>1. names \subseteq DOMAIN Calls
  <2>1. {"message_traces", "message_token_usage"} \subseteq DOMAIN Calls
    BY CallNames, KnownCalls DEF CallTables
  <2> QED
    BY <2>1
<1>2. names \cap Bare = {}
  BY DEF Bare
<1>3. DrfMessages = Itself(names)
  BY DEF DrfMessages
<1> HIDE DEF names
<1> QED
  BY <1>1, <1>2, <1>3, AloneIsGuarded

\* DrfAgents asks before it reads or writes.
LEMMA DrfAgentsAreGuarded == \A e \in DOMAIN DrfAgents : Guarded(StepsOf(DrfAgents[e]))
<1>1. DrfAgents.get_agent_info = <<"find_agent", "get_agent_info">>
  BY DEF DrfAgents
<1>2. DrfAgents.get_agent_tools = <<"find_agent", "check_view", "get_integration_status">>
  BY DEF DrfAgents
<1>3. DrfAgents.run_agent = <<"find_agent", "check_chat", "run">>
  BY DEF DrfAgents
<1>4. DrfAgents.reindex_agent = <<"find_agent", "check_admin">>
  BY DEF DrfAgents
<1>5. DOMAIN DrfAgents = {"get_agent_info", "get_agent_tools", "run_agent", "reindex_agent"}
  BY DEF DrfAgents
<1> QED
  BY <1>1, <1>2, <1>3, <1>4, <1>5, ComposedAreGuarded

\* DrfRuntimeAgents asks before it reads or writes.
LEMMA DrfRuntimeAgentsAreGuarded ==
    \A e \in DOMAIN DrfRuntimeAgents : Guarded(StepsOf(DrfRuntimeAgents[e]))
<1> DEFINE names == {"create_runtime_agent", "get_runtime_agent", "update_runtime_agent",
        "delete_runtime_agent", "list_agent_users", "add_agent_user", "update_agent_user",
        "remove_agent_user", "list_agent_groups", "add_agent_group", "remove_agent_group"}
<1>1. names \subseteq DOMAIN Calls
  <2>1. {"list_agent_users", "add_agent_user", "update_agent_user", "remove_agent_user",
          "list_agent_groups", "add_agent_group", "remove_agent_group"} \subseteq DOMAIN Calls
    BY CallNames, KnownCalls DEF CallTables
  <2>2. {"create_runtime_agent", "get_runtime_agent", "update_runtime_agent",
          "delete_runtime_agent"} \subseteq DOMAIN Calls
    BY CallNames, KnownCalls DEF CallTables
  <2> QED
    BY <2>1, <2>2
<1>2. names \cap Bare = {}
  BY DEF Bare
<1>3. DrfRuntimeAgents = Itself(names)
  BY DEF DrfRuntimeAgents
<1> HIDE DEF names
<1> QED
  BY <1>1, <1>2, <1>3, AloneIsGuarded

\* DrfMemories asks before it reads or writes.
LEMMA DrfMemoriesAreGuarded == \A e \in DOMAIN DrfMemories : Guarded(StepsOf(DrfMemories[e]))
<1> DEFINE names == {"create_memory", "get_memory", "update_memory", "delete_memory",
        "get_chunk_content", "get_source_document", "get_source_file", "render_source_page",
        "list_documents", "upload_document", "get_document", "delete_document",
        "get_document_status"}
<1>1. names \subseteq DOMAIN Calls
  <2>1. {"list_documents", "upload_document", "get_document",
          "delete_document"} \subseteq DOMAIN Calls
    BY CallNames, KnownCalls DEF CallTables
  <2>2. {"create_memory", "get_memory", "update_memory", "delete_memory"} \subseteq DOMAIN Calls
    BY CallNames, KnownCalls DEF CallTables
  <2>3. {"get_chunk_content", "get_source_document", "get_source_file",
          "render_source_page"} \subseteq DOMAIN Calls
    BY CallNames, KnownCalls DEF CallTables
  <2>4. {"get_document_status"} \subseteq DOMAIN Calls
    BY CallNames, KnownCalls DEF CallTables
  <2> QED
    BY <2>1, <2>2, <2>3, <2>4
<1>2. names \cap Bare = {}
  BY DEF Bare
<1>3. DrfMemories = Itself(names)
  BY DEF DrfMemories
<1> HIDE DEF names
<1> QED
  BY <1>1, <1>2, <1>3, AloneIsGuarded

\* DrfMemorySharing asks before it reads or writes.
LEMMA DrfMemorySharingAreGuarded ==
    \A e \in DOMAIN DrfMemorySharing : Guarded(StepsOf(DrfMemorySharing[e]))
<1> DEFINE names == {"cancel_document", "cancel_file", "get_task_status", "link_memory_to_thread",
        "unlink_memory_from_thread", "list_memory_users", "add_memory_user", "update_memory_user",
        "remove_memory_user", "list_memory_groups", "add_memory_group", "remove_memory_group"}
<1>1. names \subseteq DOMAIN Calls
  <2>1. {"cancel_document", "cancel_file"} \subseteq DOMAIN Calls
    BY CallNames, KnownCalls DEF CallTables
  <2>2. {"link_memory_to_thread", "unlink_memory_from_thread"} \subseteq DOMAIN Calls
    BY CallNames, KnownCalls DEF CallTables
  <2>3. {"list_memory_users", "add_memory_user", "update_memory_user", "remove_memory_user",
          "list_memory_groups", "add_memory_group", "remove_memory_group"} \subseteq DOMAIN Calls
    BY CallNames, KnownCalls DEF CallTables
  <2>4. {"get_task_status"} \subseteq DOMAIN Calls
    BY CallNames, KnownCalls DEF CallTables
  <2> QED
    BY <2>1, <2>2, <2>3, <2>4
<1>2. names \cap Bare = {}
  BY DEF Bare
<1>3. DrfMemorySharing = Itself(names)
  BY DEF DrfMemorySharing
<1> HIDE DEF names
<1> QED
  BY <1>1, <1>2, <1>3, AloneIsGuarded

\* DrfWorkflows asks before it reads or writes.
LEMMA DrfWorkflowsAreGuarded == \A e \in DOMAIN DrfWorkflows : Guarded(StepsOf(DrfWorkflows[e]))
<1> DEFINE names == {"run_workflow", "create_workflow", "get_workflow", "update_workflow",
        "delete_workflow", "run_by_id", "resume_run", "get_run"}
<1>1. names \subseteq DOMAIN Calls
  <2>1. {"create_workflow", "get_workflow", "update_workflow", "delete_workflow",
          "get_run"} \subseteq DOMAIN Calls
    BY CallNames, KnownCalls DEF CallTables
  <2>2. {"run_workflow", "run_by_id", "resume_run"} \subseteq DOMAIN Calls
    BY CallNames, KnownCalls DEF CallTables
  <2> QED
    BY <2>1, <2>2
<1>2. names \cap Bare = {}
  BY DEF Bare
<1>3. DrfWorkflows = Itself(names)
  BY DEF DrfWorkflows
<1> HIDE DEF names
<1> QED
  BY <1>1, <1>2, <1>3, AloneIsGuarded

\* DrfIntegrations asks before it reads or writes.
LEMMA DrfIntegrationsAreGuarded ==
    \A e \in DOMAIN DrfIntegrations : Guarded(StepsOf(DrfIntegrations[e]))
<1> DEFINE names == {"connect_integration", "disconnect_integration", "reconnect_integration"}
<1>1. names \subseteq DOMAIN Calls
  <2>1. {"connect_integration", "disconnect_integration",
          "reconnect_integration"} \subseteq DOMAIN Calls
    BY CallNames, KnownCalls DEF CallTables
  <2> QED
    BY <2>1
<1>2. names \cap Bare = {}
  BY DEF Bare
<1>3. DrfIntegrations = Itself(names)
  BY DEF DrfIntegrations
<1> HIDE DEF names
<1> QED
  BY <1>1, <1>2, <1>3, AloneIsGuarded

\* Every endpoint of Ninja is guarded.
LEMMA NinjaIsGuarded ==
    ASSUME NEW e \in DOMAIN Ninja
    PROVE  Guarded(StepsOf(Ninja[e]))
<1>1. PICK t \in NinjaTables : e \in DOMAIN t /\ Ninja[e] = t[e]
  BY TogetherHasTables DEF Ninja
<1>2. CASE t = NinjaThreads
  BY <1>1, <1>2, NinjaThreadsAreGuarded
<1>3. CASE t = NinjaThreadViews
  BY <1>1, <1>3, NinjaThreadViewsAreGuarded
<1>4. CASE t = NinjaAgentSharing
  BY <1>1, <1>4, NinjaAgentSharingAreGuarded
<1>5. CASE t = NinjaAgents
  BY <1>1, <1>5, NinjaAgentsAreGuarded
<1>6. CASE t = NinjaMemories
  BY <1>1, <1>6, NinjaMemoriesAreGuarded
<1>7. CASE t = NinjaMemoryThreads
  BY <1>1, <1>7, NinjaMemoryThreadsAreGuarded
<1>8. CASE t = FileDownload
  BY <1>1, <1>8, FileDownloadAreGuarded
<1>9. CASE t = NinjaMemorySharing
  BY <1>1, <1>9, NinjaMemorySharingAreGuarded
<1>10. CASE t = NinjaWorkflows
  BY <1>1, <1>10, NinjaWorkflowsAreGuarded
<1>11. CASE t = NinjaIntegrations
  BY <1>1, <1>11, NinjaIntegrationsAreGuarded
<1> QED
  BY <1>1, <1>2, <1>3, <1>4, <1>5, <1>6, <1>7, <1>8, <1>9, <1>10, <1>11 DEF NinjaTables

\* Every endpoint of DRF is guarded.
LEMMA DrfIsGuarded ==
    ASSUME NEW e \in DOMAIN Drf
    PROVE  Guarded(StepsOf(Drf[e]))
<1>1. PICK t \in DrfTables : e \in DOMAIN t /\ Drf[e] = t[e]
  BY TogetherHasTables DEF Drf
<1>2. CASE t = DrfThreads
  BY <1>1, <1>2, DrfThreadsAreGuarded
<1>3. CASE t = ChatView
  BY <1>1, <1>3, ChatViewAreGuarded
<1>4. CASE t = DrfThreadParts
  BY <1>1, <1>4, DrfThreadPartsAreGuarded
<1>5. CASE t = FileDownload
  BY <1>1, <1>5, FileDownloadAreGuarded
<1>6. CASE t = DrfMessages
  BY <1>1, <1>6, DrfMessagesAreGuarded
<1>7. CASE t = DrfAgents
  BY <1>1, <1>7, DrfAgentsAreGuarded
<1>8. CASE t = DrfRuntimeAgents
  BY <1>1, <1>8, DrfRuntimeAgentsAreGuarded
<1>9. CASE t = DrfMemories
  BY <1>1, <1>9, DrfMemoriesAreGuarded
<1>10. CASE t = DrfMemorySharing
  BY <1>1, <1>10, DrfMemorySharingAreGuarded
<1>11. CASE t = DrfWorkflows
  BY <1>1, <1>11, DrfWorkflowsAreGuarded
<1>12. CASE t = DrfIntegrations
  BY <1>1, <1>12, DrfIntegrationsAreGuarded
<1> QED
  BY <1>1, <1>2, <1>3, <1>4, <1>5, <1>6, <1>7, <1>8, <1>9, <1>10, <1>11, <1>12 DEF DrfTables

\* Every request is guarded.
LEMMA RequestsAreGuarded ==
    ASSUME NEW steps \in Requests
    PROVE  Guarded(steps)
<1>1. CASE steps \in Range(NinjaRequest)
  <2>1. PICK e \in DOMAIN Ninja : steps = StepsOf(Ninja[e])
    BY <1>1 DEF Range, NinjaRequest
  <2> QED
    BY <2>1, NinjaIsGuarded
<1>2. CASE steps \in Range(DrfRequest)
  <2>1. PICK e \in DOMAIN Drf : steps = StepsOf(Drf[e])
    BY <1>2 DEF Range, DrfRequest
  <2> QED
    BY <2>1, DrfIsGuarded
<1>3. CASE steps \in {Calls.retry_document, Calls.retry_file}
  <2>1. {"retry_document", "retry_file"} \subseteq DOMAIN Calls \ Bare
    BY CallNames, KnownCalls DEF CallTables, Bare
  <2> QED
    BY <1>3, <2>1, CallsAreGuarded
<1> QED
  BY <1>1, <1>2, <1>3 DEF Requests

\* For any shares: whatever a request of either HTTP layer reads or writes its
\* caller has a right to by the rows, and a request that is refused or fails has
\* written nothing, along every path through the calls of an endpoint.
THEOREM RequestsAreSafe == Spec => []RequestsAreSound
<1>1. TypeOK => RequestsAreSound
  <2>1. ASSUME TypeOK, NEW steps \in Requests, NEW w \in WorldsOf(steps),
          NEW s \in Range(Taken(w, steps))
        PROVE  /\ IsEffect(s) => Right(w, s)
               /\ s.do = "write" => Outcome(w, steps) = "ok"
    BY <2>1, RequestsAreGuarded, GuardedIsSound DEF WorldsOf
  <2> QED
    BY <2>1 DEF RequestsAreSound
<1> QED
  BY <1>1, TypeCorrect, PTL

\* The names of the endpoints.
LEMMA EndpointNames ==
    /\ DOMAIN NinjaThreads = {"create_thread", "get_thread_history",
            "get_thread_history_with_files", "chat", "chat_with_files", "switch_thread",
            "rename_thread", "run_thread", "delete_thread"}
    /\ DOMAIN NinjaThreadViews = {"thread_file_meta", "thread_sources", "rate_message",
            "delete_message", "restore_message", "thread_traces", "thread_token_usage",
            "message_traces", "message_token_usage"}
    /\ DOMAIN NinjaAgentSharing = {"create_runtime_agent", "get_runtime_agent",
            "update_runtime_agent", "delete_runtime_agent", "list_agent_users", "add_agent_user",
            "update_agent_user", "remove_agent_user", "list_agent_groups", "add_agent_group",
            "remove_agent_group"}
    /\ DOMAIN NinjaAgents = {"get_agent_info", "get_agent_tools", "run_agent", "reindex_agent"}
    /\ DOMAIN NinjaMemories = {"create_memory", "get_memory", "update_memory", "delete_memory",
            "upload_document", "get_document_status", "cancel_document", "get_task_status",
            "list_documents", "get_document", "delete_document", "link_memory_to_thread",
            "unlink_memory_from_thread", "list_thread_memories"}
    /\ DOMAIN NinjaMemoryThreads = {"bulk_connect_memories", "upload_first_file",
            "upload_thread_file", "get_file_status", "cancel_file", "list_thread_files",
            "delete_thread_file", "toggle_memory_active", "disconnect_memory_from_thread",
            "list_memory_users", "add_memory_user"}
    /\ DOMAIN FileDownload = {"download_thread_file"}
    /\ DOMAIN NinjaMemorySharing = {"update_memory_user", "remove_memory_user",
            "list_memory_groups", "add_memory_group", "remove_memory_group", "get_chunk_content",
            "get_source_document", "get_source_file", "render_source_page"}
    /\ DOMAIN NinjaWorkflows = {"run_workflow", "create_workflow", "get_workflow",
            "update_workflow", "delete_workflow", "run_by_id", "resume_run", "get_run"}
    /\ DOMAIN NinjaIntegrations = {"connect_integration", "disconnect_integration",
            "reconnect_integration"}
    /\ DOMAIN DrfThreads = {"create_thread", "get_thread_history",
            "get_thread_history_with_files", "switch_thread", "rename_thread", "run_thread",
            "delete_thread", "thread_sources", "thread_file_meta", "thread_traces"}
    /\ DOMAIN ChatView = {"chat", "chat_with_files"}
    /\ DOMAIN DrfThreadParts = {"thread_token_usage", "rate_message", "delete_message",
            "restore_message", "list_thread_memories", "bulk_connect_memories",
            "toggle_memory_active", "disconnect_memory_from_thread", "list_thread_files",
            "upload_first_file", "upload_thread_file", "delete_thread_file", "get_file_status"}
    /\ DOMAIN DrfMessages = {"message_traces", "message_token_usage"}
    /\ DOMAIN DrfAgents = {"get_agent_info", "get_agent_tools", "run_agent", "reindex_agent"}
    /\ DOMAIN DrfRuntimeAgents = {"create_runtime_agent", "get_runtime_agent",
            "update_runtime_agent", "delete_runtime_agent", "list_agent_users", "add_agent_user",
            "update_agent_user", "remove_agent_user", "list_agent_groups", "add_agent_group",
            "remove_agent_group"}
    /\ DOMAIN DrfMemories = {"create_memory", "get_memory", "update_memory", "delete_memory",
            "get_chunk_content", "get_source_document", "get_source_file", "render_source_page",
            "list_documents", "upload_document", "get_document", "delete_document",
            "get_document_status"}
    /\ DOMAIN DrfMemorySharing = {"cancel_document", "cancel_file", "get_task_status",
            "link_memory_to_thread", "unlink_memory_from_thread", "list_memory_users",
            "add_memory_user", "update_memory_user", "remove_memory_user", "list_memory_groups",
            "add_memory_group", "remove_memory_group"}
    /\ DOMAIN DrfWorkflows = {"run_workflow", "create_workflow", "get_workflow",
            "update_workflow", "delete_workflow", "run_by_id", "resume_run", "get_run"}
    /\ DOMAIN DrfIntegrations = {"connect_integration", "disconnect_integration",
            "reconnect_integration"}
<1>1. DOMAIN NinjaThreads = {"create_thread", "get_thread_history",
        "get_thread_history_with_files", "chat", "chat_with_files", "switch_thread",
        "rename_thread", "run_thread", "delete_thread"}
  BY DEF NinjaThreads
<1>2. DOMAIN NinjaThreadViews = {"thread_file_meta", "thread_sources", "rate_message",
        "delete_message", "restore_message", "thread_traces", "thread_token_usage",
        "message_traces", "message_token_usage"}
  BY DEF NinjaThreadViews, Itself
<1>3. DOMAIN NinjaAgentSharing = {"create_runtime_agent", "get_runtime_agent",
        "update_runtime_agent", "delete_runtime_agent", "list_agent_users", "add_agent_user",
        "update_agent_user", "remove_agent_user", "list_agent_groups", "add_agent_group",
        "remove_agent_group"}
  BY DEF NinjaAgentSharing, Itself
<1>4. DOMAIN NinjaAgents = {"get_agent_info", "get_agent_tools", "run_agent", "reindex_agent"}
  BY DEF NinjaAgents
<1>5. DOMAIN NinjaMemories = {"create_memory", "get_memory", "update_memory", "delete_memory",
        "upload_document", "get_document_status", "cancel_document", "get_task_status",
        "list_documents", "get_document", "delete_document", "link_memory_to_thread",
        "unlink_memory_from_thread", "list_thread_memories"}
  BY DEF NinjaMemories, Itself
<1>6. DOMAIN NinjaMemoryThreads = {"bulk_connect_memories", "upload_first_file",
        "upload_thread_file", "get_file_status", "cancel_file", "list_thread_files",
        "delete_thread_file", "toggle_memory_active", "disconnect_memory_from_thread",
        "list_memory_users", "add_memory_user"}
  BY DEF NinjaMemoryThreads, Itself
<1>7. DOMAIN FileDownload = {"download_thread_file"}
  BY DEF FileDownload
<1>8. DOMAIN NinjaMemorySharing = {"update_memory_user", "remove_memory_user",
        "list_memory_groups", "add_memory_group", "remove_memory_group", "get_chunk_content",
        "get_source_document", "get_source_file", "render_source_page"}
  BY DEF NinjaMemorySharing, Itself
<1>9. DOMAIN NinjaWorkflows = {"run_workflow", "create_workflow", "get_workflow",
        "update_workflow", "delete_workflow", "run_by_id", "resume_run", "get_run"}
  BY DEF NinjaWorkflows, Itself
<1>10. DOMAIN NinjaIntegrations = {"connect_integration", "disconnect_integration",
        "reconnect_integration"}
  BY DEF NinjaIntegrations, Itself
<1>11. DOMAIN DrfThreads = {"create_thread", "get_thread_history",
        "get_thread_history_with_files", "switch_thread", "rename_thread", "run_thread",
        "delete_thread", "thread_sources", "thread_file_meta", "thread_traces"}
  BY DEF DrfThreads
<1>12. DOMAIN ChatView = {"chat", "chat_with_files"}
  BY DEF ChatView
<1>13. DOMAIN DrfThreadParts = {"thread_token_usage", "rate_message", "delete_message",
        "restore_message", "list_thread_memories", "bulk_connect_memories",
        "toggle_memory_active", "disconnect_memory_from_thread", "list_thread_files",
        "upload_first_file", "upload_thread_file", "delete_thread_file", "get_file_status"}
  BY DEF DrfThreadParts, Itself
<1>14. DOMAIN DrfMessages = {"message_traces", "message_token_usage"}
  BY DEF DrfMessages, Itself
<1>15. DOMAIN DrfAgents = {"get_agent_info", "get_agent_tools", "run_agent", "reindex_agent"}
  BY DEF DrfAgents
<1>16. DOMAIN DrfRuntimeAgents = {"create_runtime_agent", "get_runtime_agent",
        "update_runtime_agent", "delete_runtime_agent", "list_agent_users", "add_agent_user",
        "update_agent_user", "remove_agent_user", "list_agent_groups", "add_agent_group",
        "remove_agent_group"}
  BY DEF DrfRuntimeAgents, Itself
<1>17. DOMAIN DrfMemories = {"create_memory", "get_memory", "update_memory", "delete_memory",
        "get_chunk_content", "get_source_document", "get_source_file", "render_source_page",
        "list_documents", "upload_document", "get_document", "delete_document",
        "get_document_status"}
  BY DEF DrfMemories, Itself
<1>18. DOMAIN DrfMemorySharing = {"cancel_document", "cancel_file", "get_task_status",
        "link_memory_to_thread", "unlink_memory_from_thread", "list_memory_users",
        "add_memory_user", "update_memory_user", "remove_memory_user", "list_memory_groups",
        "add_memory_group", "remove_memory_group"}
  BY DEF DrfMemorySharing, Itself
<1>19. DOMAIN DrfWorkflows = {"run_workflow", "create_workflow", "get_workflow",
        "update_workflow", "delete_workflow", "run_by_id", "resume_run", "get_run"}
  BY DEF DrfWorkflows, Itself
<1>20. DOMAIN DrfIntegrations = {"connect_integration", "disconnect_integration",
        "reconnect_integration"}
  BY DEF DrfIntegrations, Itself
<1> QED
  BY <1>1, <1>2, <1>3, <1>4, <1>5, <1>6, <1>7, <1>8, <1>9, <1>10, <1>11, <1>12, <1>13, <1>14,
          <1>15, <1>16, <1>17, <1>18, <1>19, <1>20

\* What Ninja offers, DRF does.
LEMMA NinjaInDrf == DOMAIN Ninja \subseteq DOMAIN Drf
<1>0. \A u \in DrfTables : DOMAIN u \subseteq DOMAIN Drf
  BY DEF Drf, Together
<1>1. ASSUME NEW e \in DOMAIN Ninja PROVE e \in DOMAIN Drf
  <2>1. PICK t \in NinjaTables : e \in DOMAIN t
    BY TogetherHasTables DEF Ninja
  <2>2. CASE t = NinjaThreads
    <3>1. DOMAIN DrfThreads \subseteq DOMAIN Drf
      BY <1>0 DEF DrfTables
    <3>2. DOMAIN ChatView \subseteq DOMAIN Drf
      BY <1>0 DEF DrfTables
    <3> QED
      BY <2>1, <2>2, <3>1, <3>2, EndpointNames
  <2>3. CASE t = NinjaThreadViews
    <3>1. DOMAIN DrfThreads \subseteq DOMAIN Drf
      BY <1>0 DEF DrfTables
    <3>2. DOMAIN DrfThreadParts \subseteq DOMAIN Drf
      BY <1>0 DEF DrfTables
    <3>3. DOMAIN DrfMessages \subseteq DOMAIN Drf
      BY <1>0 DEF DrfTables
    <3> QED
      BY <2>1, <2>3, <3>1, <3>2, <3>3, EndpointNames
  <2>4. CASE t = NinjaAgentSharing
    <3>1. DOMAIN DrfRuntimeAgents \subseteq DOMAIN Drf
      BY <1>0 DEF DrfTables
    <3> QED
      BY <2>1, <2>4, <3>1, EndpointNames
  <2>5. CASE t = NinjaAgents
    <3>1. DOMAIN DrfAgents \subseteq DOMAIN Drf
      BY <1>0 DEF DrfTables
    <3> QED
      BY <2>1, <2>5, <3>1, EndpointNames
  <2>6. CASE t = NinjaMemories
    <3>1. DOMAIN DrfThreadParts \subseteq DOMAIN Drf
      BY <1>0 DEF DrfTables
    <3>2. DOMAIN DrfMemories \subseteq DOMAIN Drf
      BY <1>0 DEF DrfTables
    <3>3. DOMAIN DrfMemorySharing \subseteq DOMAIN Drf
      BY <1>0 DEF DrfTables
    <3> QED
      BY <2>1, <2>6, <3>1, <3>2, <3>3, EndpointNames
  <2>7. CASE t = NinjaMemoryThreads
    <3>1. DOMAIN DrfThreadParts \subseteq DOMAIN Drf
      BY <1>0 DEF DrfTables
    <3>2. DOMAIN DrfMemorySharing \subseteq DOMAIN Drf
      BY <1>0 DEF DrfTables
    <3> QED
      BY <2>1, <2>7, <3>1, <3>2, EndpointNames
  <2>8. CASE t = FileDownload
    <3>1. DOMAIN FileDownload \subseteq DOMAIN Drf
      BY <1>0 DEF DrfTables
    <3> QED
      BY <2>1, <2>8, <3>1, EndpointNames
  <2>9. CASE t = NinjaMemorySharing
    <3>1. DOMAIN DrfMemories \subseteq DOMAIN Drf
      BY <1>0 DEF DrfTables
    <3>2. DOMAIN DrfMemorySharing \subseteq DOMAIN Drf
      BY <1>0 DEF DrfTables
    <3> QED
      BY <2>1, <2>9, <3>1, <3>2, EndpointNames
  <2>10. CASE t = NinjaWorkflows
    <3>1. DOMAIN DrfWorkflows \subseteq DOMAIN Drf
      BY <1>0 DEF DrfTables
    <3> QED
      BY <2>1, <2>10, <3>1, EndpointNames
  <2>11. CASE t = NinjaIntegrations
    <3>1. DOMAIN DrfIntegrations \subseteq DOMAIN Drf
      BY <1>0 DEF DrfTables
    <3> QED
      BY <2>1, <2>11, <3>1, EndpointNames
  <2> QED
    BY <2>1, <2>2, <2>3, <2>4, <2>5, <2>6, <2>7, <2>8, <2>9, <2>10, <2>11 DEF NinjaTables
<1> QED
  BY <1>1

\* What DRF offers, Ninja does.
LEMMA DrfInNinja == DOMAIN Drf \subseteq DOMAIN Ninja
<1>0. \A u \in NinjaTables : DOMAIN u \subseteq DOMAIN Ninja
  BY DEF Ninja, Together
<1>1. ASSUME NEW e \in DOMAIN Drf PROVE e \in DOMAIN Ninja
  <2>1. PICK t \in DrfTables : e \in DOMAIN t
    BY TogetherHasTables DEF Drf
  <2>2. CASE t = DrfThreads
    <3>1. DOMAIN NinjaThreads \subseteq DOMAIN Ninja
      BY <1>0 DEF NinjaTables
    <3>2. DOMAIN NinjaThreadViews \subseteq DOMAIN Ninja
      BY <1>0 DEF NinjaTables
    <3> QED
      BY <2>1, <2>2, <3>1, <3>2, EndpointNames
  <2>3. CASE t = ChatView
    <3>1. DOMAIN NinjaThreads \subseteq DOMAIN Ninja
      BY <1>0 DEF NinjaTables
    <3> QED
      BY <2>1, <2>3, <3>1, EndpointNames
  <2>4. CASE t = DrfThreadParts
    <3>1. DOMAIN NinjaThreadViews \subseteq DOMAIN Ninja
      BY <1>0 DEF NinjaTables
    <3>2. DOMAIN NinjaMemories \subseteq DOMAIN Ninja
      BY <1>0 DEF NinjaTables
    <3>3. DOMAIN NinjaMemoryThreads \subseteq DOMAIN Ninja
      BY <1>0 DEF NinjaTables
    <3> QED
      BY <2>1, <2>4, <3>1, <3>2, <3>3, EndpointNames
  <2>5. CASE t = FileDownload
    <3>1. DOMAIN FileDownload \subseteq DOMAIN Ninja
      BY <1>0 DEF NinjaTables
    <3> QED
      BY <2>1, <2>5, <3>1, EndpointNames
  <2>6. CASE t = DrfMessages
    <3>1. DOMAIN NinjaThreadViews \subseteq DOMAIN Ninja
      BY <1>0 DEF NinjaTables
    <3> QED
      BY <2>1, <2>6, <3>1, EndpointNames
  <2>7. CASE t = DrfAgents
    <3>1. DOMAIN NinjaAgents \subseteq DOMAIN Ninja
      BY <1>0 DEF NinjaTables
    <3> QED
      BY <2>1, <2>7, <3>1, EndpointNames
  <2>8. CASE t = DrfRuntimeAgents
    <3>1. DOMAIN NinjaAgentSharing \subseteq DOMAIN Ninja
      BY <1>0 DEF NinjaTables
    <3> QED
      BY <2>1, <2>8, <3>1, EndpointNames
  <2>9. CASE t = DrfMemories
    <3>1. DOMAIN NinjaMemories \subseteq DOMAIN Ninja
      BY <1>0 DEF NinjaTables
    <3>2. DOMAIN NinjaMemorySharing \subseteq DOMAIN Ninja
      BY <1>0 DEF NinjaTables
    <3> QED
      BY <2>1, <2>9, <3>1, <3>2, EndpointNames
  <2>10. CASE t = DrfMemorySharing
    <3>1. DOMAIN NinjaMemories \subseteq DOMAIN Ninja
      BY <1>0 DEF NinjaTables
    <3>2. DOMAIN NinjaMemoryThreads \subseteq DOMAIN Ninja
      BY <1>0 DEF NinjaTables
    <3>3. DOMAIN NinjaMemorySharing \subseteq DOMAIN Ninja
      BY <1>0 DEF NinjaTables
    <3> QED
      BY <2>1, <2>10, <3>1, <3>2, <3>3, EndpointNames
  <2>11. CASE t = DrfWorkflows
    <3>1. DOMAIN NinjaWorkflows \subseteq DOMAIN Ninja
      BY <1>0 DEF NinjaTables
    <3> QED
      BY <2>1, <2>11, <3>1, EndpointNames
  <2>12. CASE t = DrfIntegrations
    <3>1. DOMAIN NinjaIntegrations \subseteq DOMAIN Ninja
      BY <1>0 DEF NinjaTables
    <3> QED
      BY <2>1, <2>12, <3>1, EndpointNames
  <2> QED
    BY <2>1, <2>2, <2>3, <2>4, <2>5, <2>6, <2>7, <2>8, <2>9, <2>10, <2>11, <2>12 DEF DrfTables
<1> QED
  BY <1>1

\* The endpoints that do not make the one call of their own name.
Composed ==
    {"create_thread", "get_thread_history", "get_thread_history_with_files", "chat",
            "chat_with_files", "switch_thread", "rename_thread", "run_thread", "get_agent_info",
            "get_agent_tools", "run_agent", "reindex_agent", "download_thread_file"}

\* In Ninja, every other endpoint makes the call of its own name.
LEMMA NinjaCallsItself ==
    ASSUME NEW e \in DOMAIN Ninja \ Composed
    PROVE  Ninja[e] = <<e>>
<1>1. PICK t \in NinjaTables : e \in DOMAIN t /\ Ninja[e] = t[e]
  BY TogetherHasTables DEF Ninja
<1>2. CASE t = NinjaThreads
  BY <1>1, <1>2 DEF NinjaThreads, Composed
<1>3. CASE t = NinjaThreadViews
  BY <1>1, <1>3 DEF NinjaThreadViews, Itself
<1>4. CASE t = NinjaAgentSharing
  BY <1>1, <1>4 DEF NinjaAgentSharing, Itself
<1>5. CASE t = NinjaAgents
  BY <1>1, <1>5 DEF NinjaAgents, Composed
<1>6. CASE t = NinjaMemories
  BY <1>1, <1>6 DEF NinjaMemories, Itself
<1>7. CASE t = NinjaMemoryThreads
  BY <1>1, <1>7 DEF NinjaMemoryThreads, Itself
<1>8. CASE t = FileDownload
  BY <1>1, <1>8 DEF FileDownload, Composed
<1>9. CASE t = NinjaMemorySharing
  BY <1>1, <1>9 DEF NinjaMemorySharing, Itself
<1>10. CASE t = NinjaWorkflows
  BY <1>1, <1>10 DEF NinjaWorkflows, Itself
<1>11. CASE t = NinjaIntegrations
  BY <1>1, <1>11 DEF NinjaIntegrations, Itself
<1> QED
  BY <1>1, <1>2, <1>3, <1>4, <1>5, <1>6, <1>7, <1>8, <1>9, <1>10, <1>11 DEF NinjaTables

\* The calls of Ninja's endpoints that make several.
LEMMA NinjaComposed ==
    /\ Ninja["create_thread"] = <<"create_thread", "link_new_thread">>
    /\ Ninja["get_thread_history"] = <<"get_agent", "history">>
    /\ Ninja["get_thread_history_with_files"] = <<"get_agent", "history_with_files">>
    /\ Ninja["chat"] = <<"get_agent", "as_view">>
    /\ Ninja["chat_with_files"] = <<"get_agent", "as_view_with_files">>
    /\ Ninja["switch_thread"] = <<"find_new_agent", "get_thread", "unlink_memories",
            "update_thread", "link_memories">>
    /\ Ninja["rename_thread"] = <<"get_thread", "update_thread">>
    /\ Ninja["run_thread"] = <<"get_agent", "check_chat", "run">>
    /\ Ninja["get_agent_info"] = <<"find_agent", "get_agent_info">>
    /\ Ninja["get_agent_tools"] = <<"find_agent", "check_view", "get_integration_status">>
    /\ Ninja["run_agent"] = <<"find_agent", "check_chat", "run">>
    /\ Ninja["reindex_agent"] = <<"find_agent", "check_admin">>
    /\ Ninja["download_thread_file"] = <<"get_thread_file">>
<1>1. Ninja["create_thread"] = <<"create_thread", "link_new_thread">>
  <2>1. \A u \in NinjaTables : "create_thread" \in DOMAIN u => u = NinjaThreads
    BY EndpointNames DEF NinjaTables
  <2>2. "create_thread" \in DOMAIN NinjaThreads /\ NinjaThreads \in NinjaTables
    BY EndpointNames DEF NinjaTables
  <2>3. NinjaThreads["create_thread"] = <<"create_thread", "link_new_thread">>
    BY DEF NinjaThreads
  <2> QED
    BY <2>1, <2>2, <2>3, TogetherIs DEF Ninja
<1>2. Ninja["get_thread_history"] = <<"get_agent", "history">>
  <2>1. \A u \in NinjaTables : "get_thread_history" \in DOMAIN u => u = NinjaThreads
    BY EndpointNames DEF NinjaTables
  <2>2. "get_thread_history" \in DOMAIN NinjaThreads /\ NinjaThreads \in NinjaTables
    BY EndpointNames DEF NinjaTables
  <2>3. NinjaThreads["get_thread_history"] = <<"get_agent", "history">>
    BY DEF NinjaThreads
  <2> QED
    BY <2>1, <2>2, <2>3, TogetherIs DEF Ninja
<1>3. Ninja["get_thread_history_with_files"] = <<"get_agent", "history_with_files">>
  <2>1. \A u \in NinjaTables : "get_thread_history_with_files" \in DOMAIN u => u = NinjaThreads
    BY EndpointNames DEF NinjaTables
  <2>2. "get_thread_history_with_files" \in DOMAIN NinjaThreads /\ NinjaThreads \in NinjaTables
    BY EndpointNames DEF NinjaTables
  <2>3. NinjaThreads["get_thread_history_with_files"] = <<"get_agent", "history_with_files">>
    BY DEF NinjaThreads
  <2> QED
    BY <2>1, <2>2, <2>3, TogetherIs DEF Ninja
<1>4. Ninja["chat"] = <<"get_agent", "as_view">>
  <2>1. \A u \in NinjaTables : "chat" \in DOMAIN u => u = NinjaThreads
    BY EndpointNames DEF NinjaTables
  <2>2. "chat" \in DOMAIN NinjaThreads /\ NinjaThreads \in NinjaTables
    BY EndpointNames DEF NinjaTables
  <2>3. NinjaThreads["chat"] = <<"get_agent", "as_view">>
    BY DEF NinjaThreads
  <2> QED
    BY <2>1, <2>2, <2>3, TogetherIs DEF Ninja
<1>5. Ninja["chat_with_files"] = <<"get_agent", "as_view_with_files">>
  <2>1. \A u \in NinjaTables : "chat_with_files" \in DOMAIN u => u = NinjaThreads
    BY EndpointNames DEF NinjaTables
  <2>2. "chat_with_files" \in DOMAIN NinjaThreads /\ NinjaThreads \in NinjaTables
    BY EndpointNames DEF NinjaTables
  <2>3. NinjaThreads["chat_with_files"] = <<"get_agent", "as_view_with_files">>
    BY DEF NinjaThreads
  <2> QED
    BY <2>1, <2>2, <2>3, TogetherIs DEF Ninja
<1>6. Ninja["switch_thread"] = <<"find_new_agent", "get_thread", "unlink_memories",
        "update_thread", "link_memories">>
  <2>1. \A u \in NinjaTables : "switch_thread" \in DOMAIN u => u = NinjaThreads
    BY EndpointNames DEF NinjaTables
  <2>2. "switch_thread" \in DOMAIN NinjaThreads /\ NinjaThreads \in NinjaTables
    BY EndpointNames DEF NinjaTables
  <2>3. NinjaThreads["switch_thread"] = <<"find_new_agent", "get_thread", "unlink_memories",
          "update_thread", "link_memories">>
    BY DEF NinjaThreads
  <2> QED
    BY <2>1, <2>2, <2>3, TogetherIs DEF Ninja
<1>7. Ninja["rename_thread"] = <<"get_thread", "update_thread">>
  <2>1. \A u \in NinjaTables : "rename_thread" \in DOMAIN u => u = NinjaThreads
    BY EndpointNames DEF NinjaTables
  <2>2. "rename_thread" \in DOMAIN NinjaThreads /\ NinjaThreads \in NinjaTables
    BY EndpointNames DEF NinjaTables
  <2>3. NinjaThreads["rename_thread"] = <<"get_thread", "update_thread">>
    BY DEF NinjaThreads
  <2> QED
    BY <2>1, <2>2, <2>3, TogetherIs DEF Ninja
<1>8. Ninja["run_thread"] = <<"get_agent", "check_chat", "run">>
  <2>1. \A u \in NinjaTables : "run_thread" \in DOMAIN u => u = NinjaThreads
    BY EndpointNames DEF NinjaTables
  <2>2. "run_thread" \in DOMAIN NinjaThreads /\ NinjaThreads \in NinjaTables
    BY EndpointNames DEF NinjaTables
  <2>3. NinjaThreads["run_thread"] = <<"get_agent", "check_chat", "run">>
    BY DEF NinjaThreads
  <2> QED
    BY <2>1, <2>2, <2>3, TogetherIs DEF Ninja
<1>9. Ninja["get_agent_info"] = <<"find_agent", "get_agent_info">>
  <2>1. \A u \in NinjaTables : "get_agent_info" \in DOMAIN u => u = NinjaAgents
    BY EndpointNames DEF NinjaTables
  <2>2. "get_agent_info" \in DOMAIN NinjaAgents /\ NinjaAgents \in NinjaTables
    BY EndpointNames DEF NinjaTables
  <2>3. NinjaAgents["get_agent_info"] = <<"find_agent", "get_agent_info">>
    BY DEF NinjaAgents
  <2> QED
    BY <2>1, <2>2, <2>3, TogetherIs DEF Ninja
<1>10. Ninja["get_agent_tools"] = <<"find_agent", "check_view", "get_integration_status">>
  <2>1. \A u \in NinjaTables : "get_agent_tools" \in DOMAIN u => u = NinjaAgents
    BY EndpointNames DEF NinjaTables
  <2>2. "get_agent_tools" \in DOMAIN NinjaAgents /\ NinjaAgents \in NinjaTables
    BY EndpointNames DEF NinjaTables
  <2>3. NinjaAgents["get_agent_tools"] = <<"find_agent", "check_view", "get_integration_status">>
    BY DEF NinjaAgents
  <2> QED
    BY <2>1, <2>2, <2>3, TogetherIs DEF Ninja
<1>11. Ninja["run_agent"] = <<"find_agent", "check_chat", "run">>
  <2>1. \A u \in NinjaTables : "run_agent" \in DOMAIN u => u = NinjaAgents
    BY EndpointNames DEF NinjaTables
  <2>2. "run_agent" \in DOMAIN NinjaAgents /\ NinjaAgents \in NinjaTables
    BY EndpointNames DEF NinjaTables
  <2>3. NinjaAgents["run_agent"] = <<"find_agent", "check_chat", "run">>
    BY DEF NinjaAgents
  <2> QED
    BY <2>1, <2>2, <2>3, TogetherIs DEF Ninja
<1>12. Ninja["reindex_agent"] = <<"find_agent", "check_admin">>
  <2>1. \A u \in NinjaTables : "reindex_agent" \in DOMAIN u => u = NinjaAgents
    BY EndpointNames DEF NinjaTables
  <2>2. "reindex_agent" \in DOMAIN NinjaAgents /\ NinjaAgents \in NinjaTables
    BY EndpointNames DEF NinjaTables
  <2>3. NinjaAgents["reindex_agent"] = <<"find_agent", "check_admin">>
    BY DEF NinjaAgents
  <2> QED
    BY <2>1, <2>2, <2>3, TogetherIs DEF Ninja
<1>13. Ninja["download_thread_file"] = <<"get_thread_file">>
  <2>1. \A u \in NinjaTables : "download_thread_file" \in DOMAIN u => u = FileDownload
    BY EndpointNames DEF NinjaTables
  <2>2. "download_thread_file" \in DOMAIN FileDownload /\ FileDownload \in NinjaTables
    BY EndpointNames DEF NinjaTables
  <2>3. FileDownload["download_thread_file"] = <<"get_thread_file">>
    BY DEF FileDownload
  <2> QED
    BY <2>1, <2>2, <2>3, TogetherIs DEF Ninja
<1> QED
  BY <1>1, <1>2, <1>3, <1>4, <1>5, <1>6, <1>7, <1>8, <1>9, <1>10, <1>11, <1>12, <1>13

\* In DRF, every other endpoint makes the call of its own name.
LEMMA DrfCallsItself ==
    ASSUME NEW e \in DOMAIN Drf \ Composed
    PROVE  Drf[e] = <<e>>
<1>1. PICK t \in DrfTables : e \in DOMAIN t /\ Drf[e] = t[e]
  BY TogetherHasTables DEF Drf
<1>2. CASE t = DrfThreads
  BY <1>1, <1>2 DEF DrfThreads, Composed
<1>3. CASE t = ChatView
  BY <1>1, <1>3 DEF ChatView, Composed
<1>4. CASE t = DrfThreadParts
  BY <1>1, <1>4 DEF DrfThreadParts, Itself
<1>5. CASE t = FileDownload
  BY <1>1, <1>5 DEF FileDownload, Composed
<1>6. CASE t = DrfMessages
  BY <1>1, <1>6 DEF DrfMessages, Itself
<1>7. CASE t = DrfAgents
  BY <1>1, <1>7 DEF DrfAgents, Composed
<1>8. CASE t = DrfRuntimeAgents
  BY <1>1, <1>8 DEF DrfRuntimeAgents, Itself
<1>9. CASE t = DrfMemories
  BY <1>1, <1>9 DEF DrfMemories, Itself
<1>10. CASE t = DrfMemorySharing
  BY <1>1, <1>10 DEF DrfMemorySharing, Itself
<1>11. CASE t = DrfWorkflows
  BY <1>1, <1>11 DEF DrfWorkflows, Itself
<1>12. CASE t = DrfIntegrations
  BY <1>1, <1>12 DEF DrfIntegrations, Itself
<1> QED
  BY <1>1, <1>2, <1>3, <1>4, <1>5, <1>6, <1>7, <1>8, <1>9, <1>10, <1>11, <1>12 DEF DrfTables

\* The calls of DRF's endpoints that make several.
LEMMA DrfComposed ==
    /\ Drf["create_thread"] = <<"create_thread", "link_new_thread">>
    /\ Drf["get_thread_history"] = <<"get_agent", "history">>
    /\ Drf["get_thread_history_with_files"] = <<"get_agent", "history_with_files">>
    /\ Drf["chat"] = <<"get_agent", "as_view">>
    /\ Drf["chat_with_files"] = <<"get_agent", "as_view_with_files">>
    /\ Drf["switch_thread"] = <<"find_new_agent", "get_thread", "unlink_memories",
            "update_thread", "link_memories", "get_thread">>
    /\ Drf["rename_thread"] = <<"get_thread", "update_thread", "get_thread">>
    /\ Drf["run_thread"] = <<"get_agent", "check_chat", "run">>
    /\ Drf["get_agent_info"] = <<"find_agent", "get_agent_info">>
    /\ Drf["get_agent_tools"] = <<"find_agent", "check_view", "get_integration_status">>
    /\ Drf["run_agent"] = <<"find_agent", "check_chat", "run">>
    /\ Drf["reindex_agent"] = <<"find_agent", "check_admin">>
    /\ Drf["download_thread_file"] = <<"get_thread_file">>
<1>1. Drf["create_thread"] = <<"create_thread", "link_new_thread">>
  <2>1. \A u \in DrfTables : "create_thread" \in DOMAIN u => u = DrfThreads
    BY EndpointNames DEF DrfTables
  <2>2. "create_thread" \in DOMAIN DrfThreads /\ DrfThreads \in DrfTables
    BY EndpointNames DEF DrfTables
  <2>3. DrfThreads["create_thread"] = <<"create_thread", "link_new_thread">>
    BY DEF DrfThreads
  <2> QED
    BY <2>1, <2>2, <2>3, TogetherIs DEF Drf
<1>2. Drf["get_thread_history"] = <<"get_agent", "history">>
  <2>1. \A u \in DrfTables : "get_thread_history" \in DOMAIN u => u = DrfThreads
    BY EndpointNames DEF DrfTables
  <2>2. "get_thread_history" \in DOMAIN DrfThreads /\ DrfThreads \in DrfTables
    BY EndpointNames DEF DrfTables
  <2>3. DrfThreads["get_thread_history"] = <<"get_agent", "history">>
    BY DEF DrfThreads
  <2> QED
    BY <2>1, <2>2, <2>3, TogetherIs DEF Drf
<1>3. Drf["get_thread_history_with_files"] = <<"get_agent", "history_with_files">>
  <2>1. \A u \in DrfTables : "get_thread_history_with_files" \in DOMAIN u => u = DrfThreads
    BY EndpointNames DEF DrfTables
  <2>2. "get_thread_history_with_files" \in DOMAIN DrfThreads /\ DrfThreads \in DrfTables
    BY EndpointNames DEF DrfTables
  <2>3. DrfThreads["get_thread_history_with_files"] = <<"get_agent", "history_with_files">>
    BY DEF DrfThreads
  <2> QED
    BY <2>1, <2>2, <2>3, TogetherIs DEF Drf
<1>4. Drf["chat"] = <<"get_agent", "as_view">>
  <2>1. \A u \in DrfTables : "chat" \in DOMAIN u => u = ChatView
    BY EndpointNames DEF DrfTables
  <2>2. "chat" \in DOMAIN ChatView /\ ChatView \in DrfTables
    BY EndpointNames DEF DrfTables
  <2>3. ChatView["chat"] = <<"get_agent", "as_view">>
    BY DEF ChatView
  <2> QED
    BY <2>1, <2>2, <2>3, TogetherIs DEF Drf
<1>5. Drf["chat_with_files"] = <<"get_agent", "as_view_with_files">>
  <2>1. \A u \in DrfTables : "chat_with_files" \in DOMAIN u => u = ChatView
    BY EndpointNames DEF DrfTables
  <2>2. "chat_with_files" \in DOMAIN ChatView /\ ChatView \in DrfTables
    BY EndpointNames DEF DrfTables
  <2>3. ChatView["chat_with_files"] = <<"get_agent", "as_view_with_files">>
    BY DEF ChatView
  <2> QED
    BY <2>1, <2>2, <2>3, TogetherIs DEF Drf
<1>6. Drf["switch_thread"] = <<"find_new_agent", "get_thread", "unlink_memories", "update_thread",
        "link_memories", "get_thread">>
  <2>1. \A u \in DrfTables : "switch_thread" \in DOMAIN u => u = DrfThreads
    BY EndpointNames DEF DrfTables
  <2>2. "switch_thread" \in DOMAIN DrfThreads /\ DrfThreads \in DrfTables
    BY EndpointNames DEF DrfTables
  <2>3. DrfThreads["switch_thread"] = <<"find_new_agent", "get_thread", "unlink_memories",
          "update_thread", "link_memories", "get_thread">>
    BY DEF DrfThreads
  <2> QED
    BY <2>1, <2>2, <2>3, TogetherIs DEF Drf
<1>7. Drf["rename_thread"] = <<"get_thread", "update_thread", "get_thread">>
  <2>1. \A u \in DrfTables : "rename_thread" \in DOMAIN u => u = DrfThreads
    BY EndpointNames DEF DrfTables
  <2>2. "rename_thread" \in DOMAIN DrfThreads /\ DrfThreads \in DrfTables
    BY EndpointNames DEF DrfTables
  <2>3. DrfThreads["rename_thread"] = <<"get_thread", "update_thread", "get_thread">>
    BY DEF DrfThreads
  <2> QED
    BY <2>1, <2>2, <2>3, TogetherIs DEF Drf
<1>8. Drf["run_thread"] = <<"get_agent", "check_chat", "run">>
  <2>1. \A u \in DrfTables : "run_thread" \in DOMAIN u => u = DrfThreads
    BY EndpointNames DEF DrfTables
  <2>2. "run_thread" \in DOMAIN DrfThreads /\ DrfThreads \in DrfTables
    BY EndpointNames DEF DrfTables
  <2>3. DrfThreads["run_thread"] = <<"get_agent", "check_chat", "run">>
    BY DEF DrfThreads
  <2> QED
    BY <2>1, <2>2, <2>3, TogetherIs DEF Drf
<1>9. Drf["get_agent_info"] = <<"find_agent", "get_agent_info">>
  <2>1. \A u \in DrfTables : "get_agent_info" \in DOMAIN u => u = DrfAgents
    BY EndpointNames DEF DrfTables
  <2>2. "get_agent_info" \in DOMAIN DrfAgents /\ DrfAgents \in DrfTables
    BY EndpointNames DEF DrfTables
  <2>3. DrfAgents["get_agent_info"] = <<"find_agent", "get_agent_info">>
    BY DEF DrfAgents
  <2> QED
    BY <2>1, <2>2, <2>3, TogetherIs DEF Drf
<1>10. Drf["get_agent_tools"] = <<"find_agent", "check_view", "get_integration_status">>
  <2>1. \A u \in DrfTables : "get_agent_tools" \in DOMAIN u => u = DrfAgents
    BY EndpointNames DEF DrfTables
  <2>2. "get_agent_tools" \in DOMAIN DrfAgents /\ DrfAgents \in DrfTables
    BY EndpointNames DEF DrfTables
  <2>3. DrfAgents["get_agent_tools"] = <<"find_agent", "check_view", "get_integration_status">>
    BY DEF DrfAgents
  <2> QED
    BY <2>1, <2>2, <2>3, TogetherIs DEF Drf
<1>11. Drf["run_agent"] = <<"find_agent", "check_chat", "run">>
  <2>1. \A u \in DrfTables : "run_agent" \in DOMAIN u => u = DrfAgents
    BY EndpointNames DEF DrfTables
  <2>2. "run_agent" \in DOMAIN DrfAgents /\ DrfAgents \in DrfTables
    BY EndpointNames DEF DrfTables
  <2>3. DrfAgents["run_agent"] = <<"find_agent", "check_chat", "run">>
    BY DEF DrfAgents
  <2> QED
    BY <2>1, <2>2, <2>3, TogetherIs DEF Drf
<1>12. Drf["reindex_agent"] = <<"find_agent", "check_admin">>
  <2>1. \A u \in DrfTables : "reindex_agent" \in DOMAIN u => u = DrfAgents
    BY EndpointNames DEF DrfTables
  <2>2. "reindex_agent" \in DOMAIN DrfAgents /\ DrfAgents \in DrfTables
    BY EndpointNames DEF DrfTables
  <2>3. DrfAgents["reindex_agent"] = <<"find_agent", "check_admin">>
    BY DEF DrfAgents
  <2> QED
    BY <2>1, <2>2, <2>3, TogetherIs DEF Drf
<1>13. Drf["download_thread_file"] = <<"get_thread_file">>
  <2>1. \A u \in DrfTables : "download_thread_file" \in DOMAIN u => u = FileDownload
    BY EndpointNames DEF DrfTables
  <2>2. "download_thread_file" \in DOMAIN FileDownload /\ FileDownload \in DrfTables
    BY EndpointNames DEF DrfTables
  <2>3. FileDownload["download_thread_file"] = <<"get_thread_file">>
    BY DEF FileDownload
  <2> QED
    BY <2>1, <2>2, <2>3, TogetherIs DEF Drf
<1> QED
  BY <1>1, <1>2, <1>3, <1>4, <1>5, <1>6, <1>7, <1>8, <1>9, <1>10, <1>11, <1>12, <1>13

\* Steps that fail only where an earlier one has do not change the answer.
LEMMA MoreOfTheSame ==
    ASSUME NEW w, NEW s, NEW t, NEW m \in Nat, NEW n \in Nat,
           DOMAIN s = 1..m, DOMAIN t = 1..n, m <= n,
           \A i \in 1..m : t[i] = s[i],
           \A k \in (m + 1)..n : Fails(w, t[k]) => \E j \in 1..m : Fails(w, s[j])
    PROVE  Outcome(w, s) = Outcome(w, t)
<1> DEFINE a == Stops(w, s)
           b == Stops(w, t)
<1>1. /\ a \in SUBSET Nat /\ b \in SUBSET Nat
      /\ a \subseteq b /\ \A k \in b : k \in a \/ (k > m /\ a # {})
      /\ a \subseteq 1..m
  BY DEF Stops
<1>2. Outcome(w, s) = (IF a = {} THEN
        "ok" ELSE s[First(a)].answer) /\ Outcome(w, t) = (IF b = {} THEN
        "ok" ELSE t[First(b)].answer)
  BY DEF Outcome
<1> HIDE DEF a, b
<1>3. CASE a = {}
  BY <1>1, <1>2, <1>3
<1>4. CASE a # {}
  <2>1. /\ First(a) \in a /\ \A j \in a : First(a) <= j
        /\ First(b) \in b /\ \A j \in b : First(b) <= j
    BY <1>1, <1>4, FirstIsLeast
  <2>2. First(a) \in 1..m /\ First(a) \in b
    BY <1>1, <2>1
  <2>3. First(b) <= First(a)
    BY <2>1, <2>2
  <2>4. First(b) \in a
    <3>1. First(b) \in b /\ (First(b) \in a \/ First(b) > m)
      BY <1>1, <2>1
    <3>2. First(a) \in Nat /\ First(a) <= m
      BY <2>2
    <3>3. First(b) \in Nat
      BY <1>1, <2>1
    <3> QED
      BY <2>3, <3>1, <3>2, <3>3
  <2>5. First(a) <= First(b)
    BY <2>1, <2>4
  <2>6. First(a) = First(b)
    <3>1. First(a) \in Nat /\ First(b) \in Nat
      BY <1>1, <2>1
    <3> QED
      BY <2>3, <2>5, <3>1
  <2> QED
    BY <1>1, <1>2, <1>4, <2>2, <2>6
<1> QED
  BY <1>3, <1>4

\* Reading and writing do not fail.
LEMMA EffectsDoNotFail ==
    \A w, of, tier : ~Fails(w, Read(of, tier)) /\ ~Fails(w, Write(of, tier))
BY DEF Fails, Read, Write

\* Showing the changed thread fails only where changing it has.
LEMMA ShowingChanges ==
    ASSUME NEW w
    PROVE  /\ Outcome(w,
            StepsOf(<<"find_new_agent", "get_thread", "unlink_memories", "update_thread",
            "link_memories">>))
              = Outcome(w, StepsOf(<<"find_new_agent", "get_thread", "unlink_memories",
                      "update_thread", "link_memories", "get_thread">>))
           /\ Outcome(w, StepsOf(<<"get_thread", "update_thread">>))
              = Outcome(w, StepsOf(<<"get_thread", "update_thread", "get_thread">>))
<1>1. ASSUME NEW a, NEW b, NEW c, NEW d, NEW r, NEW x, ~Fails(w, r), ~Fails(w, x)
      PROVE  /\ Outcome(w, <<a, b, c, r, x, b, d, x, x>>) = Outcome(w,
              <<a, b, c, r, x, b, d, x, x, b, c, r>>)
             /\ Outcome(w, <<b, c, r, b, d, x>>) = Outcome(w, <<b, c, r, b, d, x, b, c, r>>)
  <2>1. Outcome(w, <<a, b, c, r, x, b, d, x, x>>) = Outcome(w,
          <<a, b, c, r, x, b, d, x, x, b, c, r>>)
    <3> DEFINE s == <<a, b, c, r, x, b, d, x, x>>
               t == <<a, b, c, r, x, b, d, x, x, b, c, r>>
    <3>1. DOMAIN s = 1..9 /\ DOMAIN t = 1..12 /\ \A i \in 1..9 : t[i] = s[i]
      OBVIOUS
    <3>2. t[10] = s[2] /\ t[11] = s[3] /\ t[12] = r
      OBVIOUS
    <3>3. \A k \in (9 + 1)..12 : k = 10 \/ k = 11 \/ k = 12
      OBVIOUS
    <3> HIDE DEF s, t
    <3>4. \A k \in (9 + 1)..12 : Fails(w, t[k]) => \E j \in 1..9 : Fails(w, s[j])
      BY <1>1, <3>2, <3>3
    <3>5. 9 \in Nat /\ 12 \in Nat /\ 9 <= 12
      OBVIOUS
    <3>6. Outcome(w, s) = Outcome(w, t)
      BY <3>1, <3>4, <3>5, MoreOfTheSame
    <3> QED
      BY <3>6 DEF s, t
  <2>2. Outcome(w, <<b, c, r, b, d, x>>) = Outcome(w, <<b, c, r, b, d, x, b, c, r>>)
    <3> DEFINE s == <<b, c, r, b, d, x>>
               t == <<b, c, r, b, d, x, b, c, r>>
    <3>1. DOMAIN s = 1..6 /\ DOMAIN t = 1..9 /\ \A i \in 1..6 : t[i] = s[i]
      OBVIOUS
    <3>2. t[7] = s[1] /\ t[8] = s[2] /\ t[9] = r
      OBVIOUS
    <3>3. \A k \in (6 + 1)..9 : k = 7 \/ k = 8 \/ k = 9
      OBVIOUS
    <3> HIDE DEF s, t
    <3>4. \A k \in (6 + 1)..9 : Fails(w, t[k]) => \E j \in 1..6 : Fails(w, s[j])
      BY <1>1, <3>2, <3>3
    <3>5. 6 \in Nat /\ 9 \in Nat /\ 6 <= 9
      OBVIOUS
    <3>6. Outcome(w, s) = Outcome(w, t)
      BY <3>1, <3>4, <3>5, MoreOfTheSame
    <3> QED
      BY <3>6 DEF s, t
  <2> QED
    BY <2>1, <2>2
<1>2. ~Fails(w, Read("thread", "read")) /\ ~Fails(w, Write("thread", "manage"))
  BY EffectsDoNotFail
<1>3. /\ Outcome(w,
        <<Find("new_agent"), Find("thread"), Ask("thread", "VIEW_THREAD", "thread"),
        Read("thread", "read"), Write("thread", "manage"), Find("thread"),
        Ask("thread", "UPDATE_THREAD", "thread"), Write("thread", "manage"),
        Write("thread", "manage")>>)
         = Outcome(w, <<Find("new_agent"), Find("thread"), Ask("thread", "VIEW_THREAD", "thread"),
                 Read("thread", "read"), Write("thread", "manage"), Find("thread"),
                 Ask("thread", "UPDATE_THREAD", "thread"), Write("thread", "manage"),
                 Write("thread", "manage"), Find("thread"),
                 Ask("thread", "VIEW_THREAD", "thread"), Read("thread", "read")>>)
      /\ Outcome(w, <<Find("thread"), Ask("thread", "VIEW_THREAD", "thread"),
              Read("thread", "read"), Find("thread"), Ask("thread", "UPDATE_THREAD", "thread"),
              Write("thread", "manage")>>)
         = Outcome(w, <<Find("thread"), Ask("thread", "VIEW_THREAD", "thread"),
                 Read("thread", "read"), Find("thread"), Ask("thread", "UPDATE_THREAD", "thread"),
                 Write("thread", "manage"), Find("thread"),
                 Ask("thread", "VIEW_THREAD", "thread"), Read("thread", "read")>>)
  BY <1>1, <1>2
<1> QED
  BY <1>3, ComposedSteps

\* Both layers answer every endpoint alike.
LEMMA EndpointsAgree ==
    /\ DOMAIN Ninja = DOMAIN Drf
    /\ \A e \in DOMAIN Ninja : \A w : Outcome(w, NinjaRequest[e]) = Outcome(w, DrfRequest[e])
<1>1. DOMAIN Ninja = DOMAIN Drf
  BY NinjaInDrf, DrfInNinja
<1>2. ASSUME NEW e \in DOMAIN Ninja, NEW w
      PROVE  Outcome(w, StepsOf(Ninja[e])) = Outcome(w, StepsOf(Drf[e]))
  <2>1. CASE e \notin Composed
    BY <1>1, <2>1, NinjaCallsItself, DrfCallsItself
  <2>2. CASE e \in Composed
    BY <2>2, NinjaComposed, DrfComposed, ShowingChanges DEF Composed
  <2> QED
    BY <2>1, <2>2
<1> QED
  BY <1>1, <1>2 DEF NinjaRequest, DrfRequest

(***************************************************************************)
(* What an exception becomes (Errors).                                     *)
(***************************************************************************)
Fits(rule, e) == Is(e, rule[1]) /\ rule[2] \in {Silent, e.says}

SomeFits(rules, e) == \E i \in DOMAIN rules : Fits(rules[i], e)

\* The code of the first rule that fits.
LEMMA NotBefore ==
    \A n \in Nat : \A x \in 1..n, y \in 1..n : y \notin 1..(x - 1) => x <= y
OBVIOUS

\* The first rule that fits decides.
LEMMA FirstRuleAt ==
    ASSUME NEW rules, NEW n \in Nat, DOMAIN rules = 1..n, NEW e, NEW i \in 1..n,
           Fits(rules[i], e), \A j \in 1..(i - 1) : ~Fits(rules[j], e)
    PROVE  FirstRule(rules, e) = rules[i][3]
<1> DEFINE fits == {j \in DOMAIN rules : Is(e, rules[j][1]) /\ rules[j][2] \in {Silent, e.says}}
<1>1. i \in fits /\ \A j \in fits : i <= j
  <2>1. i \in fits
    BY DEF Fits
  <2>2. ASSUME NEW j \in fits PROVE i <= j
    <3>1. j \in 1..n /\ Fits(rules[j], e)
      BY <2>2 DEF Fits
    <3>2. j \notin 1..(i - 1)
      BY <3>1
    <3> QED
      BY <3>1, <3>2, NotBefore
  <2> QED
    BY <2>1, <2>2
<1>2. FirstRule(rules, e) = IF fits = {} THEN
        NoCode ELSE rules[CHOOSE k \in fits : \A j \in fits : k <= j][3]
  BY DEF FirstRule
<1>3. fits \subseteq 1..n
  OBVIOUS
<1> HIDE DEF fits
<1>4. (CHOOSE k \in fits : \A j \in fits : k <= j) = i
  <2>1. \A k \in fits : (\A j \in fits : k <= j) => k = i
    BY <1>1, <1>3
  <2> QED
    BY <1>1, <2>1
<1> QED
  BY <1>1, <1>2, <1>4

\* Where no rule fits there is no code.
LEMMA FirstRuleOfNone ==
    ASSUME NEW rules, NEW e, \A j \in DOMAIN rules : ~Fits(rules[j], e)
    PROVE  FirstRule(rules, e) = NoCode
BY DEF FirstRule, Fits

\* Of two lists, the second counts if nothing in the first fits.
LEMMA FirstRuleOfJoined ==
    ASSUME NEW S, NEW a \in Seq(S), NEW b \in Seq(S), NEW e
    PROVE  FirstRule(a \o b, e) =
              IF SomeFits(a, e) THEN FirstRule(a, e) ELSE FirstRule(b, e)
<1> DEFINE m == Len(a)
           n == Len(b)
<1>1. /\ m \in Nat /\ n \in Nat /\ DOMAIN a = 1..m /\ DOMAIN b = 1..n
      /\ a \o b \in Seq(S) /\ Len(a \o b) = m + n
      /\ \A i \in 1..(m + n) : (a \o b)[i] = IF i <= m THEN a[i] ELSE b[i - m]
  BY ConcatProperties
<1>2. PICK c : c = a \o b
  OBVIOUS
<1>3. /\ DOMAIN c = 1..(m + n)
      /\ \A i \in 1..m : c[i] = a[i]
      /\ \A i \in (m + 1)..(m + n) : c[i] = b[i - m]
  BY <1>1, <1>2
<1> HIDE DEF m, n
<1>4. CASE \E i \in DOMAIN a : Fits(a[i], e)
  <2> DEFINE fits == {i \in 1..m : Fits(a[i], e)}
  <2>1. PICK i \in fits : \A j \in fits : i <= j
    <3>1. fits \in SUBSET Nat /\ fits # {}
      BY <1>1, <1>4
    <3> QED
      BY <3>1, Least
  <2>2. i \in 1..m /\ Fits(a[i], e) /\ \A j \in 1..(i - 1) : ~Fits(a[j], e)
    <3>1. \A j \in 1..(i - 1) : j \in 1..m /\ ~(i <= j)
      BY <1>1, <2>1
    <3> QED
      BY <2>1, <3>1
  <2>3. FirstRule(a, e) = a[i][3]
    BY <1>1, <2>2, FirstRuleAt, SMTT(30)
  <2>4. i \in 1..(m + n) /\ m + n \in Nat /\ \A j \in 1..(i - 1) : j \in 1..m
    BY <1>1, <2>2
  <2>5. Fits(c[i], e) /\ \A j \in 1..(i - 1) : ~Fits(c[j], e)
    BY <1>3, <2>2, <2>4
  <2>6. FirstRule(c, e) = c[i][3]
    BY <1>3, <2>4, <2>5, FirstRuleAt, SMTT(30)
  <2> QED
    BY <1>2, <1>3, <1>4, <2>2, <2>3, <2>6 DEF SomeFits
<1>5. CASE ~ \E i \in DOMAIN a : Fits(a[i], e)
  <2>1. \A i \in 1..m : ~Fits(c[i], e)
    BY <1>1, <1>3, <1>5
  <2>2. CASE \E i \in DOMAIN b : Fits(b[i], e)
    <3> DEFINE fits == {i \in 1..n : Fits(b[i], e)}
    <3>1. PICK i \in fits : \A j \in fits : i <= j
      <4>1. fits \in SUBSET Nat /\ fits # {}
        BY <1>1, <2>2
      <4> QED
        BY <4>1, Least
    <3>2. i \in 1..n /\ Fits(b[i], e) /\ \A j \in 1..(i - 1) : ~Fits(b[j], e)
      <4>1. \A j \in 1..(i - 1) : j \in 1..n /\ ~(i <= j)
        BY <1>1, <3>1
      <4> QED
        BY <3>1, <4>1
    <3>3. FirstRule(b, e) = b[i][3]
      <4>1. n \in Nat /\ DOMAIN b = 1..n
        BY <1>1
      <4> QED
        BY <4>1, <3>2, FirstRuleAt
    <3>4. /\ m + i \in 1..(m + n) /\ m + n \in Nat /\ c[m + i] = b[i]
      <4>1. m + i \in (m + 1)..(m + n) /\ (m + i) - m = i
        BY <1>1, <3>2
      <4> QED
        BY <1>1, <1>3, <4>1
    <3>5. ASSUME NEW j \in 1..((m + i) - 1) PROVE ~Fits(c[j], e)
      <4>1. CASE j \in 1..m
        BY <2>1, <4>1
      <4>2. CASE j \notin 1..m
        <5>1. j \in (m + 1)..(m + n) /\ j - m \in 1..(i - 1)
          BY <1>1, <3>2, <4>2
        <5> QED
          BY <1>3, <3>2, <5>1
      <4> QED
        BY <4>1, <4>2
    <3>6. FirstRule(c, e) = c[m + i][3]
      <4>1. PICK k : k = m + i
        OBVIOUS
      <4>2. k \in 1..(m + n) /\ m + n \in Nat /\ Fits(c[k], e)
        BY <3>2, <3>4, <4>1
      <4>2a. \A j \in 1..(k - 1) : ~Fits(c[j], e)
        BY <3>5, <4>1
      <4>3. FirstRule(c, e) = c[k][3]
        BY <1>3, <4>2, <4>2a, FirstRuleAt, SMTT(30)
      <4> QED
        BY <4>1, <4>3
    <3> QED
      BY <1>2, <1>5, <3>3, <3>4, <3>6 DEF SomeFits
  <2>3. CASE ~ \E i \in DOMAIN b : Fits(b[i], e)
    <3>1. ASSUME NEW j \in 1..(m + n) PROVE ~Fits(c[j], e)
      <4>1. CASE j \in 1..m
        BY <2>1, <4>1
      <4>2. CASE j \notin 1..m
        <5>1. j \in (m + 1)..(m + n) /\ j - m \in 1..n
          BY <1>1, <4>2
        <5> QED
          BY <1>1, <1>3, <2>3, <5>1
      <4> QED
        BY <4>1, <4>2
    <3>2. FirstRule(c, e) = NoCode
      BY <1>3, <3>1, FirstRuleOfNone
    <3>3. FirstRule(b, e) = NoCode
      BY <2>3, FirstRuleOfNone
    <3> QED
      BY <1>2, <1>5, <3>2, <3>3 DEF SomeFits
  <2> QED
    BY <2>2, <2>3
<1> QED
  BY <1>4, <1>5 DEF SomeFits

\* A rule fits in a list of two parts if it does in one.
LEMMA FitsOfJoined ==
    ASSUME NEW S, NEW a \in Seq(S), NEW b \in Seq(S), NEW e
    PROVE  SomeFits(a \o b, e) <=> SomeFits(a, e) \/ SomeFits(b, e)
<1> DEFINE m == Len(a)
           n == Len(b)
<1>0. PICK c : c = a \o b
  OBVIOUS
<1>1. /\ m \in Nat /\ n \in Nat /\ DOMAIN a = 1..m /\ DOMAIN b = 1..n
      /\ DOMAIN c = 1..(m + n)
      /\ \A i \in 1..(m + n) : c[i] = IF i <= m THEN a[i] ELSE b[i - m]
  BY <1>0, ConcatProperties
<1> HIDE DEF m, n
<1>2. \A i \in 1..m : i \in 1..(m + n) /\ c[i] = a[i]
  BY <1>1
<1>3. \A i \in 1..n : m + i \in 1..(m + n) /\ c[m + i] = b[i]
  <2>1. \A i \in 1..n : m + i \in 1..(m + n) /\ ~(m + i <= m) /\ (m + i) - m = i
    BY <1>1
  <2> QED
    BY <1>1, <2>1
<1>4. ASSUME NEW i \in 1..(m + n)
        PROVE (i \in 1..m /\ c[i] = a[i]) \/ (i - m \in 1..n /\ c[i] = b[i - m])
  BY <1>1
<1> QED
  BY <1>0, <1>1, <1>2, <1>3, <1>4 DEF SomeFits

\* The classes an exception is of.
LEMMA ClassesOf ==
    \A e, class :
       /\ e.class \in StatusErrors =>
               (Is(e, class) <=> class \in {e.class, "APIStatusError", "Exception"})
       /\ e.class = "APITimeoutError" =>
               (Is(e, class) <=> class \in {e.class, "APIConnectionError", "Exception"})
       /\ e.class = "NotFound" => (Is(e, class) <=> class \in {e.class, "AiSdkError", "Exception"})
       /\ e.class = "UserError" => (Is(e, class) <=> class \in {e.class, "AiSdkError", "Exception"})
       /\ e.class = "IntegrationNotConnectable" =>
               (Is(e, class) <=> class \in {e.class, "UserError", "AiSdkError"})
       /\ e.class \in {"APIConnectionError", "AiSdkError", "RuntimeError", "TimeoutError",
               "PermissionDenied",
                       "ObjectDoesNotExist", "ConflictError", "ImproperlyConfigured",
                               "PipelineRuntimeError",
                       "ValidationError", "DjangoValidationError"}
            => (Is(e, class) <=> class \in {e.class, "Exception"})
BY DEF Is, Parent, StatusErrors

\* The rules of a list, one by one.
LEMMA OpenAIIs ==
    /\ \E S : OpenAI \in Seq(S)
    /\ DOMAIN OpenAI = 1..13
    /\ OpenAI[1][1] = "ContentFilterFinishReasonError" /\ OpenAI[1][2] = Silent /\ OpenAI[1][3] = "content_filtered"
    /\ OpenAI[2][1] = "RateLimitError" /\ OpenAI[2][2] = "quota" /\ OpenAI[2][3] = "configuration_error"
    /\ OpenAI[3][1] = "RateLimitError" /\ OpenAI[3][2] = Silent /\ OpenAI[3][3] = "rate_limited"
    /\ OpenAI[4][1] = "APITimeoutError" /\ OpenAI[4][2] = Silent /\ OpenAI[4][3] = "provider_timeout"
    /\ OpenAI[5][1] = "APIConnectionError" /\ OpenAI[5][2] = Silent /\ OpenAI[5][3] = "provider_unavailable"
    /\ OpenAI[6][1] = "NotFoundError" /\ OpenAI[6][2] = "no_body" /\ OpenAI[6][3] = "provider_unavailable"
    /\ OpenAI[7][1] = "AuthenticationError" /\ OpenAI[7][2] = Silent /\ OpenAI[7][3] = "configuration_error"
    /\ OpenAI[8][1] = "PermissionDeniedError" /\ OpenAI[8][2] = Silent /\ OpenAI[8][3] = "configuration_error"
    /\ OpenAI[9][1] = "NotFoundError" /\ OpenAI[9][2] = Silent /\ OpenAI[9][3] = "configuration_error"
    /\ OpenAI[10][1] = "BadRequestError" /\ OpenAI[10][2] = "overflow" /\ OpenAI[10][3] = "context_overflow"
    /\ OpenAI[11][1] = "BadRequestError" /\ OpenAI[11][2] = "filter" /\ OpenAI[11][3] = "content_filtered"
    /\ OpenAI[12][1] = "BadRequestError" /\ OpenAI[12][2] = "tools" /\ OpenAI[12][3] = "configuration_error"
    /\ OpenAI[13][1] = "InternalServerError" /\ OpenAI[13][2] = Silent /\ OpenAI[13][3] = "provider_unavailable"
<1>1. \A a, b, c, d, e, f, g, h, k, l, m, n, o :
        <<a, b, c, d, e, f, g, h, k, l, m, n, o>> \in Seq({a, b, c, d, e, f, g, h, k, l, m, n, o})
  OBVIOUS
<1>2. \E S : OpenAI \in Seq(S)
  BY <1>1 DEF OpenAI
<1> QED
  BY <1>2 DEF OpenAI

\* The rules of a list, one by one.
LEMMA AnthropicIs ==
    /\ \E S : Anthropic \in Seq(S)
    /\ DOMAIN Anthropic = 1..9
    /\ Anthropic[1][1] = "RateLimitError" /\ Anthropic[1][2] = Silent /\ Anthropic[1][3] = "rate_limited"
    /\ Anthropic[2][1] = "APITimeoutError" /\ Anthropic[2][2] = Silent /\ Anthropic[2][3] = "provider_timeout"
    /\ Anthropic[3][1] = "APIConnectionError" /\ Anthropic[3][2] = Silent /\ Anthropic[3][3] = "provider_unavailable"
    /\ Anthropic[4][1] = "NotFoundError" /\ Anthropic[4][2] = "no_body" /\ Anthropic[4][3] = "provider_unavailable"
    /\ Anthropic[5][1] = "AuthenticationError" /\ Anthropic[5][2] = Silent /\ Anthropic[5][3] = "configuration_error"
    /\ Anthropic[6][1] = "PermissionDeniedError" /\ Anthropic[6][2] = Silent /\ Anthropic[6][3] = "configuration_error"
    /\ Anthropic[7][1] = "NotFoundError" /\ Anthropic[7][2] = Silent /\ Anthropic[7][3] = "configuration_error"
    /\ Anthropic[8][1] = "BadRequestError" /\ Anthropic[8][2] = "overflow" /\ Anthropic[8][3] = "context_overflow"
    /\ Anthropic[9][1] = "InternalServerError" /\ Anthropic[9][2] = Silent /\ Anthropic[9][3] = "provider_unavailable"
<1>1. \A a, b, c, d, e, f, g, h, k :
        <<a, b, c, d, e, f, g, h, k>> \in Seq({a, b, c, d, e, f, g, h, k})
  OBVIOUS
<1>2. \E S : Anthropic \in Seq(S)
  BY <1>1 DEF Anthropic
<1> QED
  BY <1>2 DEF Anthropic

\* The rules of a list, one by one.
LEMMA FrameworkIs ==
    /\ \E S : Framework \in Seq(S)
    /\ DOMAIN Framework = 1..5
    /\ Framework[1][1] = "PermissionDenied" /\ Framework[1][2] = Silent /\ Framework[1][3] = "permission_denied"
    /\ Framework[2][1] = "Http404" /\ Framework[2][2] = Silent /\ Framework[2][3] = "not_found"
    /\ Framework[3][1] = "ObjectDoesNotExist" /\ Framework[3][2] = Silent /\ Framework[3][3] = "not_found"
    /\ Framework[4][1] = "ConflictError" /\ Framework[4][2] = Silent /\ Framework[4][3] = "conflict"
    /\ Framework[5][1] = "ImproperlyConfigured" /\ Framework[5][2] = Silent /\ Framework[5][3] = "configuration_error"
<1>1. \A a, b, c, d, e : <<a, b, c, d, e>> \in Seq({a, b, c, d, e})
  OBVIOUS
<1>2. \E S : Framework \in Seq(S)
  BY <1>1 DEF Framework
<1> QED
  BY <1>2 DEF Framework

\* The rules of a list, one by one.
LEMMA RestIs ==
    /\ \E S : Rest \in Seq(S)
    /\ DOMAIN Rest = 1..3
    /\ Rest[1][1] = "TimeoutError" /\ Rest[1][2] = Silent /\ Rest[1][3] = "provider_timeout"
    /\ Rest[2][1] = "ConnectionError" /\ Rest[2][2] = Silent /\ Rest[2][3] = "provider_unavailable"
    /\ Rest[3][1] = "Exception" /\ Rest[3][2] = "overflow" /\ Rest[3][3] = "context_overflow"
<1>1. \A a, b, c : <<a, b, c>> \in Seq({a, b, c})
  OBVIOUS
<1>2. \E S : Rest \in Seq(S)
  BY <1>1 DEF Rest
<1> QED
  BY <1>2 DEF Rest

\* The rules for the exception's provider.
ProviderRules(e) == IF e.from = "openai" THEN OpenAI ELSE IF e.from = "anthropic" THEN
        Anthropic ELSE <<>>

\* The code of an exception that is not the package's own and that no hook
\* knows: the framework's rules count before the providers', those before the
\* rest.
LEMMA CodeByRules ==
    ASSUME NEW e, ~Is(e, "AiSdkError"), HookCode(e) = NoCode
    PROVE  OwnCode(e) =
              IF SomeFits(Framework, e) THEN FirstRule(Framework, e)
              ELSE IF SomeFits(ProviderRules(e), e)
                   THEN FirstRule(ProviderRules(e), e)
                   ELSE FirstRule(Rest, e)
<1>1. PICK S : Framework \in Seq(S) /\ OpenAI \in Seq(S) /\ Anthropic \in Seq(S) /\ Rest \in Seq(S)
  <2>1. \A S, T : S \subseteq T => Seq(S) \subseteq Seq(T)
    OBVIOUS
  <2>2. PICK S1, S2, S3, S4 :
          Framework \in Seq(S1) /\ OpenAI \in Seq(S2) /\ Anthropic \in Seq(S3) /\ Rest \in Seq(S4)
    BY FrameworkIs, OpenAIIs, AnthropicIs, RestIs
  <2>3. PICK S : S1 \subseteq S /\ S2 \subseteq S /\ S3 \subseteq S /\ S4 \subseteq S
    <3>1. PICK S : S = S1 \cup S2 \cup S3 \cup S4
      OBVIOUS
    <3> QED
      BY <3>1
  <2> QED
    BY <2>1, <2>2, <2>3
<1>2. PICK own : own = ProviderRules(e)
  OBVIOUS
<1>3. own \in Seq(S)
  BY <1>1, <1>2 DEF ProviderRules
<1>4. OwnCode(e) = FirstRule((Framework \o own) \o Rest, e)
  BY <1>2 DEF OwnCode, ProviderRules
<1>5. PICK front : front = Framework \o own
  OBVIOUS
<1>6. front \in Seq(S)
  BY <1>1, <1>3, <1>5
<1>7. FirstRule(front \o Rest, e) = IF SomeFits(front, e) THEN
        FirstRule(front, e) ELSE FirstRule(Rest, e)
  BY <1>1, <1>6, FirstRuleOfJoined
<1>8. FirstRule(Framework \o own, e) = IF SomeFits(Framework, e) THEN
        FirstRule(Framework, e) ELSE FirstRule(own, e)
  BY <1>1, <1>3, FirstRuleOfJoined
<1>9. (SomeFits(front, e))
      <=> (SomeFits(Framework, e)) \/ (SomeFits(own, e))
  BY <1>1, <1>3, <1>5, FitsOfJoined
<1> QED
  BY <1>2, <1>4, <1>5, <1>7, <1>8, <1>9

\* An exception no rule of its framework fits is told by its provider's rules.
LEMMA NoHooks ==
    \A e : e.hooks = <<>> => HookCode(e) = NoCode
BY DEF HookCode

\* Both providers' rules tell the errors their SDKs share alike.
LEMMA ProvidersAgree ==
    ASSUME NEW e, e.class \in StatusErrors \cup {"APITimeoutError", "APIConnectionError"},
           e.says \in {Silent, "no_body", "overflow"}
    PROVE  /\ (SomeFits(OpenAI, e)) <=> (SomeFits(Anthropic, e))
           /\ (SomeFits(OpenAI, e)) => FirstRule(OpenAI, e) = FirstRule(Anthropic, e)
<1>1. CASE e.class = "RateLimitError"
  <2>1. \A rule : Fits(rule, e) <=>
          rule[1] \in {"RateLimitError", "APIStatusError", "Exception"} /\ rule[2] \in {Silent,
          e.says}
    BY <1>1, ClassesOf DEF Fits, StatusErrors
  <2>2. Fits(OpenAI[3], e)
    BY <1>1, <2>1, OpenAIIs
  <2>3. \A j \in 1..(3 - 1) : ~Fits(OpenAI[j], e)
    <3>1. ~Fits(OpenAI[1], e) /\ ~Fits(OpenAI[2], e)
      BY <1>1, <2>1, OpenAIIs DEF Silent
    <3>2. \A j \in 1..(3 - 1) : j \in {1, 2}
      OBVIOUS
    <3> QED
      BY <3>1, <3>2
  <2>4. 13 \in Nat /\ 3 \in 1..13 /\ DOMAIN OpenAI = 1..13
    BY OpenAIIs
  <2>5. FirstRule(OpenAI, e) = OpenAI[3][3]
    BY <2>2, <2>3, <2>4, FirstRuleAt
  <2>6. Fits(Anthropic[1], e)
    BY <1>1, <2>1, AnthropicIs
  <2>7. \A j \in 1..(1 - 1) : ~Fits(Anthropic[j], e)
    OBVIOUS
  <2>8. 9 \in Nat /\ 1 \in 1..9 /\ DOMAIN Anthropic = 1..9
    BY AnthropicIs
  <2>9. FirstRule(Anthropic, e) = Anthropic[1][3]
    BY <2>6, <2>7, <2>8, FirstRuleAt
  <2>10. OpenAI[3][3] = Anthropic[1][3]
    BY OpenAIIs, AnthropicIs
  <2> QED
    BY <2>2, <2>4, <2>5, <2>6, <2>8, <2>9, <2>10 DEF SomeFits
<1>2. CASE e.class = "NotFoundError" /\ e.says = "no_body"
  <2>1. \A rule : Fits(rule, e) <=>
          rule[1] \in {"NotFoundError", "APIStatusError", "Exception"} /\ rule[2] \in {Silent,
          e.says}
    BY <1>2, ClassesOf DEF Fits, StatusErrors
  <2>2. Fits(OpenAI[6], e)
    BY <1>2, <2>1, OpenAIIs
  <2>3. \A j \in 1..(6 - 1) : ~Fits(OpenAI[j], e)
    <3>1. ~Fits(OpenAI[1], e) /\ ~Fits(OpenAI[2], e) /\ ~Fits(OpenAI[3], e) /\ ~Fits(OpenAI[4],
            e) /\ ~Fits(OpenAI[5], e)
      BY <1>2, <2>1, OpenAIIs DEF Silent
    <3>2. \A j \in 1..(6 - 1) : j \in {1, 2, 3, 4, 5}
      OBVIOUS
    <3> QED
      BY <3>1, <3>2
  <2>4. 13 \in Nat /\ 6 \in 1..13 /\ DOMAIN OpenAI = 1..13
    BY OpenAIIs
  <2>5. FirstRule(OpenAI, e) = OpenAI[6][3]
    BY <2>2, <2>3, <2>4, FirstRuleAt
  <2>6. Fits(Anthropic[4], e)
    BY <1>2, <2>1, AnthropicIs
  <2>7. \A j \in 1..(4 - 1) : ~Fits(Anthropic[j], e)
    <3>1. ~Fits(Anthropic[1], e) /\ ~Fits(Anthropic[2], e) /\ ~Fits(Anthropic[3], e)
      BY <1>2, <2>1, AnthropicIs DEF Silent
    <3>2. \A j \in 1..(4 - 1) : j \in {1, 2, 3}
      OBVIOUS
    <3> QED
      BY <3>1, <3>2
  <2>8. 9 \in Nat /\ 4 \in 1..9 /\ DOMAIN Anthropic = 1..9
    BY AnthropicIs
  <2>9. FirstRule(Anthropic, e) = Anthropic[4][3]
    BY <2>6, <2>7, <2>8, FirstRuleAt
  <2>10. OpenAI[6][3] = Anthropic[4][3]
    BY OpenAIIs, AnthropicIs
  <2> QED
    BY <2>2, <2>4, <2>5, <2>6, <2>8, <2>9, <2>10 DEF SomeFits
<1>3. CASE e.class = "NotFoundError" /\ e.says # "no_body"
  <2>1. \A rule : Fits(rule, e) <=>
          rule[1] \in {"NotFoundError", "APIStatusError", "Exception"} /\ rule[2] \in {Silent,
          e.says}
    BY <1>3, ClassesOf DEF Fits, StatusErrors
  <2>2. Fits(OpenAI[9], e)
    BY <1>3, <2>1, OpenAIIs
  <2>3. \A j \in 1..(9 - 1) : ~Fits(OpenAI[j], e)
    <3>1. ~Fits(OpenAI[1], e) /\ ~Fits(OpenAI[2], e) /\ ~Fits(OpenAI[3], e) /\ ~Fits(OpenAI[4],
            e) /\ ~Fits(OpenAI[5], e) /\ ~Fits(OpenAI[6], e) /\ ~Fits(OpenAI[7],
            e) /\ ~Fits(OpenAI[8], e)
      BY <1>3, <2>1, OpenAIIs DEF Silent
    <3>2. \A j \in 1..(9 - 1) : j \in {1, 2, 3, 4, 5, 6, 7, 8}
      OBVIOUS
    <3> QED
      BY <3>1, <3>2
  <2>4. 13 \in Nat /\ 9 \in 1..13 /\ DOMAIN OpenAI = 1..13
    BY OpenAIIs
  <2>5. FirstRule(OpenAI, e) = OpenAI[9][3]
    BY <2>2, <2>3, <2>4, FirstRuleAt
  <2>6. Fits(Anthropic[7], e)
    BY <1>3, <2>1, AnthropicIs
  <2>7. \A j \in 1..(7 - 1) : ~Fits(Anthropic[j], e)
    <3>1. ~Fits(Anthropic[1], e) /\ ~Fits(Anthropic[2], e) /\ ~Fits(Anthropic[3],
            e) /\ ~Fits(Anthropic[4], e) /\ ~Fits(Anthropic[5], e) /\ ~Fits(Anthropic[6], e)
      BY <1>3, <2>1, AnthropicIs DEF Silent
    <3>2. \A j \in 1..(7 - 1) : j \in {1, 2, 3, 4, 5, 6}
      OBVIOUS
    <3> QED
      BY <3>1, <3>2
  <2>8. 9 \in Nat /\ 7 \in 1..9 /\ DOMAIN Anthropic = 1..9
    BY AnthropicIs
  <2>9. FirstRule(Anthropic, e) = Anthropic[7][3]
    BY <2>6, <2>7, <2>8, FirstRuleAt
  <2>10. OpenAI[9][3] = Anthropic[7][3]
    BY OpenAIIs, AnthropicIs
  <2> QED
    BY <2>2, <2>4, <2>5, <2>6, <2>8, <2>9, <2>10 DEF SomeFits
<1>4. CASE e.class = "AuthenticationError"
  <2>1. \A rule : Fits(rule, e) <=>
          rule[1] \in {"AuthenticationError", "APIStatusError",
          "Exception"} /\ rule[2] \in {Silent, e.says}
    BY <1>4, ClassesOf DEF Fits, StatusErrors
  <2>2. Fits(OpenAI[7], e)
    BY <1>4, <2>1, OpenAIIs
  <2>3. \A j \in 1..(7 - 1) : ~Fits(OpenAI[j], e)
    <3>1. ~Fits(OpenAI[1], e) /\ ~Fits(OpenAI[2], e) /\ ~Fits(OpenAI[3], e) /\ ~Fits(OpenAI[4],
            e) /\ ~Fits(OpenAI[5], e) /\ ~Fits(OpenAI[6], e)
      BY <1>4, <2>1, OpenAIIs DEF Silent
    <3>2. \A j \in 1..(7 - 1) : j \in {1, 2, 3, 4, 5, 6}
      OBVIOUS
    <3> QED
      BY <3>1, <3>2
  <2>4. 13 \in Nat /\ 7 \in 1..13 /\ DOMAIN OpenAI = 1..13
    BY OpenAIIs
  <2>5. FirstRule(OpenAI, e) = OpenAI[7][3]
    BY <2>2, <2>3, <2>4, FirstRuleAt
  <2>6. Fits(Anthropic[5], e)
    BY <1>4, <2>1, AnthropicIs
  <2>7. \A j \in 1..(5 - 1) : ~Fits(Anthropic[j], e)
    <3>1. ~Fits(Anthropic[1], e) /\ ~Fits(Anthropic[2], e) /\ ~Fits(Anthropic[3],
            e) /\ ~Fits(Anthropic[4], e)
      BY <1>4, <2>1, AnthropicIs DEF Silent
    <3>2. \A j \in 1..(5 - 1) : j \in {1, 2, 3, 4}
      OBVIOUS
    <3> QED
      BY <3>1, <3>2
  <2>8. 9 \in Nat /\ 5 \in 1..9 /\ DOMAIN Anthropic = 1..9
    BY AnthropicIs
  <2>9. FirstRule(Anthropic, e) = Anthropic[5][3]
    BY <2>6, <2>7, <2>8, FirstRuleAt
  <2>10. OpenAI[7][3] = Anthropic[5][3]
    BY OpenAIIs, AnthropicIs
  <2> QED
    BY <2>2, <2>4, <2>5, <2>6, <2>8, <2>9, <2>10 DEF SomeFits
<1>5. CASE e.class = "PermissionDeniedError"
  <2>1. \A rule : Fits(rule, e) <=>
          rule[1] \in {"PermissionDeniedError", "APIStatusError",
          "Exception"} /\ rule[2] \in {Silent, e.says}
    BY <1>5, ClassesOf DEF Fits, StatusErrors
  <2>2. Fits(OpenAI[8], e)
    BY <1>5, <2>1, OpenAIIs
  <2>3. \A j \in 1..(8 - 1) : ~Fits(OpenAI[j], e)
    <3>1. ~Fits(OpenAI[1], e) /\ ~Fits(OpenAI[2], e) /\ ~Fits(OpenAI[3], e) /\ ~Fits(OpenAI[4],
            e) /\ ~Fits(OpenAI[5], e) /\ ~Fits(OpenAI[6], e) /\ ~Fits(OpenAI[7], e)
      BY <1>5, <2>1, OpenAIIs DEF Silent
    <3>2. \A j \in 1..(8 - 1) : j \in {1, 2, 3, 4, 5, 6, 7}
      OBVIOUS
    <3> QED
      BY <3>1, <3>2
  <2>4. 13 \in Nat /\ 8 \in 1..13 /\ DOMAIN OpenAI = 1..13
    BY OpenAIIs
  <2>5. FirstRule(OpenAI, e) = OpenAI[8][3]
    BY <2>2, <2>3, <2>4, FirstRuleAt
  <2>6. Fits(Anthropic[6], e)
    BY <1>5, <2>1, AnthropicIs
  <2>7. \A j \in 1..(6 - 1) : ~Fits(Anthropic[j], e)
    <3>1. ~Fits(Anthropic[1], e) /\ ~Fits(Anthropic[2], e) /\ ~Fits(Anthropic[3],
            e) /\ ~Fits(Anthropic[4], e) /\ ~Fits(Anthropic[5], e)
      BY <1>5, <2>1, AnthropicIs DEF Silent
    <3>2. \A j \in 1..(6 - 1) : j \in {1, 2, 3, 4, 5}
      OBVIOUS
    <3> QED
      BY <3>1, <3>2
  <2>8. 9 \in Nat /\ 6 \in 1..9 /\ DOMAIN Anthropic = 1..9
    BY AnthropicIs
  <2>9. FirstRule(Anthropic, e) = Anthropic[6][3]
    BY <2>6, <2>7, <2>8, FirstRuleAt
  <2>10. OpenAI[8][3] = Anthropic[6][3]
    BY OpenAIIs, AnthropicIs
  <2> QED
    BY <2>2, <2>4, <2>5, <2>6, <2>8, <2>9, <2>10 DEF SomeFits
<1>6. CASE e.class = "BadRequestError" /\ e.says = "overflow"
  <2>1. \A rule : Fits(rule, e) <=>
          rule[1] \in {"BadRequestError", "APIStatusError", "Exception"} /\ rule[2] \in {Silent,
          e.says}
    BY <1>6, ClassesOf DEF Fits, StatusErrors
  <2>2. Fits(OpenAI[10], e)
    BY <1>6, <2>1, OpenAIIs
  <2>3. \A j \in 1..(10 - 1) : ~Fits(OpenAI[j], e)
    <3>1. ~Fits(OpenAI[1], e) /\ ~Fits(OpenAI[2], e) /\ ~Fits(OpenAI[3], e) /\ ~Fits(OpenAI[4],
            e) /\ ~Fits(OpenAI[5], e) /\ ~Fits(OpenAI[6], e) /\ ~Fits(OpenAI[7],
            e) /\ ~Fits(OpenAI[8], e) /\ ~Fits(OpenAI[9], e)
      BY <1>6, <2>1, OpenAIIs DEF Silent
    <3>2. \A j \in 1..(10 - 1) : j \in {1, 2, 3, 4, 5, 6, 7, 8, 9}
      OBVIOUS
    <3> QED
      BY <3>1, <3>2
  <2>4. 13 \in Nat /\ 10 \in 1..13 /\ DOMAIN OpenAI = 1..13
    BY OpenAIIs
  <2>5. FirstRule(OpenAI, e) = OpenAI[10][3]
    BY <2>2, <2>3, <2>4, FirstRuleAt
  <2>6. Fits(Anthropic[8], e)
    BY <1>6, <2>1, AnthropicIs
  <2>7. \A j \in 1..(8 - 1) : ~Fits(Anthropic[j], e)
    <3>1. ~Fits(Anthropic[1], e) /\ ~Fits(Anthropic[2], e) /\ ~Fits(Anthropic[3],
            e) /\ ~Fits(Anthropic[4], e) /\ ~Fits(Anthropic[5], e) /\ ~Fits(Anthropic[6],
            e) /\ ~Fits(Anthropic[7], e)
      BY <1>6, <2>1, AnthropicIs DEF Silent
    <3>2. \A j \in 1..(8 - 1) : j \in {1, 2, 3, 4, 5, 6, 7}
      OBVIOUS
    <3> QED
      BY <3>1, <3>2
  <2>8. 9 \in Nat /\ 8 \in 1..9 /\ DOMAIN Anthropic = 1..9
    BY AnthropicIs
  <2>9. FirstRule(Anthropic, e) = Anthropic[8][3]
    BY <2>6, <2>7, <2>8, FirstRuleAt
  <2>10. OpenAI[10][3] = Anthropic[8][3]
    BY OpenAIIs, AnthropicIs
  <2> QED
    BY <2>2, <2>4, <2>5, <2>6, <2>8, <2>9, <2>10 DEF SomeFits
<1>7. CASE e.class = "InternalServerError"
  <2>1. \A rule : Fits(rule, e) <=>
          rule[1] \in {"InternalServerError", "APIStatusError",
          "Exception"} /\ rule[2] \in {Silent, e.says}
    BY <1>7, ClassesOf DEF Fits, StatusErrors
  <2>2. Fits(OpenAI[13], e)
    BY <1>7, <2>1, OpenAIIs
  <2>3. \A j \in 1..(13 - 1) : ~Fits(OpenAI[j], e)
    <3>1. ~Fits(OpenAI[1], e) /\ ~Fits(OpenAI[2], e) /\ ~Fits(OpenAI[3], e) /\ ~Fits(OpenAI[4],
            e) /\ ~Fits(OpenAI[5], e) /\ ~Fits(OpenAI[6], e) /\ ~Fits(OpenAI[7],
            e) /\ ~Fits(OpenAI[8], e) /\ ~Fits(OpenAI[9], e) /\ ~Fits(OpenAI[10],
            e) /\ ~Fits(OpenAI[11], e) /\ ~Fits(OpenAI[12], e)
      BY <1>7, <2>1, OpenAIIs DEF Silent
    <3>2. \A j \in 1..(13 - 1) : j \in {1, 2, 3, 4, 5, 6, 7, 8, 9, 10, 11, 12}
      OBVIOUS
    <3> QED
      BY <3>1, <3>2
  <2>4. 13 \in Nat /\ 13 \in 1..13 /\ DOMAIN OpenAI = 1..13
    BY OpenAIIs
  <2>5. FirstRule(OpenAI, e) = OpenAI[13][3]
    BY <2>2, <2>3, <2>4, FirstRuleAt
  <2>6. Fits(Anthropic[9], e)
    BY <1>7, <2>1, AnthropicIs
  <2>7. \A j \in 1..(9 - 1) : ~Fits(Anthropic[j], e)
    <3>1. ~Fits(Anthropic[1], e) /\ ~Fits(Anthropic[2], e) /\ ~Fits(Anthropic[3],
            e) /\ ~Fits(Anthropic[4], e) /\ ~Fits(Anthropic[5], e) /\ ~Fits(Anthropic[6],
            e) /\ ~Fits(Anthropic[7], e) /\ ~Fits(Anthropic[8], e)
      BY <1>7, <2>1, AnthropicIs DEF Silent
    <3>2. \A j \in 1..(9 - 1) : j \in {1, 2, 3, 4, 5, 6, 7, 8}
      OBVIOUS
    <3> QED
      BY <3>1, <3>2
  <2>8. 9 \in Nat /\ 9 \in 1..9 /\ DOMAIN Anthropic = 1..9
    BY AnthropicIs
  <2>9. FirstRule(Anthropic, e) = Anthropic[9][3]
    BY <2>6, <2>7, <2>8, FirstRuleAt
  <2>10. OpenAI[13][3] = Anthropic[9][3]
    BY OpenAIIs, AnthropicIs
  <2> QED
    BY <2>2, <2>4, <2>5, <2>6, <2>8, <2>9, <2>10 DEF SomeFits
<1>8. CASE e.class = "APITimeoutError"
  <2>1. \A rule : Fits(rule, e) <=>
          rule[1] \in {"APITimeoutError", "APIConnectionError",
          "Exception"} /\ rule[2] \in {Silent, e.says}
    BY <1>8, ClassesOf DEF Fits, StatusErrors
  <2>2. Fits(OpenAI[4], e)
    BY <1>8, <2>1, OpenAIIs
  <2>3. \A j \in 1..(4 - 1) : ~Fits(OpenAI[j], e)
    <3>1. ~Fits(OpenAI[1], e) /\ ~Fits(OpenAI[2], e) /\ ~Fits(OpenAI[3], e)
      BY <1>8, <2>1, OpenAIIs DEF Silent
    <3>2. \A j \in 1..(4 - 1) : j \in {1, 2, 3}
      OBVIOUS
    <3> QED
      BY <3>1, <3>2
  <2>4. 13 \in Nat /\ 4 \in 1..13 /\ DOMAIN OpenAI = 1..13
    BY OpenAIIs
  <2>5. FirstRule(OpenAI, e) = OpenAI[4][3]
    BY <2>2, <2>3, <2>4, FirstRuleAt
  <2>6. Fits(Anthropic[2], e)
    BY <1>8, <2>1, AnthropicIs
  <2>7. \A j \in 1..(2 - 1) : ~Fits(Anthropic[j], e)
    <3>1. ~Fits(Anthropic[1], e)
      BY <1>8, <2>1, AnthropicIs DEF Silent
    <3>2. \A j \in 1..(2 - 1) : j \in {1}
      OBVIOUS
    <3> QED
      BY <3>1, <3>2
  <2>8. 9 \in Nat /\ 2 \in 1..9 /\ DOMAIN Anthropic = 1..9
    BY AnthropicIs
  <2>9. FirstRule(Anthropic, e) = Anthropic[2][3]
    BY <2>6, <2>7, <2>8, FirstRuleAt
  <2>10. OpenAI[4][3] = Anthropic[2][3]
    BY OpenAIIs, AnthropicIs
  <2> QED
    BY <2>2, <2>4, <2>5, <2>6, <2>8, <2>9, <2>10 DEF SomeFits
<1>9. CASE e.class = "APIConnectionError"
  <2>1. \A rule : Fits(rule, e) <=>
          rule[1] \in {"APIConnectionError", "Exception"} /\ rule[2] \in {Silent, e.says}
    BY <1>9, ClassesOf DEF Fits, StatusErrors
  <2>2. Fits(OpenAI[5], e)
    BY <1>9, <2>1, OpenAIIs
  <2>3. \A j \in 1..(5 - 1) : ~Fits(OpenAI[j], e)
    <3>1. ~Fits(OpenAI[1], e) /\ ~Fits(OpenAI[2], e) /\ ~Fits(OpenAI[3], e) /\ ~Fits(OpenAI[4], e)
      BY <1>9, <2>1, OpenAIIs DEF Silent
    <3>2. \A j \in 1..(5 - 1) : j \in {1, 2, 3, 4}
      OBVIOUS
    <3> QED
      BY <3>1, <3>2
  <2>4. 13 \in Nat /\ 5 \in 1..13 /\ DOMAIN OpenAI = 1..13
    BY OpenAIIs
  <2>5. FirstRule(OpenAI, e) = OpenAI[5][3]
    BY <2>2, <2>3, <2>4, FirstRuleAt
  <2>6. Fits(Anthropic[3], e)
    BY <1>9, <2>1, AnthropicIs
  <2>7. \A j \in 1..(3 - 1) : ~Fits(Anthropic[j], e)
    <3>1. ~Fits(Anthropic[1], e) /\ ~Fits(Anthropic[2], e)
      BY <1>9, <2>1, AnthropicIs DEF Silent
    <3>2. \A j \in 1..(3 - 1) : j \in {1, 2}
      OBVIOUS
    <3> QED
      BY <3>1, <3>2
  <2>8. 9 \in Nat /\ 3 \in 1..9 /\ DOMAIN Anthropic = 1..9
    BY AnthropicIs
  <2>9. FirstRule(Anthropic, e) = Anthropic[3][3]
    BY <2>6, <2>7, <2>8, FirstRuleAt
  <2>10. OpenAI[5][3] = Anthropic[3][3]
    BY OpenAIIs, AnthropicIs
  <2> QED
    BY <2>2, <2>4, <2>5, <2>6, <2>8, <2>9, <2>10 DEF SomeFits
<1>10. CASE e.class = "BadRequestError" /\ e.says # "overflow"
  <2>1. \A rule : Fits(rule, e) <=>
          rule[1] \in {"BadRequestError", "APIStatusError", "Exception"} /\ rule[2] \in {Silent,
          e.says}
    BY <1>10, ClassesOf DEF Fits, StatusErrors
  <2>2. \A j \in DOMAIN OpenAI : ~Fits(OpenAI[j], e)
    <3>1. ~Fits(OpenAI[1], e) /\ ~Fits(OpenAI[2], e) /\ ~Fits(OpenAI[3], e) /\ ~Fits(OpenAI[4],
            e) /\ ~Fits(OpenAI[5], e) /\ ~Fits(OpenAI[6], e) /\ ~Fits(OpenAI[7],
            e) /\ ~Fits(OpenAI[8], e) /\ ~Fits(OpenAI[9], e) /\ ~Fits(OpenAI[10],
            e) /\ ~Fits(OpenAI[11], e) /\ ~Fits(OpenAI[12], e) /\ ~Fits(OpenAI[13], e)
      BY <1>10, <2>1, OpenAIIs DEF Silent
    <3>2. \A j \in DOMAIN OpenAI : j \in {1, 2, 3, 4, 5, 6, 7, 8, 9, 10, 11, 12, 13}
      BY OpenAIIs
    <3> QED
      BY <3>1, <3>2
  <2>3. \A j \in DOMAIN Anthropic : ~Fits(Anthropic[j], e)
    <3>1. ~Fits(Anthropic[1], e) /\ ~Fits(Anthropic[2], e) /\ ~Fits(Anthropic[3],
            e) /\ ~Fits(Anthropic[4], e) /\ ~Fits(Anthropic[5], e) /\ ~Fits(Anthropic[6],
            e) /\ ~Fits(Anthropic[7], e) /\ ~Fits(Anthropic[8], e) /\ ~Fits(Anthropic[9], e)
      BY <1>10, <2>1, AnthropicIs DEF Silent
    <3>2. \A j \in DOMAIN Anthropic : j \in {1, 2, 3, 4, 5, 6, 7, 8, 9}
      BY AnthropicIs
    <3> QED
      BY <3>1, <3>2
  <2> QED
    BY <2>2, <2>3 DEF SomeFits
<1> QED
  BY <1>1, <1>2, <1>3, <1>4, <1>5, <1>6, <1>7, <1>8, <1>9, <1>10 DEF StatusErrors

\* A provider's error is told by its provider's rules, then by the rest.
LEMMA ProviderErrorsAre ==
    ASSUME NEW e \in ProviderErrors
    PROVE  /\ OwnCode(e) = IF SomeFits(ProviderRules(e), e) THEN FirstRule(ProviderRules(e), e)
                           ELSE FirstRule(Rest, e)
           /\ e.class \in StatusErrors \cup {"APITimeoutError", "APIConnectionError"}
           /\ e.says \in {Silent, "no_body", "overflow"}
           /\ e.from \in {"openai", "anthropic"}
           /\ e = Exc(e.class, e.from, e.says)
<1>1. /\ e.class \in StatusErrors \cup {"APITimeoutError", "APIConnectionError"}
      /\ e.says \in {Silent, "no_body", "overflow"}
      /\ e.from \in {"openai", "anthropic"}
      /\ e = Exc(e.class, e.from, e.says)
      /\ e.hooks = <<>>
  BY DEF ProviderErrors, Exc
<1>2. \A class \in {"AiSdkError", "PermissionDenied", "Http404", "ObjectDoesNotExist",
        "ConflictError", "ImproperlyConfigured"} :
         ~Is(e, class)
  BY <1>1, ClassesOf DEF StatusErrors
<1>3. ~SomeFits(Framework, e)
  <2>1. /\ ~Fits(Framework[1], e) /\ ~Fits(Framework[2], e) /\ ~Fits(Framework[3], e)
        /\ ~Fits(Framework[4], e) /\ ~Fits(Framework[5], e)
    BY <1>2, FrameworkIs DEF Fits
  <2>2. \A j \in DOMAIN Framework : j \in {1, 2, 3, 4, 5}
    BY FrameworkIs
  <2> QED
    BY <2>1, <2>2 DEF SomeFits
<1> QED
  BY <1>1, <1>2, <1>3, NoHooks, CodeByRules

\* A provider's error is told alike from either provider.
LEMMA ToldAlike ==
    ASSUME NEW e \in ProviderErrors
    PROVE  OwnCode(e) = OwnCode([e EXCEPT !.from = "openai"])
<1>1. PICK o : o = [e EXCEPT !.from = "openai"]
  OBVIOUS
<1>2. /\ o \in ProviderErrors
      /\ o.from = "openai" /\ o.class = e.class /\ o.says = e.says
  <2>1. o = Exc(e.class, "openai", e.says)
    BY <1>1, ProviderErrorsAre DEF Exc
  <2> QED
    BY <2>1, ProviderErrorsAre DEF Exc, ProviderErrors
<1>3. \A rules : SomeFits(rules, o) <=> SomeFits(rules, e)
  BY <1>2 DEF SomeFits, Fits, Is
<1>4. \A rules : FirstRule(rules, o) = FirstRule(rules, e)
  BY <1>2 DEF FirstRule, Is
<1>5. ProviderRules(o) = OpenAI /\ ProviderRules(e) \in {OpenAI, Anthropic}
  BY <1>2, ProviderErrorsAre DEF ProviderRules
<1>6. OwnCode(o) = IF SomeFits(OpenAI, e) THEN FirstRule(OpenAI, e) ELSE FirstRule(Rest, e)
  BY <1>2, <1>3, <1>4, <1>5, ProviderErrorsAre
<1>7. OwnCode(e) = IF SomeFits(ProviderRules(e), e) THEN
        FirstRule(ProviderRules(e), e) ELSE FirstRule(Rest, e)
  BY ProviderErrorsAre
<1>8. /\ SomeFits(OpenAI, e) <=> SomeFits(Anthropic, e)
      /\ SomeFits(OpenAI, e) => FirstRule(OpenAI, e) = FirstRule(Anthropic, e)
  BY ProviderErrorsAre, ProvidersAgree
<1> QED
  BY <1>1, <1>5, <1>6, <1>7, <1>8

\* What the framework's rules say of its exceptions.
LEMMA FrameworkCodes ==
    ASSUME NEW e, HookCode(e) = NoCode
    PROVE  /\ e.class = "PermissionDenied" => OwnCode(e) = "permission_denied"
           /\ e.class = "ObjectDoesNotExist" => OwnCode(e) = "not_found"
           /\ e.class = "ConflictError" => OwnCode(e) = "conflict"
           /\ e.class = "ImproperlyConfigured" => OwnCode(e) = "configuration_error"
<1>1. ASSUME NEW i \in 1..5, Fits(Framework[i], e), \A j \in 1..(i - 1) : ~Fits(Framework[j], e),
             ~Is(e, "AiSdkError")
      PROVE  OwnCode(e) = Framework[i][3]
  <2>1. 5 \in Nat /\ DOMAIN Framework = 1..5
    BY FrameworkIs
  <2>2. FirstRule(Framework, e) = Framework[i][3]
    BY <1>1, <2>1, FirstRuleAt
  <2>3. SomeFits(Framework, e)
    BY <1>1, <2>1 DEF SomeFits
  <2> QED
    BY <1>1, <2>2, <2>3, CodeByRules
<1>2. CASE e.class = "PermissionDenied"
  <2>1. Fits(Framework[1], e) /\ ~Is(e, "AiSdkError")
    BY <1>2, ClassesOf, FrameworkIs DEF Fits
  <2>2. 1 \in 1..5 /\ \A j \in 1..(1 - 1) : ~Fits(Framework[j], e)
    OBVIOUS
  <2> QED
    BY <1>1, <1>2, <2>1, <2>2, FrameworkIs
<1>3. CASE e.class = "ObjectDoesNotExist"
  <2>1. Fits(Framework[3], e) /\ ~Is(e, "AiSdkError") /\ ~Fits(Framework[1],
          e) /\ ~Fits(Framework[2], e)
    BY <1>3, ClassesOf, FrameworkIs DEF Fits
  <2>2. 3 \in 1..5 /\ \A j \in 1..(3 - 1) : j \in {1, 2}
    OBVIOUS
  <2>3. OwnCode(e) = Framework[3][3]
    BY <1>1, <2>1, <2>2
  <2> QED
    BY <1>3, <2>3, FrameworkIs
<1>4. CASE e.class = "ConflictError"
  <2>1. Fits(Framework[4], e) /\ ~Is(e, "AiSdkError") /\ ~Fits(Framework[1],
          e) /\ ~Fits(Framework[2], e)
        /\ ~Fits(Framework[3], e)
    BY <1>4, ClassesOf, FrameworkIs DEF Fits
  <2>2. 4 \in 1..5 /\ \A j \in 1..(4 - 1) : j \in {1, 2, 3}
    OBVIOUS
  <2>3. OwnCode(e) = Framework[4][3]
    BY <1>1, <2>1, <2>2
  <2> QED
    BY <1>4, <2>3, FrameworkIs
<1>5. CASE e.class = "ImproperlyConfigured"
  <2>1. Fits(Framework[5], e) /\ ~Is(e, "AiSdkError") /\ ~Fits(Framework[1],
          e) /\ ~Fits(Framework[2], e)
        /\ ~Fits(Framework[3], e) /\ ~Fits(Framework[4], e)
    BY <1>5, ClassesOf, FrameworkIs DEF Fits
  <2>2. 5 \in 1..5 /\ \A j \in 1..(5 - 1) : j \in {1, 2, 3, 4}
    OBVIOUS
  <2>3. OwnCode(e) = Framework[5][3]
    BY <1>1, <2>1, <2>2
  <2> QED
    BY <1>5, <2>3, FrameworkIs
<1> QED
  BY <1>2, <1>3, <1>4, <1>5

\* What the last rules say of an exception no framework and no provider knows.
LEMMA RestCodes ==
    ASSUME NEW e, HookCode(e) = NoCode, e.from \notin {"openai", "anthropic"},
           e.class \in {"TimeoutError", "RuntimeError", "PipelineRuntimeError"}
    PROVE  /\ e.class = "TimeoutError" => OwnCode(e) = "provider_timeout"
           /\ e.class = "RuntimeError" /\ e.says = "overflow" => OwnCode(e) = "context_overflow"
           /\ e.class = "PipelineRuntimeError" /\ e.says = Silent => OwnCode(e) = NoCode
<1>1. \A class : Is(e, class) <=> class \in {e.class, "Exception"}
  BY ClassesOf
<1>2. ~SomeFits(Framework, e)
  <2>1. /\ ~Fits(Framework[1], e) /\ ~Fits(Framework[2], e) /\ ~Fits(Framework[3], e)
        /\ ~Fits(Framework[4], e) /\ ~Fits(Framework[5], e)
    BY <1>1, FrameworkIs DEF Fits
  <2>2. \A j \in DOMAIN Framework : j \in {1, 2, 3, 4, 5}
    BY FrameworkIs
  <2> QED
    BY <2>1, <2>2 DEF SomeFits
<1>3. ~SomeFits(ProviderRules(e), e)
  BY DEF SomeFits, ProviderRules
<1>4. OwnCode(e) = FirstRule(Rest, e)
  BY <1>1, <1>2, <1>3, CodeByRules
<1>5. 3 \in Nat /\ DOMAIN Rest = 1..3
  BY RestIs
<1>6. CASE e.class = "TimeoutError"
  <2>1. Fits(Rest[1], e)
    BY <1>1, <1>6, RestIs DEF Fits
  <2>2. 1 \in 1..3 /\ \A j \in 1..(1 - 1) : ~Fits(Rest[j], e)
    OBVIOUS
  <2>3. FirstRule(Rest, e) = Rest[1][3]
    BY <1>5, <2>1, <2>2, FirstRuleAt
  <2> QED
    BY <1>4, <1>6, <2>3, RestIs
<1>7. CASE e.class = "RuntimeError" /\ e.says = "overflow"
  <2>1. Fits(Rest[3], e) /\ ~Fits(Rest[1], e) /\ ~Fits(Rest[2], e)
    BY <1>1, <1>7, RestIs DEF Fits
  <2>2. 3 \in 1..3 /\ \A j \in 1..(3 - 1) : j \in {1, 2}
    OBVIOUS
  <2>3. \A j \in 1..(3 - 1) : ~Fits(Rest[j], e)
    BY <2>1, <2>2
  <2>4. FirstRule(Rest, e) = Rest[3][3]
    BY <1>5, <2>1, <2>2, <2>3, FirstRuleAt
  <2> QED
    BY <1>4, <1>7, <2>4, RestIs
<1>8. CASE e.class = "PipelineRuntimeError" /\ e.says = Silent
  <2>1. ~Fits(Rest[1], e) /\ ~Fits(Rest[2], e) /\ ~Fits(Rest[3], e)
    BY <1>1, <1>8, RestIs DEF Fits, Silent
  <2>2. \A j \in DOMAIN Rest : j \in {1, 2, 3}
    BY RestIs
  <2>3. \A j \in DOMAIN Rest : ~Fits(Rest[j], e)
    BY <2>1, <2>2
  <2> QED
    BY <1>4, <1>8, <2>3, FirstRuleOfNone
<1> QED
  BY <1>6, <1>7, <1>8

\* The first hook that gives a code counts, whatever those before it do.
LEMMA HookTells ==
    ASSUME NEW e, e.hooks = <<NoCode, "raises", "rate_limited">>
    PROVE  HookCode(e) = "rate_limited"
<1> DEFINE codes == {i \in DOMAIN e.hooks : e.hooks[i] \notin {NoCode, "raises"}}
<1>1. HookCode(e) = IF codes = {} THEN
        NoCode ELSE e.hooks[CHOOSE i \in codes : \A j \in codes : i <= j]
  BY DEF HookCode
<1>2. codes = {3}
  <2>1. DOMAIN e.hooks = 1..3 /\ e.hooks[1] = NoCode /\ e.hooks[2] = "raises" /\ e.hooks[3] = "rate_limited"
    OBVIOUS
  <2>2. "rate_limited" \notin {NoCode, "raises"}
    BY DEF NoCode
  <2>3. \A i \in 1..3 : i \in {1, 2, 3}
    OBVIOUS
  <2> QED
    BY <2>1, <2>2, <2>3
<1> HIDE DEF codes
<1>3. (CHOOSE i \in codes : \A j \in codes : i <= j) = 3
  BY <1>2
<1>4. e.hooks[3] = "rate_limited"
  OBVIOUS
<1> QED
  BY <1>1, <1>2, <1>3, <1>4

\* The codes of the errors of this code base.
LEMMA SdkCodes ==
    \A e : /\ e.class = "NotFound" /\ e.says = Silent => OwnCode(e) = "not_found"
           /\ e.class \in {"UserError", "IntegrationNotConnectable"} /\ e.says = Silent =>
                   OwnCode(e) = "invalid_request"
           /\ e.class = "AiSdkError" /\ e.says = "knowledge_unavailable" =>
                   OwnCode(e) = "knowledge_unavailable"
<1>1. \A e : e.class \in {"NotFound", "UserError", "IntegrationNotConnectable", "AiSdkError"} =>
        Is(e, "AiSdkError")
  BY ClassesOf
<1>2. \A e : e.class = "NotFound" => Is(e, "NotFound") /\ ~Is(e, "UserError")
  BY ClassesOf
<1>3. \A e : e.class \in {"UserError", "IntegrationNotConnectable"} =>
        Is(e, "UserError") /\ ~Is(e, "NotFound")
  BY ClassesOf
<1>4. \A e : Is(e, "AiSdkError") => OwnCode(e) = SdkCode(e)
  BY DEF OwnCode
<1>5. \A e : e.says = "knowledge_unavailable" => SdkCode(e) = "knowledge_unavailable"
  BY DEF SdkCode, Silent
<1>6. \A e : e.says = Silent /\ Is(e, "NotFound") /\ ~Is(e, "UserError") => SdkCode(e) = "not_found"
  BY DEF SdkCode
<1>7. \A e : e.says = Silent /\ Is(e, "UserError") /\ ~Is(e, "NotFound") =>
        SdkCode(e) = "invalid_request"
  BY DEF SdkCode
<1> QED
  BY <1>1, <1>2, <1>3, <1>4, <1>5, <1>6, <1>7

\* Everything that counts as recognised has a code of its own.
LEMMA RecognisedHaveCodes ==
    ASSUME NEW e \in Recognised PROVE OwnCode(e) # NoCode
<1> DEFINE hooked == [Exc("RuntimeError", "python", Silent) EXCEPT !.hooks = <<NoCode, "raises",
        "rate_limited">>]
<1>1. \/ OwnCode(e) # NoCode
      \/ e \in Raised["missing"] \cup Raised["denied"] \cup Raised["conflict"]
      \/ e \in {Exc("TimeoutError", "python", Silent), Exc("RuntimeError", "python", "overflow"),
                Exc("AiSdkError", "sdk", "knowledge_unavailable"),
                        Exc("ImproperlyConfigured", "django", Silent)}
      \/ e = hooked
  <2> DEFINE A == {x \in ProviderErrors : OwnCode(x) # NoCode}
             B == UNION {Raised[answer] : answer \in {"missing", "denied", "conflict"}}
             C == {Exc("TimeoutError", "python", Silent), Exc("RuntimeError", "python", "overflow"),
                   Exc("AiSdkError", "sdk", "knowledge_unavailable"),
                           Exc("ImproperlyConfigured", "django", Silent)}
  <2>1. Recognised = A \cup B \cup C \cup {hooked}
    BY DEF Recognised
  <2>2. e \in UNION {Raised[answer] : answer \in {"missing", "denied", "conflict"}}
        => e \in Raised["missing"] \cup Raised["denied"] \cup Raised["conflict"]
    OBVIOUS
  <2> HIDE DEF B
  <2>3. e \in B => e \in Raised["missing"] \cup Raised["denied"] \cup Raised["conflict"]
    BY <2>2 DEF B
  <2> HIDE DEF C, hooked
  <2>4. OwnCode(e) # NoCode \/ e \in B \/ e \in C \/ e = hooked
    BY <2>1
  <2> QED
    BY <2>3, <2>4 DEF C
<1>2. /\ Raised["missing"] = {Exc("NotFound", "sdk", Silent),
        Exc("ObjectDoesNotExist", "django", Silent)}
      /\ Raised["denied"] = {Exc("PermissionDenied", "sdk", Silent)}
      /\ Raised["conflict"] = {Exc("ConflictError", "sdk", Silent)}
  BY DEF Raised
<1>3. \A class, from, says :
         /\ HookCode(Exc(class, from, says)) = NoCode
         /\ Exc(class, from, says).class = class
         /\ Exc(class, from, says).from = from
         /\ Exc(class, from, says).says = says
  BY NoHooks DEF Exc
<1>4. /\ OwnCode(Exc("NotFound", "sdk", Silent)) = "not_found"
      /\ OwnCode(Exc("AiSdkError", "sdk", "knowledge_unavailable")) = "knowledge_unavailable"
  BY <1>3, SdkCodes
<1>5. /\ OwnCode(Exc("ObjectDoesNotExist", "django", Silent)) = "not_found"
      /\ OwnCode(Exc("PermissionDenied", "sdk", Silent)) = "permission_denied"
      /\ OwnCode(Exc("ConflictError", "sdk", Silent)) = "conflict"
      /\ OwnCode(Exc("ImproperlyConfigured", "django", Silent)) = "configuration_error"
  BY <1>3, FrameworkCodes
<1>6. OwnCode(Exc("TimeoutError", "python", Silent)) = "provider_timeout"
  BY <1>3, RestCodes
<1>7. OwnCode(Exc("RuntimeError", "python", "overflow")) = "context_overflow"
  <2> DEFINE over == Exc("RuntimeError", "python", "overflow")
  <2>1. /\ over.class = "RuntimeError" /\ over.from = "python" /\ over.says = "overflow"
        /\ HookCode(over) = NoCode
    BY <1>3
  <2> HIDE DEF over
  <2>2. OwnCode(over) = "context_overflow"
    BY <2>1, RestCodes
  <2> QED
    BY <2>2 DEF over
<1>8. OwnCode(hooked) = "rate_limited"
  <2>1. hooked.class = "RuntimeError" /\ hooked.hooks = <<NoCode, "raises", "rate_limited">>
    BY DEF Exc
  <2> HIDE DEF hooked
  <2>2. ~Is(hooked, "AiSdkError") /\ HookCode(hooked) = "rate_limited"
    BY <2>1, ClassesOf, HookTells
  <2> QED
    BY <2>2 DEF OwnCode, NoCode
<1> QED
  BY <1>1, <1>2, <1>4, <1>5, <1>6, <1>7, <1>8 DEF NoCode

\* The code of a chain is that of its first exception that has one, if that is
\* no more than MaxCauseDepth causes down.
LEMMA ChainsAre ==
    ASSUME NEW c, NEW n \in Nat, DOMAIN c = 1..n, Len(c) = n,
           NEW k \in 1..n, OwnCode(c[k]) # NoCode, \A j \in 1..(k - 1) : OwnCode(c[j]) = NoCode
    PROVE  Classify(c) = IF k <= MaxCauseDepth + 1 THEN OwnCode(c[k]) ELSE "unknown"
<1> DEFINE Says(f, i) ==
              IF OwnCode(c[i]) # NoCode THEN OwnCode(c[i])
              ELSE IF i < Len(c) /\ i - 1 < MaxCauseDepth THEN f[i + 1]
              ELSE "unknown"
           from == CHOOSE f : f = [i \in DOMAIN c |-> Says(f, i)]
           Tellers(i) == {x \in i..n : OwnCode(c[x]) # NoCode /\ \A j \in i..(x - 1) :
                   OwnCode(c[j]) = NoCode /\ j <= 5}
           g == [i \in 1..n |-> IF Tellers(i) = {} THEN
                   "unknown" ELSE OwnCode(c[CHOOSE x \in Tellers(i) : TRUE])]
<1>1. Classify(c) = from[1]
  BY DEF Classify
<1>2. ASSUME NEW i \in 1..n PROVE g[i] = Says(g, i)
  <2>1. CASE OwnCode(c[i]) # NoCode
    <3>1. Tellers(i) = {i}
      BY <2>1
    <3> HIDE DEF Tellers
    <3> QED
      BY <2>1, <3>1
  <2>2. CASE OwnCode(c[i]) = NoCode /\ i < n /\ i - 1 < 5
    <3>1. i + 1 \in 1..n /\ i \in Nat
      BY <2>2
    <3>2. Tellers(i) = Tellers(i + 1)
      <4>1. ASSUME NEW x \in Tellers(i) PROVE x \in Tellers(i + 1)
        <5>1. x # i /\ x \in (i + 1)..n
          BY <2>2, <4>1
        <5> QED
          BY <3>1, <4>1, <5>1
      <4>2. ASSUME NEW x \in Tellers(i + 1) PROVE x \in Tellers(i)
        <5>1. \A j \in i..(x - 1) : j = i \/ j \in (i + 1)..(x - 1)
          BY <3>1
        <5> QED
          BY <2>2, <3>1, <4>2, <5>1
      <4> QED
        BY <4>1, <4>2
    <3> HIDE DEF Tellers
    <3> QED
      BY <2>2, <3>1, <3>2 DEF MaxCauseDepth
  <2>3. CASE OwnCode(c[i]) = NoCode /\ ~(i < n /\ i - 1 < 5)
    <3>1. ASSUME NEW x \in Tellers(i) PROVE FALSE
      <4>1. x # i /\ x \in i..n /\ i < n /\ i \in i..(x - 1)
        BY <2>3, <3>1
      <4>2. i <= 5
        BY <3>1, <4>1
      <4> QED
        BY <2>3, <4>1, <4>2
    <3>2. Tellers(i) = {}
      BY <3>1
    <3> HIDE DEF Tellers
    <3> QED
      BY <2>3, <3>2 DEF MaxCauseDepth
  <2> QED
    BY <2>1, <2>2, <2>3 DEF MaxCauseDepth
<1>3. g = [i \in 1..n |-> Says(g, i)]
  BY <1>2
<1> HIDE DEF g
<1>4. from = [i \in 1..n |-> Says(from, i)]
  <2> HIDE DEF Says
  <2>2. from = CHOOSE f : f = [i \in 1..n |-> Says(f, i)]
    OBVIOUS
  <2> HIDE DEF from
  <2> QED
    BY <1>3, <2>2
<1> HIDE DEF from
<1>5. ASSUME NEW i \in 1..n, OwnCode(c[i]) # NoCode PROVE from[i] = OwnCode(c[i])
  BY <1>4, <1>5
<1>6. ASSUME NEW i \in 1..n, OwnCode(c[i]) = NoCode, i < n, i <= 5 PROVE from[i] = from[i + 1]
  BY <1>4, <1>6 DEF MaxCauseDepth
<1>7. ASSUME NEW i \in 1..n, OwnCode(c[i]) = NoCode, i > 5 PROVE from[i] = "unknown"
  BY <1>4, <1>7 DEF MaxCauseDepth
<1> HIDE DEF Says
<1>8. \A j \in 1..n : j < k => OwnCode(c[j]) = NoCode
  OBVIOUS
<1>9. /\ k > 1 => from[1] = from[2]
      /\ k > 2 => from[2] = from[3]
      /\ k > 3 => from[3] = from[4]
      /\ k > 4 => from[4] = from[5]
      /\ k > 5 => from[5] = from[6]
      /\ k > 6 => from[6] = "unknown"
  <2>1. \A j \in 1..n : j < k /\ j <= 5 => from[j] = from[j + 1]
    BY <1>6, <1>8
  <2>2. k > 6 => from[6] = "unknown"
    <3>1. k > 6 => 6 \in 1..n /\ 6 > 5 /\ OwnCode(c[6]) = NoCode
      BY <1>8
    <3> QED
      BY <1>7, <3>1
  <2>3. /\ k > 1 => 1 \in 1..n /\ 1 < k
        /\ k > 2 => 2 \in 1..n /\ 2 < k
        /\ k > 3 => 3 \in 1..n /\ 3 < k
        /\ k > 4 => 4 \in 1..n /\ 4 < k
        /\ k > 5 => 5 \in 1..n /\ 5 < k
    OBVIOUS
  <2>4. 1 + 1 = 2 /\ 2 + 1 = 3 /\ 3 + 1 = 4 /\ 4 + 1 = 5 /\ 5 + 1 = 6
    OBVIOUS
  <2>5. 1 <= 5 /\ 2 <= 5 /\ 3 <= 5 /\ 4 <= 5 /\ 5 <= 5
    OBVIOUS
  <2> QED
    BY <2>1, <2>2, <2>3, <2>4, <2>5
<1>10. from[k] = OwnCode(c[k])
  BY <1>5
<1>11. CASE k <= 6
  <2>1. k \in {1, 2, 3, 4, 5, 6}
    BY <1>11
  <2>2. from[1] = from[k]
    BY <1>9, <2>1
  <2> QED
    BY <1>1, <1>10, <1>11, <2>2 DEF MaxCauseDepth
<1>12. CASE k > 6
  <2>1. from[1] = "unknown"
    BY <1>9, <1>12
  <2> QED
    BY <1>1, <1>12, <2>1 DEF MaxCauseDepth
<1> QED
  BY <1>11, <1>12

\* One chain after another.
LEMMA FollowedIs ==
    \A S : \A a \in Seq(S), b \in Seq(S) :
       /\ Followed(a, b) \in Seq(S) /\ Len(Followed(a, b)) = Len(a) + Len(b)
       /\ \A i \in 1..(Len(a) + Len(b)) : Followed(a, b)[i] = IF i <= Len(a) THEN
               a[i] ELSE b[i - Len(a)]
BY ConcatProperties DEF Followed

\* The exceptions of one chain after another.
LEMMA JoinedAt ==
    \A S : \A a \in Seq(S), b \in Seq(S) :
       /\ Followed(a, b) \in Seq(S) /\ Len(Followed(a, b)) = Len(a) + Len(b)
       /\ DOMAIN Followed(a, b) = 1..(Len(a) + Len(b))
       /\ \A i \in 1..Len(a) : Followed(a, b)[i] = a[i]
       /\ \A i \in (Len(a) + 1)..(Len(a) + Len(b)) : Followed(a, b)[i] = b[i - Len(a)]
<1> TAKE S
<1> TAKE a \in Seq(S), b \in Seq(S)
<1>1. Len(a) \in Nat /\ Len(b) \in Nat
  OBVIOUS
<1>2. Followed(a, b) \in Seq(S) /\ Len(Followed(a, b)) = Len(a) + Len(b)
  BY FollowedIs
<1>3. \A i \in 1..(Len(a) + Len(b)) : Followed(a, b)[i] = IF i <= Len(a) THEN
        a[i] ELSE b[i - Len(a)]
  BY FollowedIs
<1> QED
  BY <1>1, <1>2, <1>3

\* The wrappers have no code of their own.
LEMMA OpaqueIs ==
    ASSUME NEW n \in Nat
    PROVE  /\ DOMAIN Opaque(n) = 1..n /\ Len(Opaque(n)) = n
           /\ \E S : Opaque(n) \in Seq(S)
           /\ \A i \in 1..n : OwnCode(Opaque(n)[i]) = NoCode
<1> DEFINE o == Exc("PipelineRuntimeError", "haystack", Silent)
<1>1. OwnCode(o) = NoCode
  <2>1. o.hooks = <<>> /\ o.from = "haystack" /\ o.class = "PipelineRuntimeError" /\ o.says = Silent
    BY DEF Exc
  <2> HIDE DEF o
  <2> QED
    BY <2>1, NoHooks, RestCodes
<1>2. Opaque(n) = [i \in 1..n |-> o]
  BY DEF Opaque
<1> HIDE DEF o
<1>3. PICK f : f = Opaque(n)
  OBVIOUS
<1>4. f \in Seq({o}) /\ DOMAIN f = 1..n
  BY <1>2, <1>3
<1>5. Len(f) = n
  BY <1>4
<1>6. \A i \in 1..n : f[i] = o
  BY <1>2, <1>3
<1> QED
  BY <1>1, <1>3, <1>4, <1>5, <1>6

\* The cause is told whatever an exception is wrapped in or raised over, down
\* to MaxCauseDepth causes.
LEMMA CausesAreTold == CauseIsTold
<1>1. ASSUME NEW e \in ProviderErrors PROVE OwnCode(e) = OwnCode([e EXCEPT !.from = "openai"])
  BY ToldAlike
<1>2. ASSUME NEW e \in Recognised, NEW n \in 0..(MaxCauseDepth + 1)
      PROVE  Classify(Opaque(n) \o <<e>> \o Opaque(1)) = IF n <= MaxCauseDepth THEN
              OwnCode(e) ELSE "unknown"
  <2>1. n \in Nat /\ MaxCauseDepth \in Nat
    BY DEF MaxCauseDepth
  <2>2. PICK a : a = Opaque(n)
    OBVIOUS
  <2>3. PICK b : b = Opaque(1)
    OBVIOUS
  <2>4. PICK d, c : d = Followed(a, <<e>>) /\ c = Followed(d, b) /\ c = a \o <<e>> \o b
    BY DEF Followed
  <2>5. \E S : a \in Seq(S) /\ <<e>> \in Seq(S) /\ b \in Seq(S)
    <3>1. PICK S1, S2 : a \in Seq(S1) /\ b \in Seq(S2)
      BY <2>1, <2>2, <2>3, OpaqueIs
    <3>2. PICK S : S = S1 \cup S2 \cup {e}
      OBVIOUS
    <3>3. Seq(S1) \subseteq Seq(S) /\ Seq(S2) \subseteq Seq(S) /\ <<e>> \in Seq(S)
      BY <3>2
    <3> QED
      BY <3>1, <3>3
  <2>6. Len(a) = n /\ Len(b) = 1 /\ Len(<<e>>) = 1
    BY <2>1, <2>2, <2>3, OpaqueIs
  <2>7. /\ DOMAIN c = 1..(n + 2) /\ Len(c) = n + 2
        /\ \A i \in 1..n : c[i] = a[i]
        /\ c[n + 1] = e
    <3>1. PICK S : a \in Seq(S) /\ <<e>> \in Seq(S) /\ b \in Seq(S)
      BY <2>5
    <3>2. d \in Seq(S) /\ Len(d) = n + 1 /\ \A i \in 1..n : d[i] = a[i]
      <4>1. PICK o : o = <<e>>
        OBVIOUS
      <4>2. d = Followed(a, o) /\ o \in Seq(S) /\ Len(o) = 1 /\ a \in Seq(S)
        BY <2>4, <2>6, <3>1, <4>1
      <4>3. d \in Seq(S)
        BY <4>2, JoinedAt
      <4>4. Len(d) = Len(a) + Len(o)
        BY <4>2, JoinedAt
      <4>5. \A i \in 1..Len(a) : d[i] = a[i]
        BY <4>2, JoinedAt
      <4> QED
        BY <2>6, <4>2, <4>3, <4>4, <4>5
    <3>3. d[n + 1] = e
      <4>1. \A i \in (n + 1)..(n + 1) : d[i] = <<e>>[i - n]
        BY <2>4, <2>6, <3>1, JoinedAt
      <4>2. n + 1 \in (n + 1)..(n + 1) /\ (n + 1) - n = 1
        BY <2>1
      <4> QED
        BY <4>1, <4>2
    <3>4. Len(c) = (n + 1) + 1 /\ DOMAIN c = 1..((n + 1) + 1) /\ \A i \in 1..(n + 1) : c[i] = d[i]
      <4>1. /\ Len(c) = Len(d) + Len(b) /\ DOMAIN c = 1..(Len(d) + Len(b))
            /\ \A i \in 1..Len(d) : c[i] = d[i]
        <5>1. c = Followed(d, b) /\ d \in Seq(S) /\ b \in Seq(S)
          BY <2>4, <3>1, <3>2
        <5>2. Len(c) = Len(d) + Len(b)
          BY <5>1, JoinedAt
        <5>3. DOMAIN c = 1..(Len(d) + Len(b))
          BY <5>1, JoinedAt
        <5>4. \A i \in 1..Len(d) : c[i] = d[i]
          BY <5>1, JoinedAt
        <5> QED
          BY <5>2, <5>3, <5>4
      <4> QED
        BY <2>6, <3>2, <4>1
    <3>5. (n + 1) + 1 = n + 2 /\ n + 1 \in 1..(n + 1) /\ \A i \in 1..n : i \in 1..(n + 1)
      BY <2>1
    <3>6. c[n + 1] = e
      BY <3>3, <3>4, <3>5
    <3>7. \A i \in 1..n : c[i] = a[i]
      BY <3>2, <3>4, <3>5
    <3>8. DOMAIN c = 1..(n + 2) /\ Len(c) = n + 2
      BY <3>4, <3>5
    <3> QED
      BY <3>6, <3>7, <3>8
  <2>8. \A i \in 1..n : OwnCode(c[i]) = NoCode
    BY <2>1, <2>2, <2>7, OpaqueIs
  <2>9. PICK k : k = n + 1
    OBVIOUS
  <2>10. k \in 1..(n + 2) /\ n + 2 \in Nat /\ c[k] = e /\ \A j \in 1..(k - 1) : j \in 1..n
    BY <2>1, <2>7, <2>9
  <2>11. OwnCode(c[k]) # NoCode /\ \A j \in 1..(k - 1) : OwnCode(c[j]) = NoCode
    BY <2>8, <2>10, RecognisedHaveCodes
  <2>12. Classify(c) = IF k <= MaxCauseDepth + 1 THEN OwnCode(c[k]) ELSE "unknown"
    BY <2>7, <2>10, <2>11, ChainsAre
  <2>13. k <= MaxCauseDepth + 1 <=> n <= MaxCauseDepth
    BY <2>1, <2>9
  <2> QED
    BY <2>2, <2>3, <2>4, <2>10, <2>12, <2>13
<1>3. ASSUME NEW e \in Recognised, NEW f \in Recognised PROVE Classify(<<e, f>>) = OwnCode(e)
  <2>1. PICK c : c = <<e, f>>
    OBVIOUS
  <2>2. DOMAIN c = 1..2 /\ Len(c) = 2 /\ c[1] = e /\ 1 \in 1..2 /\ 2 \in Nat
    BY <2>1
  <2>3. OwnCode(c[1]) # NoCode /\ \A j \in 1..(1 - 1) : OwnCode(c[j]) = NoCode
    BY <2>2, RecognisedHaveCodes
  <2>4. Classify(c) = IF 1 <= MaxCauseDepth + 1 THEN OwnCode(c[1]) ELSE "unknown"
    BY <2>2, <2>3, ChainsAre
  <2> QED
    BY <2>1, <2>2, <2>4 DEF MaxCauseDepth
<1> QED
  BY <1>1, <1>2, <1>3 DEF CauseIsTold

\* What the services raise is told with its own status by every layer.
LEMMA RefusalsTold == RefusalsAreTold
<1>1. ASSUME NEW layer \in DOMAIN LayersOwn, NEW answer \in DOMAIN Raised, NEW e \in Raised[answer]
      PROVE  LET told == Answer(layer, <<e>>)
             IN  /\ told.status = [missing |-> 404, denied |-> 403, invalid |-> 400,
                     conflict |-> 409, configuration |-> 500][answer]
                 /\ ~told.retryable
  <2>1. DOMAIN Raised = {"missing", "denied", "invalid",
          "conflict", "configuration"} /\ DOMAIN LayersOwn = {"ninja", "drf", "chat"}
    BY DEF Raised, LayersOwn
  <2>2. /\ Raised["missing"] = {Exc("NotFound", "sdk", Silent),
          Exc("ObjectDoesNotExist", "django", Silent)}
        /\ Raised["denied"] = {Exc("PermissionDenied", "sdk", Silent)}
        /\ Raised["conflict"] = {Exc("ConflictError", "sdk", Silent)}
        /\ Raised["configuration"] = {Exc("ImproperlyConfigured", "django", Silent)}
        /\ Raised["invalid"] = {Exc(class, "sdk", Silent) :
              class \in {"UserError", "IntegrationNotConnectable", "ValidationError",
                      "DjangoValidationError"}}
    BY DEF Raised
  <2>3. \A class, from : LET x == Exc(class, from, Silent)
                         IN  x.class = class /\ x.says = Silent /\ HookCode(x) = NoCode
    BY NoHooks DEF Exc
  <2>4. /\ e.says = Silent /\ HookCode(e) = NoCode
        /\ answer = "missing" => e.class \in {"NotFound", "ObjectDoesNotExist"}
        /\ answer = "denied" => e.class = "PermissionDenied"
        /\ answer = "conflict" => e.class = "ConflictError"
        /\ answer = "configuration" => e.class = "ImproperlyConfigured"
        /\ answer = "invalid" =>
                e.class \in {"UserError", "IntegrationNotConnectable", "ValidationError",
                "DjangoValidationError"}
    BY <2>1, <2>2, <2>3
  <2>5. LayersOwn[layer] \subseteq {"HttpError", "APIException"}
    BY <2>1 DEF LayersOwn
  <2>6. Head(<<e>>) = e
    OBVIOUS
  <2>7. Answer(layer, <<e>>) = ErrorResponse(<<e>>)
    BY <2>1, <2>4, <2>5, <2>6 DEF Answer
  <2>8. OwnCode(e) # NoCode => Classify(<<e>>) = OwnCode(e)
    <3>1. PICK c : c = <<e>>
      OBVIOUS
    <3>2. DOMAIN c = 1..1 /\ Len(c) = 1 /\ c[1] = e /\ 1 \in 1..1 /\ 1 \in Nat
      BY <3>1
    <3>3. OwnCode(e) # NoCode => Classify(c) = IF 1 <= MaxCauseDepth + 1 THEN
            OwnCode(c[1]) ELSE "unknown"
      <4>1. \A j \in 1..(1 - 1) : OwnCode(c[j]) = NoCode
        OBVIOUS
      <4> QED
        BY <3>2, <4>1, ChainsAre
    <3> QED
      BY <3>1, <3>2, <3>3 DEF MaxCauseDepth
  <2>9. ErrorResponse(<<e>>) = ErrorSpec(IF e.class \in BadInput THEN
          "invalid_request" ELSE Classify(<<e>>))
    BY <2>6 DEF ErrorResponse
  <2>10. /\ answer = "missing" => OwnCode(e) = "not_found" /\ e.class \notin BadInput
         /\ answer = "denied" => OwnCode(e) = "permission_denied" /\ e.class \notin BadInput
         /\ answer = "conflict" => OwnCode(e) = "conflict" /\ e.class \notin BadInput
         /\ answer = "configuration" =>
                OwnCode(e) = "configuration_error" /\ e.class \notin BadInput
         /\ answer = "invalid" => OwnCode(e) = "invalid_request" \/ e.class \in BadInput
    <3>1. answer = "missing" => OwnCode(e) = "not_found" /\ e.class \notin BadInput
      BY <2>4, SdkCodes, FrameworkCodes DEF BadInput
    <3>2. answer = "denied" => OwnCode(e) = "permission_denied" /\ e.class \notin BadInput
      BY <2>4, FrameworkCodes DEF BadInput
    <3>3. answer = "conflict" => OwnCode(e) = "conflict" /\ e.class \notin BadInput
      BY <2>4, FrameworkCodes DEF BadInput
    <3>4. answer = "invalid" => OwnCode(e) = "invalid_request" \/ e.class \in BadInput
      BY <2>4, SdkCodes DEF BadInput
    <3>5. answer = "configuration" => OwnCode(e) = "configuration_error" /\ e.class \notin BadInput
      BY <2>4, FrameworkCodes DEF BadInput
    <3> QED
      BY <3>1, <3>2, <3>3, <3>4, <3>5
  <2>11. /\ ErrorSpec("not_found").status = 404 /\ ~ErrorSpec("not_found").retryable
         /\ ErrorSpec("permission_denied").status = 403 /\ ~ErrorSpec("permission_denied").retryable
         /\ ErrorSpec("conflict").status = 409 /\ ~ErrorSpec("conflict").retryable
         /\ ErrorSpec("invalid_request").status = 400 /\ ~ErrorSpec("invalid_request").retryable
         /\ ErrorSpec("configuration_error").status = 500
         /\ ~ErrorSpec("configuration_error").retryable
    <3>1. /\ "not_found" \in Code /\ "permission_denied" \in Code /\ "conflict" \in Code /\ "invalid_request" \in Code
          /\ "not_found" \notin Retryable /\ "permission_denied" \notin Retryable
          /\ "conflict" \notin Retryable /\ "invalid_request" \notin Retryable
          /\ "configuration_error" \in Code /\ "configuration_error" \notin Retryable
      BY DEF Code, Retryable
    <3>2. /\ StatusOf("not_found") = 404 /\ StatusOf("permission_denied") = 403
          /\ StatusOf("conflict") = 409 /\ StatusOf("invalid_request") = 400
          /\ StatusOf("configuration_error") = 500
      BY DEF StatusOf
    <3>4. ErrorSpec("not_found").status = 404 /\ ~ErrorSpec("not_found").retryable
      BY <3>1, <3>2 DEF ErrorSpec
    <3>5. ErrorSpec("permission_denied").status = 403 /\ ~ErrorSpec("permission_denied").retryable
      BY <3>1, <3>2 DEF ErrorSpec
    <3>6. ErrorSpec("conflict").status = 409 /\ ~ErrorSpec("conflict").retryable
      BY <3>1, <3>2 DEF ErrorSpec
    <3>7. ErrorSpec("invalid_request").status = 400 /\ ~ErrorSpec("invalid_request").retryable
      BY <3>1, <3>2 DEF ErrorSpec
    <3>8. /\ ErrorSpec("configuration_error").status = 500
          /\ ~ErrorSpec("configuration_error").retryable
      BY <3>1, <3>2 DEF ErrorSpec
    <3> QED
      BY <3>4, <3>5, <3>6, <3>7, <3>8
  <2>12. Answer(layer, <<e>>) =
            ErrorSpec(CASE answer = "missing" -> "not_found" [] answer = "denied" -> "permission_denied"
                        [] answer = "conflict" -> "conflict" [] answer = "invalid" -> "invalid_request"
                        [] answer = "configuration" -> "configuration_error")
    <3>1. /\ "not_found" # NoCode /\ "permission_denied" # NoCode /\ "conflict" # NoCode
          /\ "invalid_request" # NoCode /\ "configuration_error" # NoCode
      BY DEF NoCode
    <3> QED
      BY <2>1, <2>7, <2>8, <2>9, <2>10, <3>1
  <2> QED
    BY <2>1, <2>11, <2>12
<1>2. ASSUME NEW code \in Code, code \in Retryable
        PROVE StatusOf(code) = 429 \/ StatusOf(code) >= 500
  BY <1>2 DEF Retryable, StatusOf
<1> QED
  BY <1>1, <1>2 DEF RefusalsAreTold

\* Both layers answer every request alike, and tell every refusal and every
\* provider's error by its cause.
LEMMA TheApisAgree == ApisAgree
BY EndpointsAgree, CausesAreTold, RefusalsTold DEF ApisAgree

(***************************************************************************)
(* What the flags tell.                                                    *)
(***************************************************************************)

\* a is the question whose answer the flag is that s takes.
Tells(a, s) ==
    /\ a.do = "ask"
    /\ \/ /\ a.domain = "memory" /\ a.of = "memory" /\ s.of = "memory"
          /\ s.tier \in {"read", "write", "manage", "delete"}
          /\ RuleTier(a.op) = IF s.tier = "delete" THEN "manage" ELSE s.tier
       \/ /\ a.domain = "thread" /\ a.of = "thread" /\ s.of = "thread"
          /\ s.tier \in {"read", "write", "manage"}
       \/ /\ a.domain = "agent" /\ a.of = "agent" /\ a.op \notin UseOperations /\ s.of = "agent"
          /\ s.tier = IF a.op \in AgentTiers.manage THEN "manage" ELSE "read"
       \/ /\ a.domain = "agent" /\ a.of = "keyword" /\ a.op \in UseOperations /\ s.of = "agent"
          /\ s.tier = "read"

Flagged(s) == IsEffect(s) /\ s.of \in {"memory", "thread", "agent"}

\* s takes no flag.
Flagless(s) == ~Flagged(s) /\ (s.do = "ask" => s.of # "keyword")

\* Nobody but an anonymous caller is refused.
Everyones(a) ==
    /\ a.of = "nothing" /\ a.domain \in {"thread", "memory", "agent", "integrations", "workflow"}
    /\ (a.domain = "agent" => a.op \notin UseOperations)

\* Where a question is refused, a flag that the steps take is off.
Answered(S, a) ==
    \/ a.answer # "denied" /\ a.of # "keyword"
    \/ Everyones(a)
    \/ a.of = "keyword" /\ a.domain = "agent" /\ a.op \in UseOperations
    \/ a.of # "keyword" /\ \E s \in S : Flagged(s) /\ Tells(a, s)
    \/ \A s \in S : Flagless(s)

ToldIn(S, s) ==
    \/ s.do = "need" /\ s.answer # "ok" /\ (s.answer = "denied" => s.what = "uploads")
    \/ IsEffect(s) /\ (Flagged(s) => \E a \in S : Tells(a, s))
    \/ s.do = "ask" /\ s.answer # "ok" /\ Answered(S, s)

\* The flags tell what the steps do.
Told(S) == \A s \in S : ToldIn(S, s)

\* The answer the flag is, for the operations of its tier.
On(w, of, tier) ==
    /\ w.who # None
    /\ of = "memory" => MemoryRule(w.who, IF tier = "delete" THEN "manage" ELSE tier)
    /\ of = "thread" => w.mine
    /\ of = "agent" => AgentRule(w.who, tier)

\* The tiers an object of the kind is shown with; an agent of the code is shown
\* with none.
Shown(of) ==
    CASE of = "memory" -> {"read", "write", "manage", "delete"}
      [] of = "thread" -> {"read", "write", "manage"}
      [] of = "agent" -> IF kind = "agent" THEN {"read", "manage"} ELSE {}

\* Whichever operation of its tier stands for it, a flag has one value.
LEMMA FlagIs ==
    ASSUME NEW w, NEW of \in {"memory", "thread", "agent"}, NEW tier \in Shown(of)
    PROVE  /\ On(w, of, tier) => Flags(w, of, of, tier) = {TRUE}
           /\ ~On(w, of, tier) => Flags(w, of, of, tier) = {FALSE}
<1>1. ASSUME NEW ops, ops = Tiers(of)[tier], ops # {},
             \A op \in ops : Permits(w, Ask(of, op, of)) = On(w, of, tier)
      PROVE  /\ On(w, of, tier) => Flags(w, of, of, tier) = {TRUE}
             /\ ~On(w, of, tier) => Flags(w, of, of, tier) = {FALSE}
  <2>1. Flags(w, of, of, tier) = {Permits(w, Ask(of, op, of)) : op \in ops}
    BY <1>1 DEF Flags
  <2>2. On(w, of, tier) \in BOOLEAN
    BY DEF On
  <2> QED
    BY <1>1, <2>1, <2>2
<1>2. CASE of = "memory"
  <2>1. \A op : Permits(w, Ask("memory", op, "memory")) = MemoryAnswer(w, op, "memory")
    BY DEF Permits, Ask
  <2>2. \A op : MemoryAnswer(w, op, "memory") = (w.who # None /\ MemoryRule(w.who, RuleTier(op)))
    BY DEF MemoryAnswer
  <2>3. On(w, "memory",
          tier) = (w.who # None /\ MemoryRule(w.who, IF tier = "delete" THEN "manage" ELSE tier))
    BY DEF On
  <2>4. Tiers("memory") = MemoryTiers
    BY DEF Tiers
  <2>5. tier \in {"read", "write", "manage", "delete"}
    BY <1>2 DEF Shown
  <2>6. /\ MemoryTiers[tier] # {}
        /\ \A op \in MemoryTiers[tier] : RuleTier(op) = IF tier = "delete" THEN "manage" ELSE tier
    <3>1. /\ MemoryTiers["read"] # {} /\ MemoryTiers["write"] # {}
          /\ MemoryTiers["manage"] # {} /\ MemoryTiers["delete"] # {}
      BY DEF MemoryTiers
    <3>2. \A op \in MemoryTiers["read"] : RuleTier(op) = "read"
      BY DEF MemoryTiers, RuleTier
    <3>3. \A op \in MemoryTiers["write"] : RuleTier(op) = "write"
      BY DEF MemoryTiers, RuleTier
    <3>4. \A op \in MemoryTiers["manage"] : RuleTier(op) = "manage"
      BY DEF MemoryTiers, RuleTier
    <3>5. \A op \in MemoryTiers["delete"] : RuleTier(op) = "manage"
      BY DEF MemoryTiers, RuleTier
    <3> QED
      BY <2>5, <3>1, <3>2, <3>3, <3>4, <3>5
  <2> QED
    BY <1>1, <1>2, <2>1, <2>2, <2>3, <2>4, <2>6
<1>3. CASE of = "thread"
  <2>1. \A op : Permits(w, Ask("thread", op, "thread")) = ThreadAnswer(w, op, "thread")
    BY DEF Permits, Ask
  <2>2. \A op : ThreadAnswer(w, op, "thread") = On(w, "thread", tier)
    BY DEF ThreadAnswer, On
  <2>3. Tiers("thread") = ThreadTiers
    BY DEF Tiers
  <2>4. ThreadTiers[tier] # {}
    BY <1>3 DEF Shown, ThreadTiers
  <2> QED
    BY <1>1, <1>3, <2>1, <2>2, <2>3, <2>4
<1>4. CASE of = "agent"
  <2>1. kind = "agent" /\ tier \in {"read", "manage"}
    BY <1>4 DEF Shown
  <2>2. \A op : Permits(w, Ask("agent", op, "agent")) = AgentAnswer(w, op, "agent")
    BY DEF Permits, Ask
  <2>3. Tiers("agent") = AgentTiers
    BY DEF Tiers
  <2>4. /\ AgentTiers[tier] # {}
        /\ \A op \in AgentTiers[tier] :
                op \notin UseOperations /\ (op \in AgentTiers.manage <=> tier = "manage")
    BY <2>1 DEF AgentTiers, UseOperations
  <2>5. ASSUME NEW op \in AgentTiers[tier] PROVE AgentAnswer(w, op, "agent") = On(w, "agent", tier)
    <3>1. (IF op \in AgentTiers.manage THEN "manage" ELSE "read") = tier /\ op \notin UseOperations
      BY <2>1, <2>4
    <3> QED
      BY <2>1, <3>1 DEF AgentAnswer, On
  <2> QED
    BY <1>1, <1>4, <2>2, <2>3, <2>4, <2>5
<1> QED
  BY <1>2, <1>3, <1>4

\* The question is answered as the flag is.
LEMMA TellsIt ==
    ASSUME NEW w, NEW a, NEW s, Tells(a, s), s.of = "agent" => kind = "agent"
    PROVE  /\ s.of \in {"memory", "thread", "agent"} /\ s.tier \in Shown(s.of)
           /\ Permits(w, a) <=> On(w, s.of, s.tier)
<1>1. CASE s.of = "memory"
  <2>1. /\ a.domain = "memory" /\ a.of = "memory" /\ s.tier \in {"read", "write", "manage",
          "delete"}
        /\ RuleTier(a.op) = IF s.tier = "delete" THEN "manage" ELSE s.tier
    BY <1>1 DEF Tells
  <2>2. Permits(w, a) <=> w.who # None /\ MemoryRule(w.who, RuleTier(a.op))
    BY <2>1 DEF Permits, MemoryAnswer
  <2> QED
    BY <1>1, <2>1, <2>2 DEF On, Shown
<1>2. CASE s.of = "thread"
  <2>1. a.domain = "thread" /\ a.of = "thread" /\ s.tier \in {"read", "write", "manage"}
    BY <1>2 DEF Tells
  <2>2. Permits(w, a) <=> w.who # None /\ w.mine
    BY <2>1 DEF Permits, ThreadAnswer
  <2> QED
    BY <1>2, <2>1, <2>2 DEF On, Shown
<1>3. CASE s.of = "agent"
  <2>1. /\ kind = "agent" /\ a.domain = "agent"
        /\ \/ a.of = "agent" /\ a.op \notin UseOperations /\ s.tier = IF a.op \in AgentTiers.manage THEN "manage" ELSE "read"
           \/ a.of = "keyword" /\ a.op \in UseOperations /\ s.tier = "read"
    BY <1>3 DEF Tells
  <2>2. Permits(w, a) <=> w.who # None /\ AgentRule(w.who, s.tier)
    BY <2>1 DEF Permits, AgentAnswer
  <2> QED
    BY <1>3, <2>1, <2>2 DEF On, Shown
<1> QED
  BY <1>1, <1>2, <1>3 DEF Tells

\* Who is refused without a flag of theirs being off is anonymous.
LEMMA RefusedAreAnonymous ==
    \A w, a, s : /\ Everyones(a) /\ ~Permits(w, a) => w.who = None
                 /\ Tells(a, s) /\ s.of = "agent" /\ kind # "agent" /\ ~Permits(w, a) =>
                         w.who = None
<1>1. \A w, a : Everyones(a) /\ ~Permits(w, a) => w.who = None
  BY DEF Everyones, Permits, ThreadAnswer, MemoryAnswer, AgentAnswer, WorkflowAnswer
<1>2. ASSUME NEW w, NEW a, NEW s, Tells(a, s), s.of = "agent", kind # "agent", ~Permits(w, a)
        PROVE w.who = None
  <2>1. /\ a.domain = "agent"
        /\ \/ a.of = "agent" /\ a.op \notin UseOperations
           \/ a.of = "keyword" /\ a.op \in UseOperations
    BY <1>2 DEF Tells
  <2> QED
    BY <1>2, <2>1 DEF Permits, AgentAnswer
<1> QED
  BY <1>1, <1>2

\* A flag that the steps take is the answer to a question among them.
LEMMA FlagsAreAsked ==
    ASSUME NEW steps, Told(Range(steps)), NEW f \in FlagsOf(steps)
    PROVE  /\ f.of \in {"memory", "thread", "agent"} /\ f.tier \in Shown(f.of)
           /\ \E a \in Range(steps) : a.do = "ask" /\ \A w : Permits(w, a) <=> On(w, f.of, f.tier)
<1> DEFINE S == Range(steps)
<1>0. f.of \in {"memory", "thread"} \/ (f.of = "agent" /\ kind = "agent")
  BY DEF FlagsOf
<1>1. ASSUME NEW s \in S, IsEffect(s), f = [of |-> s.of, tier |-> s.tier]
      PROVE  \E a \in S : Tells(a, s)
  <2>1. Flagged(s)
    BY <1>0, <1>1 DEF Flagged
  <2>2. s.do \notin {"need", "ask"}
    BY <1>1 DEF IsEffect
  <2>3. ToldIn(S, s)
    BY <1>1 DEF Told
  <2> QED
    BY <2>1, <2>2, <2>3 DEF ToldIn
<1>2. ASSUME NEW s \in S, IsEffect(s), f = [of |-> s.of, tier |-> s.tier]
      PROVE  /\ f.of \in {"memory", "thread", "agent"} /\ f.tier \in Shown(f.of)
             /\ \E a \in S : a.do = "ask" /\ \A w : Permits(w, a) <=> On(w, f.of, f.tier)
  <2>1. PICK a \in S : Tells(a, s)
    BY <1>1, <1>2
  <2>2. f.of = s.of /\ f.tier = s.tier /\ (s.of = "agent" => kind = "agent")
    BY <1>0, <1>2
  <2>3. \A w : /\ s.of \in {"memory", "thread", "agent"} /\ s.tier \in Shown(s.of)
               /\ Permits(w, a) <=> On(w, s.of, s.tier)
    BY <2>1, <2>2, TellsIt
  <2>4. a.do = "ask"
    BY <2>1 DEF Tells
  <2> QED
    BY <2>2, <2>3, <2>4
<1>3. ASSUME NEW s \in S, s.do = "ask", s.of = "keyword", f = [of |-> "agent", tier |-> "read"]
      PROVE  /\ f.of \in {"memory", "thread", "agent"} /\ f.tier \in Shown(f.of)
             /\ \E a \in S : a.do = "ask" /\ \A w : Permits(w, a) <=> On(w, f.of, f.tier)
  <2>1. kind = "agent" /\ f.of = "agent" /\ f.tier = "read"
    BY <1>0, <1>3
  <2>2. f.tier \in Shown(f.of)
    BY <2>1 DEF Shown
  <2>3. Answered(S, s)
    BY <1>3 DEF Told, ToldIn, IsEffect
  <2>4. s.domain = "agent" /\ s.op \in UseOperations
    BY <1>3, <2>3 DEF Answered, Everyones, Flagless
  <2>5. \A w : Permits(w, s) <=> On(w, f.of, f.tier)
    BY <1>3, <2>1, <2>4 DEF Permits, AgentAnswer, On
  <2> QED
    BY <1>3, <2>1, <2>2, <2>5
<1>4. \/ \E s \in S : IsEffect(s) /\ f = [of |-> s.of, tier |-> s.tier]
      \/ \E s \in S : s.do = "ask" /\ s.of = "keyword" /\ f = [of |-> "agent", tier |-> "read"]
  BY DEF FlagsOf
<1> QED
  BY <1>2, <1>3, <1>4

\* Where a question is refused, a flag that the steps take is off.
LEMMA RefusedIsShown ==
    ASSUME NEW w, NEW steps, Told(Range(steps)), NEW s \in Range(steps),
           s.do = "ask", s.answer = "denied", ~Permits(w, s), FlagsOf(steps) # {}
    PROVE  \E f \in FlagsOf(steps) : ~On(w, f.of, f.tier)
<1> DEFINE S == Range(steps)
<1>1. Answered(S, s)
  BY DEF Told, ToldIn, IsEffect
<1>2. CASE w.who = None
  BY <1>2 DEF On
<1>3. CASE w.who # None /\ s.of = "keyword" /\ s.domain = "agent" /\ s.op \in UseOperations
  <2>1. kind = "agent" /\ ~On(w, "agent", "read")
    BY <1>3 DEF Permits, AgentAnswer, On
  <2> DEFINE f == [of |-> "agent", tier |-> "read"]
  <2>2. f \in FlagsOf(steps)
    BY <1>3, <2>1 DEF FlagsOf
  <2> QED
    BY <2>1, <2>2
<1>4. ASSUME w.who # None, NEW e \in S, Flagged(e), Tells(s, e)
        PROVE \E f \in FlagsOf(steps) : ~On(w, f.of, f.tier)
  <2>1. e.of = "agent" => kind = "agent"
    BY <1>4, RefusedAreAnonymous
  <2>2. ~On(w, e.of, e.tier)
    BY <1>4, <2>1, TellsIt
  <2> DEFINE f == [of |-> e.of, tier |-> e.tier]
  <2>3. f \in FlagsOf(steps)
    BY <1>4, <2>1 DEF FlagsOf, Flagged
  <2> QED
    BY <2>2, <2>3
<1>5. ASSUME \A e \in S : Flagless(e) PROVE FALSE
  <2>1. PICK f \in FlagsOf(steps) : TRUE
    OBVIOUS
  <2>2. \/ \E e \in S : IsEffect(e) /\ f = [of |-> e.of, tier |-> e.tier]
        \/ \E e \in S : e.do = "ask" /\ e.of = "keyword"
    BY DEF FlagsOf
  <2>3. f.of \in {"memory", "thread", "agent"}
    BY DEF FlagsOf
  <2>4. ASSUME NEW e \in S, IsEffect(e), f = [of |-> e.of, tier |-> e.tier] PROVE FALSE
    BY <1>5, <2>3, <2>4 DEF Flagless, Flagged
  <2> QED
    BY <1>5, <2>2, <2>4 DEF Flagless
<1>6. Everyones(s) => w.who = None
  BY RefusedAreAnonymous
<1> QED
  BY <1>1, <1>2, <1>3, <1>4, <1>5, <1>6 DEF Answered

\* What is told by the flags is told to everybody.
LEMMA ToldIsTold ==
    ASSUME NEW w, NEW steps, NEW n \in Nat, DOMAIN steps = 1..n, Told(Range(steps))
    PROVE  FlagsTell(w, steps)
<1> DEFINE S == Range(steps)
           taken == FlagsOf(steps)
           stops == Stops(w, steps)
<1>0. /\ \A i \in DOMAIN steps : steps[i] \in S
      /\ \A s \in S : \E i \in DOMAIN steps : steps[i] = s
  BY DEF Range
<1>1. \A f \in taken : /\ On(w, f.of, f.tier) => Flags(w, f.of, f.of, f.tier) = {TRUE}
                       /\ ~On(w, f.of, f.tier) => Flags(w, f.of, f.of, f.tier) = {FALSE}
  <2>1. ASSUME NEW f \in taken
        PROVE  /\ On(w, f.of, f.tier) => Flags(w, f.of, f.of, f.tier) = {TRUE}
               /\ ~On(w, f.of, f.tier) => Flags(w, f.of, f.of, f.tier) = {FALSE}
    BY FlagsAreAsked, FlagIs
  <2> QED
    BY <2>1
<1>2. stops # {} => /\ First(stops) \in DOMAIN steps /\ Fails(w, steps[First(stops)])
                    /\ Outcome(w, steps) = steps[First(stops)].answer
  <2>1. stops \in SUBSET Nat
    BY DEF Stops
  <2>2. stops # {} => First(stops) \in stops
    BY <2>1, FirstIsLeast
  <2> QED
    BY <2>2 DEF Outcome, Stops
<1>3. \A s \in S : Fails(w, s) => s.answer # "ok" /\ s.do \in {"need", "ask"}
  <2>1. \A s \in S : ToldIn(S, s)
    BY DEF Told
  <2> QED
    BY <2>1 DEF ToldIn, Fails, IsEffect
<1>4. ASSUME Outcome(w, steps) = "ok", NEW f \in taken PROVE On(w, f.of, f.tier)
  <2>1. stops = {}
    BY <1>0, <1>2, <1>3, <1>4
  <2>2. PICK a \in S : a.do = "ask" /\ (Permits(w, a) <=> On(w, f.of, f.tier))
    BY FlagsAreAsked
  <2>3. ~Fails(w, a)
    BY <1>0, <2>1 DEF Stops
  <2> QED
    BY <2>2, <2>3 DEF Fails
<1>5. ASSUME Outcome(w, steps) = "denied", taken # {}, "uploads" \in Conditions(steps) =>
        "uploads" \in w.have
      PROVE  \E f \in taken : ~On(w, f.of, f.tier)
  <2>1. stops # {}
    BY <1>5 DEF Outcome
  <2>2. PICK i \in DOMAIN steps : Fails(w, steps[i]) /\ steps[i].answer = "denied"
    BY <1>2, <1>5, <2>1
  <2>3. CASE steps[i].do = "need"
    <3>1. ToldIn(S, steps[i]) /\ ~IsEffect(steps[i])
      BY <1>0, <2>3 DEF Told, IsEffect
    <3>2. steps[i].what = "uploads"
      BY <2>2, <2>3, <3>1 DEF ToldIn
    <3>3. "uploads" \in w.have
      BY <1>5, <2>3, <3>2 DEF Conditions
    <3>4. Holds(w, steps[i].what)
      BY <3>2, <3>3 DEF Holds
    <3> QED
      BY <2>2, <2>3, <3>4 DEF Fails
  <2>4. CASE steps[i].do = "ask"
    <3>1. ~Permits(w, steps[i])
      BY <2>2, <2>4 DEF Fails
    <3> QED
      BY <1>0, <1>5, <2>2, <2>4, <3>1, RefusedIsShown
  <2> QED
    BY <2>2, <2>3, <2>4 DEF Fails
<1> QED
  BY <1>1, <1>4, <1>5 DEF FlagsTell

\* a is a question that some step e of the same request has the flag of.
Pair(a, e) == a.do = "ask" /\ a.answer = "denied" /\ a.of # "keyword" /\ Flagged(e) /\ Tells(a, e)

\* The flags tell what the calls of PairIs do.
LEMMA PairIsTold ==
    \A S, a, e : a \in S /\ e \in S /\ Pair(a, e) => ToldIn(S, a) /\ ToldIn(S, e)
BY DEF Pair, ToldIn, Answered, Flagged

\* Using an agent is told by the flag for reading it.
LEMMA KeywordTold ==
    \A S : \A op \in UseOperations :
       /\ ToldIn(S, Ask("agent", op, "keyword"))
       /\ Ask("agent", op, "keyword") \in S => ToldIn(S, Read("agent", "read"))
<1>1. \A op \in UseOperations : Tells(Ask("agent", op, "keyword"), Read("agent", "read"))
  BY DEF Tells, Ask, Read
<1>2. IsEffect(Read("agent", "read"))
  BY DEF IsEffect, Read
<1>3. \A S : \A op \in UseOperations : ToldIn(S, Ask("agent", op, "keyword"))
  BY DEF ToldIn, Answered, Ask
<1> QED
  BY <1>1, <1>2, <1>3 DEF ToldIn

\* Steps that need no flag.
LEMMA Looks ==
    \A S : /\ \A what : /\ ToldIn(S, Find(what)) /\ ToldIn(S, Need("uploads", "denied"))
                        /\ ToldIn(S, Need(what, "invalid")) /\ ToldIn(S, Need(what, "conflict"))
                        /\ ToldIn(S, Need(what, "configuration"))
           /\ \A domain, op, of : of # "keyword" => ToldIn(S, Hide(domain, op, of))
           /\ \A of, tier : of \notin {"memory", "thread", "agent"} =>
                 ToldIn(S, Read(of, tier)) /\ ToldIn(S, Write(of, tier))
<1>1. \A S, what : /\ ToldIn(S, Find(what)) /\ ToldIn(S, Need("uploads", "denied"))
                   /\ ToldIn(S, Need(what, "invalid")) /\ ToldIn(S, Need(what, "conflict"))
                   /\ ToldIn(S, Need(what, "configuration"))
  BY DEF ToldIn, Find, Need
<1>2. \A S, domain, op, of : of # "keyword" => ToldIn(S, Hide(domain, op, of))
  BY DEF ToldIn, Answered, Hide, Ask
<1>3. \A S, of, tier : of \notin {"memory", "thread", "agent"} =>
                 ToldIn(S, Read(of, tier)) /\ ToldIn(S, Write(of, tier))
  BY DEF ToldIn, IsEffect, Flagged, Read, Write
<1> QED
  BY <1>1, <1>2, <1>3

\* Questions about nothing in particular.
LEMMA NothingAsked ==
    \A S, op : /\ \A domain \in {"memory", "thread", "integrations", "workflow"} :
                     ToldIn(S, Ask(domain, op, "nothing"))
               /\ op \notin UseOperations => ToldIn(S, Ask("agent", op, "nothing"))
BY DEF ToldIn, Answered, Everyones, Ask

\* Steps that take no flag.
LEMMA Flaglesses ==
    /\ \A what, answer : Flagless(Find(what)) /\ Flagless(Need(what, answer))
    /\ \A domain, op, of : of # "keyword" =>
            Flagless(Ask(domain, op, of)) /\ Flagless(Hide(domain, op, of))
    /\ \A of, tier : of \notin {"memory", "thread", "agent"} =>
            Flagless(Read(of, tier)) /\ Flagless(Write(of, tier))
BY DEF Flagless, Flagged, IsEffect, Find, Need, Ask, Hide, Read, Write

\* Where no flag is taken, a refusal has none to tell it.
LEMMA FlaglessTold ==
    \A S, domain, op, of : of # "keyword" /\ (\A s \in S : Flagless(s)) =>
            ToldIn(S, Ask(domain, op, of))
BY DEF ToldIn, Answered, Ask

\* Questions about a memory and the flags they are.
LEMMA MemoryPairs ==
    /\ Pair(Ask("memory", "VIEW_MEMORY", "memory"), Read("memory", "read"))
    /\ Pair(Ask("memory", "UPDATE_MEMORY", "memory"), Write("memory", "manage"))
    /\ Pair(Ask("memory", "DELETE_MEMORY", "memory"), Write("memory", "delete"))
    /\ Pair(Ask("memory", "UPLOAD_DOCUMENT", "memory"), Write("memory", "write"))
    /\ Pair(Ask("memory", "LIST_DOCUMENTS", "memory"), Read("memory", "read"))
    /\ Pair(Ask("memory", "VIEW_DOCUMENT", "memory"), Read("memory", "read"))
    /\ Pair(Ask("memory", "DELETE_DOCUMENT", "memory"), Write("memory", "write"))
    /\ Pair(Ask("memory", "LINK_MEMORY", "memory"), Read("memory", "read"))
    /\ Pair(Ask("memory", "UNLINK_MEMORY", "memory"), Read("memory", "read"))
<1>1. Pair(Ask("memory", "VIEW_MEMORY", "memory"), Read("memory", "read"))
  BY DEF Pair, Tells, Flagged, IsEffect, Ask, Read, Write, RuleTier, MemoryTiers
<1>2. Pair(Ask("memory", "UPDATE_MEMORY", "memory"), Write("memory", "manage"))
  BY DEF Pair, Tells, Flagged, IsEffect, Ask, Read, Write, RuleTier, MemoryTiers
<1>3. Pair(Ask("memory", "DELETE_MEMORY", "memory"), Write("memory", "delete"))
  BY DEF Pair, Tells, Flagged, IsEffect, Ask, Read, Write, RuleTier, MemoryTiers
<1>4. Pair(Ask("memory", "UPLOAD_DOCUMENT", "memory"), Write("memory", "write"))
  BY DEF Pair, Tells, Flagged, IsEffect, Ask, Read, Write, RuleTier, MemoryTiers
<1>5. Pair(Ask("memory", "LIST_DOCUMENTS", "memory"), Read("memory", "read"))
  BY DEF Pair, Tells, Flagged, IsEffect, Ask, Read, Write, RuleTier, MemoryTiers
<1>6. Pair(Ask("memory", "VIEW_DOCUMENT", "memory"), Read("memory", "read"))
  BY DEF Pair, Tells, Flagged, IsEffect, Ask, Read, Write, RuleTier, MemoryTiers
<1>7. Pair(Ask("memory", "DELETE_DOCUMENT", "memory"), Write("memory", "write"))
  BY DEF Pair, Tells, Flagged, IsEffect, Ask, Read, Write, RuleTier, MemoryTiers
<1>8. Pair(Ask("memory", "LINK_MEMORY", "memory"), Read("memory", "read"))
  BY DEF Pair, Tells, Flagged, IsEffect, Ask, Read, Write, RuleTier, MemoryTiers
<1>9. Pair(Ask("memory", "UNLINK_MEMORY", "memory"), Read("memory", "read"))
  BY DEF Pair, Tells, Flagged, IsEffect, Ask, Read, Write, RuleTier, MemoryTiers
<1> QED
  BY <1>1, <1>2, <1>3, <1>4, <1>5, <1>6, <1>7, <1>8, <1>9

\* Questions about a thread and the flags they are.
LEMMA ThreadPairs ==
    /\ Pair(Ask("thread", "UPDATE_THREAD", "thread"), Write("thread", "manage"))
    /\ Pair(Ask("thread", "VIEW_THREAD", "thread"), Read("thread", "read"))
    /\ Pair(Ask("thread", "UPLOAD_FILE", "thread"), Write("thread", "write"))
    /\ Pair(Ask("thread", "VIEW_FILE", "thread"), Read("thread", "read"))
    /\ Pair(Ask("thread", "DELETE_FILE", "thread"), Write("thread", "manage"))
    /\ Pair(Ask("thread", "DELETE_THREAD", "thread"), Write("thread", "manage"))
    /\ Pair(Ask("thread", "RATE_MESSAGE", "thread"), Write("thread", "write"))
    /\ Pair(Ask("thread", "DELETE_MESSAGE", "thread"), Write("thread", "manage"))
    /\ Pair(Ask("thread", "RESTORE_MESSAGE", "thread"), Write("thread", "manage"))
    /\ Pair(Ask("thread", "VIEW_THREAD", "thread"), Write("thread", "write"))
    /\ Pair(Ask("thread", "VIEW_FILE", "thread"), Write("thread", "write"))
    /\ Pair(Ask("thread", "VIEW_THREAD", "thread"), Write("thread", "manage"))
    /\ Pair(Ask("thread", "UPDATE_THREAD", "thread"), Read("thread", "read"))
<1>1. Pair(Ask("thread", "UPDATE_THREAD", "thread"), Write("thread", "manage"))
  BY DEF Pair, Tells, Flagged, IsEffect, Ask, Read, Write
<1>2. Pair(Ask("thread", "VIEW_THREAD", "thread"), Read("thread", "read"))
  BY DEF Pair, Tells, Flagged, IsEffect, Ask, Read, Write
<1>3. Pair(Ask("thread", "UPLOAD_FILE", "thread"), Write("thread", "write"))
  BY DEF Pair, Tells, Flagged, IsEffect, Ask, Read, Write
<1>4. Pair(Ask("thread", "VIEW_FILE", "thread"), Read("thread", "read"))
  BY DEF Pair, Tells, Flagged, IsEffect, Ask, Read, Write
<1>5. Pair(Ask("thread", "DELETE_FILE", "thread"), Write("thread", "manage"))
  BY DEF Pair, Tells, Flagged, IsEffect, Ask, Read, Write
<1>6. Pair(Ask("thread", "DELETE_THREAD", "thread"), Write("thread", "manage"))
  BY DEF Pair, Tells, Flagged, IsEffect, Ask, Read, Write
<1>7. Pair(Ask("thread", "RATE_MESSAGE", "thread"), Write("thread", "write"))
  BY DEF Pair, Tells, Flagged, IsEffect, Ask, Read, Write
<1>8. Pair(Ask("thread", "DELETE_MESSAGE", "thread"), Write("thread", "manage"))
  BY DEF Pair, Tells, Flagged, IsEffect, Ask, Read, Write
<1>9. Pair(Ask("thread", "RESTORE_MESSAGE", "thread"), Write("thread", "manage"))
  BY DEF Pair, Tells, Flagged, IsEffect, Ask, Read, Write
<1>10. Pair(Ask("thread", "VIEW_THREAD", "thread"), Write("thread", "write"))
  BY DEF Pair, Tells, Flagged, IsEffect, Ask, Read, Write
<1>11. Pair(Ask("thread", "VIEW_FILE", "thread"), Write("thread", "write"))
  BY DEF Pair, Tells, Flagged, IsEffect, Ask, Read, Write
<1>12. Pair(Ask("thread", "VIEW_THREAD", "thread"), Write("thread", "manage"))
  BY DEF Pair, Tells, Flagged, IsEffect, Ask, Read, Write
<1>13. Pair(Ask("thread", "UPDATE_THREAD", "thread"), Read("thread", "read"))
  BY DEF Pair, Tells, Flagged, IsEffect, Ask, Read, Write
<1> QED
  BY <1>1, <1>2, <1>3, <1>4, <1>5, <1>6, <1>7, <1>8, <1>9, <1>10, <1>11, <1>12, <1>13

\* Questions about an agent and the flags they are.
LEMMA AgentPairs ==
    /\ Pair(Ask("agent", "VIEW_AGENT", "agent"), Read("agent", "read"))
    /\ Pair(Ask("agent", "UPDATE_AGENT", "agent"), Write("agent", "manage"))
    /\ Pair(Ask("agent", "UPDATE_AGENT", "agent"), Read("agent", "manage"))
    /\ Pair(Ask("agent", "DELETE_AGENT", "agent"), Write("agent", "manage"))
<1>1. Pair(Ask("agent", "VIEW_AGENT", "agent"), Read("agent", "read"))
  BY DEF Pair, Tells, Flagged, IsEffect, Ask, Read, Write, AgentTiers, UseOperations
<1>2. Pair(Ask("agent", "UPDATE_AGENT", "agent"), Write("agent", "manage"))
  BY DEF Pair, Tells, Flagged, IsEffect, Ask, Read, Write, AgentTiers, UseOperations
<1>3. Pair(Ask("agent", "UPDATE_AGENT", "agent"), Read("agent", "manage"))
  BY DEF Pair, Tells, Flagged, IsEffect, Ask, Read, Write, AgentTiers, UseOperations
<1>4. Pair(Ask("agent", "DELETE_AGENT", "agent"), Write("agent", "manage"))
  BY DEF Pair, Tells, Flagged, IsEffect, Ask, Read, Write, AgentTiers, UseOperations
<1> QED
  BY <1>1, <1>2, <1>3, <1>4

\* Told of the elements of 1.
LEMMA ToldOf1 ==
    ASSUME NEW a, Told({a})
    PROVE  Told(Range(<<a>>))
<1>1. Range(<<a>>) = {a}
  BY DEF Range
<1> QED
  BY <1>1

\* Told of the elements of 2.
LEMMA ToldOf2 ==
    ASSUME NEW a, NEW b, Told({a, b})
    PROVE  Told(Range(<<a, b>>))
<1>1. Range(<<a, b>>) = {a, b}
  BY DEF Range
<1> QED
  BY <1>1

\* Told of the elements of 3.
LEMMA ToldOf3 ==
    ASSUME NEW a, NEW b, NEW c, Told({a, b, c})
    PROVE  Told(Range(<<a, b, c>>))
<1>1. Range(<<a, b, c>>) = {a, b, c}
  BY DEF Range
<1> QED
  BY <1>1

\* Told of the elements of 4.
LEMMA ToldOf4 ==
    ASSUME NEW a, NEW b, NEW c, NEW d, Told({a, b, c, d})
    PROVE  Told(Range(<<a, b, c, d>>))
<1>1. Range(<<a, b, c, d>>) = {a, b, c, d}
  BY DEF Range
<1> QED
  BY <1>1

\* Told of the elements of 5.
LEMMA ToldOf5 ==
    ASSUME NEW a, NEW b, NEW c, NEW d, NEW e, Told({a, b, c, d, e})
    PROVE  Told(Range(<<a, b, c, d, e>>))
<1>1. Range(<<a, b, c, d, e>>) = {a, b, c, d, e}
  BY DEF Range
<1> QED
  BY <1>1

\* Told of the elements of 6.
LEMMA ToldOf6 ==
    ASSUME NEW a, NEW b, NEW c, NEW d, NEW e, NEW f, Told({a, b, c, d, e, f})
    PROVE  Told(Range(<<a, b, c, d, e, f>>))
<1>1. Range(<<a, b, c, d, e, f>>) = {a, b, c, d, e, f}
  BY DEF Range
<1> QED
  BY <1>1

\* Told of the elements of 7.
LEMMA ToldOf7 ==
    ASSUME NEW a, NEW b, NEW c, NEW d, NEW e, NEW f, NEW g, Told({a, b, c, d, e, f, g})
    PROVE  Told(Range(<<a, b, c, d, e, f, g>>))
<1>1. Range(<<a, b, c, d, e, f, g>>) = {a, b, c, d, e, f, g}
  BY DEF Range
<1> QED
  BY <1>1

\* Told of the elements of 8.
LEMMA ToldOf8 ==
    ASSUME NEW a, NEW b, NEW c, NEW d, NEW e, NEW f, NEW g, NEW h, Told({a, b, c, d, e, f, g, h})
    PROVE  Told(Range(<<a, b, c, d, e, f, g, h>>))
<1>1. Range(<<a, b, c, d, e, f, g, h>>) = {a, b, c, d, e, f, g, h}
  BY DEF Range
<1> QED
  BY <1>1

\* Told of the elements of 9.
LEMMA ToldOf9 ==
    ASSUME NEW a, NEW b, NEW c, NEW d, NEW e, NEW f, NEW g, NEW h, NEW j,
            Told({a, b, c, d, e, f, g, h, j})
    PROVE  Told(Range(<<a, b, c, d, e, f, g, h, j>>))
<1>1. Range(<<a, b, c, d, e, f, g, h, j>>) = {a, b, c, d, e, f, g, h, j}
  BY DEF Range
<1> QED
  BY <1>1

\* Told of the elements of 10.
LEMMA ToldOf10 ==
    ASSUME NEW a, NEW b, NEW c, NEW d, NEW e, NEW f, NEW g, NEW h, NEW j, NEW k,
            Told({a, b, c, d, e, f, g, h, j, k})
    PROVE  Told(Range(<<a, b, c, d, e, f, g, h, j, k>>))
<1>1. Range(<<a, b, c, d, e, f, g, h, j, k>>) = {a, b, c, d, e, f, g, h, j, k}
  BY DEF Range
<1> QED
  BY <1>1

\* Told of the elements of 11.
LEMMA ToldOf11 ==
    ASSUME NEW a, NEW b, NEW c, NEW d, NEW e, NEW f, NEW g, NEW h, NEW j, NEW k, NEW l,
            Told({a, b, c, d, e, f, g, h, j, k, l})
    PROVE  Told(Range(<<a, b, c, d, e, f, g, h, j, k, l>>))
<1>1. Range(<<a, b, c, d, e, f, g, h, j, k, l>>) = {a, b, c, d, e, f, g, h, j, k, l}
  BY DEF Range
<1> QED
  BY <1>1

\* The flags tell what the calls of MemoryCalls do.
LEMMA MemoryCallsTold == \A e \in DOMAIN MemoryCalls : Told(Range(MemoryCalls[e]))
<1>1. Told(Range(MemoryCalls.create_memory))
  <2>1. Told({Ask("memory", "CREATE_MEMORY", "nothing"), Write("new_row", "own")})
    BY Looks, NothingAsked DEF Told
  <2> QED
    BY <2>1, MemoryCallsSteps, ToldOf2
<1>2. Told(Range(MemoryCalls.get_memory))
  <2>1. Told({Find("memory"), Ask("memory", "VIEW_MEMORY", "memory"), Read("memory", "read")})
    BY Looks, MemoryPairs, PairIsTold DEF Told
  <2> QED
    BY <2>1, MemoryCallsSteps, ToldOf3
<1>3. Told(Range(MemoryCalls.update_memory))
  <2>1. Told({Find("memory"), Ask("memory", "UPDATE_MEMORY", "memory"), Write("memory", "manage")})
    BY Looks, MemoryPairs, PairIsTold DEF Told
  <2> QED
    BY <2>1, MemoryCallsSteps, ToldOf3
<1>4. Told(Range(MemoryCalls.delete_memory))
  <2>1. Told({Find("memory"), Ask("memory", "DELETE_MEMORY", "memory"), Write("memory", "delete")})
    BY Looks, MemoryPairs, PairIsTold DEF Told
  <2> QED
    BY <2>1, MemoryCallsSteps, ToldOf3
<1> QED
  BY <1>1, <1>2, <1>3, <1>4 DEF MemoryCalls

\* The flags tell what the calls of MemorySharing do.
LEMMA MemorySharingTold == \A e \in DOMAIN MemorySharing : Told(Range(MemorySharing[e]))
<1>1. Told(Range(MemorySharing.list_memory_users))
  <2>1. Told({Find("memory"), Ask("memory", "VIEW_MEMORY", "memory"), Read("memory", "read")})
    BY Looks, MemoryPairs, PairIsTold DEF Told
  <2> QED
    BY <2>1, MemorySharingSteps, ToldOf3
<1>2. Told(Range(MemorySharing.list_memory_groups))
  <2>1. Told({Find("memory"), Ask("memory", "VIEW_MEMORY", "memory"), Read("memory", "read")})
    BY Looks, MemoryPairs, PairIsTold DEF Told
  <2> QED
    BY <2>1, MemorySharingSteps, ToldOf3
<1>3. Told(Range(MemorySharing.add_memory_user))
  <2>1. Told({Find("memory"), Ask("memory", "UPDATE_MEMORY", "memory"), Find("target"),
          Write("memory", "manage")})
    BY Looks, MemoryPairs, PairIsTold DEF Told
  <2> QED
    BY <2>1, MemorySharingSteps, ToldOf4
<1>4. Told(Range(MemorySharing.add_memory_group))
  <2>1. Told({Find("memory"), Ask("memory", "UPDATE_MEMORY", "memory"), Find("target"),
          Write("memory", "manage")})
    BY Looks, MemoryPairs, PairIsTold DEF Told
  <2> QED
    BY <2>1, MemorySharingSteps, ToldOf4
<1>5. Told(Range(MemorySharing.update_memory_user))
  <2>1. Told({Find("memory"), Ask("memory", "UPDATE_MEMORY", "memory"), Find("share"),
          Write("memory", "manage")})
    BY Looks, MemoryPairs, PairIsTold DEF Told
  <2> QED
    BY <2>1, MemorySharingSteps, ToldOf4
<1>6. Told(Range(MemorySharing.remove_memory_user))
  <2>1. Told({Find("memory"), Ask("memory", "UPDATE_MEMORY", "memory"), Find("share"),
          Write("memory", "manage")})
    BY Looks, MemoryPairs, PairIsTold DEF Told
  <2> QED
    BY <2>1, MemorySharingSteps, ToldOf4
<1>7. Told(Range(MemorySharing.remove_memory_group))
  <2>1. Told({Find("memory"), Ask("memory", "UPDATE_MEMORY", "memory"), Write("memory", "manage")})
    BY Looks, MemoryPairs, PairIsTold DEF Told
  <2> QED
    BY <2>1, MemorySharingSteps, ToldOf3
<1> QED
  BY <1>1, <1>2, <1>3, <1>4, <1>5, <1>6, <1>7 DEF MemorySharing

\* The flags tell what the calls of DocumentCalls do.
LEMMA DocumentCallsTold == \A e \in DOMAIN DocumentCalls : Told(Range(DocumentCalls[e]))
<1>1. Told(Range(DocumentCalls.upload_document))
  <2>1. Told({Find("memory"), Ask("memory", "UPLOAD_DOCUMENT", "memory"),
          Need("small", "invalid"), Need("new_file", "conflict"), Write("memory", "write")})
    BY Looks, MemoryPairs, PairIsTold DEF Told
  <2> QED
    BY <2>1, DocumentCallsSteps, ToldOf5
<1>2. Told(Range(DocumentCalls.list_documents))
  <2>1. Told({Find("memory"), Ask("memory", "LIST_DOCUMENTS", "memory"), Read("memory", "read")})
    BY Looks, MemoryPairs, PairIsTold DEF Told
  <2> QED
    BY <2>1, DocumentCallsSteps, ToldOf3
<1>3. Told(Range(DocumentCalls.get_document))
  <2>1. Told({Find("memory"), Ask("memory", "VIEW_DOCUMENT", "memory"), Find("document"),
          Read("memory", "read")})
    BY Looks, MemoryPairs, PairIsTold DEF Told
  <2> QED
    BY <2>1, DocumentCallsSteps, ToldOf4
<1>4. Told(Range(DocumentCalls.delete_document))
  <2>1. Told({Find("memory"), Ask("memory", "DELETE_DOCUMENT", "memory"), Find("document"),
          Write("memory", "write")})
    BY Looks, MemoryPairs, PairIsTold DEF Told
  <2> QED
    BY <2>1, DocumentCallsSteps, ToldOf4
<1> QED
  BY <1>1, <1>2, <1>3, <1>4 DEF DocumentCalls

\* The flags tell what the calls of LinkCalls do.
LEMMA LinkCallsTold == \A e \in DOMAIN LinkCalls : Told(Range(LinkCalls[e]))
<1>1. Told(Range(LinkCalls.link_memory_to_thread))
  <2>1. Told({Find("thread"), Ask("thread", "UPDATE_THREAD", "thread"), Find("memory"),
          Ask("memory", "LINK_MEMORY", "memory"), Write("thread", "manage"),
          Read("memory", "read")})
    BY Looks, MemoryPairs, PairIsTold, ThreadPairs DEF Told
  <2> QED
    BY <2>1, LinkCallsSteps, ToldOf6
<1>2. Told(Range(LinkCalls.unlink_memory_from_thread))
  <2>1. Told({Find("thread"), Ask("thread", "UPDATE_THREAD", "thread"), Find("memory"),
          Ask("memory", "UNLINK_MEMORY", "memory"), Find("link"), Write("thread", "manage"),
          Read("memory", "read")})
    BY Looks, MemoryPairs, PairIsTold, ThreadPairs DEF Told
  <2> QED
    BY <2>1, LinkCallsSteps, ToldOf7
<1>3. Told(Range(LinkCalls.bulk_connect_memories))
  <2>1. Told({Find("thread"), Ask("thread", "UPDATE_THREAD", "thread"), Find("memory"),
          Ask("memory", "LINK_MEMORY", "memory"), Write("thread", "manage"),
          Read("memory", "read")})
    BY Looks, MemoryPairs, PairIsTold, ThreadPairs DEF Told
  <2> QED
    BY <2>1, LinkCallsSteps, ToldOf6
<1>4. Told(Range(LinkCalls.list_thread_memories))
  <2>1. Told({Find("thread"), Ask("thread", "VIEW_THREAD", "thread"), Read("thread", "read")})
    BY Looks, PairIsTold, ThreadPairs DEF Told
  <2> QED
    BY <2>1, LinkCallsSteps, ToldOf3
<1> QED
  BY <1>1, <1>2, <1>3, <1>4 DEF LinkCalls

\* The flags tell what the calls of SwitchCalls do.
LEMMA SwitchCallsTold == \A e \in DOMAIN SwitchCalls : Told(Range(SwitchCalls[e]))
<1>1. Told(Range(SwitchCalls.toggle_memory_active))
  <2>1. Told({Find("thread"), Ask("thread", "UPDATE_THREAD", "thread"), Find("link"),
          Find("memory"), Ask("memory", "LINK_MEMORY", "memory"), Write("thread", "manage"),
          Read("memory", "read")})
    BY Looks, MemoryPairs, PairIsTold, ThreadPairs DEF Told
  <2> QED
    BY <2>1, SwitchCallsSteps, ToldOf7
<1>2. Told(Range(SwitchCalls.disconnect_memory_from_thread))
  <2>1. Told({Find("thread"), Ask("thread", "UPDATE_THREAD", "thread"), Find("link"),
          Find("memory"), Ask("memory", "UNLINK_MEMORY", "memory"), Write("thread", "manage"),
          Read("memory", "read")})
    BY Looks, MemoryPairs, PairIsTold, ThreadPairs DEF Told
  <2> QED
    BY <2>1, SwitchCallsSteps, ToldOf7
<1> QED
  BY <1>1, <1>2 DEF SwitchCalls

\* The flags tell what the calls of FileCalls do.
LEMMA FileCallsTold == \A e \in DOMAIN FileCalls : Told(Range(FileCalls[e]))
<1>1. Told(Range(FileCalls.upload_first_file))
  <2>1. Told({Find("thread"), Find("agent"), Ask("thread", "UPLOAD_FILE", "thread"),
          Ask("agent", "UPLOAD_FILE", "keyword"), Need("uploads", "denied"),
          Need("small", "invalid"), Write("thread", "write")})
    BY KeywordTold, Looks, PairIsTold, ThreadPairs DEF Told, UseOperations
  <2> QED
    BY <2>1, FileCallsSteps, ToldOf7
<1>2. Told(Range(FileCalls.upload_thread_file))
  <2>1. Told({Find("thread"), Find("agent"), Ask("thread", "UPLOAD_FILE", "thread"),
          Ask("agent", "UPLOAD_FILE", "keyword"), Need("uploads", "denied"),
          Need("small", "invalid"), Need("new_file", "conflict"), Write("thread", "write")})
    BY KeywordTold, Looks, PairIsTold, ThreadPairs DEF Told, UseOperations
  <2> QED
    BY <2>1, FileCallsSteps, ToldOf8
<1>3. Told(Range(FileCalls.list_thread_files))
  <2>1. Told({Find("thread"), Find("agent"), Ask("thread", "VIEW_FILE", "thread"),
          Ask("agent", "VIEW_FILE", "keyword"), Read("thread", "read")})
    BY KeywordTold, Looks, PairIsTold, ThreadPairs DEF Told, UseOperations
  <2> QED
    BY <2>1, FileCallsSteps, ToldOf5
<1>4. Told(Range(FileCalls.get_thread_file))
  <2>1. Told({Find("thread"), Find("agent"), Ask("thread", "VIEW_FILE", "thread"),
          Ask("agent", "VIEW_FILE", "keyword"), Find("file"), Read("thread", "read")})
    BY KeywordTold, Looks, PairIsTold, ThreadPairs DEF Told, UseOperations
  <2> QED
    BY <2>1, FileCallsSteps, ToldOf6
<1>5. Told(Range(FileCalls.delete_thread_file))
  <2>1. Told({Find("thread"), Find("agent"), Ask("thread", "DELETE_FILE", "thread"),
          Ask("agent", "DELETE_FILE", "keyword"), Find("file"), Write("thread", "manage")})
    BY KeywordTold, Looks, PairIsTold, ThreadPairs DEF Told, UseOperations
  <2> QED
    BY <2>1, FileCallsSteps, ToldOf6
<1> QED
  BY <1>1, <1>2, <1>3, <1>4, <1>5 DEF FileCalls

\* The flags tell what the calls of StatusCalls do.
LEMMA StatusCallsTold == \A e \in DOMAIN StatusCalls : Told(Range(StatusCalls[e]))
<1>1. Told(Range(StatusCalls.get_document_status))
  <2>1. Told({Find("memory"), Find("document"), Ask("memory", "VIEW_DOCUMENT", "memory"),
          Read("memory", "read")})
    BY Looks, MemoryPairs, PairIsTold DEF Told
  <2> QED
    BY <2>1, StatusCallsSteps, ToldOf4
<1>2. Told(Range(StatusCalls.get_task_status))
  <2>1. Told({Find("memory"), Find("document"), Ask("memory", "VIEW_DOCUMENT", "memory"),
          Read("memory", "read")})
    BY Looks, MemoryPairs, PairIsTold DEF Told
  <2> QED
    BY <2>1, StatusCallsSteps, ToldOf4
<1>3. Told(Range(StatusCalls.get_file_status))
  <2>1. Told({Find("document"), Ask("memory", "VIEW_DOCUMENT", "file_memory"),
          Read("file_memory", "read")})
    BY FlaglessTold, Flaglesses, Looks DEF Told
  <2> QED
    BY <2>1, StatusCallsSteps, ToldOf3
<1> QED
  BY <1>1, <1>2, <1>3 DEF StatusCalls

\* The flags tell what the calls of RetryCalls do.
LEMMA RetryCallsTold == \A e \in DOMAIN RetryCalls : Told(Range(RetryCalls[e]))
<1>1. Told(Range(RetryCalls.retry_document))
  <2>1. Told({Find("memory"), Find("document"), Need("retryable", "invalid"),
          Ask("memory", "UPLOAD_DOCUMENT", "memory"), Write("memory", "write")})
    BY Looks, MemoryPairs, PairIsTold DEF Told
  <2> QED
    BY <2>1, RetryCallsSteps, ToldOf5
<1>2. Told(Range(RetryCalls.retry_file))
  <2>1. Told({Find("thread"), Find("document"), Need("retryable", "invalid"), Find("agent"),
          Ask("thread", "UPLOAD_FILE", "thread"), Ask("agent", "UPLOAD_FILE", "keyword"),
          Write("thread", "write")})
    BY KeywordTold, Looks, PairIsTold, ThreadPairs DEF Told, UseOperations
  <2> QED
    BY <2>1, RetryCallsSteps, ToldOf7
<1> QED
  BY <1>1, <1>2 DEF RetryCalls

\* The flags tell what the calls of CancelCalls do.
LEMMA CancelCallsTold == \A e \in DOMAIN CancelCalls : Told(Range(CancelCalls[e]))
<1>1. Told(Range(CancelCalls.cancel_document))
  <2>1. Told({Find("memory"), Find("document"), Ask("memory", "UPLOAD_DOCUMENT", "memory"),
          Need("cancellable", "invalid"), Write("memory", "write")})
    BY Looks, MemoryPairs, PairIsTold DEF Told
  <2> QED
    BY <2>1, CancelCallsSteps, ToldOf5
<1>2. Told(Range(CancelCalls.cancel_file))
  <2>1. Told({Find("thread"), Find("document"), Find("agent"),
          Ask("thread", "UPLOAD_FILE", "thread"), Ask("agent", "UPLOAD_FILE", "keyword"),
          Need("cancellable", "invalid"), Write("thread", "write")})
    BY KeywordTold, Looks, PairIsTold, ThreadPairs DEF Told, UseOperations
  <2> QED
    BY <2>1, CancelCallsSteps, ToldOf7
<1> QED
  BY <1>1, <1>2 DEF CancelCalls

\* The flags tell what the calls of SourceCalls do.
LEMMA SourceCallsTold == \A e \in DOMAIN SourceCalls : Told(Range(SourceCalls[e]))
<1>1. Told(Range(SourceCalls.get_chunk_content))
  <2>1. Told({Find("memory"), Find("entry"), Ask("memory", "VIEW_DOCUMENT", "memory"),
          Read("memory", "read")})
    BY Looks, MemoryPairs, PairIsTold DEF Told
  <2> QED
    BY <2>1, SourceCallsSteps, ToldOf4
<1>2. Told(Range(SourceCalls.get_source_document))
  <2>1. Told({Find("memory"), Find("document"), Ask("memory", "VIEW_DOCUMENT", "memory"),
          Find("preview"), Read("memory", "read")})
    BY Looks, MemoryPairs, PairIsTold DEF Told
  <2> QED
    BY <2>1, SourceCallsSteps, ToldOf5
<1>3. Told(Range(SourceCalls.get_source_file))
  <2>1. Told({Find("memory"), Find("document"), Ask("memory", "VIEW_DOCUMENT", "memory"),
          Find("preview"), Read("memory", "read")})
    BY Looks, MemoryPairs, PairIsTold DEF Told
  <2> QED
    BY <2>1, SourceCallsSteps, ToldOf5
<1>4. Told(Range(SourceCalls.render_source_page))
  <2>1. Told({Find("memory"), Find("document"), Ask("memory", "VIEW_DOCUMENT", "memory"),
          Find("preview"), Read("memory", "read"), Find("page")})
    BY Looks, MemoryPairs, PairIsTold DEF Told
  <2> QED
    BY <2>1, SourceCallsSteps, ToldOf6
<1> QED
  BY <1>1, <1>2, <1>3, <1>4 DEF SourceCalls

\* The flags tell what the calls of ThreadCalls do.
LEMMA ThreadCallsTold == \A e \in DOMAIN ThreadCalls : Told(Range(ThreadCalls[e]))
<1>1. Told(Range(ThreadCalls.create_thread))
  <2>1. Told({Find("agent"), Ask("thread", "CREATE_THREAD", "nothing"), Write("new_row", "own")})
    BY Looks, NothingAsked DEF Told
  <2> QED
    BY <2>1, ThreadCallsSteps, ToldOf3
<1>2. Told(Range(ThreadCalls.get_thread))
  <2>1. Told({Find("thread"), Ask("thread", "VIEW_THREAD", "thread"), Read("thread", "read")})
    BY Looks, PairIsTold, ThreadPairs DEF Told
  <2> QED
    BY <2>1, ThreadCallsSteps, ToldOf3
<1>3. Told(Range(ThreadCalls.update_thread))
  <2>1. Told({Find("thread"), Ask("thread", "UPDATE_THREAD", "thread"), Write("thread", "manage")})
    BY Looks, PairIsTold, ThreadPairs DEF Told
  <2> QED
    BY <2>1, ThreadCallsSteps, ToldOf3
<1>4. Told(Range(ThreadCalls.delete_thread))
  <2>1. Told({Find("thread"), Ask("thread", "DELETE_THREAD", "thread"), Write("thread", "manage")})
    BY Looks, PairIsTold, ThreadPairs DEF Told
  <2> QED
    BY <2>1, ThreadCallsSteps, ToldOf3
<1> QED
  BY <1>1, <1>2, <1>3, <1>4 DEF ThreadCalls

\* The flags tell what the calls of MessageCalls do.
LEMMA MessageCallsTold == \A e \in DOMAIN MessageCalls : Told(Range(MessageCalls[e]))
<1>1. Told(Range(MessageCalls.rate_message))
  <2>1. Told({Find("thread"), Ask("thread", "RATE_MESSAGE", "thread"), Find("agent"),
          Find("message"), Write("thread", "write")})
    BY Looks, PairIsTold, ThreadPairs DEF Told
  <2> QED
    BY <2>1, MessageCallsSteps, ToldOf5
<1>2. Told(Range(MessageCalls.delete_message))
  <2>1. Told({Find("thread"), Ask("thread", "DELETE_MESSAGE", "thread"), Find("agent"),
          Find("message"), Write("thread", "manage")})
    BY Looks, PairIsTold, ThreadPairs DEF Told
  <2> QED
    BY <2>1, MessageCallsSteps, ToldOf5
<1>3. Told(Range(MessageCalls.restore_message))
  <2>1. Told({Find("thread"), Ask("thread", "RESTORE_MESSAGE", "thread"), Find("agent"),
          Find("message"), Write("thread", "manage")})
    BY Looks, PairIsTold, ThreadPairs DEF Told
  <2> QED
    BY <2>1, MessageCallsSteps, ToldOf5
<1> QED
  BY <1>1, <1>2, <1>3 DEF MessageCalls

\* The flags tell what the calls of ThreadViews do.
LEMMA ThreadViewsTold == \A e \in DOMAIN ThreadViews : Told(Range(ThreadViews[e]))
<1>1. Told(Range(ThreadViews.thread_file_meta))
  <2>1. Told({Find("thread"), Ask("thread", "VIEW_THREAD", "thread"), Read("thread", "read")})
    BY Looks, PairIsTold, ThreadPairs DEF Told
  <2> QED
    BY <2>1, ThreadViewsSteps, ToldOf3
<1>2. Told(Range(ThreadViews.thread_sources))
  <2>1. Told({Find("thread"), Ask("thread", "VIEW_THREAD", "thread"), Read("thread", "read")})
    BY Looks, PairIsTold, ThreadPairs DEF Told
  <2> QED
    BY <2>1, ThreadViewsSteps, ToldOf3
<1> QED
  BY <1>1, <1>2 DEF ThreadViews

\* The flags tell what the calls of TraceCalls do.
LEMMA TraceCallsTold == \A e \in DOMAIN TraceCalls : Told(Range(TraceCalls[e]))
<1>1. Told(Range(TraceCalls.thread_traces))
  <2>1. Told({Find("thread"), Ask("thread", "VIEW_THREAD", "thread"), Read("thread", "read")})
    BY Looks, PairIsTold, ThreadPairs DEF Told
  <2> QED
    BY <2>1, TraceCallsSteps, ToldOf3
<1>2. Told(Range(TraceCalls.thread_token_usage))
  <2>1. Told({Find("thread"), Ask("thread", "VIEW_THREAD", "thread"), Read("thread", "read")})
    BY Looks, PairIsTold, ThreadPairs DEF Told
  <2> QED
    BY <2>1, TraceCallsSteps, ToldOf3
<1>3. Told(Range(TraceCalls.message_traces))
  <2>1. Told({Find("message"), Find("thread"), Ask("thread", "VIEW_THREAD", "thread"),
          Read("thread", "read")})
    BY Looks, PairIsTold, ThreadPairs DEF Told
  <2> QED
    BY <2>1, TraceCallsSteps, ToldOf4
<1>4. Told(Range(TraceCalls.message_token_usage))
  <2>1. Told({Find("message"), Find("thread"), Ask("thread", "VIEW_THREAD", "thread"),
          Read("thread", "read")})
    BY Looks, PairIsTold, ThreadPairs DEF Told
  <2> QED
    BY <2>1, TraceCallsSteps, ToldOf4
<1> QED
  BY <1>1, <1>2, <1>3, <1>4 DEF TraceCalls

\* The flags tell what the calls of ThreadAgent do.
LEMMA ThreadAgentTold == \A e \in DOMAIN ThreadAgent : Told(Range(ThreadAgent[e]))
<1>1. Told(Range(ThreadAgent.get_agent))
  <2>1. Told({Find("thread"), Ask("thread", "VIEW_THREAD", "thread"), Find("agent")})
    BY FlaglessTold, Flaglesses, Looks DEF Told
  <2> QED
    BY <2>1, ThreadAgentSteps, ToldOf3
<1> QED
  BY <1>1 DEF ThreadAgent

\* The flags tell what the calls of History do.
LEMMA HistoryTold == \A e \in DOMAIN History : Told(Range(History[e]))
<1>1. Told(Range(History.history))
  <2>1. Told({Ask("agent", "VIEW_THREAD", "keyword"), Find("thread"),
          Ask("thread", "VIEW_THREAD", "thread"), Read("thread", "read"), Read("agent", "read")})
    BY KeywordTold, Looks, PairIsTold, ThreadPairs DEF Told, UseOperations
  <2> QED
    BY <2>1, HistorySteps, ToldOf5
<1>2. Told(Range(History.history_with_files))
  <2>1. Told({Ask("agent", "VIEW_THREAD", "keyword"), Find("thread"),
          Ask("thread", "VIEW_THREAD", "thread"), Find("thread"),
          Ask("thread", "VIEW_FILE", "thread"), Ask("agent", "VIEW_FILE", "keyword"),
          Read("thread", "read"), Read("agent", "read")})
    BY KeywordTold, Looks, PairIsTold, ThreadPairs DEF Told, UseOperations
  <2> QED
    BY <2>1, HistorySteps, ToldOf8
<1> QED
  BY <1>1, <1>2 DEF History

\* The flags tell what the calls of AsView do.
LEMMA AsViewTold == \A e \in DOMAIN AsView : Told(Range(AsView[e]))
<1>1. Told(Range(AsView.as_view))
  <2>1. Told({Ask("agent", "CHAT", "keyword"), Find("thread"),
          Ask("thread", "VIEW_THREAD", "thread"), Write("thread", "write"), Read("agent", "read")})
    BY KeywordTold, Looks, PairIsTold, ThreadPairs DEF Told, UseOperations
  <2> QED
    BY <2>1, AsViewSteps, ToldOf5
<1>2. Told(Range(AsView.as_view_with_files))
  <2>1. Told({Ask("agent", "CHAT", "keyword"), Find("thread"),
          Ask("thread", "VIEW_THREAD", "thread"), Find("thread"),
          Ask("thread", "VIEW_FILE", "thread"), Ask("agent", "VIEW_FILE", "keyword"),
          Write("thread", "write"), Read("agent", "read")})
    BY KeywordTold, Looks, PairIsTold, ThreadPairs DEF Told, UseOperations
  <2> QED
    BY <2>1, AsViewSteps, ToldOf8
<1> QED
  BY <1>1, <1>2 DEF AsView

\* The flags tell what the calls of AgentChecks do.
LEMMA AgentChecksTold == \A e \in DOMAIN AgentChecks \ {"run"} : Told(Range(AgentChecks[e]))
<1>1. Told(Range(AgentChecks.find_agent))
  <2>1. Told({Find("agent")})
    BY Looks DEF Told
  <2> QED
    BY <2>1, AgentChecksSteps, ToldOf1
<1>2. Told(Range(AgentChecks.find_new_agent))
  <2>1. Told({Find("new_agent")})
    BY Looks DEF Told
  <2> QED
    BY <2>1, AgentChecksSteps, ToldOf1
<1>3. Told(Range(AgentChecks.check_view))
  <2>1. Told({Ask("agent", "VIEW_AGENT", "agent"), Read("agent", "read")})
    BY AgentPairs, Looks, PairIsTold DEF Told
  <2> QED
    BY <2>1, AgentChecksSteps, ToldOf2
<1>4. Told(Range(AgentChecks.check_admin))
  <2>1. Told({Ask("agent", "UPDATE_AGENT", "agent"), Write("agent", "manage")})
    BY AgentPairs, Looks, PairIsTold DEF Told
  <2> QED
    BY <2>1, AgentChecksSteps, ToldOf2
<1>5. Told(Range(AgentChecks.check_chat))
  <2>1. Told({Ask("agent", "CHAT", "nothing")})
    BY FlaglessTold, Flaglesses, Looks DEF Told, UseOperations
  <2> QED
    BY <2>1, AgentChecksSteps, ToldOf1
<1> QED
  BY <1>1, <1>2, <1>3, <1>4, <1>5 DEF AgentChecks

\* The flags tell what the calls of AgentViews do.
LEMMA AgentViewsTold == \A e \in DOMAIN AgentViews : Told(Range(AgentViews[e]))
<1>1. Told(Range(AgentViews.get_agent_info))
  <2>1. Told({Find("agent"), Ask("agent", "VIEW_AGENT", "agent"), Read("agent", "read")})
    BY AgentPairs, Looks, PairIsTold DEF Told
  <2> QED
    BY <2>1, AgentViewsSteps, ToldOf3
<1>2. Told(Range(AgentViews.get_integration_status))
  <2>1. Told({Find("agent"), Ask("agent", "VIEW_AGENT", "agent"), Read("agent", "read")})
    BY AgentPairs, Looks, PairIsTold DEF Told
  <2> QED
    BY <2>1, AgentViewsSteps, ToldOf3
<1> QED
  BY <1>1, <1>2 DEF AgentViews

\* The flags tell what the calls of AgentSharing do.
LEMMA AgentSharingTold == \A e \in DOMAIN AgentSharing : Told(Range(AgentSharing[e]))
<1>1. Told(Range(AgentSharing.list_agent_users))
  <2>1. Told({Find("agent"), Find("agent_row"), Ask("agent", "UPDATE_AGENT", "agent"),
          Read("agent", "manage")})
    BY AgentPairs, Looks, PairIsTold DEF Told
  <2> QED
    BY <2>1, AgentSharingSteps, ToldOf4
<1>2. Told(Range(AgentSharing.list_agent_groups))
  <2>1. Told({Find("agent"), Find("agent_row"), Ask("agent", "UPDATE_AGENT", "agent"),
          Read("agent", "manage")})
    BY AgentPairs, Looks, PairIsTold DEF Told
  <2> QED
    BY <2>1, AgentSharingSteps, ToldOf4
<1>3. Told(Range(AgentSharing.add_agent_user))
  <2>1. Told({Find("agent"), Find("agent_row"), Ask("agent", "UPDATE_AGENT", "agent"),
          Find("target"), Write("agent", "manage")})
    BY AgentPairs, Looks, PairIsTold DEF Told
  <2> QED
    BY <2>1, AgentSharingSteps, ToldOf5
<1>4. Told(Range(AgentSharing.add_agent_group))
  <2>1. Told({Find("agent"), Find("agent_row"), Ask("agent", "UPDATE_AGENT", "agent"),
          Find("target"), Write("agent", "manage")})
    BY AgentPairs, Looks, PairIsTold DEF Told
  <2> QED
    BY <2>1, AgentSharingSteps, ToldOf5
<1>5. Told(Range(AgentSharing.update_agent_user))
  <2>1. Told({Find("agent"), Find("agent_row"), Ask("agent", "UPDATE_AGENT", "agent"),
          Find("share"), Write("agent", "manage")})
    BY AgentPairs, Looks, PairIsTold DEF Told
  <2> QED
    BY <2>1, AgentSharingSteps, ToldOf5
<1>6. Told(Range(AgentSharing.remove_agent_user))
  <2>1. Told({Find("agent"), Find("agent_row"), Ask("agent", "UPDATE_AGENT", "agent"),
          Find("share"), Write("agent", "manage")})
    BY AgentPairs, Looks, PairIsTold DEF Told
  <2> QED
    BY <2>1, AgentSharingSteps, ToldOf5
<1>7. Told(Range(AgentSharing.remove_agent_group))
  <2>1. Told({Find("agent"), Find("agent_row"), Ask("agent", "UPDATE_AGENT", "agent"),
          Find("share"), Write("agent", "manage")})
    BY AgentPairs, Looks, PairIsTold DEF Told
  <2> QED
    BY <2>1, AgentSharingSteps, ToldOf5
<1> QED
  BY <1>1, <1>2, <1>3, <1>4, <1>5, <1>6, <1>7 DEF AgentSharing

\* The flags tell what the calls of RuntimeCalls do.
LEMMA RuntimeCallsTold == \A e \in DOMAIN RuntimeCalls : Told(Range(RuntimeCalls[e]))
<1>1. Told(Range(RuntimeCalls.get_runtime_agent))
  <2>1. Told({Find("agent_row"), Ask("agent", "VIEW_AGENT", "agent"), Read("agent", "read")})
    BY AgentPairs, Looks, PairIsTold DEF Told
  <2> QED
    BY <2>1, RuntimeCallsSteps, ToldOf3
<1>2. Told(Range(RuntimeCalls.create_runtime_agent))
  <2>1. Told({Ask("agent", "CREATE_AGENT", "nothing"), Write("new_row", "own")})
    BY Looks, NothingAsked DEF Told, UseOperations
  <2> QED
    BY <2>1, RuntimeCallsSteps, ToldOf2
<1>3. Told(Range(RuntimeCalls.update_runtime_agent))
  <2>1. Told({Find("agent_row"), Ask("agent", "UPDATE_AGENT", "agent"), Need("valid", "invalid"),
          Write("agent", "manage")})
    BY AgentPairs, Looks, PairIsTold DEF Told
  <2> QED
    BY <2>1, RuntimeCallsSteps, ToldOf4
<1>4. Told(Range(RuntimeCalls.delete_runtime_agent))
  <2>1. Told({Find("agent_row"), Ask("agent", "DELETE_AGENT", "agent"), Write("agent", "manage")})
    BY AgentPairs, Looks, PairIsTold DEF Told
  <2> QED
    BY <2>1, RuntimeCallsSteps, ToldOf3
<1> QED
  BY <1>1, <1>2, <1>3, <1>4 DEF RuntimeCalls

\* The flags tell what the calls of WorkflowRuns do.
LEMMA WorkflowRunsTold == \A e \in DOMAIN WorkflowRuns : Told(Range(WorkflowRuns[e]))
<1>1. Told(Range(WorkflowRuns.run_workflow))
  <2>1. Told({Ask("workflow", "RUN_WORKFLOW", "nothing"), Need("valid", "invalid"),
          Need("fits", "invalid"), Write("new_row", "own")})
    BY Looks, NothingAsked DEF Told
  <2> QED
    BY <2>1, WorkflowRunsSteps, ToldOf4
<1>2. Told(Range(WorkflowRuns.run_by_id))
  <2>1. Told({Ask("workflow", "RUN_WORKFLOW", "nothing"), Find("workflow"), Find("active"),
          Ask("workflow", "RUN_WORKFLOW", "workflow"), Need("readable", "invalid"),
          Need("legal", "configuration"), Need("fits", "invalid"), Read("workflow", "read"),
          Write("new_row", "own")})
    BY FlaglessTold, Flaglesses, Looks, NothingAsked DEF Told
  <2> QED
    BY <2>1, WorkflowRunsSteps, ToldOf9
<1>3. Told(Range(WorkflowRuns.resume_run))
  <2>1. Told({Need("no_inputs", "invalid"), Ask("workflow", "RUN_WORKFLOW", "nothing"),
          Find("workflow"), Find("active"), Ask("workflow", "RUN_WORKFLOW", "workflow"),
          Need("readable", "invalid"), Need("legal", "configuration"), Find("run"),
          Hide("workflow", "VIEW_WORKFLOW", "run"), Write("run", "write")})
    BY FlaglessTold, Flaglesses, Looks, NothingAsked DEF Told
  <2> QED
    BY <2>1, WorkflowRunsSteps, ToldOf10
<1> QED
  BY <1>1, <1>2, <1>3 DEF WorkflowRuns

\* The flags tell what the calls of WorkflowCalls do.
LEMMA WorkflowCallsTold == \A e \in DOMAIN WorkflowCalls : Told(Range(WorkflowCalls[e]))
<1>1. Told(Range(WorkflowCalls.create_workflow))
  <2>1. Told({Ask("workflow", "MANAGE_WORKFLOW", "nothing"), Need("valid", "invalid"),
          Write("new_row", "own")})
    BY Looks, NothingAsked DEF Told
  <2> QED
    BY <2>1, WorkflowCallsSteps, ToldOf3
<1>2. Told(Range(WorkflowCalls.get_workflow))
  <2>1. Told({Find("workflow"), Hide("workflow", "MANAGE_WORKFLOW", "workflow"),
          Read("workflow", "manage")})
    BY Looks DEF Told
  <2> QED
    BY <2>1, WorkflowCallsSteps, ToldOf3
<1>3. Told(Range(WorkflowCalls.update_workflow))
  <2>1. Told({Find("workflow"), Hide("workflow", "MANAGE_WORKFLOW", "workflow"),
          Need("valid", "invalid"), Write("workflow", "manage")})
    BY Looks DEF Told
  <2> QED
    BY <2>1, WorkflowCallsSteps, ToldOf4
<1>4. Told(Range(WorkflowCalls.delete_workflow))
  <2>1. Told({Find("workflow"), Hide("workflow", "MANAGE_WORKFLOW", "workflow"),
          Write("workflow", "manage")})
    BY Looks DEF Told
  <2> QED
    BY <2>1, WorkflowCallsSteps, ToldOf3
<1>5. Told(Range(WorkflowCalls.get_run))
  <2>1. Told({Find("run"), Hide("workflow", "VIEW_WORKFLOW", "run"), Read("run", "read")})
    BY Looks DEF Told
  <2> QED
    BY <2>1, WorkflowCallsSteps, ToldOf3
<1> QED
  BY <1>1, <1>2, <1>3, <1>4, <1>5 DEF WorkflowCalls

\* The flags tell what the calls of IntegrationCalls do.
LEMMA IntegrationCallsTold == \A e \in DOMAIN IntegrationCalls : Told(Range(IntegrationCalls[e]))
<1>1. Told(Range(IntegrationCalls.connect_integration))
  <2>1. Told({Find("integration"), Ask("integrations", "MANAGE_INTEGRATION", "nothing"),
          Need("connectable", "invalid"), Write("connection", "own")})
    BY Looks, NothingAsked DEF Told
  <2> QED
    BY <2>1, IntegrationCallsSteps, ToldOf4
<1>2. Told(Range(IntegrationCalls.disconnect_integration))
  <2>1. Told({Find("integration"), Ask("integrations", "MANAGE_INTEGRATION", "nothing"),
          Find("connection"), Write("connection", "own")})
    BY Looks, NothingAsked DEF Told
  <2> QED
    BY <2>1, IntegrationCallsSteps, ToldOf4
<1>3. Told(Range(IntegrationCalls.reconnect_integration))
  <2>1. Told({Find("integration"), Ask("integrations", "USE_INTEGRATION", "nothing"),
          Read("connection", "own")})
    BY Looks, NothingAsked DEF Told
  <2> QED
    BY <2>1, IntegrationCallsSteps, ToldOf3
<1> QED
  BY <1>1, <1>2, <1>3 DEF IntegrationCalls

\* The flags tell what the endpoints that make several calls do.
LEMMA ComposedAreTold ==
    /\ Told(Range(StepsOf(<<"create_thread", "link_new_thread">>)))
    /\ Told(Range(StepsOf(<<"get_agent", "history">>)))
    /\ Told(Range(StepsOf(<<"get_agent", "history_with_files">>)))
    /\ Told(Range(StepsOf(<<"get_agent", "as_view">>)))
    /\ Told(Range(StepsOf(<<"get_agent", "as_view_with_files">>)))
    /\ Told(Range(StepsOf(<<"find_agent", "get_agent_info">>)))
    /\ Told(Range(StepsOf(<<"find_agent", "check_view", "get_integration_status">>)))
    /\ Told(Range(StepsOf(<<"find_agent", "check_admin">>)))
    /\ Told(Range(StepsOf(<<"find_new_agent", "get_thread", "unlink_memories", "update_thread",
            "link_memories">>)))
    /\ Told(Range(StepsOf(<<"get_thread", "update_thread">>)))
<1>1. Told(Range(StepsOf(<<"create_thread", "link_new_thread">>)))
  <2>1. Told({Find("agent"), Ask("thread", "CREATE_THREAD", "nothing"), Write("new_row", "own"),
          Write("new_row", "own")})
    BY Looks, NothingAsked DEF Told
  <2> QED
    BY <2>1, ComposedSteps, ToldOf4
<1>2. Told(Range(StepsOf(<<"get_agent", "history">>)))
  <2>1. Told({Find("thread"), Ask("thread", "VIEW_THREAD", "thread"), Find("agent"),
          Ask("agent", "VIEW_THREAD", "keyword"), Find("thread"),
          Ask("thread", "VIEW_THREAD", "thread"), Read("thread", "read"), Read("agent", "read")})
    BY KeywordTold, Looks, PairIsTold, ThreadPairs DEF Told, UseOperations
  <2> QED
    BY <2>1, ComposedSteps, ToldOf8
<1>3. Told(Range(StepsOf(<<"get_agent", "history_with_files">>)))
  <2>1. Told({Find("thread"), Ask("thread", "VIEW_THREAD", "thread"), Find("agent"),
          Ask("agent", "VIEW_THREAD", "keyword"), Find("thread"),
          Ask("thread", "VIEW_THREAD", "thread"), Find("thread"),
          Ask("thread", "VIEW_FILE", "thread"), Ask("agent", "VIEW_FILE", "keyword"),
          Read("thread", "read"), Read("agent", "read")})
    BY KeywordTold, Looks, PairIsTold, ThreadPairs DEF Told, UseOperations
  <2> QED
    BY <2>1, ComposedSteps, ToldOf11
<1>4. Told(Range(StepsOf(<<"get_agent", "as_view">>)))
  <2>1. Told({Find("thread"), Ask("thread", "VIEW_THREAD", "thread"), Find("agent"),
          Ask("agent", "CHAT", "keyword"), Find("thread"), Ask("thread", "VIEW_THREAD", "thread"),
          Write("thread", "write"), Read("agent", "read")})
    BY KeywordTold, Looks, PairIsTold, ThreadPairs DEF Told, UseOperations
  <2> QED
    BY <2>1, ComposedSteps, ToldOf8
<1>5. Told(Range(StepsOf(<<"get_agent", "as_view_with_files">>)))
  <2>1. Told({Find("thread"), Ask("thread", "VIEW_THREAD", "thread"), Find("agent"),
          Ask("agent", "CHAT", "keyword"), Find("thread"), Ask("thread", "VIEW_THREAD", "thread"),
          Find("thread"), Ask("thread", "VIEW_FILE", "thread"),
          Ask("agent", "VIEW_FILE", "keyword"), Write("thread", "write"), Read("agent", "read")})
    BY KeywordTold, Looks, PairIsTold, ThreadPairs DEF Told, UseOperations
  <2> QED
    BY <2>1, ComposedSteps, ToldOf11
<1>6. Told(Range(StepsOf(<<"find_agent", "get_agent_info">>)))
  <2>1. Told({Find("agent"), Find("agent"), Ask("agent", "VIEW_AGENT", "agent"),
          Read("agent", "read")})
    BY AgentPairs, Looks, PairIsTold DEF Told
  <2> QED
    BY <2>1, ComposedSteps, ToldOf4
<1>7. Told(Range(StepsOf(<<"find_agent", "check_view", "get_integration_status">>)))
  <2>1. Told({Find("agent"), Ask("agent", "VIEW_AGENT", "agent"), Read("agent", "read"),
          Find("agent"), Ask("agent", "VIEW_AGENT", "agent"), Read("agent", "read")})
    BY AgentPairs, Looks, PairIsTold DEF Told
  <2> QED
    BY <2>1, ComposedSteps, ToldOf6
<1>8. Told(Range(StepsOf(<<"find_agent", "check_admin">>)))
  <2>1. Told({Find("agent"), Ask("agent", "UPDATE_AGENT", "agent"), Write("agent", "manage")})
    BY AgentPairs, Looks, PairIsTold DEF Told
  <2> QED
    BY <2>1, ComposedSteps, ToldOf3
<1>9. Told(Range(StepsOf(<<"find_new_agent", "get_thread", "unlink_memories", "update_thread",
        "link_memories">>)))
  <2>1. Told({Find("new_agent"), Find("thread"), Ask("thread", "VIEW_THREAD", "thread"),
          Read("thread", "read"), Write("thread", "manage"), Find("thread"),
          Ask("thread", "UPDATE_THREAD", "thread"), Write("thread", "manage"),
          Write("thread", "manage")})
    BY Looks, PairIsTold, ThreadPairs DEF Told
  <2> QED
    BY <2>1, ComposedSteps, ToldOf9
<1>10. Told(Range(StepsOf(<<"get_thread", "update_thread">>)))
  <2>1. Told({Find("thread"), Ask("thread", "VIEW_THREAD", "thread"), Read("thread", "read"),
          Find("thread"), Ask("thread", "UPDATE_THREAD", "thread"), Write("thread", "manage")})
    BY Looks, PairIsTold, ThreadPairs DEF Told
  <2> QED
    BY <2>1, ComposedSteps, ToldOf6
<1> QED
  BY <1>1, <1>2, <1>3, <1>4, <1>5, <1>6, <1>7, <1>8, <1>9, <1>10

\* The flags tell what every call does that asks.
LEMMA CallsAreTold ==
    ASSUME NEW e \in DOMAIN Calls \ Bare
    PROVE  Told(Range(Calls[e]))
<1>1. PICK t \in CallTables : e \in DOMAIN t /\ Calls[e] = t[e]
  BY TogetherHasTables DEF Calls
<1>2. CASE t = MemoryCalls
  BY <1>1, <1>2, MemoryCallsTold
<1>3. CASE t = MemorySharing
  BY <1>1, <1>3, MemorySharingTold
<1>4. CASE t = DocumentCalls
  BY <1>1, <1>4, DocumentCallsTold
<1>5. CASE t = LinkCalls
  BY <1>1, <1>5, LinkCallsTold
<1>6. CASE t = SwitchCalls
  BY <1>1, <1>6, SwitchCallsTold
<1>7. CASE t = FileCalls
  BY <1>1, <1>7, FileCallsTold
<1>8. CASE t = StatusCalls
  BY <1>1, <1>8, StatusCallsTold
<1>9. CASE t = RetryCalls
  BY <1>1, <1>9, RetryCallsTold
<1>10. CASE t = CancelCalls
  BY <1>1, <1>10, CancelCallsTold
<1>11. CASE t = SourceCalls
  BY <1>1, <1>11, SourceCallsTold
<1>12. CASE t = ThreadCalls
  BY <1>1, <1>12, ThreadCallsTold
<1>13. CASE t = MessageCalls
  BY <1>1, <1>13, MessageCallsTold
<1>14. CASE t = ThreadViews
  BY <1>1, <1>14, ThreadViewsTold
<1>15. CASE t = TraceCalls
  BY <1>1, <1>15, TraceCallsTold
<1>16. CASE t = ThreadAgent
  BY <1>1, <1>16, ThreadAgentTold
<1>17. CASE t = History
  BY <1>1, <1>17, HistoryTold
<1>18. CASE t = AsView
  BY <1>1, <1>18, AsViewTold
<1>19. CASE t = AgentMemories
  BY <1>1, <1>19 DEF AgentMemories, Bare
<1>20. CASE t = AgentChecks
  BY <1>1, <1>20, AgentChecksTold DEF Bare
<1>21. CASE t = AgentViews
  BY <1>1, <1>21, AgentViewsTold
<1>22. CASE t = AgentSharing
  BY <1>1, <1>22, AgentSharingTold
<1>23. CASE t = RuntimeCalls
  BY <1>1, <1>23, RuntimeCallsTold
<1>24. CASE t = WorkflowRuns
  BY <1>1, <1>24, WorkflowRunsTold
<1>25. CASE t = WorkflowCalls
  BY <1>1, <1>25, WorkflowCallsTold
<1>26. CASE t = IntegrationCalls
  BY <1>1, <1>26, IntegrationCallsTold
<1> QED
  BY <1>1, <1>2, <1>3, <1>4, <1>5, <1>6, <1>7, <1>8, <1>9, <1>10, <1>11, <1>12, <1>13, <1>14,
          <1>15, <1>16, <1>17, <1>18, <1>19, <1>20, <1>21, <1>22, <1>23, <1>24, <1>25,
          <1>26 DEF CallTables

\* Every other endpoint makes a call that asks.
LEMMA OthersAreCalls == DOMAIN Ninja \ Composed \subseteq DOMAIN Calls \ Bare
<1>1. ASSUME NEW e \in DOMAIN Ninja \ Composed PROVE e \in DOMAIN Calls \ Bare
  <2>1. PICK t \in NinjaTables : e \in DOMAIN t
    BY TogetherHasTables DEF Ninja
  <2>2. CASE t = NinjaThreads
    <3>1. e \in {"delete_thread"}
      BY <2>1, <2>2 DEF NinjaThreads, Composed
    <3>2. {"delete_thread"} \subseteq DOMAIN Calls
      BY CallNames, KnownCalls DEF CallTables
    <3> QED
      BY <3>1, <3>2 DEF Bare
  <2>3. CASE t = NinjaThreadViews
    <3>1. e \in {"thread_file_meta", "thread_sources", "rate_message", "delete_message",
            "restore_message", "thread_traces", "thread_token_usage", "message_traces",
            "message_token_usage"}
      BY <2>1, <2>3 DEF NinjaThreadViews, Itself
    <3>2. {"rate_message", "delete_message", "restore_message"} \subseteq DOMAIN Calls
      BY CallNames, KnownCalls DEF CallTables
    <3>3. {"thread_file_meta", "thread_sources"} \subseteq DOMAIN Calls
      BY CallNames, KnownCalls DEF CallTables
    <3>4. {"thread_traces", "thread_token_usage", "message_traces",
            "message_token_usage"} \subseteq DOMAIN Calls
      BY CallNames, KnownCalls DEF CallTables
    <3> QED
      BY <3>1, <3>2, <3>3, <3>4 DEF Bare
  <2>4. CASE t = NinjaAgentSharing
    <3>1. e \in {"create_runtime_agent", "get_runtime_agent", "update_runtime_agent",
            "delete_runtime_agent", "list_agent_users", "add_agent_user", "update_agent_user",
            "remove_agent_user", "list_agent_groups", "add_agent_group", "remove_agent_group"}
      BY <2>1, <2>4 DEF NinjaAgentSharing, Itself
    <3>2. {"list_agent_users", "add_agent_user", "update_agent_user", "remove_agent_user",
            "list_agent_groups", "add_agent_group", "remove_agent_group"} \subseteq DOMAIN Calls
      BY CallNames, KnownCalls DEF CallTables
    <3>3. {"create_runtime_agent", "get_runtime_agent", "update_runtime_agent",
            "delete_runtime_agent"} \subseteq DOMAIN Calls
      BY CallNames, KnownCalls DEF CallTables
    <3> QED
      BY <3>1, <3>2, <3>3 DEF Bare
  <2>5. CASE t = NinjaAgents
    BY <2>1, <2>5 DEF NinjaAgents, Composed
  <2>6. CASE t = NinjaMemories
    <3>1. e \in {"create_memory", "get_memory", "update_memory", "delete_memory",
            "upload_document", "get_document_status", "cancel_document", "get_task_status",
            "list_documents", "get_document", "delete_document", "link_memory_to_thread",
            "unlink_memory_from_thread", "list_thread_memories"}
      BY <2>1, <2>6 DEF NinjaMemories, Itself
    <3>2. {"cancel_document"} \subseteq DOMAIN Calls
      BY CallNames, KnownCalls DEF CallTables
    <3>3. {"upload_document", "list_documents", "get_document",
            "delete_document"} \subseteq DOMAIN Calls
      BY CallNames, KnownCalls DEF CallTables
    <3>4. {"link_memory_to_thread", "unlink_memory_from_thread",
            "list_thread_memories"} \subseteq DOMAIN Calls
      BY CallNames, KnownCalls DEF CallTables
    <3>5. {"create_memory", "get_memory", "update_memory", "delete_memory"} \subseteq DOMAIN Calls
      BY CallNames, KnownCalls DEF CallTables
    <3>6. {"get_document_status", "get_task_status"} \subseteq DOMAIN Calls
      BY CallNames, KnownCalls DEF CallTables
    <3> QED
      BY <3>1, <3>2, <3>3, <3>4, <3>5, <3>6 DEF Bare
  <2>7. CASE t = NinjaMemoryThreads
    <3>1. e \in {"bulk_connect_memories", "upload_first_file", "upload_thread_file",
            "get_file_status", "cancel_file", "list_thread_files", "delete_thread_file",
            "toggle_memory_active", "disconnect_memory_from_thread", "list_memory_users",
            "add_memory_user"}
      BY <2>1, <2>7 DEF NinjaMemoryThreads, Itself
    <3>2. {"cancel_file"} \subseteq DOMAIN Calls
      BY CallNames, KnownCalls DEF CallTables
    <3>3. {"upload_first_file", "upload_thread_file", "list_thread_files",
            "delete_thread_file"} \subseteq DOMAIN Calls
      BY CallNames, KnownCalls DEF CallTables
    <3>4. {"bulk_connect_memories"} \subseteq DOMAIN Calls
      BY CallNames, KnownCalls DEF CallTables
    <3>5. {"list_memory_users", "add_memory_user"} \subseteq DOMAIN Calls
      BY CallNames, KnownCalls DEF CallTables
    <3>6. {"get_file_status"} \subseteq DOMAIN Calls
      BY CallNames, KnownCalls DEF CallTables
    <3>7. {"toggle_memory_active", "disconnect_memory_from_thread"} \subseteq DOMAIN Calls
      BY CallNames, KnownCalls DEF CallTables
    <3> QED
      BY <3>1, <3>2, <3>3, <3>4, <3>5, <3>6, <3>7 DEF Bare
  <2>8. CASE t = FileDownload
    BY <2>1, <2>8 DEF FileDownload, Composed
  <2>9. CASE t = NinjaMemorySharing
    <3>1. e \in {"update_memory_user", "remove_memory_user", "list_memory_groups",
            "add_memory_group", "remove_memory_group", "get_chunk_content", "get_source_document",
            "get_source_file", "render_source_page"}
      BY <2>1, <2>9 DEF NinjaMemorySharing, Itself
    <3>2. {"update_memory_user", "remove_memory_user", "list_memory_groups", "add_memory_group",
            "remove_memory_group"} \subseteq DOMAIN Calls
      BY CallNames, KnownCalls DEF CallTables
    <3>3. {"get_chunk_content", "get_source_document", "get_source_file",
            "render_source_page"} \subseteq DOMAIN Calls
      BY CallNames, KnownCalls DEF CallTables
    <3> QED
      BY <3>1, <3>2, <3>3 DEF Bare
  <2>10. CASE t = NinjaWorkflows
    <3>1. e \in {"run_workflow", "create_workflow", "get_workflow", "update_workflow",
            "delete_workflow", "run_by_id", "resume_run", "get_run"}
      BY <2>1, <2>10 DEF NinjaWorkflows, Itself
    <3>2. {"create_workflow", "get_workflow", "update_workflow", "delete_workflow",
            "get_run"} \subseteq DOMAIN Calls
      BY CallNames, KnownCalls DEF CallTables
    <3>3. {"run_workflow", "run_by_id", "resume_run"} \subseteq DOMAIN Calls
      BY CallNames, KnownCalls DEF CallTables
    <3> QED
      BY <3>1, <3>2, <3>3 DEF Bare
  <2>11. CASE t = NinjaIntegrations
    <3>1. e \in {"connect_integration", "disconnect_integration", "reconnect_integration"}
      BY <2>1, <2>11 DEF NinjaIntegrations, Itself
    <3>2. {"connect_integration", "disconnect_integration",
            "reconnect_integration"} \subseteq DOMAIN Calls
      BY CallNames, KnownCalls DEF CallTables
    <3> QED
      BY <3>1, <3>2 DEF Bare
  <2> QED
    BY <2>1, <2>2, <2>3, <2>4, <2>5, <2>6, <2>7, <2>8, <2>9, <2>10, <2>11 DEF NinjaTables
<1> QED
  BY <1>1

\* The flags tell what every endpoint does, but those that run an agent.
LEMMA NinjaIsTold ==
    ASSUME NEW e \in DOMAIN Ninja \ {"run_thread", "run_agent"}
    PROVE  Told(Range(StepsOf(Ninja[e])))
<1>1. CASE e \in Composed
  <2>1. Told(Range(StepsOf(<<"get_thread_file">>)))
    <3>1. "get_thread_file" \in DOMAIN Calls \ Bare
      BY CallNames, KnownCalls DEF CallTables, Bare
    <3> QED
      BY <3>1, StepsOfCalls, CallsAreTold
  <2> QED
    BY <1>1, <2>1, NinjaComposed, ComposedAreTold DEF Composed
<1>2. CASE e \notin Composed
  <2>1. Ninja[e] = <<e>> /\ e \in DOMAIN Calls \ Bare
    BY <1>2, NinjaCallsItself, OthersAreCalls
  <2> QED
    BY <2>1, StepsOfCalls, CallsAreTold
<1> QED
  BY <1>1, <1>2

\* Of one linked memory: it is kept if its link is active and it is readable.
LEMMA OneLinked ==
    ASSUME NEW m, NEW readable
    PROVE  ThreadMemories(<<m>>, readable) = IF m.active /\ m.id \in readable THEN <<m>> ELSE <<>>
<1> DEFINE links == <<m>>
           Says(f, n) ==
              IF n = 0 THEN <<>>
              ELSE IF links[n].active /\ links[n].id \in readable THEN Append(f[n - 1], links[n])
              ELSE f[n - 1]
           kept == CHOOSE f : f = [n \in 0..Len(links) |-> Says(f, n)]
           one == IF m.active /\ m.id \in readable THEN <<m>> ELSE <<>>
           g == [n \in 0..1 |-> IF n = 0 THEN <<>> ELSE one]
<1>1. ThreadMemories(links, readable) = kept[Len(links)]
  BY DEF ThreadMemories
<1>2. Len(links) = 1 /\ links[1] = m /\ 0..1 = {0, 1} /\ Append(<<>>, m) = <<m>>
  OBVIOUS
<1>3. g = [n \in 0..1 |-> Says(g, n)]
  <2>1. Says(g, 0) = <<>> /\ g[0] = <<>>
    BY <1>2
  <2>2. Says(g, 1) = one
    BY <1>2, <2>1
  <2> HIDE DEF Says, one
  <2>3. g[1] = one /\ g[0] = <<>>
    OBVIOUS
  <2>4. \A n \in 0..1 : g[n] = Says(g, n)
    BY <1>2, <2>1, <2>2, <2>3
  <2>5. g = [n \in 0..1 |-> g[n]]
    OBVIOUS
  <2> HIDE DEF g
  <2> QED
    BY <2>4, <2>5
<1> HIDE DEF g
<1>4. kept = [n \in 0..1 |-> Says(kept, n)]
  <2> HIDE DEF Says
  <2>1. kept = CHOOSE f : f = [n \in 0..1 |-> Says(f, n)]
    BY <1>2
  <2> HIDE DEF kept
  <2> QED
    BY <1>3, <2>1
<1> HIDE DEF kept
<1>5. kept[0] = <<>>
  BY <1>4
<1>6. kept[1] = one
  BY <1>2, <1>4, <1>5
<1> HIDE DEF links
<1> QED
  BY <1>1, <1>2, <1>6 DEF links

\* Of one memory: a tool is made for it if it has documents.
LEMMA OneSearched ==
    ASSUME NEW m, NEW file
    PROVE  /\ RagTools(<<>>, file) = <<>>
           /\ m.documents => RagTools(<<m>>, file) # <<>>
<1> DEFINE start == [used |-> {}, tools |-> <<>>]
           Says(list, f, n) == IF n = 0 THEN start ELSE AddKnowledge(file, f[n - 1], list[n])
           So(list, k) == CHOOSE f : f = [n \in 0..k |-> Says(list, f, n)]
<1>1. /\ RagTools(<<>>, file) = So(<<>>, Len(<<>>))[Len(<<>>)].tools
      /\ RagTools(<<m>>, file) = So(<<m>>, Len(<<m>>))[Len(<<m>>)].tools
  BY DEF RagTools
<1>2. Len(<<>>) = 0 /\ Len(<<m>>) = 1 /\ 0..1 = {0, 1} /\ 0..0 = {0}
  OBVIOUS
<1>3. So(<<>>, 0)[0] = start
  <2> DEFINE g == [n \in 0..0 |-> start]
             f0 == So(<<>>, 0)
  <2>1. g = [n \in 0..0 |-> Says(<<>>, g, n)]
    <3> HIDE DEF start
    <3> QED
      BY <1>2
  <2> HIDE DEF start
  <2>2. f0 = [n \in 0..0 |-> Says(<<>>, f0, n)]
    <3> HIDE DEF g, Says
    <3> QED
      BY <2>1
  <2> HIDE DEF f0
  <2> QED
    BY <1>2, <2>2 DEF f0
<1>4. So(<<m>>, 1)[1] = AddKnowledge(file, start, m)
  <2> DEFINE last == AddKnowledge(file, start, m)
             g == [n \in 0..1 |-> IF n = 0 THEN start ELSE last]
             f1 == So(<<m>>, 1)
  <2> HIDE DEF start, last
  <2>1. g[0] = start /\ g[1] = last
    OBVIOUS
  <2>2. Says(<<m>>, g, 0) = start /\ Says(<<m>>, g, 1) = last
    BY <2>1 DEF last
  <2>3. \A n \in 0..1 : g[n] = Says(<<m>>, g, n)
    BY <1>2, <2>1, <2>2
  <2>4. g = [n \in 0..1 |-> Says(<<m>>, g, n)]
    BY <2>3
  <2>5. f1 = [n \in 0..1 |-> Says(<<m>>, f1, n)]
    <3> HIDE DEF g, Says
    <3> QED
      BY <2>4
  <2> HIDE DEF f1
  <2>6. f1[0] = start
    BY <2>5
  <2>7. f1[1] = AddKnowledge(file, f1[0], m)
    BY <2>5
  <2> QED
    BY <2>6, <2>7 DEF f1
<1>5. RagTools(<<>>, file) = start.tools /\ RagTools(<<m>>, file) = AddKnowledge(file, start,
        m).tools
  <2> HIDE DEF So, start
  <2> QED
    BY <1>1, <1>2, <1>3, <1>4
<1>6. m.documents => AddKnowledge(file, start, m).tools # <<>>
  <2>1. \A x : Append(<<>>, x) # <<>>
    OBVIOUS
  <2>2. start.tools = <<>>
    OBVIOUS
  <2> HIDE DEF start
  <2>3. m.documents => \E x : AddKnowledge(file, start, m).tools = Append(start.tools, x)
    BY DEF AddKnowledge
  <2> QED
    BY <2>1, <2>2, <2>3
<1> QED
  BY <1>5, <1>6

\* The calls that open one item of a list.
LEMMA OpenerSteps ==
    /\ Calls.get_memory = <<Find("memory"), Ask("memory", "VIEW_MEMORY", "memory"),
            Read("memory", "read")>>
    /\ Calls.thread_file_meta = <<Find("thread"), Ask("thread", "VIEW_THREAD", "thread"),
            Read("thread", "read")>>
    /\ Calls.get_agent_info = <<Find("agent"), Ask("agent", "VIEW_AGENT", "agent"),
            Read("agent", "read")>>
    /\ Calls.get_runtime_agent = <<Find("agent_row"), Ask("agent", "VIEW_AGENT", "agent"),
            Read("agent", "read")>>
    /\ Calls.get_workflow = <<Find("workflow"), Hide("workflow", "MANAGE_WORKFLOW", "workflow"),
            Read("workflow", "manage")>>
    /\ Calls.get_run = <<Find("run"), Hide("workflow", "VIEW_WORKFLOW", "run"),
            Read("run", "read")>>
    /\ Calls.reconnect_integration = <<Find("integration"),
            Ask("integrations", "USE_INTEGRATION", "nothing"), Read("connection", "own")>>
<1>1. Calls.get_memory = <<Find("memory"), Ask("memory", "VIEW_MEMORY", "memory"),
        Read("memory", "read")>>
  <2>1. \A u \in CallTables : "get_memory" \in DOMAIN u => u = MemoryCalls
    BY CallNames DEF CallTables
  <2>2. "get_memory" \in DOMAIN MemoryCalls /\ MemoryCalls \in CallTables
    BY CallNames DEF CallTables
  <2> QED
    BY <2>1, <2>2, TogetherIs, MemoryCallsSteps DEF Calls
<1>2. Calls.thread_file_meta = <<Find("thread"), Ask("thread", "VIEW_THREAD", "thread"),
        Read("thread", "read")>>
  <2>1. \A u \in CallTables : "thread_file_meta" \in DOMAIN u => u = ThreadViews
    BY CallNames DEF CallTables
  <2>2. "thread_file_meta" \in DOMAIN ThreadViews /\ ThreadViews \in CallTables
    BY CallNames DEF CallTables
  <2> QED
    BY <2>1, <2>2, TogetherIs, ThreadViewsSteps DEF Calls
<1>3. Calls.get_agent_info = <<Find("agent"), Ask("agent", "VIEW_AGENT", "agent"),
        Read("agent", "read")>>
  <2>1. \A u \in CallTables : "get_agent_info" \in DOMAIN u => u = AgentViews
    BY CallNames DEF CallTables
  <2>2. "get_agent_info" \in DOMAIN AgentViews /\ AgentViews \in CallTables
    BY CallNames DEF CallTables
  <2> QED
    BY <2>1, <2>2, TogetherIs, AgentViewsSteps DEF Calls
<1>4. Calls.get_runtime_agent = <<Find("agent_row"), Ask("agent", "VIEW_AGENT", "agent"),
        Read("agent", "read")>>
  <2>1. \A u \in CallTables : "get_runtime_agent" \in DOMAIN u => u = RuntimeCalls
    BY CallNames DEF CallTables
  <2>2. "get_runtime_agent" \in DOMAIN RuntimeCalls /\ RuntimeCalls \in CallTables
    BY CallNames DEF CallTables
  <2> QED
    BY <2>1, <2>2, TogetherIs, RuntimeCallsSteps DEF Calls
<1>5. Calls.get_workflow = <<Find("workflow"), Hide("workflow", "MANAGE_WORKFLOW", "workflow"),
        Read("workflow", "manage")>>
  <2>1. \A u \in CallTables : "get_workflow" \in DOMAIN u => u = WorkflowCalls
    BY CallNames DEF CallTables
  <2>2. "get_workflow" \in DOMAIN WorkflowCalls /\ WorkflowCalls \in CallTables
    BY CallNames DEF CallTables
  <2> QED
    BY <2>1, <2>2, TogetherIs, WorkflowCallsSteps DEF Calls
<1>6. Calls.get_run = <<Find("run"), Hide("workflow", "VIEW_WORKFLOW", "run"), Read("run", "read")>>
  <2>1. \A u \in CallTables : "get_run" \in DOMAIN u => u = WorkflowCalls
    BY CallNames DEF CallTables
  <2>2. "get_run" \in DOMAIN WorkflowCalls /\ WorkflowCalls \in CallTables
    BY CallNames DEF CallTables
  <2> QED
    BY <2>1, <2>2, TogetherIs, WorkflowCallsSteps DEF Calls
<1>7. Calls.reconnect_integration = <<Find("integration"),
        Ask("integrations", "USE_INTEGRATION", "nothing"), Read("connection", "own")>>
  <2>1. \A u \in CallTables : "reconnect_integration" \in DOMAIN u => u = IntegrationCalls
    BY CallNames DEF CallTables
  <2>2. "reconnect_integration" \in DOMAIN IntegrationCalls /\ IntegrationCalls \in CallTables
    BY CallNames DEF CallTables
  <2> QED
    BY <2>1, <2>2, TogetherIs, IntegrationCallsSteps DEF Calls
<1> QED
  BY <1>1, <1>2, <1>3, <1>4, <1>5, <1>6, <1>7

\* What is looked up, asked and read is opened if it is there and allowed.
LEMMA OpensIff ==
    ASSUME NEW w, NEW a, NEW b, NEW c, a.answer # "ok", b.answer # "ok", ~Fails(w, c)
    PROVE  Outcome(w, <<a, b, c>>) = "ok" <=> ~Fails(w, a) /\ ~Fails(w, b)
<1> DEFINE steps == <<a, b, c>>
           stops == Stops(w, steps)
<1>1. DOMAIN steps = {1, 2, 3} /\ steps[1] = a /\ steps[2] = b /\ steps[3] = c
  OBVIOUS
<1> HIDE DEF steps
<1>2. stops \in SUBSET Nat /\ stops \subseteq {1, 2} /\ (stops = {} <=>
        ~Fails(w, a) /\ ~Fails(w, b))
  BY <1>1 DEF Stops
<1>3. stops # {} => steps[First(stops)].answer # "ok"
  BY <1>1, <1>2, FirstIsLeast
<1>4. Outcome(w, steps) = IF stops = {} THEN "ok" ELSE steps[First(stops)].answer
  BY DEF Outcome
<1> HIDE DEF stops
<1>5. Outcome(w, steps) = "ok" <=> stops = {}
  BY <1>3, <1>4
<1> QED
  BY <1>2, <1>5 DEF steps

\* A request that looks up, asks a and reads is answered as these are.
Opened(w, what, a, r) == Outcome(w, <<Find(what), a, r>>) = "ok" <=> Holds(w, what) /\ Permits(w, a)

\* Looking up, asking and reading is answered so.
LEMMA OpenedIff ==
    /\ \A w, what, domain, op, of, x, tier : Opened(w, what, Ask(domain, op, of), Read(x, tier))
    /\ \A w, what, domain, op, of, x, tier : Opened(w, what, Hide(domain, op, of), Read(x, tier))
<1>1. \A what : Find(what).answer # "ok"
  BY DEF Find
<1>2. \A domain, op, of : Ask(domain, op, of).answer # "ok" /\ Hide(domain, op, of).answer # "ok"
  BY DEF Ask, Hide
<1>3. \A w, what : Fails(w, Find(what)) <=> ~Holds(w, what)
  BY DEF Fails, Find
<1>4. \A w, domain, op, of : /\ Fails(w, Ask(domain, op, of)) <=> ~Permits(w, Ask(domain, op, of))
                             /\ Fails(w, Hide(domain, op, of)) <=> ~Permits(w, Hide(domain, op, of))
  BY DEF Fails, Ask, Hide
<1>5. \A w, x, tier : ~Fails(w, Read(x, tier))
  BY DEF Fails, Read
<1> QED
  BY <1>1, <1>2, <1>3, <1>4, <1>5, OpensIff DEF Opened

\* When the calls that open an item succeed.
LEMMA OpenersOpen ==
    /\ \A w : Outcome(w, Calls.get_memory) = "ok" <=>
            Holds(w, "memory") /\ Permits(w, Ask("memory", "VIEW_MEMORY", "memory"))
    /\ \A w : Outcome(w, Calls.thread_file_meta) = "ok" <=>
            Holds(w, "thread") /\ Permits(w, Ask("thread", "VIEW_THREAD", "thread"))
    /\ \A w : Outcome(w, Calls.get_agent_info) = "ok" <=>
            Holds(w, "agent") /\ Permits(w, Ask("agent", "VIEW_AGENT", "agent"))
    /\ \A w : Outcome(w, Calls.get_runtime_agent) = "ok" <=>
            Holds(w, "agent_row") /\ Permits(w, Ask("agent", "VIEW_AGENT", "agent"))
    /\ \A w : Outcome(w, Calls.get_workflow) = "ok" <=>
            Holds(w, "workflow") /\ Permits(w, Hide("workflow", "MANAGE_WORKFLOW", "workflow"))
    /\ \A w : Outcome(w, Calls.get_run) = "ok" <=>
            Holds(w, "run") /\ Permits(w, Hide("workflow", "VIEW_WORKFLOW", "run"))
    /\ \A w : Outcome(w, Calls.reconnect_integration) = "ok" <=>
            Holds(w, "integration") /\ Permits(w, Ask("integrations", "USE_INTEGRATION", "nothing"))
<1>1. \A w : Outcome(w, Calls.get_memory) = "ok" <=>
        Holds(w, "memory") /\ Permits(w, Ask("memory", "VIEW_MEMORY", "memory"))
  <2>1. \A w : Opened(w, "memory", Ask("memory", "VIEW_MEMORY", "memory"), Read("memory", "read"))
    BY OpenedIff
  <2> QED
    BY <2>1, OpenerSteps DEF Opened
<1>2. \A w : Outcome(w, Calls.thread_file_meta) = "ok" <=>
        Holds(w, "thread") /\ Permits(w, Ask("thread", "VIEW_THREAD", "thread"))
  <2>1. \A w : Opened(w, "thread", Ask("thread", "VIEW_THREAD", "thread"), Read("thread", "read"))
    BY OpenedIff
  <2> QED
    BY <2>1, OpenerSteps DEF Opened
<1>3. \A w : Outcome(w, Calls.get_agent_info) = "ok" <=>
        Holds(w, "agent") /\ Permits(w, Ask("agent", "VIEW_AGENT", "agent"))
  <2>1. \A w : Opened(w, "agent", Ask("agent", "VIEW_AGENT", "agent"), Read("agent", "read"))
    BY OpenedIff
  <2> QED
    BY <2>1, OpenerSteps DEF Opened
<1>4. \A w : Outcome(w, Calls.get_runtime_agent) = "ok" <=>
        Holds(w, "agent_row") /\ Permits(w, Ask("agent", "VIEW_AGENT", "agent"))
  <2>1. \A w : Opened(w, "agent_row", Ask("agent", "VIEW_AGENT", "agent"), Read("agent", "read"))
    BY OpenedIff
  <2> QED
    BY <2>1, OpenerSteps DEF Opened
<1>5. \A w : Outcome(w, Calls.get_workflow) = "ok" <=>
        Holds(w, "workflow") /\ Permits(w, Hide("workflow", "MANAGE_WORKFLOW", "workflow"))
  <2>1. \A w : Opened(w, "workflow", Hide("workflow", "MANAGE_WORKFLOW", "workflow"),
          Read("workflow", "manage"))
    BY OpenedIff
  <2> QED
    BY <2>1, OpenerSteps DEF Opened
<1>6. \A w : Outcome(w, Calls.get_run) = "ok" <=>
        Holds(w, "run") /\ Permits(w, Hide("workflow", "VIEW_WORKFLOW", "run"))
  <2>1. \A w : Opened(w, "run", Hide("workflow", "VIEW_WORKFLOW", "run"), Read("run", "read"))
    BY OpenedIff
  <2> QED
    BY <2>1, OpenerSteps DEF Opened
<1>7. \A w : Outcome(w, Calls.reconnect_integration) = "ok" <=>
        Holds(w, "integration") /\ Permits(w, Ask("integrations", "USE_INTEGRATION", "nothing"))
  <2>1. \A w : Opened(w, "integration", Ask("integrations", "USE_INTEGRATION", "nothing"),
          Read("connection", "own"))
    BY OpenedIff
  <2> QED
    BY <2>1, OpenerSteps DEF Opened
<1> QED
  BY <1>1, <1>2, <1>3, <1>4, <1>5, <1>6, <1>7

\* What the questions of the openers are answered.
LEMMA OpenersPermit ==
    \A w : /\ Permits(w, Ask("memory", "VIEW_MEMORY", "memory")) <=>
            w.who # None /\ MemoryRule(w.who, "read")
           /\ Permits(w, Ask("thread", "VIEW_THREAD", "thread")) <=> w.who # None /\ w.mine
           /\ Permits(w, Ask("agent", "VIEW_AGENT", "agent")) <=>
                   AgentAnswer(w, "VIEW_AGENT", "agent")
           /\ Permits(w, Hide("workflow", "MANAGE_WORKFLOW", "workflow")) <=>
                   w.who # None /\ (w.staff \/ w.mine)
           /\ Permits(w, Hide("workflow", "VIEW_WORKFLOW", "run")) <=>
                   w.who # None /\ (w.staff \/ w.mine)
           /\ Permits(w, Ask("integrations", "USE_INTEGRATION", "nothing")) <=> w.who # None
<1> TAKE w
<1>1. RuleTier("VIEW_MEMORY") = "read"
  BY DEF RuleTier, MemoryTiers
<1>2. Permits(w, Ask("memory", "VIEW_MEMORY", "memory")) <=>
        w.who # None /\ MemoryRule(w.who, "read")
  BY <1>1 DEF Permits, Ask, MemoryAnswer
<1>3. Permits(w, Ask("thread", "VIEW_THREAD", "thread")) <=> w.who # None /\ w.mine
  BY DEF Permits, Ask, ThreadAnswer
<1>4. Permits(w, Ask("agent", "VIEW_AGENT", "agent")) <=> AgentAnswer(w, "VIEW_AGENT", "agent")
  BY DEF Permits, Ask
<1>5. Permits(w, Hide("workflow", "MANAGE_WORKFLOW", "workflow")) <=>
        w.who # None /\ (w.staff \/ w.mine)
  BY DEF Permits, Hide, Ask, WorkflowAnswer
<1>6. Permits(w, Hide("workflow", "VIEW_WORKFLOW", "run")) <=> w.who # None /\ (w.staff \/ w.mine)
  BY DEF Permits, Hide, Ask, WorkflowAnswer
<1>7. Permits(w, Ask("integrations", "USE_INTEGRATION", "nothing")) <=> w.who # None
  BY DEF Permits, Ask
<1> QED
  BY <1>2, <1>3, <1>4, <1>5, <1>6, <1>7

\* A list shows what its items' own calls open.
LEMMA ListsTell ==
    ASSUME NEW w, NEW list \in Lists
    PROVE  ListTells(w, list)
<1>1. /\ Holds(w, "thread") <=> "thread" \in w.have
      /\ Holds(w, "workflow") <=> "workflow" \in w.have
      /\ Holds(w, "run") <=> "run" \in w.have
      /\ Holds(w, "integration") <=> "integration" \in w.have
  BY DEF Holds
<1>2. CASE list \in {"memories", "thread_memories"}
  <2>1. Opener(list) = "get_memory"
    BY <1>2 DEF Opener
  <2>2. Outcome(w, Calls.get_memory) = "ok" <=>
          Holds(w, "memory") /\ w.who # None /\ MemoryRule(w.who, "read")
    BY OpenersOpen, OpenersPermit
  <2>3. Listed(w.who, "read") <=> MemoryRule(w.who, "read")
    BY DEF Listed, MemoryRule, Opens
  <2>4. MemoryAnswer(w, "LIST_THREAD_MEMORIES", "memory") <=>
          w.who # None /\ MemoryRule(w.who, "read")
    <3>1. RuleTier("LIST_THREAD_MEMORIES") = "read"
      BY DEF RuleTier, MemoryTiers
    <3> QED
      BY <3>1 DEF MemoryAnswer
  <2>5. CASE list = "memories"
    <3>1. Shows(w, list) <=> w.who # None /\ Holds(w, "memory") /\ Listed(w.who, "read")
      BY <2>5 DEF Shows, ShowsMemory
    <3>2. ~LeftOut(w, list)
      BY <2>5 DEF LeftOut
    <3> QED
      BY <2>1, <2>2, <2>3, <3>1, <3>2 DEF ListTells
  <2>6. CASE list = "thread_memories"
    <3>1. Shows(w, list) <=> /\ w.who # None /\ Holds(w, "memory") /\ Listed(w.who, "read")
                             /\ "link" \in w.have /\ MemoryAnswer(w, "LIST_THREAD_MEMORIES",
                                     "memory")
      BY <2>6 DEF Shows, ShowsLinked, ShowsMemory
    <3>2. LeftOut(w, list) <=> "link" \notin w.have
      BY <2>6 DEF LeftOut
    <3> QED
      BY <2>1, <2>2, <2>3, <2>4, <3>1, <3>2 DEF ListTells
  <2> QED
    BY <1>2, <2>5, <2>6
<1>3. CASE list = "threads"
  <2>1. Outcome(w, Calls[Opener(list)]) = "ok" <=> Holds(w, "thread") /\ w.who # None /\ w.mine
    <3>1. Opener(list) = "thread_file_meta"
      BY <1>3 DEF Opener
    <3> QED
      BY <3>1, OpenersOpen, OpenersPermit
  <2>2. Shows(w, list) <=> w.who # None /\ "thread" \in w.have /\ w.mine
    BY <1>3 DEF Shows, ShowsThread
  <2>3. ~LeftOut(w, list)
    BY <1>3 DEF LeftOut
  <2> QED
    BY <1>1, <2>1, <2>2, <2>3 DEF ListTells
<1>4. CASE list = "agents"
  <2>1. Outcome(w, Calls[Opener(list)]) = "ok" <=>
          Holds(w, "agent") /\ AgentAnswer(w, "VIEW_AGENT", "agent")
    <3>1. Opener(list) = "get_agent_info"
      BY <1>4 DEF Opener
    <3> QED
      BY <3>1, OpenersOpen, OpenersPermit
  <2>2. Shows(w, list) <=>
          w.who # None /\ Holds(w, "agent") /\ AgentAnswer(w, "VIEW_AGENT", "agent")
    BY <1>4 DEF Shows, ShowsAgent
  <2>3. ~LeftOut(w, list)
    BY <1>4 DEF LeftOut
  <2>4. AgentAnswer(w, "VIEW_AGENT", "agent") => w.who # None
    BY DEF AgentAnswer, UseOperations
  <2> QED
    BY <2>1, <2>2, <2>3, <2>4 DEF ListTells
<1>5. CASE list = "runtime_agents"
  <2>1. Outcome(w, Calls[Opener(list)]) = "ok" <=>
          Holds(w, "agent_row") /\ AgentAnswer(w, "VIEW_AGENT", "agent")
    <3>1. Opener(list) = "get_runtime_agent"
      BY <1>5 DEF Opener
    <3> QED
      BY <3>1, OpenersOpen, OpenersPermit
  <2>2. Shows(w, list) <=>
          w.who # None /\ Holds(w, "agent_row") /\ AgentAnswer(w, "VIEW_AGENT", "agent")
    BY <1>5 DEF Shows, ShowsRuntimeAgent
  <2>3. ~LeftOut(w, list)
    BY <1>5 DEF LeftOut
  <2>4. AgentAnswer(w, "VIEW_AGENT", "agent") => w.who # None
    BY DEF AgentAnswer, UseOperations
  <2> QED
    BY <2>1, <2>2, <2>3, <2>4 DEF ListTells
<1>6. CASE list = "workflows"
  <2>1. Outcome(w, Calls[Opener(list)]) = "ok" <=>
          Holds(w, "workflow") /\ w.who # None /\ (w.staff \/ w.mine)
    <3>1. Opener(list) = "get_workflow"
      BY <1>6 DEF Opener
    <3> QED
      BY <3>1, OpenersOpen, OpenersPermit
  <2>2. Shows(w, list) <=>
          w.who # None /\ "workflow" \in w.have /\ "active" \in w.have /\ (w.staff \/ w.mine)
    BY <1>6 DEF Shows, ShowsWorkflow
  <2>3. LeftOut(w, list) <=> "active" \notin w.have
    BY <1>6 DEF LeftOut
  <2> QED
    BY <1>1, <2>1, <2>2, <2>3 DEF ListTells
<1>7. CASE list = "runs"
  <2>1. Outcome(w, Calls[Opener(list)]) = "ok" <=>
          Holds(w, "run") /\ w.who # None /\ (w.staff \/ w.mine)
    <3>1. Opener(list) = "get_run"
      BY <1>7 DEF Opener
    <3> QED
      BY <3>1, OpenersOpen, OpenersPermit
  <2>2. Shows(w, list) <=> w.who # None /\ "run" \in w.have /\ (w.staff \/ w.mine)
    BY <1>7 DEF Shows, ShowsRun
  <2>3. ~LeftOut(w, list)
    BY <1>7 DEF LeftOut
  <2> QED
    BY <1>1, <2>1, <2>2, <2>3 DEF ListTells
<1>8. CASE list = "integrations"
  <2>1. Outcome(w, Calls[Opener(list)]) = "ok" <=> Holds(w, "integration") /\ w.who # None
    <3>1. Opener(list) = "reconnect_integration"
      BY <1>8 DEF Opener
    <3> QED
      BY <3>1, OpenersOpen, OpenersPermit
  <2>2. Shows(w, list) <=> w.who # None /\ "integration" \in w.have
    BY <1>8 DEF Shows, ShowsIntegration
  <2>3. ~LeftOut(w, list)
    BY <1>8 DEF LeftOut
  <2> QED
    BY <1>1, <2>1, <2>2, <2>3 DEF ListTells
<1> QED
  BY <1>2, <1>3, <1>4, <1>5, <1>6, <1>7, <1>8 DEF Lists

\* A run is given the knowledge that its user could open, and no other.
LEMMA KnowledgeTells == \A w : KnowledgeIsAllowed(w)
<1> TAKE w
<1> DEFINE linked == [id |-> "memory", slug |-> "laws", active |-> TRUE, documents |-> TRUE]
           readable == {m \in {"memory"} : Permits(w, Ask("memory", "VIEW_MEMORY", m))}
           given == RagTools(ThreadMemories(<<linked>>, readable), "file_memory")
<1>1. linked.id = "memory" /\ linked.active /\ linked.documents
  OBVIOUS
<1>2. "memory" \in readable <=> Permits(w, Ask("memory", "VIEW_MEMORY", "memory"))
  OBVIOUS
<1>3. KnowledgeIsAllowed(w) <=>
        (Holds(w, "memory") => (given # <<>> <=> Outcome(w, Calls.get_memory) = "ok"))
  BY DEF KnowledgeIsAllowed
<1> HIDE DEF linked, readable
<1>4. given # <<>> <=> "memory" \in readable
  BY <1>1, OneLinked, OneSearched
<1> HIDE DEF given
<1>5. Outcome(w, Calls.get_memory) = "ok" <=>
        Holds(w, "memory") /\ Permits(w, Ask("memory", "VIEW_MEMORY", "memory"))
  BY OpenersOpen
<1> QED
  BY <1>2, <1>3, <1>4, <1>5

\* The flags of every endpoint tell what it does.
LEMMA EndpointsTell ==
    ASSUME NEW e \in DOMAIN Ninja \ {"run_thread", "run_agent"}, NEW w
    PROVE  FlagsTell(w, NinjaRequest[e])
<1>1. NinjaRequest[e] = StepsOf(Ninja[e])
  BY DEF NinjaRequest
<1>2. \E n \in Nat : DOMAIN StepsOf(Ninja[e]) = 1..n
  BY NinjaIsGuarded DEF Guarded
<1>3. Told(Range(StepsOf(Ninja[e])))
  BY NinjaIsTold
<1> QED
  BY <1>1, <1>2, <1>3, ToldIsTold

\* For any shares: a request is denied exactly when a flag it takes is shown as
\* off, a list shows the items that their own calls open, a run is given the
\* knowledge its user could open, and the rules agree with each other.
THEOREM ShownIsAlwaysAllowed == Spec => []ShownIsAllowed
<1>1. RulesAgree => ShownIsAllowed
  <2>1. \A w \in Worlds({}) : KnowledgeIsAllowed(w)
    BY KnowledgeTells
  <2>2. \A e \in DOMAIN Ninja \ {"run_thread", "run_agent"} :
           \A w \in WorldsOf(NinjaRequest[e]) : FlagsTell(w, NinjaRequest[e])
    BY EndpointsTell
  <2>3. \A list \in Lists :
           \A w \in Worlds({"link", "thread", "workflow", "active", "run", "integration"}) :
                   ListTells(w, list)
    BY ListsTell
  <2> QED
    BY <2>1, <2>2, <2>3 DEF ShownIsAllowed
<1> QED
  BY <1>1, RulesAlwaysAgree, PTL

\* For any shares: both layers have the same endpoints and answer anybody alike,
\* and what stops a request, or fails beneath it, has the code and the status of
\* its kind.
THEOREM LayersAlwaysAgree == Spec => []ApisAgree
BY TheApisAgree, PTL
=============================================================================
