------------------------------ MODULE Sharing ------------------------------
(***************************************************************************)
(* Who may do what with a memory or an agent: the default permission rules *)
(* of permissions.py, and the services that change what the rules read     *)
(* (memories/services.py and agents/services.py) under overlapping calls.  *)
(*                                                                         *)
(* One object is shared: kind says whether it is a Memory or an            *)
(* AgentSettings.  Both keep rows for users and for groups with a          *)
(* can_manage flag, and both services look the row up, ask the rule and    *)
(* then write in a later step, when the rule may no longer hold.           *)
(***************************************************************************)
EXTENDS Naturals, Sequences

CONSTANTS
    Call,       \* the requests; each serves one after another
    User,
    Group,
    GroupsOf,   \* the groups each user is in
    Gone,       \* an object with no row
    None

ASSUME SharingAssumption ==
    /\ GroupsOf \in [User -> SUBSET Group]
    /\ Gone # None
    /\ {Gone, None} \cap BOOLEAN = {}

VARIABLES
    kind,     \* "memory" or "agent"
    object,   \* its row: is_public of a memory, active of an agent
    users,    \* the can_manage flag of each user's row, or None
    groups,   \* the group rows in the order of their keys
    call      \* what each request is doing

vars == <<kind, object, users, groups, call>>

Share == [group : Group, manage : BOOLEAN]
GroupRows == {groups[i] : i \in DOMAIN groups}
RowsFor(u) == {r \in GroupRows : r.group \in GroupsOf[u]}

Tier == {"read", "write", "manage"}

Request ==
    [step : {"idle", "own", "save", "drop", "grant", "change", "revoke", "admit", "expel"},
     who : User \cup Group \cup {None}, flag : BOOLEAN \cup {None},
     read : BOOLEAN \cup {None}, held : BOOLEAN]

\* What each kind of request carries.
WellFormed(q) ==
    /\ q.step \in {"own", "grant", "change", "revoke"} => q.who \in User
    /\ q.step \in {"admit", "expel"} => q.who \in Group
    /\ q.step \in {"grant", "change", "admit"} => q.flag \in BOOLEAN
    /\ q.step = "save" => q.read \in BOOLEAN

TypeOK ==
    /\ kind \in {"memory", "agent"}
    /\ object \in BOOLEAN \cup {Gone}
    /\ users \in [User -> BOOLEAN \cup {None}]
    /\ groups \in Seq(Share)
    /\ \A i, j \in DOMAIN groups : groups[i].group = groups[j].group => i = j
    /\ call \in [Call -> Request]
    /\ \A c \in Call : WellFormed(call[c])

\* read is the object's flag as looked up, held says that the share row
\* looked up has not been deleted since.
Idle == [step |-> "idle", who |-> None, flag |-> None, read |-> None, held |-> FALSE]

\* Either object before anyone created it.
Init ==
    /\ kind \in {"memory", "agent"}
    /\ object = Gone
    /\ users = [u \in User |-> None]
    /\ groups = <<>>
    /\ call = [c \in Call |-> Idle]

(***************************************************************************)
(* The rules.                                                              *)
(***************************************************************************)

\* A row opens a tier: managing takes the flag.
Opens(flag, tier) == tier # "manage" \/ flag

\* MemoryDefaultPermission looks at the first group row of the user only.
FirstFor(u) ==
    LET mine == {i \in DOMAIN groups : groups[i].group \in GroupsOf[u]}
    IN  groups[CHOOSE i \in mine : \A j \in mine : i <= j]

MemoryRule(u, tier) ==
    \/ users[u] # None /\ Opens(users[u], tier)
    \/ RowsFor(u) # {} /\ Opens(FirstFor(u).manage, tier)
    \/ tier = "read" /\ object = TRUE

\* AgentDefaultPermission._membership_allows looks for any row that opens it
\* (no service sets the is_public of an agent: it stays FALSE).
AgentRule(u, tier) ==
    \/ users[u] # None /\ Opens(users[u], tier)
    \/ \E r \in RowsFor(u) : Opens(r.manage, tier)

Allowed(u, tier) ==
    IF kind = "memory" THEN MemoryRule(u, tier) ELSE AgentRule(u, tier)

\* Mutant of Listed: the groups are left out.
ListedUsers(u, tier) == users[u] # None \/ (tier = "read" /\ object = TRUE)

\* get_queryset_perms: the memories a list shows, for the tiers it filters.
Listed(u, tier) ==
    \/ users[u] # None
    \/ RowsFor(u) # {}
    \/ tier = "read" /\ object = TRUE

(***************************************************************************)
(* Requests: look the object up, ask the rule, go on to the writing step.  *)
(***************************************************************************)
Begin(c, step, who, flag, read, held) ==
    /\ call[c] = Idle
    /\ call' = [call EXCEPT ![c] = [step |-> step, who |-> who, flag |-> flag,
                                    read |-> read, held |-> held]]
    /\ UNCHANGED <<kind, object, users, groups>>

\* The object must exist and a manager must ask for the change.
Managed == object # Gone /\ \E u \in User : Allowed(u, "manage")

\* The share endpoints find an agent only while it is active.
Shareable == Managed /\ (kind = "agent" => object = TRUE)

\* An edit sets the public or active flag, or leaves it alone (None).
Edit(c) == Managed /\ \E flag \in BOOLEAN \cup {None} : Begin(c, "save", None, flag, object, FALSE)
Delete(c) == Managed /\ Begin(c, "drop", None, None, None, FALSE)
Grant(c) == Shareable /\ \E u \in User, flag \in BOOLEAN : Begin(c, "grant", u, flag, None, FALSE)
Admit(c) == Shareable /\ \E g \in Group, flag \in BOOLEAN : Begin(c, "admit", g, flag, None, FALSE)
Expel(c) == Shareable /\ \E g \in Group : Begin(c, "expel", g, None, None, FALSE)

\* Changing and revoking a share read its row first.
Change(c) ==
    /\ Shareable
    /\ \E u \in User, flag \in BOOLEAN :
          users[u] # None /\ Begin(c, "change", u, flag, None, TRUE)
Revoke(c) == Shareable /\ \E u \in User : users[u] # None /\ Begin(c, "revoke", u, None, None, TRUE)

(***************************************************************************)
(* Writing steps.                                                          *)
(***************************************************************************)
At(c, step) == call[c].step = step

End(c) == [call EXCEPT ![c] = Idle]

\* When a share's row is deleted, whoever has read it holds a row that is gone.
Forget(calls, us) ==
    [c \in Call |-> IF calls[c].who \in us THEN [calls[c] EXCEPT !.held = FALSE] ELSE calls[c]]

\* The creator's own share is a second insert.
Create(c) ==
    /\ call[c] = Idle
    /\ object = Gone
    /\ \A d \in Call : call[d] = Idle
    /\ object' \in IF kind = "memory" THEN BOOLEAN ELSE {TRUE}
    /\ \E u \in User :
          call' = [call EXCEPT ![c] = [Idle EXCEPT !.step = "own", !.who = u]]
    /\ UNCHANGED <<kind, users, groups>>

Own(c) ==
    /\ At(c, "own")
    /\ users' = IF object = Gone THEN users ELSE [users EXCEPT ![call[c].who] = TRUE]
    /\ call' = End(c)
    /\ UNCHANGED <<kind, object, groups>>

\* update_runtime_agent names the columns it writes and so never inserts.
SaveNamed(flag) == IF object = Gone \/ flag = None THEN object ELSE flag

\* update_memory saves the whole row it read.
SaveMemory(read, flag) == IF flag = None THEN read ELSE flag

Save(c) ==
    /\ At(c, "save")
    /\ object' = IF kind = "agent" THEN SaveNamed(call[c].flag)
                                   ELSE SaveMemory(call[c].read, call[c].flag)
    /\ call' = End(c)
    /\ UNCHANGED <<kind, users, groups>>

\* The shares go with the object.
Drop(c) ==
    /\ At(c, "drop")
    /\ object' = Gone
    /\ users' = [u \in User |-> None]
    /\ groups' = <<>>
    /\ call' = Forget(End(c), User)
    /\ UNCHANGED kind

\* Mutant of GrantShare: nothing refuses a share of nothing.
GrantAnyway(u, flag) == users' = [users EXCEPT ![u] = flag]

\* update_or_create; the foreign key refuses a share of nothing.
GrantShare(u, flag) ==
    users' = IF object = Gone THEN users ELSE [users EXCEPT ![u] = flag]

DoGrant(c) ==
    /\ At(c, "grant")
    /\ GrantShare(call[c].who, call[c].flag)
    /\ call' = End(c)
    /\ UNCHANGED <<kind, object, groups>>

\* Mutant of SaveFlag: a full save inserts a row that is gone again.
SaveShare(u, flag, held) ==
    users' = IF object = Gone THEN users ELSE [users EXCEPT ![u] = flag]

\* save(update_fields=["can_manage"]) of a row that is gone fails.
SaveFlag(u, flag, held) ==
    users' = IF held THEN [users EXCEPT ![u] = flag] ELSE users

DoChange(c) ==
    /\ At(c, "change")
    /\ SaveFlag(call[c].who, call[c].flag, call[c].held)
    /\ call' = End(c)
    /\ UNCHANGED <<kind, object, groups>>

\* A memory's share is deleted by the row that was read, an agent's by its user.
DoRevoke(c) ==
    LET u == call[c].who
    IN  /\ At(c, "revoke")
        /\ IF kind = "memory" /\ ~call[c].held
           THEN users' = users /\ call' = End(c)
           ELSE users' = [users EXCEPT ![u] = None] /\ call' = Forget(End(c), {u})
        /\ UNCHANGED <<kind, object, groups>>

\* update_or_create once more: a group has one row, which keeps its key.
WithGroup(row) ==
    IF \E r \in GroupRows : r.group = row.group
    THEN [i \in DOMAIN groups |-> IF groups[i].group = row.group THEN row ELSE groups[i]]
    ELSE Append(groups, row)

DoAdmit(c) ==
    LET row == [group |-> call[c].who, manage |-> call[c].flag]
    IN  /\ At(c, "admit")
        /\ groups' = IF object = Gone THEN groups ELSE WithGroup(row)
        /\ call' = End(c)
        /\ UNCHANGED <<kind, object, users>>

DoExpel(c) ==
    /\ At(c, "expel")
    /\ \/ \E i \in DOMAIN groups :
             /\ groups[i].group = call[c].who
             /\ groups' = SubSeq(groups, 1, i - 1) \o SubSeq(groups, i + 1, Len(groups))
       \/ /\ \A r \in GroupRows : r.group # call[c].who
          /\ UNCHANGED groups
    /\ call' = End(c)
    /\ UNCHANGED <<kind, object, users>>

Next ==
    \E c \in Call :
        \/ Create(c) \/ Own(c)
        \/ Edit(c) \/ Delete(c) \/ Grant(c) \/ Admit(c) \/ Expel(c) \/ Change(c) \/ Revoke(c)
        \/ Save(c) \/ Drop(c) \/ DoGrant(c) \/ DoChange(c) \/ DoRevoke(c)
        \/ DoAdmit(c) \/ DoExpel(c)

Spec == Init /\ [][Next]_vars

(***************************************************************************)
(* Properties.                                                             *)
(***************************************************************************)

\* What a list of memories shows is what opening each would allow, for the
\* two tiers get_queryset_perms filters ("Applies the same rules as
\* has_object_permission").
ListsMatchRule ==
    object # Gone /\ kind = "memory" =>
        \A u \in User, tier \in {"read", "write"} : Listed(u, tier) = MemoryRule(u, tier)

\* Whoever has a row that says can_manage manages the object.
ManagersManage ==
    \A u \in User :
        users[u] = TRUE \/ (\E r \in RowsFor(u) : r.manage) => Allowed(u, "manage")

\* So it is for agents, whatever other groups the user is in.
AgentManagersManage == kind = "agent" => ManagersManage

\* The two rules for the rows of groups and the list agree with one another.
RulesAgree == ListsMatchRule /\ AgentManagersManage

\* No share outlives its object: one that was on its way when the object was
\* deleted is refused, and a deletion takes the others along.
NoSharesOfNothing ==
    object = Gone => groups = <<>> /\ \A u \in User : users[u] = None

\* No write that was already under way restores what was taken away.  A user
\* regains a share only when somebody shares with them again, not by a change
\* of their old flag; a deactivated agent is only activated by an edit that
\* says so, not by one of another field that read the row before.
NothingIsRestored ==
    [][/\ \A u \in User : users[u] = None /\ users'[u] # None =>
             \E c \in Call : call[c].step \in {"grant", "own"} /\ call[c].who = u
       /\ kind = "agent" /\ object = FALSE /\ object' = TRUE =>
             \E c \in Call : At(c, "save") /\ call[c].flag = TRUE]_vars
=============================================================================
