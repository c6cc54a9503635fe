---------------------------- MODULE Integration ----------------------------
(* One OAuth MCP integration (integrations/mcp/loader.py) behind its          *)
(* ResilientCache (integrations/base.py): users' toolsets are fetched with    *)
(* stored tokens, tokens lapse and are refreshed, users connect, disconnect   *)
(* and reconnect, and the refresh_integrations command refreshes tokens from  *)
(* a process of its own.                                                      *)
(*                                                                            *)
(* Every call is a coroutine whose steps end where it awaits. A pair of       *)
(* access and refresh tokens is named by the order in which the identity      *)
(* provider issued it; a grant is named by the pair its authorization gave.   *)
(* The answer to an authorization may hold an access token alone; the answer  *)
(* to a refresh never does, because authlib puts the redeemed refresh token   *)
(* back where it lacks one, and set_tokens encrypts it into another text: a   *)
(* pair of its own, whose redemption did not end the token of the last one.   *)
EXTENDS Naturals

CONSTANTS
    Call,       \* the coroutines, each making one call after another
    User,
    MaxIssued,  \* how many token pairs the identity provider issues
    Slow,       \* the stages a fetch may still be in when its timeout comes
    Rotates,    \* whether redeeming a refresh token may end it, and may not
    Bare,       \* the pairs that may be given without a refresh token, if by an authorization
    None

Fetching == {"reading", "exchanging", "persisting", "reloading", "rereading", "connecting"}

VARIABLES
    row,        \* the MCPOAuthToken of each user
    issued,     \* how many pairs were issued so far
    redeemable, \* the refresh tokens the provider still accepts
    alone,      \* the access tokens it issued without a refresh token
    grant,      \* the authorization each pair descends from (history)
    lost,       \* the refresh tokens whose redemption was answered in vain (history)
    mixed,      \* the users whose refresh token an earlier grant left (history)
    cache,      \* the toolset cached for each user
    breaker,    \* the circuit breaker of each user's key
    call        \* the coroutines

vars == <<row, issued, redeemable, alone, grant, lost, mixed, cache, breaker, call>>

Pair == 1..MaxIssued
Blank == 0               \* in a token: aget_or_create's row before its asave
NoTools == 0             \* in a cached value: the empty list

Kind == {"fetch", "callback", "disconnect", "cron"}
Stage == {"idle", "asking", "checking", "next", "creating", "saving", "clearing"} \cup Fetching
Rows == [pk : Pair, access : Pair \cup {Blank}, refresh : Pair \cup {Blank},
         expired : BOOLEAN]

ASSUME IntegrationAssumption ==
    /\ MaxIssued \in Nat \ {0}
    /\ Slow \subseteq Fetching
    /\ Rotates \subseteq BOOLEAN /\ Rotates # {}
    /\ Bare \subseteq Pair
    /\ None \notin Call \cup User \cup Rows

Idle == [kind |-> "fetch", user |-> None, at |-> "idle", row |-> None, pair |-> Blank,
         todo |-> {}, background |-> FALSE, raced |-> FALSE]

TypeOK ==
    /\ row \in [User -> Rows \cup {None}]
    /\ issued \in 0..MaxIssued
    /\ redeemable \subseteq 1..issued /\ lost \subseteq 1..issued
    /\ alone \subseteq 1..issued /\ mixed \subseteq User
    /\ grant \in [Pair -> 0..MaxIssued]
    /\ cache \in [User -> [tools : Pair \cup {NoTools}, grant : 0..MaxIssued, raced : BOOLEAN] \cup {None}]
    /\ breaker \in [User -> {"closed", "open", "half"}]
    /\ call \in [Call -> [kind : Kind, user : User \cup {None}, at : Stage,
                          row : Rows \cup {None}, pair : Pair \cup {Blank},
                          todo : SUBSET [user : User, row : Rows], background : BOOLEAN,
                          raced : BOOLEAN]]

Init ==
    /\ row = [u \in User |-> None]
    /\ issued = 0 /\ redeemable = {} /\ lost = {} /\ alone = {} /\ mixed = {}
    /\ grant = [g \in Pair |-> 0]
    /\ cache = [u \in User |-> None]
    /\ breaker = [u \in User |-> "closed"]
    /\ call = [c \in Call |-> Idle]

-----------------------------------------------------------------------------
tokens == <<row, issued, redeemable, alone, grant, lost, mixed>>
health == <<cache, breaker>>

Go(c, stage) == call' = [call EXCEPT ![c].at = stage]
Return(c) == call' = [call EXCEPT ![c] = Idle]

\* The row a call read is still there.
SameRow(c) == row[call[c].user] # None /\ row[call[c].user].pk = call[c].row.pk

\* set_tokens: the row, or a copy of it, with the tokens of an answer. An answer
\* without a refresh token leaves the one that is there.
Stored(r, pair) == [r EXCEPT !.access = pair, !.expired = FALSE,
                             !.refresh = IF pair \in alone THEN @ ELSE pair]

\* The call is inside ResilientCache's fetch.
Fetches(c) == call[c].kind = "fetch" /\ call[c].at \in Fetching

GrantOf(r) == IF r = None \/ r.access = Blank THEN 0 ELSE grant[r.access]

(* get_status reads the token first; get_tools goes straight to the cache.    *)
Ask(c, u, first) ==
    /\ call[c].at = "idle"
    /\ call' = [call EXCEPT ![c] = [Idle EXCEPT !.user = u, !.at = first]]
    /\ UNCHANGED <<tokens, health>>

CheckToken(c) ==
    /\ call[c].at = "checking"
    /\ IF row[call[c].user] = None THEN Return(c) ELSE Go(c, "asking")
    /\ UNCHANGED <<tokens, health>>

(* ResilientCache.get: an open breaker answers with the empty list; a value   *)
(* is served, and fetched anew in the background past 80% of its lifetime.    *)
Get(c) ==
    LET u == call[c].user
        shut == breaker[u] = "open"
    IN  /\ call[c].at = "asking"
        /\ \/ shut /\ Return(c)
           \/ ~shut /\ cache[u] # None /\ Return(c)
           \/ /\ ~shut /\ cache[u] # None
              /\ call' = [call EXCEPT ![c].at = "reading", ![c].background = TRUE]
           \/ ~shut /\ cache[u] = None /\ Go(c, "reading")
        /\ UNCHANGED <<tokens, health>>

-----------------------------------------------------------------------------
(* _fetch_oauth reads the row: without one, or with one that has no token     *)
(* yet, the answer is the empty list; an expired token is refreshed first.    *)
Read(c) ==
    LET r == row[call[c].user]
    IN  /\ call[c].at = "reading"
        /\ call' = [call EXCEPT ![c] =
              IF r # None /\ r.expired
              THEN [@ EXCEPT !.row = r, !.at = "exchanging"]
              ELSE [@ EXCEPT !.row = r, !.at = "connecting",
                             !.pair = IF r = None THEN Blank ELSE r.access]]
        /\ UNCHANGED <<tokens, health>>

(* What refresh_oauth_token returns goes to the fetch, or to the command,     *)
(* whose invalidate clears the cache of its own process only.                 *)
Refreshed(c, r, pair) ==
    call' = [call EXCEPT ![c] =
                IF call[c].kind = "cron"
                THEN [Idle EXCEPT !.kind = "cron", !.at = "next", !.todo = call[c].todo]
                ELSE [@ EXCEPT !.row = r, !.pair = pair, !.at = "connecting"]]

(* Without a refresh token, or a token endpoint to be discovered, there is no *)
(* refresh. The provider redeems the copy's token; its answer may be lost.    *)
Exchange(c) ==
    LET r == call[c].row
    IN  /\ call[c].at = "exchanging"
        /\ \/ /\ r.refresh \in redeemable /\ issued < MaxIssued
              /\ issued' = issued + 1
              /\ \E ends \in Rotates :
                    redeemable' = (redeemable \ {x \in {r.refresh} : ends}) \cup {issued + 1}
              /\ grant' = [grant EXCEPT ![issued + 1] = grant[r.refresh]]
              /\ \/ /\ call' = [call EXCEPT ![c].at = "persisting", ![c].pair = issued + 1]
                    /\ UNCHANGED lost
                 \/ /\ Go(c, "rereading")
                    /\ lost' = lost \cup {r.refresh}
           \/ /\ \/ r.refresh # Blank /\ (r.refresh \notin redeemable \/ issued = MaxIssued)
                    /\ Go(c, "rereading")
                 \/ Refreshed(c, r, Blank)
              /\ UNCHANGED <<issued, redeemable, grant, lost>>
        /\ UNCHANGED <<row, alone, mixed, health>>

\* Mutants of Persist: a save of the whole row, and one that keeps the refresh
\* token it redeemed.
PersistAlways(c) ==
    /\ call[c].at = "persisting"
    /\ row' = [row EXCEPT ![call[c].user] = Stored(call[c].row, call[c].pair)]
    /\ Refreshed(c, call[c].row, call[c].pair)
    /\ UNCHANGED <<issued, redeemable, alone, grant, lost, mixed, health>>

PersistAccessOnly(c) ==
    LET u == call[c].user
        mine == SameRow(c) /\ row[u].refresh = call[c].row.refresh
    IN  /\ call[c].at = "persisting"
        /\ mine
        /\ row' = [row EXCEPT ![u].access = call[c].pair, ![u].expired = FALSE]
        /\ Refreshed(c, call[c].row, call[c].pair)
        /\ UNCHANGED <<issued, redeemable, alone, grant, lost, mixed, health>>

(* _persist writes only if the row still holds the refresh token it redeemed. *)
Persist(c) ==
    LET u == call[c].user
        mine == SameRow(c) /\ row[u].refresh = call[c].row.refresh
    IN  /\ call[c].at = "persisting"
        /\ \/ /\ mine
              /\ row' = [row EXCEPT ![u] = Stored(@, call[c].pair)]
              /\ Refreshed(c, call[c].row, call[c].pair)
           \/ /\ ~mine
              /\ Go(c, "reloading")
              /\ UNCHANGED row
        /\ UNCHANGED <<issued, redeemable, alone, grant, lost, mixed, health>>

(* The loser of the race reads the winner's row; without a row aget raises.   *)
Reload(c) ==
    LET r == row[call[c].user]
    IN  /\ call[c].at = "reloading"
        /\ SameRow(c)
        /\ Refreshed(c, r, r.access)
        /\ UNCHANGED <<tokens, health>>

(* A failed exchange looks for the tokens of a refresh that landed meanwhile. *)
Reread(c) ==
    LET r == row[call[c].user]
        landed == SameRow(c) /\ r.refresh # call[c].row.refresh /\ ~r.expired
    IN  /\ call[c].at = "rereading"
        /\ IF landed THEN Refreshed(c, r, r.access) ELSE Refreshed(c, call[c].row, Blank)
        /\ UNCHANGED <<tokens, health>>

-----------------------------------------------------------------------------
(* The fetch ends: what it returns is cached, with the empty list a value     *)
(* like any other. The breaker sees the calls it let through, not the         *)
(* background's.                                                              *)
Connect(c) ==
    LET u == call[c].user
        g == call[c].pair
    IN  /\ call[c].at = "connecting"
        /\ cache' = [cache EXCEPT ![u] = [tools |-> g,
                        grant |-> GrantOf(call[c].row), raced |-> call[c].raced]]
        /\ breaker' = [breaker EXCEPT ![u] = IF call[c].background THEN @ ELSE "closed"]
        /\ Return(c)
        /\ UNCHANGED tokens

(* A call fails: the breaker may open (half of at least three calls failed),  *)
(* and does when this was its probe. The command stops at the token it was    *)
(* refreshing; those behind it are not refreshed.                             *)
Fail(c) ==
    LET u == call[c].user
        counted == call[c].kind # "cron" /\ ~call[c].background
    IN  /\ Return(c)
        /\ \E opens \in BOOLEAN :
              /\ opens => counted
              /\ counted /\ breaker[u] = "half" => opens
              /\ breaker' = [breaker EXCEPT ![u] = IF opens THEN "open" ELSE @]
        /\ UNCHANGED <<row, issued, redeemable, alone, grant, mixed, cache>>

(* The server does not answer, refuses an expired token, or the winner's row is *)
(* gone; or the fetch takes longer than the cache's timeout and is cancelled. *)
FetchFails(c) ==
    /\ \/ Fetches(c) /\ call[c].at \in Slow
       \/ /\ call[c].at = "reloading" /\ ~SameRow(c)
    /\ lost' = IF call[c].at = "persisting" THEN lost \cup {call[c].row.refresh} ELSE lost
    /\ Fail(c)

-----------------------------------------------------------------------------
\* Mutant of Clear: nothing is dropped.
ClearNothing(c, after) ==
    /\ call' = [call EXCEPT ![c] = after]
    /\ UNCHANGED <<cache, breaker>>

(* ResilientCache.invalidate clears every user's value and breaker; a fetch   *)
(* under way is not stopped.                                                  *)
Clear(c, after) ==
    /\ cache' = [u \in User |-> None]
    /\ breaker' = [u \in User |-> "closed"]
    /\ call' = [d \in Call |-> IF d = c THEN after
                    ELSE [call[d] EXCEPT !.raced = @ \/ Fetches(d)]]

(* test(): invalidate, then get_status.                                       *)
Test(c, u) ==
    /\ call[c].at = "idle"
    /\ Clear(c, [Idle EXCEPT !.user = u, !.at = "checking"])
    /\ UNCHANGED tokens

(* The OAuth callback: the code is exchanged for the tokens of a new grant.   *)
Callback(c, u) ==
    /\ call[c].at = "idle" /\ issued < MaxIssued
    /\ issued' = issued + 1
    /\ \E bare \in SUBSET ({issued + 1} \cap Bare) :
          /\ redeemable' = redeemable \cup ({issued + 1} \ bare)
          /\ alone' = alone \cup bare
    /\ grant' = [grant EXCEPT ![issued + 1] = issued + 1]
    /\ call' = [call EXCEPT ![c] = [Idle EXCEPT !.kind = "callback", !.user = u,
                                        !.at = "creating", !.pair = issued + 1]]
    /\ UNCHANGED <<row, lost, mixed, health>>

(* store_token gets the user's row or creates a blank one, fills its copy,    *)
(* and saves the whole of it: into a deleted row's place too, unless another  *)
(* row has taken it.                                                          *)
CreateRow(c) ==
    LET u == call[c].user
        new == [pk |-> call[c].pair, access |-> Blank, refresh |-> Blank, expired |-> FALSE]
    IN  /\ call[c].at = "creating"
        /\ row' = [row EXCEPT ![u] = IF @ = None THEN new ELSE @]
        /\ call' = [call EXCEPT ![c].at = "saving", ![c].row = row'[u]]
        /\ UNCHANGED <<issued, redeemable, alone, grant, lost, mixed, health>>

SaveToken(c) ==
    LET u == call[c].user
        r == call[c].row
        keeps == call[c].pair \in alone /\ r.refresh # Blank
    IN  /\ call[c].at = "saving"
        /\ \/ /\ row[u] # None => SameRow(c)
              /\ row' = [row EXCEPT ![u] = Stored(r, call[c].pair)]
              /\ mixed' = IF keeps THEN mixed \cup {u} ELSE mixed \ {u}
              /\ call' = [call EXCEPT ![c] = [Idle EXCEPT !.kind = "callback", !.user = u,
                                                          !.at = "clearing"]]
           \/ /\ row[u] # None /\ ~SameRow(c)
              /\ Return(c)
              /\ UNCHANGED <<row, mixed>>
        /\ UNCHANGED <<issued, redeemable, alone, grant, lost, health>>

Disconnect(c, u) ==
    /\ call[c].at = "idle" /\ row[u] # None
    /\ row' = [row EXCEPT ![u] = None]
    /\ call' = [call EXCEPT ![c] = [Idle EXCEPT !.kind = "disconnect", !.user = u,
                                                !.at = "clearing"]]
    /\ mixed' = mixed \ {u}
    /\ UNCHANGED <<issued, redeemable, alone, grant, lost, health>>

(* The callback and disconnect end with reconnect().                          *)
Reconnect(c) ==
    /\ call[c].at = "clearing"
    /\ Clear(c, Idle)
    /\ UNCHANGED tokens

(* refresh() of the command: the rows that expire soon are read at its start. *)
Cron(c) ==
    /\ call[c].at = "idle"
    /\ \E soon \in SUBSET {u \in User : row[u] # None /\ row[u].access # Blank} :
          /\ \A u \in User : row[u] # None /\ row[u].expired => u \in soon
          /\ soon # {}
          /\ call' = [call EXCEPT ![c] = [Idle EXCEPT !.kind = "cron", !.at = "next",
                         !.todo = {[user |-> u, row |-> row[u]] : u \in soon}]]
    /\ UNCHANGED <<tokens, health>>

NextToken(c) ==
    /\ call[c].at = "next"
    /\ \/ call[c].todo = {} /\ Return(c)
       \/ \E x \in call[c].todo :
             call' = [call EXCEPT ![c].user = x.user, ![c].row = x.row,
                                  ![c].todo = @ \ {x}, ![c].at = "exchanging"]
    /\ UNCHANGED <<tokens, health>>

-----------------------------------------------------------------------------
(* Time passes. The last pair issued does not expire: MaxIssued bounds the    *)
(* model, not the provider.                                                   *)
Lapse(u) ==
    /\ row[u] # None /\ row[u].access \in 1..(MaxIssued - 1) /\ ~row[u].expired
    /\ row' = [row EXCEPT ![u].expired = TRUE]
    /\ UNCHANGED <<issued, redeemable, alone, grant, lost, mixed, health, call>>

Expire(u) ==
    /\ cache[u] # None
    /\ cache' = [cache EXCEPT ![u] = None]
    /\ UNCHANGED <<tokens, breaker, call>>

\* Mutant of Cooldown: an open breaker stays open once the server has been down.
NoCooldown(u) == FALSE /\ UNCHANGED vars

Cooldown(u) ==
    /\ breaker[u] = "open"
    /\ breaker' = [breaker EXCEPT ![u] = "half"]
    /\ UNCHANGED <<tokens, cache, call>>

Progress(c) ==
    \/ CheckToken(c) \/ Get(c) \/ Read(c) \/ Exchange(c) \/ Persist(c) \/ Reload(c)
    \/ Reread(c) \/ Connect(c)
    \/ CreateRow(c) \/ SaveToken(c) \/ Reconnect(c) \/ NextToken(c)

Next ==
    \/ \E c \in Call :
          \/ Progress(c) \/ FetchFails(c) \/ Cron(c)
          \/ \E u \in User :
                \/ Ask(c, u, "asking") \/ Ask(c, u, "checking")
                \/ Test(c, u) \/ Callback(c, u) \/ Disconnect(c, u)
    \/ \E u \in User : Lapse(u) \/ Expire(u) \/ Cooldown(u)

Spec == Init /\ [][Next]_vars

(* A coroutine that started goes on, and a server asked again and again       *)
(* answers some time; values and cooldowns run out; users come back to the    *)
(* status page.                                                               *)
FairSpec ==
    /\ Spec
    /\ \A c \in Call : WF_vars(Progress(c) \/ FetchFails(c)) /\ SF_vars(Connect(c))
    /\ \A u \in User :
          /\ WF_vars(Expire(u)) /\ WF_vars(Cooldown(u))
          /\ SF_vars(\E c \in Call : Ask(c, u, "checking"))

-----------------------------------------------------------------------------
(* A re-authorization answered without a refresh token leaves the user's row  *)
(* with the access token of one grant beside the refresh token of an earlier  *)
(* one: the next refresh redeems the earlier grant, or one that ended. Until  *)
(* another answer or a disconnect replaces both, the user's row is mixed, and *)
(* the statements below are about every other row.                            *)
Mixed(u) == u \in mixed

(* A refresh never puts the tokens of an older authorization in the place of  *)
(* a newer one's, and one that a disconnect overtook does not bring the       *)
(* connection back: a row appears, or one that is not mixed changes its       *)
(* grant, only by a callback that stores what it was given.                   *)
NewerGrantWins ==
    [][\A u \in User :
          row'[u] # None /\ ~Mixed(u)
             /\ (row[u] # None => GrantOf(row[u])' # GrantOf(row[u])) =>
             \E c \in Call : /\ call[c].user = u /\ call[c].at \in {"creating", "saving"}
                            /\ row'[u].access \in {Blank, call[c].pair}]_vars

(* The comment of _persist: a refresh writes "only if the row still holds the *)
(* refresh_token we read - otherwise we lost the race and must not clobber    *)
(* the winner's tokens with our own". The tokens that another call stored     *)
(* since the refresh read the row stay. (Violated by a re-authorization that  *)
(* is answered without a refresh token.)                                      *)
WinnersAreKept ==
    [][\A c \in Call :
          LET won == row[call[c].user]
          IN  call[c].at = "persisting" /\ call'[c].at # "persisting"
                 /\ won # None /\ won.access # call[c].row.access => row' = row]_vars

(* A user whose stored refresh token is refused, although no call is about to *)
(* store another, lost the answer of a refresh (the network, or the timeout   *)
(* of the fetch that made it): overlapping refreshes of a rotating token      *)
(* strand nobody.                                                             *)
Storing(u) == \E c \in Call : call[c].user = u /\ call[c].at \in {"persisting", "saving"}
OnlyLossStrands ==
    \A u \in User :
        row[u] # None /\ row[u].refresh # Blank /\ ~Mixed(u) /\ ~Storing(u) =>
           row[u].refresh \in redeemable \cup lost

(* A cached toolset, or a cached empty list, belongs to the connection the    *)
(* user has now, unless its fetch was under way when the cache was cleared:   *)
(* no connect or disconnect leaves the value of before.                       *)
Changing(u) == \E c \in Call : call[c].user = u /\ call[c].at = "clearing"
CachedForThisGrant ==
    \A u \in User :
        cache[u] # None /\ ~cache[u].raced /\ ~Mixed(u) /\ ~Changing(u) =>
           cache[u].grant = GrantOf(row[u])

(* The breaker gives up for good on nobody: while the server stays up and the *)
(* user's token stays valid, the toolset is cached again and again.           *)
Connected(u) == row[u] # None /\ row[u].access # Blank /\ ~row[u].expired
Served(u) == cache[u] # None /\ cache[u].tools # NoTools
Recovers == \A u \in User : <>[]Connected(u) => []<>Served(u)

(* get_status answers ACTIVE from a cached value: then the last attempt       *)
(* connected with the user's token, and the value is the server's tools.      *)
ActiveMeansConnected ==
    \A u \in User :
        /\ row[u] # None /\ row[u].access # Blank /\ ~Changing(u)
        /\ cache[u] # None /\ ~cache[u].raced /\ breaker[u] # "open"
        => cache[u].tools # NoTools
=============================================================================
