------------------------ MODULE Integration_proofs ------------------------
(***************************************************************************)
(* Theorems about Integration, for any number of users and coroutines, any *)
(* provider (rotating or not) and any stages a timeout may come in.        *)
(***************************************************************************)
EXTENDS Integration, TLAPS

\* The stages of a call that holds a pair nobody else has.
Holding == {"creating", "saving", "persisting"}

\* The stages of a refresh, whose call has a copy of the row.
Refreshing == {"exchanging", "persisting", "reloading", "rereading"}

\* A call at work has its user, a refresh its copy, a holder its pair.
Placed ==
    \A c \in Call :
        /\ call[c].at \notin {"idle", "next"} => call[c].user \in User
        /\ call[c].at \in Refreshing => call[c].row \in Rows /\ call[c].row # None
        /\ call[c].at = "saving" => call[c].row \in Rows
        /\ call[c].at \in Holding => call[c].pair \in 1..issued
        /\ call[c].at = "persisting" => call[c].row.refresh \in 1..issued

\* A row of a user that is stored, or copied by a call.
Known(u, r) ==
    \/ row[u] = r
    \/ \E c \in Call : \/ call[c].user = u /\ call[c].row = r
                       \/ [user |-> u, row |-> r] \in call[c].todo

\* The tokens of a row were issued.
Genuine ==
    \A u \in User, r \in Rows : Known(u, r) => r.access \in 0..issued /\ r.refresh \in 0..issued

\* A refresh token is of the grant of the access token beside it, in a row that
\* is not mixed.
Matched ==
    \A u \in User : row[u] # None /\ row[u].refresh # Blank /\ ~Mixed(u) =>
        row[u].access # Blank /\ grant[row[u].access] = grant[row[u].refresh]

\* A refresh token belongs to one row.
OneOwner ==
    \A u, v \in User : \A r, s \in Rows :
        Known(u, r) /\ Known(v, s) /\ r.refresh = s.refresh /\ r.refresh # Blank =>
            u = v /\ r.pk = s.pk

\* A refresh token that is about to be stored is accepted, a refresh has one to
\* store, and what is about to be stored is known to one call only.
HeldAlone ==
    \A c \in Call : call[c].at \in Holding =>
        /\ call[c].pair \in redeemable \cup alone
        /\ call[c].at = "persisting" => call[c].pair \notin alone
        /\ \A d \in Call : call[d].at \in Holding /\ call[d].pair = call[c].pair => d = c
        /\ \A u \in User, r \in Rows : Known(u, r) => r.refresh # call[c].pair

\* A refreshed pair descends from the grant of the one it replaces.
SameGrant ==
    \A c \in Call : call[c].at = "persisting" =>
        grant[call[c].pair] = grant[call[c].row.refresh]

\* A stored refresh token that is refused was redeemed by a call that is about
\* to store its successor, or whose answer is lost.
Accounted ==
    \A u \in User : row[u] # None /\ row[u].refresh # Blank /\ ~Mixed(u) =>
        \/ row[u].refresh \in redeemable \cup lost
        \/ \E c \in Call : /\ call[c].at = "persisting" /\ call[c].user = u
                           /\ call[c].row.refresh = row[u].refresh

TokenInv == Genuine /\ Matched /\ OneOwner /\ HeldAlone /\ SameGrant /\ Accounted

\* What a call does fits where it is.
KindFits ==
    \A c \in Call :
        /\ call[c].at \in {"asking", "checking", "reading", "connecting"} => call[c].kind = "fetch"
        /\ call[c].at \in Refreshing => call[c].kind \in {"fetch", "cron"}
        /\ call[c].at = "next" => call[c].kind = "cron"

\* A fetch that has read the row, and will cache what it gets.
Caching(c) == Fetches(c) /\ call[c].at # "reading" /\ ~call[c].raced

\* Its copy is of the present grant, unless the row is mixed or the cache is
\* about to be cleared.
FetchFits ==
    \A c \in Call : Caching(c) /\ ~Mixed(call[c].user) /\ ~Changing(call[c].user) =>
        GrantOf(call[c].row) = GrantOf(row[call[c].user])

CacheInv == KindFits /\ FetchFits /\ CachedForThisGrant

-----------------------------------------------------------------------------
\* A coroutine.
Calls == [kind : Kind, user : User \cup {None}, at : Stage, row : Rows \cup {None},
          pair : Pair \cup {Blank}, todo : SUBSET [user : User, row : Rows],
          background : BOOLEAN, raced : BOOLEAN]

\* The tables keep their types.
Tables ==
    /\ row \in [User -> Rows \cup {None}]
    /\ issued \in 0..MaxIssued
    /\ redeemable \subseteq 1..issued /\ lost \subseteq 1..issued
    /\ alone \subseteq 1..issued /\ mixed \subseteq User
    /\ grant \in [Pair -> 0..MaxIssued]
    /\ cache \in [User -> [tools : Pair \cup {NoTools}, grant : 0..MaxIssued, raced : BOOLEAN] \cup {None}]
    /\ breaker \in [User -> {"closed", "open", "half"}]

\* A call that may be where it is.
Fits(x, n) ==
    /\ x.at \notin {"idle", "next"} => x.user \in User
    /\ x.at \in Refreshing => x.row \in Rows /\ x.row # None
    /\ x.at = "saving" => x.row \in Rows
    /\ x.at \in Holding => x.pair \in 1..n
    /\ x.at = "persisting" => x.row.refresh \in 1..n

\* A row just created.
Fresh(pk) == [pk |-> pk, access |-> Blank, refresh |-> Blank, expired |-> FALSE]

\* What an answer makes of a row is a row.
LEMMA StoredIsARow ==
    ASSUME NEW r \in Rows, NEW p \in Pair
    PROVE  /\ Stored(r, p) \in Rows /\ Stored(r, p).pk = r.pk /\ Stored(r, p).access = p
           /\ Stored(r, p).refresh = IF p \in alone THEN r.refresh ELSE p
  BY DEF Stored, Rows

LEMMA Typed == TypeOK <=> Tables /\ call \in [Call -> Calls]
  BY DEF TypeOK, Tables, Calls

LEMMA IdleFits ==
    /\ Idle \in Calls
    /\ \A n \in Nat : Fits(Idle, n)
    /\ Idle.kind = "fetch" /\ Idle.at = "idle" /\ Idle.user = None /\ Idle.row = None
    /\ Idle.todo = {}
  BY DEF Idle, Calls, Kind, Stage, Blank, Fits, Refreshing, Holding

\* One call takes a step, and keeps its type and its place.
LEMMA OneMoves ==
    ASSUME TypeOK, Placed, NEW c \in Call, NEW x \in Calls, Tables',
           call' = [call EXCEPT ![c] = x], issued' \in {issued, issued + 1}, Fits(x, issued')
    PROVE  TypeOK' /\ Placed'
<1>1. call' \in [Call -> Calls]
  BY DEF TypeOK, Calls
<1>2. \A d \in Call : call'[d] = IF d = c THEN x ELSE call[d]
  BY DEF TypeOK
<1>3. 1..issued \subseteq 1..issued'
  BY DEF TypeOK
<1>4. TypeOK'
  BY <1>1 DEF TypeOK, Tables, Calls
<1> QED
  BY <1>2, <1>3, <1>4 DEF Placed, Fits

\* It only goes on to another stage.
LEMMA OneGoes ==
    ASSUME TypeOK, Placed, NEW c \in Call, NEW stage \in Stage, Tables', Go(c, stage),
           call[c].user \in User, issued' \in {issued, issued + 1},
           stage \in Refreshing => call[c].row \in Rows /\ call[c].row # None,
           stage = "saving" => call[c].row \in Rows,
           stage \notin Holding
    PROVE  TypeOK' /\ Placed'
<1> DEFINE x == [call[c] EXCEPT !.at = stage]
<1>1. call[c] \in Calls
  BY DEF TypeOK, Calls
<1>2. x \in Calls /\ x.at = stage /\ x.user = call[c].user /\ x.row = call[c].row /\ x.pair = call[c].pair
  BY <1>1 DEF Calls
<1>3. call' = [call EXCEPT ![c] = x]
  BY DEF Go
<1>4. Fits(x, issued')
  BY <1>2 DEF Fits, Holding
<1> HIDE DEF x
<1> QED
  BY <1>2, <1>3, <1>4, OneMoves

\* A cleared cache marks the fetches under way.
LEMMA Cleared ==
    ASSUME TypeOK, Placed, NEW c \in Call, NEW after \in Calls, Fits(after, issued),
           Clear(c, after), UNCHANGED tokens
    PROVE  TypeOK' /\ Placed'
<1> DEFINE after_(d) == [call[d] EXCEPT !.raced = @ \/ Fetches(d)]
<1>1. ASSUME NEW d \in Call
      PROVE  /\ after_(d) \in Calls
             /\ after_(d).at = call[d].at /\ after_(d).user = call[d].user
             /\ after_(d).row = call[d].row /\ after_(d).pair = call[d].pair
  <2> DEFINE b == call[d].raced \/ Fetches(d)
  <2>1. call[d] \in Calls
    BY DEF TypeOK, Calls
  <2>2. b \in BOOLEAN
    OBVIOUS
  <2>3. after_(d) = [call[d] EXCEPT !.raced = b]
    BY <2>1 DEF Calls
  <2> HIDE DEF b, after_
  <2> QED
    BY <2>1, <2>2, <2>3 DEF Calls
<1>2. \A d \in Call : call'[d] = IF d = c THEN after ELSE after_(d)
  BY DEF Clear
<1>3. call' = [d \in Call |-> IF d = c THEN after ELSE after_(d)]
  BY DEF Clear
<1> HIDE DEF after_
<1>4. call' \in [Call -> Calls]
  BY <1>1, <1>3
<1>5. Tables'
  BY DEF Clear, tokens, TypeOK, Tables
<1>6. Placed'
  BY <1>1, <1>2 DEF Placed, Fits, tokens
<1> QED
  BY <1>4, <1>5, <1>6 DEF TypeOK, Tables, Calls

LEMMA TypesHold == Spec => [](TypeOK /\ Placed)
<1> USE IntegrationAssumption
<1>1. Init => TypeOK /\ Placed
  <2> SUFFICES ASSUME Init PROVE TypeOK /\ Placed
    OBVIOUS
  <2>1. Tables
    BY DEF Init, Tables, Pair
  <2>2. call \in [Call -> Calls] /\ \A c \in Call : call[c] = Idle
    BY IdleFits DEF Init
  <2>3. Placed
    BY <2>2, IdleFits DEF Placed, Fits, Init
  <2> QED
    BY <2>1, <2>2, <2>3, Typed
<1>2. ASSUME TypeOK, Placed, [Next]_vars PROVE TypeOK' /\ Placed'
  <2> USE <1>2
  <2>0. /\ Tables /\ issued \in Nat
        /\ \A c \in Call : call[c] \in Calls /\ Fits(call[c], issued)
    BY Typed DEF Placed, Fits, Tables
  <2>1. ASSUME NEW c \in Call, NEW u \in User, NEW first \in {"asking", "checking"}, Ask(c, u, first)
        PROVE  TypeOK' /\ Placed'
    <3> DEFINE x == [Idle EXCEPT !.user = u, !.at = first]
    <3>1. x \in Calls /\ Fits(x, issued)
      BY DEF Idle, Calls, Kind, Stage, Blank, Fits, Refreshing, Holding
    <3>2. Tables' /\ call' = [call EXCEPT ![c] = x] /\ issued' = issued
      BY <2>0, <2>1 DEF Ask, tokens, health, Tables
    <3> HIDE DEF x
    <3> QED
      BY <3>1, <3>2, OneMoves
  <2>2. ASSUME NEW c \in Call, CheckToken(c) PROVE TypeOK' /\ Placed'
    <3>1. Tables' /\ issued' = issued
      BY <2>0, <2>2 DEF CheckToken, tokens, health, Tables
    <3>2. CASE Return(c)
      BY <2>0, <3>1, <3>2, IdleFits, OneMoves DEF Return
    <3>3. CASE Go(c, "asking")
      <4>1. call[c].user \in User
        BY <2>0, <2>2 DEF CheckToken, Fits
      <4> QED
        BY <3>1, <3>3, <4>1, OneGoes DEF Stage, Refreshing, Holding
    <3> QED
      BY <2>2, <3>2, <3>3 DEF CheckToken
  <2>3. ASSUME NEW c \in Call, Get(c) PROVE TypeOK' /\ Placed'
    <3>1. Tables' /\ issued' = issued /\ call[c].user \in User
      BY <2>0, <2>3 DEF Get, tokens, health, Tables, Fits
    <3>2. CASE Return(c)
      BY <2>0, <3>1, <3>2, IdleFits, OneMoves DEF Return
    <3>3. CASE Go(c, "reading")
      BY <3>1, <3>3, OneGoes DEF Stage, Fetching, Refreshing, Holding
    <3>4. CASE call' = [call EXCEPT ![c].at = "reading", ![c].background = TRUE]
      <4> DEFINE x == [call[c] EXCEPT !.at = "reading", !.background = TRUE]
      <4>1. x \in Calls /\ x.at = "reading" /\ x.user = call[c].user
        <5>1. call[c] \in Calls
          BY <2>0
        <5> QED
          BY <5>1 DEF Calls, Stage, Fetching
      <4>2. call' = [call EXCEPT ![c] = x]
        BY <3>4
      <4>3. Fits(x, issued)
        BY <3>1, <4>1 DEF Fits, Refreshing, Holding
      <4> HIDE DEF x
      <4> QED
        BY <3>1, <4>1, <4>2, <4>3, OneMoves
    <3> QED
      BY <2>3, <3>2, <3>3, <3>4 DEF Get
  <2>4. ASSUME NEW c \in Call, Read(c) PROVE TypeOK' /\ Placed'
    <3> DEFINE u == call[c].user
               r == row[u]
               x == IF r # None /\ r.expired
                    THEN [call[c] EXCEPT !.row = r, !.at = "exchanging"]
                    ELSE [call[c] EXCEPT !.row = r, !.at = "connecting",
                                         !.pair = IF r = None THEN Blank ELSE r.access]
    <3>1. Tables' /\ issued' = issued /\ u \in User
      BY <2>0, <2>4 DEF Read, tokens, health, Tables, Fits
    <3>2. call[c] \in Calls /\ r \in Rows \cup {None}
      BY <2>0, <3>1 DEF Tables
    <3>3. CASE r # None /\ r.expired
      <4> DEFINE y == [call[c] EXCEPT !.row = r, !.at = "exchanging"]
      <4>1. y \in Calls /\ y.at = "exchanging" /\ y.user = u /\ y.row = r
        BY <3>2 DEF Calls, Stage, Fetching
      <4>2. call' = [call EXCEPT ![c] = y]
        BY <2>4, <3>3 DEF Read
      <4>3. Fits(y, issued)
        BY <3>1, <3>2, <3>3, <4>1 DEF Fits, Holding
      <4> HIDE DEF y
      <4> QED
        BY <3>1, <4>1, <4>2, <4>3, OneMoves
    <3>4. CASE ~(r # None /\ r.expired)
      <4> DEFINE p == IF r = None THEN Blank ELSE r.access
                 y == [call[c] EXCEPT !.row = r, !.at = "connecting", !.pair = p]
      <4>0. p \in Pair \cup {Blank}
        BY <3>2 DEF Rows
      <4>2. call' = [call EXCEPT ![c] = y]
        BY <2>4, <3>4 DEF Read
      <4> HIDE DEF p
      <4>1. y \in Calls /\ y.at = "connecting" /\ y.user = u
        BY <3>2, <4>0 DEF Calls, Stage, Fetching
      <4>3. Fits(y, issued)
        BY <3>1, <4>1 DEF Fits, Refreshing, Holding
      <4> HIDE DEF y
      <4> QED
        BY <3>1, <4>1, <4>2, <4>3, OneMoves
    <3> QED
      BY <3>3, <3>4
  <2>5. ASSUME NEW c \in Call, call[c].user \in User, NEW r \in Rows \cup {None},
               NEW p \in Pair \cup {Blank}, Refreshed(c, r, p), Tables', issued' = issued
        PROVE  TypeOK' /\ Placed'
    <3>0. call[c] \in Calls
      BY <2>0
    <3>1. CASE call[c].kind = "cron"
      <4> DEFINE y == [Idle EXCEPT !.kind = "cron", !.at = "next", !.todo = call[c].todo]
      <4>1. y \in Calls /\ y.at = "next"
        BY <3>0 DEF Calls, Idle, Stage, Kind, Blank
      <4>2. call' = [call EXCEPT ![c] = y]
        BY <2>5, <3>1 DEF Refreshed
      <4>3. Fits(y, issued)
        BY <4>1 DEF Fits, Refreshing, Holding
      <4> HIDE DEF y
      <4> QED
        BY <2>5, <4>1, <4>2, <4>3, OneMoves
    <3>2. CASE call[c].kind # "cron"
      <4> DEFINE y == [call[c] EXCEPT !.row = r, !.pair = p, !.at = "connecting"]
      <4>1. y \in Calls /\ y.at = "connecting" /\ y.user = call[c].user
        BY <3>0, <2>5 DEF Calls, Stage, Fetching
      <4>2. call' = [call EXCEPT ![c] = y]
        BY <2>5, <3>2 DEF Refreshed
      <4>3. Fits(y, issued)
        BY <2>5, <4>1 DEF Fits, Refreshing, Holding
      <4> HIDE DEF y
      <4> QED
        BY <2>5, <4>1, <4>2, <4>3, OneMoves
    <3> QED
      BY <3>1, <3>2
  <2>6. ASSUME NEW c \in Call, Exchange(c) PROVE TypeOK' /\ Placed'
    <3> DEFINE r == call[c].row
    <3>1. /\ call[c].user \in User /\ call[c] \in Calls /\ r \in Rows /\ r # None
          /\ UNCHANGED <<row, alone, mixed, health>>
      BY <2>0, <2>6 DEF Exchange, Fits, Refreshing
    <3>2. CASE /\ r.refresh \in redeemable /\ issued < MaxIssued /\ issued' = issued + 1
               /\ ~UNCHANGED issued
      <4>1. issued' = issued + 1 /\ issued + 1 \in Pair
        BY <2>0, <2>6, <3>2 DEF Exchange, Tables, Pair
      <4>2. redeemable' \subseteq redeemable \cup {issued + 1} /\ lost' \subseteq lost \cup {r.refresh}
            /\ r.refresh \in 1..issued
        BY <2>0, <2>6, <3>2 DEF Exchange, Go, Tables
      <4>3. grant' = [grant EXCEPT ![issued + 1] = grant[r.refresh]] /\ grant[r.refresh] \in 0..MaxIssued
        BY <2>0, <2>6, <3>2, <4>2 DEF Exchange, Tables, Pair
      <4>4. Tables'
        <5>1. /\ row' \in [User -> Rows \cup {None}] /\ UNCHANGED <<cache, breaker, mixed>>
              /\ alone' \subseteq 1..issued'
          BY <2>0, <3>1, <4>1 DEF Tables, health
        <5>2. issued' \in 0..MaxIssued /\ redeemable' \subseteq 1..issued' /\ lost' \subseteq 1..issued'
          BY <2>0, <4>1, <4>2 DEF Tables, Pair
        <5>3. grant' \in [Pair -> 0..MaxIssued]
          BY <2>0, <4>1, <4>3 DEF Tables
        <5> QED
          BY <2>0, <5>1, <5>2, <5>3 DEF Tables
      <4>5. CASE Go(c, "rereading")
        BY <3>1, <4>1, <4>4, <4>5, OneGoes DEF Stage, Fetching, Refreshing, Holding
      <4>6. CASE call' = [call EXCEPT ![c].at = "persisting", ![c].pair = issued + 1]
        <5> DEFINE y == [call[c] EXCEPT !.at = "persisting", !.pair = issued + 1]
        <5>1. y \in Calls /\ y.at = "persisting" /\ y.pair = issued + 1 /\ y.user = call[c].user /\ y.row = r
          BY <3>1, <4>1 DEF Calls, Stage, Fetching
        <5>2. call' = [call EXCEPT ![c] = y]
          BY <4>6
        <5>3. Fits(y, issued')
          BY <2>0, <3>1, <4>1, <4>2, <5>1 DEF Fits, Tables
        <5> HIDE DEF y
        <5> QED
          BY <4>1, <4>4, <5>1, <5>2, <5>3, OneMoves
      <4> QED
        BY <2>6, <3>2, <4>5, <4>6 DEF Exchange
    <3>3. CASE /\ Go(c, "rereading") \/ Refreshed(c, r, Blank)
               /\ UNCHANGED <<issued, redeemable, grant, lost>>
      <4>1. Tables' /\ issued' = issued
        BY <2>0, <3>1, <3>3 DEF Tables, health
      <4>2. CASE Go(c, "rereading")
        BY <3>1, <4>1, <4>2, OneGoes DEF Stage, Fetching, Refreshing, Holding
      <4>3. CASE Refreshed(c, r, Blank)
        BY <2>5, <3>1, <4>1, <4>3
      <4> QED
        BY <3>3, <4>2, <4>3
    <3> QED
      BY <2>0, <2>6, <3>2, <3>3 DEF Exchange, Tables
  <2>7. ASSUME NEW c \in Call, Persist(c) PROVE TypeOK' /\ Placed'
    <3> DEFINE r == row[call[c].user]
    <3>1. /\ call[c].user \in User /\ call[c].row \in Rows /\ call[c].row # None
          /\ call[c].pair \in Pair /\ issued' = issued
      <4>1. call[c].at = "persisting" /\ issued' = issued
        BY <2>7 DEF Persist
      <4> QED
        BY <2>0, <4>1 DEF Fits, Refreshing, Holding, Pair, Tables
    <3>2. CASE /\ SameRow(c) /\ row' = [row EXCEPT ![call[c].user] = Stored(r, call[c].pair)]
               /\ Refreshed(c, call[c].row, call[c].pair)
      <4>1. Stored(r, call[c].pair) \in Rows
        BY <2>0, <3>1, <3>2, StoredIsARow DEF SameRow, Tables
      <4>2. Tables'
        BY <2>0, <2>7, <3>2, <4>1 DEF Persist, Tables, health
      <4> QED
        BY <2>5, <3>1, <3>2, <4>2
    <3>3. CASE Go(c, "reloading") /\ UNCHANGED row
      <4>1. Tables'
        BY <2>0, <2>7, <3>3 DEF Persist, Tables, health
      <4> QED
        BY <3>1, <3>3, <4>1, OneGoes DEF Stage, Fetching, Refreshing, Holding
    <3> QED
      BY <2>7, <3>2, <3>3 DEF Persist
  <2>8. ASSUME NEW c \in Call, Reload(c) \/ Reread(c) PROVE TypeOK' /\ Placed'
    <3>1. /\ call[c].user \in User /\ call[c].row \in Rows /\ Tables' /\ issued' = issued
      BY <2>0, <2>8 DEF Reload, Reread, Fits, Refreshing, Tables, tokens, health
    <3>2. CASE Refreshed(c, call[c].row, Blank)
      BY <2>5, <3>1, <3>2
    <3>3. CASE SameRow(c) /\ Refreshed(c, row[call[c].user], row[call[c].user].access)
      <4>1. row[call[c].user] \in Rows
        BY <2>0, <3>1, <3>3 DEF SameRow, Tables
      <4>2. row[call[c].user].access \in Pair \cup {Blank}
        BY <4>1 DEF Rows
      <4> QED
        BY <2>5, <3>1, <3>3, <4>1, <4>2
    <3> QED
      BY <2>8, <3>2, <3>3 DEF Reload, Reread
  <2>9. ASSUME NEW c \in Call, Connect(c) PROVE TypeOK' /\ Placed'
    <3>1. /\ call[c].user \in User /\ call[c] \in Calls /\ Return(c) /\ issued' = issued
      BY <2>0, <2>9 DEF Connect, Fits, tokens
    <3>2. /\ GrantOf(call[c].row) \in 0..MaxIssued
          /\ call[c].pair \in Pair \cup {NoTools} /\ call[c].raced \in BOOLEAN
      BY <2>0, <3>1 DEF GrantOf, Calls, Rows, Tables, NoTools, Blank
    <3>3. Tables'
      BY <2>0, <2>9, <3>1, <3>2 DEF Connect, Tables, tokens
    <3> QED
      BY <2>0, <3>1, <3>3, IdleFits, OneMoves DEF Return
  <2>10. ASSUME NEW c \in Call, FetchFails(c) PROVE TypeOK' /\ Placed'
    <3>1. Return(c) /\ issued' = issued /\ UNCHANGED <<row, redeemable, alone, grant, mixed, cache>>
          /\ breaker' \in [User -> {"closed", "open", "half"}]
      BY <2>0, <2>10 DEF FetchFails, Fail, Tables
    <3>2. lost' \subseteq 1..issued
      BY <2>0, <2>10 DEF FetchFails, Tables, Fits
    <3>3. Tables'
      BY <2>0, <3>1, <3>2 DEF Tables
    <3> QED
      BY <2>0, <3>1, <3>3, IdleFits, OneMoves DEF Return
  <2>11. ASSUME NEW c \in Call, NEW u \in User, Test(c, u) PROVE TypeOK' /\ Placed'
    <3> DEFINE y == [Idle EXCEPT !.user = u, !.at = "checking"]
    <3>1. y \in Calls /\ Fits(y, issued)
      BY DEF Idle, Calls, Kind, Stage, Blank, Fits, Refreshing, Holding
    <3>2. Clear(c, y) /\ UNCHANGED tokens
      BY <2>11 DEF Test
    <3> HIDE DEF y
    <3> QED
      BY <3>1, <3>2, Cleared
  <2>12. ASSUME NEW c \in Call, Reconnect(c) PROVE TypeOK' /\ Placed'
    BY <2>0, <2>12, IdleFits, Cleared DEF Reconnect
  <2>13. ASSUME NEW c \in Call, NEW u \in User, Callback(c, u) PROVE TypeOK' /\ Placed'
    <3> DEFINE p == issued + 1
               y == [Idle EXCEPT !.kind = "callback", !.user = u, !.at = "creating", !.pair = p]
    <3>1. issued' = issued + 1 /\ issued + 1 \in Pair /\ p \in 1..issued'
      BY <2>0, <2>13 DEF Callback, Tables, Pair
    <3>3. call' = [call EXCEPT ![c] = y]
      BY <2>13 DEF Callback
    <3>2. y \in Calls /\ Fits(y, issued')
      <4>1. p \in Pair /\ p \in 1..issued'
        BY <3>1
      <4> HIDE DEF p
      <4>2. y \in Calls /\ y.at = "creating" /\ y.user = u /\ y.pair = p
        BY <4>1 DEF Idle, Calls, Kind, Stage, Blank
      <4> QED
        BY <4>1, <4>2 DEF Fits, Refreshing
    <3> HIDE DEF y
    <3>4. Tables'
      <4>1. /\ redeemable' \subseteq 1..issued' /\ alone' \subseteq 1..issued'
            /\ lost' \subseteq 1..issued' /\ issued' \in 0..MaxIssued
        BY <2>0, <2>13, <3>1 DEF Callback, Tables, Pair
      <4>2. grant' \in [Pair -> 0..MaxIssued]
        BY <2>0, <2>13, <3>1 DEF Callback, Tables, Pair
      <4> QED
        BY <2>0, <2>13, <4>1, <4>2 DEF Callback, Tables, health
    <3> QED
      BY <3>1, <3>2, <3>3, <3>4, OneMoves
  <2>14. ASSUME NEW c \in Call, CreateRow(c) PROVE TypeOK' /\ Placed'
    <3> DEFINE y == [call[c] EXCEPT !.at = "saving", !.row = row'[call[c].user]]
    <3>1. /\ call[c].user \in User /\ call[c] \in Calls /\ call[c].pair \in Pair
          /\ call[c].pair \in 1..issued /\ issued' = issued
      BY <2>0, <2>14 DEF CreateRow, Fits, Holding, Pair, Tables
    <3>2. Fresh(call[c].pair) \in Rows
      BY <3>1 DEF Fresh, Rows
    <3>3. row' \in [User -> Rows \cup {None}] /\ row'[call[c].user] \in Rows
      BY <2>0, <2>14, <3>1, <3>2 DEF CreateRow, Tables, Fresh
    <3>4. Tables'
      BY <2>0, <2>14, <3>3 DEF CreateRow, Tables, health
    <3>5. y \in Calls /\ y.at = "saving" /\ y.row \in Rows /\ y.user = call[c].user /\ y.pair = call[c].pair
      BY <3>1, <3>3 DEF Calls, Stage
    <3>6. call' = [call EXCEPT ![c] = y]
      <4>1. call' = [call EXCEPT ![c].at = "saving", ![c].row = row'[call[c].user]]
        BY <2>14 DEF CreateRow
      <4> QED
        BY <3>1, <4>1 DEF TypeOK, Calls
    <3>7. Fits(y, issued')
      BY <3>1, <3>5 DEF Fits, Refreshing
    <3> HIDE DEF y
    <3> QED
      BY <3>1, <3>4, <3>5, <3>6, <3>7, OneMoves
  <2>15. ASSUME NEW c \in Call, NEW u \in User, NEW kind \in Kind, NEW y \in Calls, Tables', issued' = issued,
                y = [Idle EXCEPT !.kind = kind, !.user = u, !.at = "clearing"],
                call' = [call EXCEPT ![c] = y]
         PROVE  TypeOK' /\ Placed'
    <3>1. Fits(y, issued)
      BY <2>15 DEF Idle, Calls, Fits, Refreshing, Holding
    <3> QED
      BY <2>15, <3>1, OneMoves
  <2>16. ASSUME NEW c \in Call, SaveToken(c) PROVE TypeOK' /\ Placed'
    <3> DEFINE y == [Idle EXCEPT !.kind = "callback", !.user = call[c].user, !.at = "clearing"]
    <3>1. /\ call[c].user \in User /\ call[c].row \in Rows /\ call[c].pair \in Pair /\ issued' = issued
      BY <2>0, <2>16 DEF SaveToken, Fits, Holding, Pair, Tables
    <3>2. CASE row' = [row EXCEPT ![call[c].user] = Stored(call[c].row, call[c].pair)]
               /\ call' = [call EXCEPT ![c] = y]
      <4>1. Stored(call[c].row, call[c].pair) \in Rows
        BY <3>1, StoredIsARow
      <4>2. Tables'
        BY <2>0, <2>16, <3>1, <3>2, <4>1 DEF SaveToken, Tables, health
      <4>3. y \in Calls
        BY <3>1 DEF Idle, Calls, Kind, Stage, Blank
      <4> QED
        BY <2>15, <3>1, <3>2, <4>2, <4>3 DEF Kind
    <3>3. CASE Return(c) /\ UNCHANGED <<row, mixed>>
      <4>1. Tables'
        BY <2>0, <2>16, <3>3 DEF SaveToken, Tables, health
      <4> QED
        BY <2>0, <3>1, <3>3, <4>1, IdleFits, OneMoves DEF Return
    <3> QED
      BY <2>16, <3>2, <3>3 DEF SaveToken
  <2>17. ASSUME NEW c \in Call, NEW u \in User, Disconnect(c, u) PROVE TypeOK' /\ Placed'
    <3> DEFINE y == [Idle EXCEPT !.kind = "disconnect", !.user = u, !.at = "clearing"]
    <3>1. Tables' /\ issued' = issued /\ call' = [call EXCEPT ![c] = y]
      BY <2>0, <2>17 DEF Disconnect, Tables, health
    <3>2. y \in Calls
      BY DEF Idle, Calls, Kind, Stage, Blank
    <3> QED
      BY <2>15, <3>1, <3>2 DEF Kind
  <2>18. ASSUME NEW c \in Call, Cron(c) PROVE TypeOK' /\ Placed'
    <3>1. PICK soon \in SUBSET {u \in User : row[u] # None /\ row[u].access # Blank} :
             call' = [call EXCEPT ![c] = [Idle EXCEPT !.kind = "cron", !.at = "next",
                         !.todo = {[user |-> u, row |-> row[u]] : u \in soon}]]
      BY <2>18 DEF Cron
    <3> DEFINE todo == {[user |-> u, row |-> row[u]] : u \in soon}
               y == [Idle EXCEPT !.kind = "cron", !.at = "next", !.todo = todo]
    <3>2. todo \in SUBSET [user : User, row : Rows]
      BY <2>0 DEF Tables
    <3>3. call' = [call EXCEPT ![c] = y] /\ Tables' /\ issued' = issued
      BY <2>0, <2>18, <3>1 DEF Cron, tokens, health, Tables
    <3> HIDE DEF todo
    <3>4. y \in Calls /\ Fits(y, issued)
      BY <3>2 DEF Idle, Calls, Kind, Stage, Blank, Fits, Refreshing, Holding
    <3> HIDE DEF y
    <3> QED
      BY <3>3, <3>4, OneMoves
  <2>19. ASSUME NEW c \in Call, NextToken(c) PROVE TypeOK' /\ Placed'
    <3>1. Tables' /\ issued' = issued /\ call[c] \in Calls
      BY <2>0, <2>19 DEF NextToken, tokens, health, Tables
    <3>2. CASE Return(c)
      BY <2>0, <3>1, <3>2, IdleFits, OneMoves DEF Return
    <3>3. ASSUME NEW x \in call[c].todo,
                 call' = [call EXCEPT ![c].user = x.user, ![c].row = x.row,
                                      ![c].todo = @ \ {x}, ![c].at = "exchanging"]
          PROVE  TypeOK' /\ Placed'
      <4> DEFINE rest == call[c].todo \ {x}
                 y == [call[c] EXCEPT !.user = x.user, !.row = x.row, !.todo = rest, !.at = "exchanging"]
      <4>1. x.user \in User /\ x.row \in Rows /\ rest \in SUBSET [user : User, row : Rows]
        BY <3>1 DEF Calls
      <4>2. call' = [call EXCEPT ![c] = y]
        BY <2>0, <3>3 DEF Calls
      <4> HIDE DEF rest
      <4>3. y \in Calls /\ y.at = "exchanging" /\ y.user = x.user /\ y.row = x.row
        BY <3>1, <4>1 DEF Calls, Stage, Fetching
      <4>4. x.row # None
        BY <4>1
      <4>5. Fits(y, issued)
        BY <4>1, <4>3, <4>4 DEF Fits, Holding
      <4> HIDE DEF y
      <4> QED
        BY <3>1, <4>2, <4>3, <4>5, OneMoves
    <3> QED
      BY <2>19, <3>2, <3>3 DEF NextToken
  <2>20. ASSUME NEW u \in User, Lapse(u) PROVE TypeOK' /\ Placed'
    <3>1. row[u] \in Rows /\ row' = [row EXCEPT ![u] = [row[u] EXCEPT !.expired = TRUE]]
          /\ UNCHANGED <<issued, redeemable, alone, grant, lost, mixed, cache, breaker, call>>
      BY <2>0, <2>20 DEF Lapse, Tables, health
    <3>2. [row[u] EXCEPT !.expired = TRUE] \in Rows
      BY <3>1 DEF Rows
    <3> QED
      BY <2>0, <3>1, <3>2, Typed DEF Tables, Placed, TypeOK
  <2>21. ASSUME NEW u \in User, Expire(u) \/ Cooldown(u) PROVE TypeOK' /\ Placed'
    <3>1. /\ UNCHANGED <<row, issued, redeemable, alone, grant, lost, mixed, call>>
          /\ cache' = cache \/ cache' = [cache EXCEPT ![u] = None]
          /\ breaker' = breaker \/ breaker' = [breaker EXCEPT ![u] = "half"]
      BY <2>21 DEF Expire, Cooldown, tokens
    <3>2. Tables'
      BY <2>0, <3>1 DEF Tables
    <3>3. TypeOK'
      BY <3>1, <3>2, Typed DEF Tables, TypeOK
    <3> QED
      BY <3>1, <3>3 DEF Placed
  <2>22. CASE UNCHANGED vars
    BY <2>22 DEF vars, TypeOK, Placed
  <2> QED
    BY <2>1, <2>2, <2>3, <2>4, <2>6, <2>7, <2>8, <2>9, <2>10, <2>11, <2>12, <2>13, <2>14,
       <2>16, <2>17, <2>18, <2>19, <2>20, <2>21, <2>22 DEF Next, Progress
<1> QED
  BY <1>1, <1>2, PTL DEF Spec

-----------------------------------------------------------------------------
\* A step that stores no other token and gives no call a pair or a row it did
\* not know keeps the tokens accounted for.
LEMMA Quiet ==
    ASSUME TypeOK, TypeOK', Placed, TokenInv,
           UNCHANGED <<issued, redeemable, alone, grant>>, lost \subseteq lost',
           \A u \in User, r \in Rows : Known(u, r)' =>
               \E s \in Rows : /\ Known(u, s)
                              /\ s.pk = r.pk /\ s.access = r.access /\ s.refresh = r.refresh,
           \A u \in User : row'[u] # None =>
               /\ row[u] # None /\ Mixed(u)' = Mixed(u)
               /\ row'[u].access = row[u].access /\ row'[u].refresh = row[u].refresh,
           \A c \in Call : call'[c].at \in Holding =>
               call[c].at \in Holding /\ call[c].pair = call'[c].pair,
           \A c \in Call : call'[c].at = "persisting" =>
               call[c].at = "persisting" /\ call[c].row = call'[c].row,
           \A c \in Call : call[c].at = "persisting" =>
               \/ /\ call'[c].at = "persisting" /\ call'[c].row = call[c].row
                  /\ call'[c].user = call[c].user
               \/ call[c].row.refresh \in lost'
               \/ ~SameRow(c)
               \/ row[call[c].user].refresh # call[c].row.refresh
    PROVE  TokenInv'
<1>1. Genuine' /\ Matched'
  BY DEF TokenInv, Genuine, Matched
<1>2. OneOwner'
  BY DEF TokenInv, OneOwner
<1>3. HeldAlone'
  <2>1. ASSUME NEW c \in Call, call'[c].at \in Holding
        PROVE  /\ call[c].at \in Holding /\ call[c].pair = call'[c].pair
               /\ call'[c].pair \in redeemable \cup alone
               /\ call'[c].at = "persisting" => call'[c].pair \notin alone
               /\ \A u \in User, r \in Rows : Known(u, r) => r.refresh # call'[c].pair
    BY <2>1 DEF TokenInv, HeldAlone
  <2>2. \A c \in Call : call'[c].at \in Holding =>
            \A u \in User, r \in Rows : Known(u, r)' => r.refresh # call'[c].pair
    BY <2>1
  <2>3. ASSUME NEW c \in Call, NEW d \in Call, call'[c].at \in Holding, call'[d].at \in Holding,
               call'[d].pair = call'[c].pair
        PROVE  d = c
    <3>1. call[c].at \in Holding /\ call[d].at \in Holding /\ call[d].pair = call[c].pair
      BY <2>1, <2>3
    <3> QED
      BY <3>1 DEF TokenInv, HeldAlone
  <2> QED
    BY <2>1, <2>2, <2>3 DEF HeldAlone
<1>4. SameGrant'
  BY DEF TokenInv, SameGrant, Holding
<1>5. Accounted'
  <2> SUFFICES ASSUME NEW u \in User, row'[u] # None, row'[u].refresh # Blank, ~Mixed(u)'
               PROVE  \/ row'[u].refresh \in redeemable' \cup lost'
                      \/ \E d \in Call : /\ call'[d].at = "persisting" /\ call'[d].user = u
                                         /\ call'[d].row.refresh = row'[u].refresh
    BY DEF Accounted
  <2>1. /\ row[u] # None /\ row'[u].refresh = row[u].refresh /\ row[u] \in Rows
        /\ Known(u, row[u]) /\ ~Mixed(u)
    BY DEF TypeOK, Known
  <2>2. ASSUME NEW d \in Call, call[d].at = "persisting", call[d].user = u,
               call[d].row.refresh = row[u].refresh
        PROVE  SameRow(d)
    <3>1. Known(u, call[d].row) /\ call[d].row \in Rows
      BY <2>2 DEF Known, Placed, Refreshing
    <3> QED
      BY <2>1, <2>2, <3>1 DEF TokenInv, OneOwner, SameRow
  <2>3. \/ row[u].refresh \in redeemable \cup lost
        \/ \E d \in Call : /\ call[d].at = "persisting" /\ call[d].user = u
                           /\ call[d].row.refresh = row[u].refresh
    BY <2>1 DEF TokenInv, Accounted
  <2> QED
    BY <2>1, <2>2, <2>3
<1> QED
  BY <1>1, <1>2, <1>3, <1>4, <1>5 DEF TokenInv

\* One call takes such a step.
LEMMA OneQuiet ==
    ASSUME TypeOK, TypeOK', Placed, TokenInv, NEW c \in Call, NEW x \in Calls,
           call' = [call EXCEPT ![c] = x],
           UNCHANGED <<row, issued, redeemable, alone, grant, mixed>>, lost \subseteq lost',
           x.at \notin Holding,
           call[c].at = "persisting" => call[c].row.refresh \in lost',
           \/ x.row = None
           \/ x.user = call[c].user /\ x.row = call[c].row
           \/ x.row = row[x.user]
           \/ [user |-> x.user, row |-> x.row] \in call[c].todo,
           x.todo \subseteq call[c].todo
               \cup {[user |-> u, row |-> row[u]] : u \in User}
    PROVE  TokenInv'
<1> USE IntegrationAssumption
<1>1. \A d \in Call : call'[d] = IF d = c THEN x ELSE call[d]
  BY DEF TypeOK
<1>2. ASSUME NEW u \in User, NEW r \in Rows, Known(u, r)' PROVE Known(u, r)
  <2>1. CASE row'[u] = r
    BY <2>1 DEF Known
  <2>2. ASSUME NEW d \in Call, call'[d].user = u, call'[d].row = r PROVE Known(u, r)
    BY <1>1, <2>2 DEF Known
  <2>3. ASSUME NEW d \in Call, [user |-> u, row |-> r] \in call'[d].todo PROVE Known(u, r)
    <3>1. CASE d # c
      BY <1>1, <2>3, <3>1 DEF Known
    <3>2. CASE [user |-> u, row |-> r] \in call[c].todo
      BY <3>2 DEF Known
    <3>3. ASSUME NEW v \in User, [user |-> u, row |-> r] = [user |-> v, row |-> row[v]]
          PROVE  Known(u, r)
      BY <3>3 DEF Known
    <3> QED
      BY <1>1, <2>3, <3>1, <3>2, <3>3
  <2> QED
    BY <1>2, <2>1, <2>2, <2>3 DEF Known
<1>3. \A d \in Call : call'[d].at \in Holding => call'[d] = call[d]
  BY <1>1
<1>4. \A d \in Call : call[d].at = "persisting" =>
               call'[d] = call[d] \/ call[d].row.refresh \in lost'
  BY <1>1
<1>5. \A d \in Call : call'[d].at = "persisting" => call'[d].at \in Holding
  BY DEF Holding
<1>6. \A u \in User : row'[u] = row[u] /\ Mixed(u)' = Mixed(u)
  BY DEF Mixed
<1> QED
  BY <1>2, <1>3, <1>4, <1>5, <1>6, Quiet

\* It only goes on to another stage, or it is over.
LEMMA QuietMove ==
    ASSUME TypeOK, TypeOK', Placed, TokenInv, NEW c \in Call,
           UNCHANGED <<row, issued, redeemable, alone, grant, mixed>>, lost \subseteq lost',
           call[c].at = "persisting" => call[c].row.refresh \in lost',
           Return(c) \/ \E stage \in Stage \ Holding : Go(c, stage)
    PROVE  TokenInv'
<1>0. call[c] \in Calls /\ call[c].todo \subseteq call[c].todo \cup {[user |-> u, row |-> row[u]] : u \in User}
  BY DEF TypeOK, Calls
<1>1. CASE Return(c)
  BY <1>1, IdleFits, OneQuiet DEF Return, Holding
<1>2. ASSUME NEW stage \in Stage \ Holding, Go(c, stage) PROVE TokenInv'
  <2> DEFINE x == [call[c] EXCEPT !.at = stage]
  <2>1. /\ x \in Calls /\ x.at = stage /\ x.user = call[c].user /\ x.row = call[c].row
        /\ x.todo = call[c].todo
    BY <1>0 DEF Calls
  <2>2. call' = [call EXCEPT ![c] = x]
    BY <1>2 DEF Go
  <2> HIDE DEF x
  <2> QED
    BY <1>0, <2>1, <2>2, OneQuiet
<1> QED
  BY <1>1, <1>2

\* A refresh is over, and the fetch goes on with a row it may know.
LEMMA QuietRefreshed ==
    ASSUME TypeOK, TypeOK', Placed, TokenInv, NEW c \in Call, UNCHANGED tokens,
           NEW r \in Rows, NEW p \in Pair \cup {Blank}, Refreshed(c, r, p),
           r = call[c].row \/ r = row[call[c].user], call[c].at # "persisting"
    PROVE  TokenInv'
<1>0. call[c] \in Calls /\ call[c].todo \subseteq call[c].todo \cup {[user |-> u, row |-> row[u]] : u \in User}
  BY DEF TypeOK, Calls
<1>1. CASE call[c].kind = "cron"
  <2> DEFINE y == [Idle EXCEPT !.kind = "cron", !.at = "next", !.todo = call[c].todo]
  <2>1. y \in Calls /\ y.at = "next" /\ y.row = None /\ y.todo = call[c].todo
    BY <1>0 DEF Calls, Idle, Stage, Kind, Blank
  <2>2. call' = [call EXCEPT ![c] = y]
    BY <1>1 DEF Refreshed
  <2> HIDE DEF y
  <2> QED
    BY <1>0, <2>1, <2>2, OneQuiet DEF tokens, Holding
<1>2. CASE call[c].kind # "cron"
  <2> DEFINE y == [call[c] EXCEPT !.row = r, !.pair = p, !.at = "connecting"]
  <2>1. y \in Calls /\ y.at = "connecting" /\ y.user = call[c].user /\ y.row = r /\ y.todo = call[c].todo
    BY <1>0 DEF Calls, Stage, Fetching
  <2>2. call' = [call EXCEPT ![c] = y]
    BY <1>2 DEF Refreshed
  <2> HIDE DEF y
  <2> QED
    BY <1>0, <2>1, <2>2, OneQuiet DEF tokens, Holding
<1> QED
  BY <1>1, <1>2

\* A cleared cache changes no token.
LEMMA QuietClear ==
    ASSUME TypeOK, TypeOK', Placed, TokenInv, NEW c \in Call, NEW after \in Calls,
           Clear(c, after), UNCHANGED tokens, call[c].at # "persisting",
           after.at \notin Holding, after.row = None, after.todo = {}
    PROVE  TokenInv'
<1> USE IntegrationAssumption
<1>1. ASSUME NEW d \in Call, d # c
      PROVE  /\ call'[d].at = call[d].at /\ call'[d].user = call[d].user
             /\ call'[d].row = call[d].row /\ call'[d].pair = call[d].pair
             /\ call'[d].todo = call[d].todo
  <2>1. call[d] \in Calls
    BY DEF TypeOK, Calls
  <2>2. call'[d] = [call[d] EXCEPT !.raced = @ \/ Fetches(d)]
    BY <1>1 DEF Clear
  <2> QED
    BY <2>1, <2>2 DEF Calls
<1>2. call'[c] = after
  BY DEF Clear
<1>3. ASSUME NEW u \in User, NEW r \in Rows, Known(u, r)' PROVE Known(u, r)
  BY <1>1, <1>2, <1>3 DEF Known, tokens
<1>4. \A d \in Call : call'[d].at \in Holding =>
         d # c /\ call[d].at = call'[d].at /\ call[d].pair = call'[d].pair /\ call[d].row = call'[d].row
  BY <1>1, <1>2
<1>5. \A d \in Call : call[d].at = "persisting" =>
         call'[d].at = "persisting" /\ call'[d].row = call[d].row /\ call'[d].user = call[d].user
  BY <1>1
<1>6. \A d \in Call : call'[d].at = "persisting" => call'[d].at \in Holding
  BY DEF Holding
<1>7. /\ UNCHANGED <<row, issued, redeemable, alone, grant, lost>>
      /\ \A u \in User : Mixed(u)' = Mixed(u)
  BY DEF tokens, Mixed
<1> QED
  BY <1>3, <1>4, <1>5, <1>6, <1>7, Quiet

\* The provider issues a pair, or an access token alone, to one call.
LEMMA Issued ==
    ASSUME TypeOK, TypeOK', Placed, TokenInv, NEW c \in Call, NEW x \in Calls, NEW g,
           call' = [call EXCEPT ![c] = x],
           UNCHANGED <<row, mixed>>, issued' = issued + 1,
           grant' = [grant EXCEPT ![issued + 1] = g], lost \subseteq lost',
           alone \subseteq alone', alone' \subseteq alone \cup {issued + 1},
           issued + 1 \in redeemable' \cup alone',
           \A p \in redeemable : p \in redeemable' \/ (call[c].at = "exchanging" /\ p = call[c].row.refresh),
           call[c].at \notin Holding,
           x.row = None \/ (x.row = call[c].row /\ x.user = call[c].user),
           x.todo \subseteq call[c].todo,
           x.at \in Holding => x.pair = issued + 1,
           x.at = "persisting" =>
               x.row.refresh \in 1..issued /\ g = grant[x.row.refresh] /\ alone' = alone,
           call[c].at = "exchanging" =>
               \/ call[c].row.refresh \in lost'
               \/ x.at = "persisting" /\ x.row = call[c].row /\ x.user = call[c].user
    PROVE  TokenInv'
<1> USE IntegrationAssumption
<1>0. /\ issued \in Nat /\ redeemable \subseteq 1..issued /\ alone \subseteq 1..issued
      /\ grant \in [Pair -> 0..MaxIssued] /\ \A u \in User : Mixed(u)' = Mixed(u)
      /\ issued + 1 \in Pair /\ \A n \in 1..issued : n \in Pair /\ grant'[n] = grant[n]
      /\ grant'[issued + 1] = g
  BY DEF TypeOK, Pair, Mixed
<1>1. \A d \in Call : call'[d] = IF d = c THEN x ELSE call[d]
  BY DEF TypeOK
<1>2. ASSUME NEW u \in User, NEW r \in Rows, Known(u, r)' PROVE Known(u, r)
  BY <1>1, <1>2 DEF Known
<1>3. Genuine' /\ Matched'
  <2>1. Genuine'
    BY <1>0, <1>2 DEF TokenInv, Genuine
  <2>2. ASSUME NEW u \in User, row[u] # None, row[u].refresh # Blank, ~Mixed(u)
        PROVE  row[u].access # Blank /\ grant'[row[u].access] = grant'[row[u].refresh]
    <3>1. row[u] \in Rows /\ Known(u, row[u])
      BY <2>2 DEF TypeOK, Known
    <3>2. row[u].access \in 0..issued /\ row[u].refresh \in 0..issued
      BY <3>1 DEF TokenInv, Genuine
    <3>3. row[u].access # Blank /\ grant[row[u].access] = grant[row[u].refresh]
      BY <2>2 DEF TokenInv, Matched
    <3>4. row[u].access \in 1..issued /\ row[u].refresh \in 1..issued
      BY <1>0, <2>2, <3>2, <3>3 DEF Blank
    <3> QED
      BY <1>0, <3>3, <3>4
  <2> QED
    BY <1>0, <2>1, <2>2 DEF Matched
<1>4. OneOwner'
  BY <1>2 DEF TokenInv, OneOwner
<1>5. HeldAlone'
  <2>1. ASSUME NEW d \in Call, call'[d].at \in Holding, d # c
        PROVE  /\ call'[d] = call[d] /\ call[d].pair \in 1..issued
               /\ call[d].pair \in redeemable' \cup alone'
               /\ call[d].at = "persisting" => call[d].pair \notin alone'
               /\ \A u \in User, r \in Rows : Known(u, r)' => r.refresh # call[d].pair
    <3>1. /\ call'[d] = call[d] /\ call[d].pair \in 1..issued
          /\ call[d].pair \in redeemable \cup alone
          /\ call[d].at = "persisting" => call[d].pair \notin alone
      BY <1>1, <2>1 DEF Placed, TokenInv, HeldAlone
    <3>2. \A u \in User, r \in Rows : Known(u, r) => r.refresh # call[d].pair
      BY <2>1, <3>1 DEF TokenInv, HeldAlone
    <3>3. call[c].at = "exchanging" => call[c].row.refresh # call[d].pair
      BY <3>2 DEF Placed, Refreshing, Known
    <3>4. call[d].pair # issued + 1
      BY <1>0, <3>1
    <3> QED
      BY <1>2, <3>1, <3>2, <3>3, <3>4
  <2>2. \A u \in User, r \in Rows : Known(u, r)' => r.refresh # issued + 1
    BY <1>0, <1>2 DEF TokenInv, Genuine
  <2>3. /\ x.at \in Holding => call'[c].pair = issued + 1
        /\ x.at = "persisting" => issued + 1 \notin alone'
    BY <1>0, <1>1
  <2>4. ASSUME NEW d \in Call, NEW e \in Call, call[d].at \in Holding, call[e].at \in Holding,
               call[d].pair = call[e].pair
        PROVE  d = e
    BY <2>4 DEF TokenInv, HeldAlone
  <2>5. \A n \in 1..issued : n # issued + 1
    BY <1>0
  <2> QED
    BY <1>1, <2>1, <2>2, <2>3, <2>4, <2>5 DEF HeldAlone
<1>6. SameGrant'
  BY <1>0, <1>1 DEF TokenInv, SameGrant, Placed, Holding
<1>7. Accounted'
  <2> SUFFICES ASSUME NEW u \in User, row[u] # None, row[u].refresh # Blank, ~Mixed(u)
               PROVE  \/ row[u].refresh \in redeemable' \cup lost'
                      \/ \E d \in Call : /\ call'[d].at = "persisting" /\ call'[d].user = u
                                         /\ call'[d].row.refresh = row[u].refresh
    BY <1>0 DEF Accounted
  <2>1. row[u] \in Rows /\ Known(u, row[u])
    BY DEF TypeOK, Known
  <2>2. ASSUME NEW d \in Call, call[d].at = "persisting", call[d].user = u,
               call[d].row.refresh = row[u].refresh
        PROVE  call'[d] = call[d]
    BY <1>1, <2>2 DEF Holding
  <2>3. ASSUME call[c].at = "exchanging", row[u].refresh = call[c].row.refresh
        PROVE  u = call[c].user
    <3>1. call[c].row \in Rows /\ call[c].user \in User /\ Known(call[c].user, call[c].row)
      BY <2>3 DEF Placed, Refreshing, Known
    <3> QED
      BY <2>1, <2>3, <3>1 DEF TokenInv, OneOwner
  <2>4. row[u].refresh \in redeemable =>
           row[u].refresh \in redeemable' \/ (call[c].at = "exchanging" /\ row[u].refresh = call[c].row.refresh)
    OBVIOUS
  <2> QED
    BY <1>1, <2>2, <2>3, <2>4 DEF TokenInv, Accounted
<1> QED
  BY <1>3, <1>4, <1>5, <1>6, <1>7 DEF TokenInv, HeldAlone

\* A call stores a row with the pair it holds, with its access token beside the
\* refresh token that was there, or with none yet.
KeepsOne(u, w) == \E s \in Rows : Known(u, s) /\ s.pk = w.pk /\ s.refresh = w.refresh

LEMMA Stores ==
    ASSUME TypeOK, TypeOK', Placed, TokenInv, NEW c \in Call, NEW x \in Calls,
           NEW u \in User, NEW w \in Rows,
           call' = [call EXCEPT ![c] = x], row' = [row EXCEPT ![u] = w],
           UNCHANGED <<issued, redeemable, alone, grant, lost>>,
           w.access \in {Blank, call[c].pair},
           call[c].at \in Holding, call[c].at = "persisting" => call[c].user = u,
           x.at \notin Holding \/ (x.at = "saving" /\ x.pair = call[c].pair /\ w.refresh = Blank),
           \A v \in User \ {u} : Mixed(v)' = Mixed(v),
           \/ w.refresh = Blank
           \/ w.refresh = call[c].pair /\ w.access = call[c].pair /\ call[c].pair \notin alone
           \/ /\ Mixed(u)'
              /\ KeepsOne(u, w),
           \/ x.row = None
           \/ x.user = call[c].user /\ x.row = call[c].row
           \/ x.user = u /\ x.row = w,
           x.todo \subseteq call[c].todo
    PROVE  TokenInv'
<1> USE IntegrationAssumption
<1>0. /\ issued \in Nat /\ redeemable \subseteq 1..issued
      /\ call[c].pair \in 1..issued /\ call[c].pair \in redeemable \cup alone
      /\ \A d \in Call : call[d].at \in Holding => call[d].pair \in 1..issued
  BY DEF TypeOK, Placed, TokenInv, HeldAlone
<1>1. \A d \in Call : call'[d] = IF d = c THEN x ELSE call[d]
  BY DEF TypeOK
<1>2. ASSUME NEW v \in User, NEW r \in Rows, Known(v, r)' PROVE Known(v, r) \/ (v = u /\ r = w)
  <2>1. row'[v] = r => Known(v, r) \/ (v = u /\ r = w)
    BY DEF Known, TypeOK
  <2>2. ASSUME NEW d \in Call, call'[d].user = v /\ call'[d].row = r
        PROVE  Known(v, r) \/ (v = u /\ r = w)
    BY <1>1, <2>2 DEF Known
  <2>3. ASSUME NEW d \in Call, [user |-> v, row |-> r] \in call'[d].todo
        PROVE  Known(v, r)
    BY <1>1, <2>3 DEF Known
  <2> QED
    BY <1>2, <2>1, <2>2, <2>3 DEF Known
<1>3. \A v \in User, r \in Rows : Known(v, r) => r.refresh # call[c].pair
  BY DEF TokenInv, HeldAlone
<1>4. Genuine' /\ Matched'
  <2>1. w.access \in 0..issued /\ w.refresh \in 0..issued
    BY <1>0 DEF TokenInv, Genuine, Blank, KeepsOne
  <2>2. Genuine'
    BY <1>2, <2>1 DEF TokenInv, Genuine
  <2>3. ASSUME NEW v \in User, row'[v] # None, row'[v].refresh # Blank, ~Mixed(v)'
        PROVE  row'[v].access # Blank /\ grant[row'[v].access] = grant[row'[v].refresh]
    <3>1. CASE v = u
      BY <1>0, <2>3, <3>1 DEF TypeOK, Blank
    <3>2. CASE v # u
      BY <2>3, <3>2 DEF TypeOK, TokenInv, Matched
    <3> QED
      BY <3>1, <3>2
  <2> QED
    BY <2>2, <2>3 DEF Matched
<1>5. OneOwner'
  <2>1. ASSUME NEW v \in User, NEW r \in Rows, Known(v, r), r.refresh = w.refresh, r.refresh # Blank
        PROVE  v = u /\ r.pk = w.pk
    BY <1>3, <2>1 DEF TokenInv, OneOwner, KeepsOne
  <2> QED
    BY <1>2, <2>1 DEF TokenInv, OneOwner
<1>6. HeldAlone'
  <2>1. ASSUME NEW d \in Call, call'[d].at \in Holding
        PROVE  /\ call[d].at \in Holding /\ call[d].pair = call'[d].pair
               /\ call'[d].pair \in redeemable \cup alone
               /\ call'[d].at = "persisting" => call'[d].pair \notin alone
               /\ \A v \in User, r \in Rows : Known(v, r) => r.refresh # call'[d].pair
    <3>1. call[d].at \in Holding /\ call[d].pair = call'[d].pair
      BY <1>1, <2>1
    <3>2. call'[d].at = "persisting" => call[d].at = "persisting"
      BY <1>1, <2>1
    <3> QED
      BY <3>1, <3>2 DEF TokenInv, HeldAlone
  <2>2. ASSUME NEW d \in Call, call'[d].at \in Holding PROVE w.refresh # call'[d].pair
    <3>1. call[d].pair # Blank
      BY <1>0, <2>1, <2>2 DEF Blank
    <3>2. d # c => call[d].pair # call[c].pair
      BY <2>1, <2>2 DEF TokenInv, HeldAlone
    <3>3. w.refresh = call[c].pair => d # c
      BY <1>0, <1>1, <2>2 DEF Blank
    <3> QED
      BY <2>1, <2>2, <3>1, <3>2, <3>3 DEF KeepsOne
  <2>3. ASSUME NEW d \in Call, NEW e \in Call, call'[d].at \in Holding, call'[e].at \in Holding,
               call'[d].pair = call'[e].pair
        PROVE  d = e
    BY <2>1, <2>3 DEF TokenInv, HeldAlone
  <2> QED
    BY <1>2, <2>1, <2>2, <2>3 DEF HeldAlone
<1>7. SameGrant'
  BY <1>1 DEF TokenInv, SameGrant, Holding
<1>8. Accounted'
  <2> SUFFICES ASSUME NEW v \in User, row'[v] # None, row'[v].refresh # Blank, ~Mixed(v)'
               PROVE  \/ row'[v].refresh \in redeemable \cup lost
                      \/ \E d \in Call : /\ call'[d].at = "persisting" /\ call'[d].user = v
                                         /\ call'[d].row.refresh = row'[v].refresh
    BY DEF Accounted
  <2>1. CASE v = u
    BY <1>0, <2>1 DEF TypeOK
  <2>2. CASE v # u
    <3>1. row'[v] = row[v]
      BY <2>2 DEF TypeOK
    <3>2. \A d \in Call : call[d].at = "persisting" /\ call[d].user = v => call'[d] = call[d]
      BY <1>1, <2>2
    <3>3. ~Mixed(v)
      BY <2>2
    <3> QED
      BY <3>1, <3>2, <3>3 DEF TokenInv, Accounted
  <2> QED
    BY <2>1, <2>2
<1> QED
  BY <1>4, <1>5, <1>6, <1>7, <1>8 DEF TokenInv

LEMMA TokenInvHolds == Spec => []TokenInv
<1> USE IntegrationAssumption
<1>1. Init => TokenInv
  <2> SUFFICES ASSUME Init PROVE TokenInv
    OBVIOUS
  <2>1. \A c \in Call : call[c] = Idle
    BY DEF Init
  <2>2. \A u \in User, r \in Rows : ~Known(u, r)
    BY <2>1, IdleFits DEF Init, Known
  <2> QED
    BY <2>1, <2>2, IdleFits DEF Init, TokenInv, Genuine, Matched, OneOwner, HeldAlone, SameGrant, Accounted, Holding
<1>2. ASSUME TypeOK, TypeOK', Placed, Placed', TokenInv, [Next]_vars PROVE TokenInv'
  <2> USE <1>2
  <2>0. /\ Tables /\ issued \in Nat
        /\ \A c \in Call : call[c] \in Calls /\ Fits(call[c], issued)
    BY Typed DEF Placed, Fits, Tables
  <2>1. ASSUME NEW c \in Call, NEW u \in User, NEW first \in {"asking", "checking"}, Ask(c, u, first)
        PROVE  TokenInv'
    <3> DEFINE x == [Idle EXCEPT !.user = u, !.at = first]
    <3>1. x \in Calls /\ x.at = first /\ x.row = None /\ x.todo = {}
      BY DEF Idle, Calls, Kind, Stage, Blank
    <3>2. call' = [call EXCEPT ![c] = x] /\ UNCHANGED tokens /\ call[c].at = "idle"
      BY <2>1 DEF Ask
    <3> HIDE DEF x
    <3> QED
      BY <3>1, <3>2, OneQuiet DEF tokens, Holding
  <2>2. ASSUME NEW c \in Call, CheckToken(c) PROVE TokenInv'
    BY <2>2, QuietMove DEF CheckToken, tokens, Stage, Holding
  <2>3. ASSUME NEW c \in Call, Get(c) PROVE TokenInv'
    <3>1. CASE Return(c) \/ Go(c, "reading")
      BY <2>3, <3>1, QuietMove DEF Get, tokens, Stage, Fetching, Holding
    <3>2. CASE call' = [call EXCEPT ![c].at = "reading", ![c].background = TRUE]
      <4> DEFINE x == [call[c] EXCEPT !.at = "reading", !.background = TRUE]
      <4>1. call[c] \in Calls
        BY <2>0
      <4>2. /\ x \in Calls /\ x.at = "reading" /\ x.user = call[c].user /\ x.row = call[c].row
            /\ x.todo = call[c].todo
        BY <4>1 DEF Calls, Stage, Fetching
      <4>3. call' = [call EXCEPT ![c] = x]
        BY <3>2
      <4> HIDE DEF x
      <4> QED
        BY <2>3, <4>2, <4>3, OneQuiet DEF Get, tokens, Holding
    <3> QED
      BY <2>3, <3>1, <3>2 DEF Get
  <2>4. ASSUME NEW c \in Call, Read(c) PROVE TokenInv'
    <3> DEFINE u == call[c].user
               r == row[u]
    <3>1. UNCHANGED tokens /\ u \in User /\ call[c].at = "reading"
      BY <2>0, <2>4 DEF Read, Fits
    <3>2. call[c] \in Calls /\ r \in Rows \cup {None}
      BY <2>0, <3>1 DEF Tables
    <3>3. CASE r # None /\ r.expired
      <4> DEFINE y == [call[c] EXCEPT !.row = r, !.at = "exchanging"]
      <4>1. y \in Calls /\ y.at = "exchanging" /\ y.user = u /\ y.row = r /\ y.todo = call[c].todo
        BY <3>2 DEF Calls, Stage, Fetching
      <4>2. call' = [call EXCEPT ![c] = y]
        BY <2>4, <3>3 DEF Read
      <4> HIDE DEF y
      <4> QED
        BY <3>1, <4>1, <4>2, OneQuiet DEF tokens, Holding
    <3>4. CASE ~(r # None /\ r.expired)
      <4> DEFINE p == IF r = None THEN Blank ELSE r.access
                 y == [call[c] EXCEPT !.row = r, !.at = "connecting", !.pair = p]
      <4>0. p \in Pair \cup {Blank}
        BY <3>2 DEF Rows
      <4>2. call' = [call EXCEPT ![c] = y]
        BY <2>4, <3>4 DEF Read
      <4> HIDE DEF p
      <4>1. y \in Calls /\ y.at = "connecting" /\ y.user = u /\ y.row = r /\ y.todo = call[c].todo
        BY <3>2, <4>0 DEF Calls, Stage, Fetching
      <4> HIDE DEF y
      <4> QED
        BY <3>1, <4>1, <4>2, OneQuiet DEF tokens, Holding
    <3> QED
      BY <3>3, <3>4
  <2>5. ASSUME NEW c \in Call, Reload(c) \/ Reread(c) PROVE TokenInv'
    <3>1. /\ call[c].user \in User /\ call[c].row \in Rows /\ UNCHANGED tokens
          /\ call[c].at # "persisting"
      BY <2>0, <2>5 DEF Reload, Reread, Fits, Refreshing
    <3>2. CASE Refreshed(c, call[c].row, Blank)
      BY <3>1, <3>2, QuietRefreshed
    <3>3. CASE SameRow(c) /\ Refreshed(c, row[call[c].user], row[call[c].user].access)
      <4>1. row[call[c].user] \in Rows
        BY <2>0, <3>1, <3>3 DEF SameRow, Tables
      <4>2. row[call[c].user].access \in Pair \cup {Blank}
        BY <4>1 DEF Rows
      <4> QED
        BY <3>1, <3>3, <4>1, <4>2, QuietRefreshed
    <3> QED
      BY <2>5, <3>2, <3>3 DEF Reload, Reread
  <2>6. ASSUME NEW c \in Call, Connect(c) PROVE TokenInv'
    BY <2>6, QuietMove DEF Connect, tokens
  <2>7. ASSUME NEW c \in Call, FetchFails(c) PROVE TokenInv'
    <3>1. UNCHANGED <<row, issued, redeemable, alone, grant, mixed>> /\ Return(c)
      BY <2>7 DEF FetchFails, Fail
    <3>2. /\ lost \subseteq lost'
          /\ call[c].at = "persisting" => call[c].row.refresh \in lost'
      BY <2>7 DEF FetchFails
    <3> QED
      BY <3>1, <3>2, QuietMove
  <2>8. ASSUME NEW c \in Call, NEW u \in User, Test(c, u) PROVE TokenInv'
    <3> DEFINE y == [Idle EXCEPT !.user = u, !.at = "checking"]
    <3>1. y \in Calls /\ y.at = "checking" /\ y.row = None /\ y.todo = {}
      BY DEF Idle, Calls, Kind, Stage, Blank
    <3>2. Clear(c, y) /\ UNCHANGED tokens /\ call[c].at = "idle"
      BY <2>8 DEF Test
    <3> HIDE DEF y
    <3> QED
      BY <3>1, <3>2, QuietClear DEF Holding
  <2>9. ASSUME NEW c \in Call, Reconnect(c) PROVE TokenInv'
    BY <2>9, IdleFits, QuietClear DEF Reconnect, Holding
  <2>10. ASSUME NEW c \in Call, Cron(c) PROVE TokenInv'
    <3>1. PICK soon \in SUBSET {u \in User : row[u] # None /\ row[u].access # Blank} :
             call' = [call EXCEPT ![c] = [Idle EXCEPT !.kind = "cron", !.at = "next",
                         !.todo = {[user |-> u, row |-> row[u]] : u \in soon}]]
      BY <2>10 DEF Cron
    <3> DEFINE todo == {[user |-> u, row |-> row[u]] : u \in soon}
               y == [Idle EXCEPT !.kind = "cron", !.at = "next", !.todo = todo]
    <3>2. /\ todo \in SUBSET [user : User, row : Rows]
          /\ todo \subseteq {[user |-> u, row |-> row[u]] : u \in User}
      BY <2>0 DEF Tables
    <3>3. call' = [call EXCEPT ![c] = y] /\ UNCHANGED tokens /\ call[c].at = "idle"
      BY <2>10, <3>1 DEF Cron
    <3> HIDE DEF todo
    <3>4. y \in Calls /\ y.at = "next" /\ y.row = None /\ y.todo = todo
      BY <3>2 DEF Idle, Calls, Kind, Stage, Blank
    <3> HIDE DEF y
    <3> QED
      BY <3>2, <3>3, <3>4, OneQuiet DEF tokens, Holding
  <2>11. ASSUME NEW c \in Call, NextToken(c) PROVE TokenInv'
    <3>1. UNCHANGED tokens /\ call[c] \in Calls /\ call[c].at = "next"
      BY <2>0, <2>11 DEF NextToken
    <3>2. CASE Return(c)
      BY <3>1, <3>2, QuietMove DEF tokens
    <3>3. ASSUME NEW x \in call[c].todo,
                 call' = [call EXCEPT ![c].user = x.user, ![c].row = x.row,
                                      ![c].todo = @ \ {x}, ![c].at = "exchanging"]
          PROVE  TokenInv'
      <4> DEFINE rest == call[c].todo \ {x}
                 y == [call[c] EXCEPT !.user = x.user, !.row = x.row, !.todo = rest, !.at = "exchanging"]
      <4>1. /\ x.user \in User /\ x.row \in Rows /\ rest \in SUBSET [user : User, row : Rows]
            /\ x = [user |-> x.user, row |-> x.row] /\ rest \subseteq call[c].todo
        BY <3>1 DEF Calls
      <4>2. call' = [call EXCEPT ![c] = y]
        BY <2>0, <3>3 DEF Calls
      <4> HIDE DEF rest
      <4>3. y \in Calls /\ y.at = "exchanging" /\ y.user = x.user /\ y.row = x.row /\ y.todo = rest
        BY <3>1, <4>1 DEF Calls, Stage, Fetching
      <4> HIDE DEF y
      <4> QED
        BY <3>1, <4>1, <4>2, <4>3, OneQuiet DEF tokens, Holding
    <3> QED
      BY <2>11, <3>2, <3>3 DEF NextToken
  <2>12. ASSUME NEW c \in Call, Exchange(c) PROVE TokenInv'
    <3> DEFINE r == call[c].row
    <3>1. /\ call[c].user \in User /\ call[c] \in Calls /\ r \in Rows
          /\ UNCHANGED <<row, alone, mixed, health>> /\ call[c].at = "exchanging"
      BY <2>0, <2>12 DEF Exchange, Fits, Refreshing
    <3>2. CASE r.refresh \in redeemable /\ issued < MaxIssued /\ ~UNCHANGED issued
      <4>1. /\ issued' = issued + 1 /\ issued + 1 \in Pair /\ r.refresh \in 1..issued
            /\ grant' = [grant EXCEPT ![issued + 1] = grant[r.refresh]]
        BY <2>0, <2>12, <3>2 DEF Exchange, Tables, Pair
      <4>2. /\ issued + 1 \in redeemable' /\ lost \subseteq lost'
            /\ \A p \in redeemable : p \in redeemable' \/ p = r.refresh
        BY <2>12, <3>2 DEF Exchange
      <4>5. CASE Go(c, "rereading") /\ lost' = lost \cup {r.refresh}
        <5> DEFINE y == [call[c] EXCEPT !.at = "rereading"]
        <5>1. /\ y \in Calls /\ y.at = "rereading" /\ y.user = call[c].user /\ y.row = r
              /\ y.todo = call[c].todo
          BY <3>1 DEF Calls, Stage, Fetching
        <5>2. call' = [call EXCEPT ![c] = y]
          BY <4>5 DEF Go
        <5> HIDE DEF y
        <5> QED
          BY <3>1, <4>1, <4>2, <4>5, <5>1, <5>2, Issued DEF Holding
      <4>6. CASE call' = [call EXCEPT ![c].at = "persisting", ![c].pair = issued + 1]
        <5> DEFINE y == [call[c] EXCEPT !.at = "persisting", !.pair = issued + 1]
        <5>1. /\ y \in Calls /\ y.at = "persisting" /\ y.pair = issued + 1 /\ y.user = call[c].user
              /\ y.row = r /\ y.todo = call[c].todo
          BY <3>1, <4>1 DEF Calls, Stage, Fetching
        <5>2. call' = [call EXCEPT ![c] = y]
          BY <4>6
        <5> HIDE DEF y
        <5> QED
          BY <3>1, <4>1, <4>2, <5>1, <5>2, Issued DEF Holding
      <4> QED
        BY <2>12, <3>2, <4>5, <4>6 DEF Exchange
    <3>3. CASE /\ Go(c, "rereading") \/ Refreshed(c, r, Blank)
               /\ UNCHANGED <<issued, redeemable, grant, lost>>
      <4>1. CASE Go(c, "rereading")
        BY <3>1, <3>3, <4>1, QuietMove DEF Stage, Fetching, Holding
      <4>2. CASE Refreshed(c, r, Blank)
        BY <3>1, <3>3, <4>2, QuietRefreshed DEF tokens
      <4> QED
        BY <3>3, <4>1, <4>2
    <3> QED
      BY <2>0, <2>12, <3>2, <3>3 DEF Exchange, Tables
  <2>13. ASSUME NEW c \in Call, NEW u \in User, Callback(c, u) PROVE TokenInv'
    <3> DEFINE p == issued + 1
               y == [Idle EXCEPT !.kind = "callback", !.user = u, !.at = "creating", !.pair = p]
    <3>1. /\ issued' = issued + 1 /\ p \in Pair /\ UNCHANGED <<row, lost, mixed>>
          /\ redeemable \subseteq redeemable' /\ issued + 1 \in redeemable' \cup alone'
          /\ alone \subseteq alone' /\ alone' \subseteq alone \cup {issued + 1}
          /\ grant' = [grant EXCEPT ![issued + 1] = issued + 1] /\ call[c].at = "idle"
      BY <2>0, <2>13 DEF Callback, Tables, Pair
    <3>2. call' = [call EXCEPT ![c] = y]
      BY <2>13 DEF Callback
    <3>3. y \in Calls /\ y.at = "creating" /\ y.pair = p /\ y.row = None /\ y.todo = {}
      BY <3>1 DEF Idle, Calls, Kind, Stage, Blank
    <3> HIDE DEF y
    <3> QED
      BY <3>1, <3>2, <3>3, Issued DEF Holding
  <2>14. ASSUME NEW c \in Call, Persist(c) PROVE TokenInv'
    <3>1. /\ call[c].user \in User /\ call[c].row \in Rows /\ call[c] \in Calls
          /\ call[c].at = "persisting" /\ call[c].pair \in Pair /\ call[c].pair \notin alone
          /\ UNCHANGED <<issued, redeemable, alone, grant, lost>>
          /\ \A v \in User : Mixed(v)' = Mixed(v)
      BY <2>0, <2>14 DEF Persist, Fits, Refreshing, Holding, Pair, Tables, Mixed, TokenInv, HeldAlone
    <3>2. CASE /\ SameRow(c)
               /\ row' = [row EXCEPT ![call[c].user] = Stored(row[call[c].user], call[c].pair)]
               /\ Refreshed(c, call[c].row, call[c].pair)
      <4> DEFINE w == Stored(row[call[c].user], call[c].pair)
      <4>1. w \in Rows /\ w.access = call[c].pair /\ w.refresh = call[c].pair
        <5>1. row[call[c].user] \in Rows
          BY <2>0, <3>1, <3>2 DEF SameRow, Tables
        <5> QED
          BY <3>1, <5>1, StoredIsARow
      <4>2. CASE call[c].kind = "cron"
        <5> DEFINE y == [Idle EXCEPT !.kind = "cron", !.at = "next", !.todo = call[c].todo]
        <5>1. y \in Calls /\ y.at = "next" /\ y.row = None /\ y.todo = call[c].todo
          BY <3>1 DEF Calls, Idle, Stage, Kind, Blank
        <5>2. call' = [call EXCEPT ![c] = y]
          BY <3>2, <4>2 DEF Refreshed
        <5> HIDE DEF y, w
        <5> QED
          BY <3>1, <3>2, <4>1, <5>1, <5>2, Stores DEF Holding, w
      <4>3. CASE call[c].kind # "cron"
        <5> DEFINE y == [call[c] EXCEPT !.row = call[c].row, !.pair = call[c].pair, !.at = "connecting"]
        <5>1. /\ y \in Calls /\ y.at = "connecting" /\ y.user = call[c].user /\ y.row = call[c].row
              /\ y.todo = call[c].todo
          BY <3>1 DEF Calls, Stage, Fetching
        <5>2. call' = [call EXCEPT ![c] = y]
          BY <3>2, <4>3 DEF Refreshed
        <5> HIDE DEF y, w
        <5> QED
          BY <3>1, <3>2, <4>1, <5>1, <5>2, Stores DEF Holding, w
      <4> QED
        BY <4>2, <4>3
    <3>3. CASE /\ ~(SameRow(c) /\ row[call[c].user].refresh = call[c].row.refresh)
               /\ Go(c, "reloading") /\ UNCHANGED row
      <4> DEFINE y == [call[c] EXCEPT !.at = "reloading"]
      <4>1. y.at = "reloading" /\ y.user = call[c].user /\ y.row = call[c].row /\ y.todo = call[c].todo
        BY <3>1 DEF Calls
      <4>2. \A d \in Call : call'[d] = IF d = c THEN y ELSE call[d]
        BY <3>3 DEF Go, TypeOK
      <4> HIDE DEF y
      <4>3. ASSUME NEW u \in User, NEW r \in Rows, Known(u, r)' PROVE Known(u, r)
        BY <3>3, <4>1, <4>2, <4>3 DEF Known
      <4>4. \A d \in Call : call'[d].at \in Holding => call'[d] = call[d]
        BY <4>1, <4>2 DEF Holding
      <4>5. \A d \in Call : d # c => call'[d] = call[d]
        BY <4>2
      <4> QED
        BY <3>1, <3>3, <4>3, <4>4, <4>5, Quiet DEF Holding
    <3> QED
      BY <2>14, <3>2, <3>3 DEF Persist
  <2>15. ASSUME NEW c \in Call, CreateRow(c) PROVE TokenInv'
    <3> DEFINE u == call[c].user
               w == Fresh(call[c].pair)
               y == [call[c] EXCEPT !.at = "saving", !.row = row'[u]]
    <3>1. /\ u \in User /\ call[c] \in Calls /\ call[c].pair \in Pair
          /\ call[c].at = "creating" /\ UNCHANGED <<issued, redeemable, alone, grant, lost>>
          /\ \A v \in User : Mixed(v)' = Mixed(v)
      BY <2>0, <2>15 DEF CreateRow, Fits, Holding, Pair, Tables, Mixed
    <3>2. w \in Rows /\ w.access = Blank /\ w.refresh = Blank
      BY <3>1 DEF Fresh, Rows
    <3>3. row'[u] = (IF row[u] = None THEN w ELSE row[u]) /\ row'[u] \in Rows
      BY <2>0, <2>15, <3>1, <3>2 DEF CreateRow, Tables, Fresh
    <3>4. call' = [call EXCEPT ![c] = y]
      <4>1. call' = [call EXCEPT ![c].at = "saving", ![c].row = row'[call[c].user]]
        BY <2>15 DEF CreateRow
      <4> QED
        BY <3>1, <4>1 DEF TypeOK, Calls
    <3>5. /\ y \in Calls /\ y.at = "saving" /\ y.row = row'[u] /\ y.user = u
          /\ y.pair = call[c].pair /\ y.todo = call[c].todo
      BY <3>1, <3>3 DEF Calls, Stage
    <3>6. row' = [row EXCEPT ![u] = IF @ = None THEN w ELSE @]
      BY <2>15 DEF CreateRow, Fresh
    <3> HIDE DEF y, w
    <3>7. CASE row[u] = None
      <4>1. row' = [row EXCEPT ![u] = w]
        BY <3>6, <3>7
      <4> QED
        BY <3>1, <3>2, <3>3, <3>4, <3>5, <3>7, <4>1, Stores DEF Holding
    <3>8. CASE row[u] # None
      <4>1. row' = row
        BY <2>0, <3>6, <3>8 DEF Tables
      <4>2. \A d \in Call : call'[d] = IF d = c THEN y ELSE call[d]
        BY <3>4 DEF TypeOK
      <4>3. ASSUME NEW v \in User, NEW r \in Rows, Known(v, r)' PROVE Known(v, r)
        BY <3>5, <4>1, <4>2, <4>3 DEF Known
      <4> QED
        BY <3>1, <3>5, <4>1, <4>2, <4>3, Quiet DEF Holding
    <3> QED
      BY <3>7, <3>8
  <2>16. ASSUME NEW c \in Call, SaveToken(c) PROVE TokenInv'
    <3> DEFINE y == [Idle EXCEPT !.kind = "callback", !.user = call[c].user, !.at = "clearing"]
               w == Stored(call[c].row, call[c].pair)
               keeps == call[c].pair \in alone /\ call[c].row.refresh # Blank
    <3>1. /\ call[c].user \in User /\ call[c].row \in Rows /\ call[c].pair \in Pair
          /\ call[c].at = "saving" /\ UNCHANGED <<issued, redeemable, alone, grant, lost>>
          /\ Known(call[c].user, call[c].row)
      BY <2>0, <2>16 DEF SaveToken, Fits, Holding, Pair, Tables, Known
    <3>2. PICK u \in User : u = call[c].user
      BY <3>1
    <3>3. CASE /\ row' = [row EXCEPT ![call[c].user] = w] /\ call' = [call EXCEPT ![c] = y]
               /\ mixed' = IF keeps THEN mixed \cup {call[c].user} ELSE mixed \ {call[c].user}
      <4>1. /\ w \in Rows /\ w.access = call[c].pair /\ w.pk = call[c].row.pk
            /\ w.refresh = IF call[c].pair \in alone THEN call[c].row.refresh ELSE call[c].pair
        BY <3>1, StoredIsARow
      <4>2. y \in Calls /\ y.at = "clearing" /\ y.row = None /\ y.todo = {}
        BY <3>1 DEF Idle, Calls, Kind, Stage, Blank
      <4>3. /\ \A v \in User \ {u} : Mixed(v)' = Mixed(v)
            /\ keeps => Mixed(u)'
        BY <3>3, <3>2 DEF Mixed
      <4> HIDE DEF y, w
      <4>4. \/ w.refresh = Blank
            \/ w.refresh = call[c].pair /\ call[c].pair \notin alone
            \/ /\ Mixed(u)'
               /\ KeepsOne(u, w)
        <5>1. CASE call[c].pair \notin alone
          BY <4>1, <5>1
        <5>2. CASE call[c].pair \in alone
          BY <3>1, <3>2, <4>1, <4>3, <5>2 DEF KeepsOne
        <5> QED
          BY <5>1, <5>2
      <4>5. /\ w.access \in {Blank, call[c].pair} /\ call[c].at \in Holding /\ y.at \notin Holding
            /\ call[c].at # "persisting"
        BY <3>1, <4>1, <4>2 DEF Holding
      <4>6. \/ w.refresh = Blank
            \/ w.refresh = call[c].pair /\ w.access = call[c].pair /\ call[c].pair \notin alone
            \/ /\ Mixed(u)'
               /\ KeepsOne(u, w)
        BY <4>1, <4>4
      <4>7. y.todo \subseteq call[c].todo
        BY <4>2
      <4>8. call' = [call EXCEPT ![c] = y] /\ row' = [row EXCEPT ![u] = w]
        BY <3>3, <3>2
      <4>9. \A v \in User \ {u} : Mixed(v)' = Mixed(v)
        BY <4>3
      <4> HIDE DEF keeps
      <4> QED
        BY <3>1, <4>1, <4>2, <4>5, <4>6, <4>7, <4>8, <4>9, Stores
    <3>4. CASE Return(c) /\ UNCHANGED <<row, mixed>>
      BY <3>1, <3>4, QuietMove
    <3> QED
      BY <2>16, <3>3, <3>4 DEF SaveToken
  <2>17. ASSUME NEW c \in Call, NEW u \in User, Disconnect(c, u) PROVE TokenInv'
    <3> DEFINE y == [Idle EXCEPT !.kind = "disconnect", !.user = u, !.at = "clearing"]
    <3>1. /\ call' = [call EXCEPT ![c] = y] /\ row' = [row EXCEPT ![u] = None]
          /\ call[c].at = "idle" /\ UNCHANGED <<issued, redeemable, alone, grant, lost>>
          /\ \A v \in User \ {u} : Mixed(v)' = Mixed(v)
      BY <2>17 DEF Disconnect, Mixed
    <3>2. y.at = "clearing" /\ y.row = None /\ y.todo = {}
      BY DEF Idle
    <3> HIDE DEF y
    <3>3. \A d \in Call : call'[d] = IF d = c THEN y ELSE call[d]
      BY <3>1 DEF TypeOK
    <3>4. \A v \in User : row'[v] = IF v = u THEN None ELSE row[v]
      BY <3>1 DEF TypeOK
    <3>5. ASSUME NEW v \in User, NEW r \in Rows, Known(v, r)' PROVE Known(v, r)
      BY <3>2, <3>3, <3>4, <3>5 DEF Known
    <3> QED
      BY <3>1, <3>2, <3>3, <3>4, <3>5, Quiet DEF Holding
  <2>18. ASSUME NEW u \in User, Lapse(u) PROVE TokenInv'
    <3> DEFINE w == [row[u] EXCEPT !.expired = TRUE]
    <3>1. /\ row[u] \in Rows /\ row[u] # None /\ row' = [row EXCEPT ![u] = w]
          /\ UNCHANGED <<issued, redeemable, alone, grant, lost, call>>
          /\ \A v \in User : Mixed(v)' = Mixed(v)
      BY <2>0, <2>18 DEF Lapse, Tables, Mixed
    <3>2. w.pk = row[u].pk /\ w.access = row[u].access /\ w.refresh = row[u].refresh
      BY <3>1 DEF Rows
    <3> HIDE DEF w
    <3>3. \A v \in User : row'[v] = IF v = u THEN w ELSE row[v]
      BY <3>1 DEF TypeOK
    <3>4. ASSUME NEW v \in User, NEW r \in Rows, Known(v, r)'
          PROVE  Known(v, r) \/ (v = u /\ r = w /\ Known(u, row[u]))
      BY <3>1, <3>3, <3>4 DEF Known
    <3> QED
      BY <3>1, <3>2, <3>3, <3>4, Quiet
  <2>19. CASE UNCHANGED <<tokens, call>>
    BY <2>19, Quiet DEF tokens, Known, Mixed
  <2> QED
    BY <2>1, <2>2, <2>3, <2>4, <2>5, <2>6, <2>7, <2>8, <2>9, <2>10, <2>11, <2>12, <2>13, <2>14,
       <2>15, <2>16, <2>17, <2>18, <2>19 DEF Next, Progress, Expire, Cooldown, vars, tokens
<1> QED
  BY <1>1, <1>2, TypesHold, PTL DEF Spec

\* For any number of users and overlapping calls: a user whose stored refresh
\* token is refused, although no call is about to store another, lost the answer
\* of a refresh.
THEOREM OnlyALossStrands == Spec => []OnlyLossStrands
<1>1. TypeOK /\ TokenInv => OnlyLossStrands
  BY DEF TokenInv, Accounted, OnlyLossStrands, Storing
<1> QED
  BY <1>1, TypesHold, TokenInvHolds, PTL

-----------------------------------------------------------------------------
\* A pair keeps the grant it was issued with.
LEMMA GrantsStay ==
    ASSUME TypeOK, Placed, TokenInv, [Next]_vars
    PROVE  \A n \in 1..issued : grant'[n] = grant[n]
<1> USE IntegrationAssumption
<1>1. issued \in Nat /\ grant \in [Pair -> 0..MaxIssued] /\ 1..issued \subseteq Pair
  BY DEF TypeOK, Pair
<1>2. grant' = grant \/ \E g : grant' = [grant EXCEPT ![issued + 1] = g]
  BY DEF Next, Progress, Ask, CheckToken, Get, Read, Exchange, Persist, Reload, Reread, Connect,
         CreateRow, SaveToken, Reconnect, NextToken, FetchFails, Fail, Cron, Test, Callback,
         Disconnect, Lapse, Expire, Cooldown, tokens, vars
<1> QED
  BY <1>1, <1>2

\* So does every row a call or the table has.
LEMMA RowsKeepTheirGrant ==
    ASSUME TypeOK, Placed, TokenInv, [Next]_vars, NEW u \in User, NEW r \in Rows, Known(u, r)
    PROVE  GrantOf(r)' = GrantOf(r)
<1>1. r.access \in 0..issued /\ issued \in Nat
  BY DEF TokenInv, Genuine, TypeOK
<1>2. r.access # Blank => r.access \in 1..issued
  BY <1>1 DEF Blank
<1> QED
  BY <1>2, GrantsStay DEF GrantOf

\* Only a callback and a disconnect change the grant of a user's row that is not
\* mixed.
LEMMA GrantOfRow ==
    ASSUME TypeOK, TypeOK', Placed, TokenInv, [Next]_vars, NEW u \in User, ~Mixed(u)
    PROVE  \/ GrantOf(row[u])' = GrantOf(row[u]) /\ (row'[u] # None => row[u] # None)
           \/ \E c \in Call : CreateRow(c) /\ call[c].user = u
           \/ \E c \in Call : SaveToken(c) /\ call[c].user = u
           \/ \E c \in Call : Disconnect(c, u)
<1> USE IntegrationAssumption
<1>0. row[u] # None => row[u] \in Rows /\ Known(u, row[u])
  BY DEF TypeOK, Known
<1>1. CASE row'[u] = row[u]
  <2>1. CASE row[u] = None
    BY <1>1, <2>1 DEF GrantOf
  <2>2. CASE row[u] # None
    <3>1. row[u].access # Blank => grant'[row[u].access] = grant[row[u].access]
      <4>1. row[u].access # Blank => row[u].access \in 1..issued
        BY <1>0, <2>2 DEF TokenInv, Genuine, TypeOK, Blank
      <4> QED
        BY <4>1, GrantsStay
    <3> QED
      BY <1>1, <2>2, <3>1 DEF GrantOf
  <2> QED
    BY <2>1, <2>2
<1>2. ASSUME row'[u] # row[u], NEW c \in Call, Persist(c)
      PROVE  GrantOf(row[u])' = GrantOf(row[u]) /\ row[u] # None
  <2>1. /\ call[c].user \in User /\ SameRow(c) /\ row[call[c].user].refresh = call[c].row.refresh
        /\ row' = [row EXCEPT ![call[c].user] = Stored(@, call[c].pair)]
        /\ grant' = grant /\ call[c].at = "persisting"
    BY <1>2 DEF Persist, Placed
  <2>2. u = call[c].user
    BY <1>2, <2>1 DEF TypeOK
  <2>3. row[u] # None /\ row[u].refresh = call[c].row.refresh
    BY <2>1, <2>2 DEF SameRow
  <2>4. grant[call[c].pair] = grant[call[c].row.refresh] /\ call[c].pair \in 1..issued
        /\ call[c].row.refresh \in 1..issued /\ issued \in Nat /\ call[c].row \in Rows
    BY <2>1 DEF TokenInv, SameGrant, Placed, Holding, Refreshing, TypeOK
  <2>5. row'[u].access = call[c].pair /\ row'[u] # None
    <3>1. call[c].pair \in Pair
      BY <2>4 DEF TypeOK, Pair
    <3>2. /\ Stored(row[u], call[c].pair) \in Rows
          /\ Stored(row[u], call[c].pair).access = call[c].pair
      BY <1>0, <2>3, <3>1, StoredIsARow
    <3>3. row'[u] = Stored(row[u], call[c].pair)
      BY <2>1, <2>2 DEF TypeOK
    <3> QED
      BY <3>2, <3>3
  <2>6. call[c].pair # Blank /\ call[c].row.refresh # Blank
    BY <2>4 DEF Blank
  <2>7. row[u].access # Blank /\ grant[row[u].access] = grant[row[u].refresh]
    BY <2>3, <2>6 DEF TokenInv, Matched
  <2> QED
    BY <2>1, <2>3, <2>4, <2>5, <2>6, <2>7 DEF GrantOf
<1>3. ASSUME row'[u] # row[u], NEW v \in User, Lapse(v)
      PROVE  GrantOf(row[u])' = GrantOf(row[u]) /\ row[u] # None
  <2>1. v = u /\ row[u] # None /\ row'[u] = [row[u] EXCEPT !.expired = TRUE] /\ grant' = grant
    BY <1>3 DEF Lapse, TypeOK
  <2>2. row'[u].access = row[u].access /\ row'[u] \in Rows
    BY <1>0, <2>1 DEF Rows
  <2> QED
    BY <2>1, <2>2 DEF GrantOf
<1>4. ASSUME row'[u] # row[u], NEW c \in Call, CreateRow(c) \/ SaveToken(c)
      PROVE  call[c].user = u
  BY <1>4 DEF CreateRow, SaveToken, TypeOK
<1>5. ASSUME row'[u] # row[u], NEW c \in Call, NEW v \in User, Disconnect(c, v)
      PROVE  u = v
  BY <1>5 DEF Disconnect, TypeOK
<1>6. CASE row' # row
  <2>1. \/ \E c \in Call : Persist(c) \/ CreateRow(c) \/ SaveToken(c) \/ \E v \in User : Disconnect(c, v)
        \/ \E v \in User : Lapse(v)
    BY <1>6 DEF Next, Progress, Ask, CheckToken, Get, Read, Exchange, Reload, Reread, Connect,
         Reconnect, NextToken, FetchFails, Fail, Cron, Test, Callback, Expire, Cooldown, tokens, vars
  <2> QED
    BY <1>1, <1>2, <1>3, <1>4, <1>5, <2>1
<1> QED
  BY <1>1, <1>6

\* For any provider and any overlap: no refresh puts the tokens of an older
\* authorization in the place of a newer one's, or brings back what a
\* disconnect removed, unless a re-authorization that gave no refresh token has
\* left the older one's beside its access token.
THEOREM NewerGrantAlwaysWins == Spec => NewerGrantWins
<1> USE IntegrationAssumption
<1> DEFINE Step ==
        \A u \in User :
          row'[u] # None /\ ~Mixed(u)
             /\ (row[u] # None => GrantOf(row[u])' # GrantOf(row[u])) =>
             \E c \in Call : /\ call[c].user = u /\ call[c].at \in {"creating", "saving"}
                            /\ row'[u].access \in {Blank, call[c].pair}
<1>1. ASSUME TypeOK, TypeOK', Placed, TokenInv, Next PROVE Step
  <2> USE <1>1
  <2> SUFFICES ASSUME NEW u \in User, row'[u] # None, ~Mixed(u),
                      row[u] # None => GrantOf(row[u])' # GrantOf(row[u])
               PROVE  \E c \in Call : /\ call[c].user = u /\ call[c].at \in {"creating", "saving"}
                                     /\ row'[u].access \in {Blank, call[c].pair}
    OBVIOUS
  <2>1. ASSUME NEW c \in Call, CreateRow(c), call[c].user = u
        PROVE  call[c].at = "creating" /\ row'[u].access \in {Blank, call[c].pair}
    <3>1. row[u] # None => row'[u] = row[u] /\ grant' = grant
      BY <2>1 DEF CreateRow, TypeOK
    <3>2. row[u] = None
      BY <3>1 DEF GrantOf
    <3>3. row'[u] = Fresh(call[c].pair)
      BY <2>1, <3>2 DEF CreateRow, TypeOK, Fresh
    <3> QED
      BY <2>1, <3>3 DEF CreateRow, Fresh
  <2>2. ASSUME NEW c \in Call, SaveToken(c), call[c].user = u
        PROVE  call[c].at = "saving" /\ row'[u].access \in {Blank, call[c].pair}
    <3>1. CASE row' = row
      BY <1>1, <2>2, <3>1 DEF SaveToken, GrantOf
    <3>2. CASE row' = [row EXCEPT ![u] = Stored(call[c].row, call[c].pair)]
      <4>1. row'[u] = Stored(call[c].row, call[c].pair)
        BY <3>2 DEF TypeOK
      <4>2. call[c].row \in Rows /\ call[c].pair \in Pair
        BY <2>2 DEF SaveToken, Placed, Holding, TypeOK, Pair
      <4> QED
        BY <2>2, <4>1, <4>2, StoredIsARow DEF SaveToken
    <3> QED
      BY <2>2, <3>1, <3>2 DEF SaveToken
  <2>3. ASSUME NEW c \in Call, Disconnect(c, u) PROVE FALSE
    BY <2>3 DEF Disconnect, TypeOK
  <2>4. ~(GrantOf(row[u])' = GrantOf(row[u]) /\ (row'[u] # None => row[u] # None))
    OBVIOUS
  <2>5. \E c \in Call : (CreateRow(c) \/ SaveToken(c)) /\ call[c].user = u
    BY <2>3, <2>4, GrantOfRow
  <2> QED
    BY <2>1, <2>2, <2>5
<1>2. TypeOK /\ TypeOK' /\ Placed /\ TokenInv /\ [Next]_vars => [Step]_vars
  BY <1>1
<1> QED
  BY <1>2, TypesHold, TokenInvHolds, PTL DEF Spec, NewerGrantWins

-----------------------------------------------------------------------------
\* What a call does keeps fitting where it is.
LEMMA KindsFit ==
    ASSUME TypeOK, KindFits, [Next]_vars PROVE KindFits'
<1> USE IntegrationAssumption
<1>0. \A c \in Call : call[c] \in Calls
  BY DEF TypeOK, Calls
<1>1. ASSUME NEW c \in Call, NEW x, call' = [call EXCEPT ![c] = x],
             x.at \in {"asking", "checking", "reading", "connecting"} => x.kind = "fetch",
             x.at \in Refreshing => x.kind \in {"fetch", "cron"},
             x.at = "next" => x.kind = "cron"
      PROVE  KindFits'
  <2>1. \A d \in Call : call'[d] = IF d = c THEN x ELSE call[d]
    BY <1>1 DEF TypeOK
  <2> QED
    BY <1>1, <2>1 DEF KindFits
<1>2. ASSUME NEW c \in Call, NEW stage, Go(c, stage),
             stage \in {"asking", "checking", "reading", "connecting"} => call[c].kind = "fetch",
             stage \in Refreshing => call[c].kind \in {"fetch", "cron"},
             stage # "next"
      PROVE  KindFits'
  <2> DEFINE x == [call[c] EXCEPT !.at = stage]
  <2>1. x.at = stage /\ x.kind = call[c].kind
    BY <1>0 DEF Calls
  <2>2. call' = [call EXCEPT ![c] = x]
    BY <1>2 DEF Go
  <2> HIDE DEF x
  <2> QED
    BY <1>1, <1>2, <2>1, <2>2
<1>3. ASSUME NEW c \in Call, Return(c) PROVE KindFits'
  BY <1>1, <1>3, IdleFits DEF Return, Refreshing
<1>4. ASSUME NEW c \in Call, NEW r, NEW p, Refreshed(c, r, p), call[c].at \in Refreshing PROVE KindFits'
  <2>1. CASE call[c].kind = "cron"
    <3> DEFINE y == [Idle EXCEPT !.kind = "cron", !.at = "next", !.todo = call[c].todo]
    <3>1. y.at = "next" /\ y.kind = "cron"
      BY DEF Idle
    <3>2. call' = [call EXCEPT ![c] = y]
      BY <1>4, <2>1 DEF Refreshed
    <3> HIDE DEF y
    <3> QED
      BY <1>1, <3>1, <3>2 DEF Refreshing
  <2>2. CASE call[c].kind # "cron"
    <3> DEFINE y == [call[c] EXCEPT !.row = r, !.pair = p, !.at = "connecting"]
    <3>1. y.at = "connecting" /\ y.kind = call[c].kind /\ call[c].kind = "fetch"
      BY <1>0, <1>4, <2>2 DEF Calls, KindFits
    <3>2. call' = [call EXCEPT ![c] = y]
      BY <1>4, <2>2 DEF Refreshed
    <3> HIDE DEF y
    <3> QED
      BY <1>1, <3>1, <3>2 DEF Refreshing
  <2> QED
    BY <2>1, <2>2
<1>5. ASSUME NEW c \in Call, NEW after, Clear(c, after), after.kind = "fetch",
             after.at \in {"idle", "checking"}
      PROVE  KindFits'
  <2>1. \A d \in Call : d # c => call'[d].at = call[d].at /\ call'[d].kind = call[d].kind
    BY <1>0, <1>5 DEF Clear, Calls
  <2>2. call'[c] = after
    BY <1>5 DEF Clear
  <2> QED
    BY <1>5, <2>1, <2>2 DEF KindFits, Refreshing
<1>6. ASSUME NEW c \in Call, NEW u \in User, NEW first \in {"asking", "checking"}, Ask(c, u, first)
      PROVE  KindFits'
  <2> DEFINE x == [Idle EXCEPT !.user = u, !.at = first]
  <2>1. x.at = first /\ x.kind = "fetch"
    BY DEF Idle
  <2>2. call' = [call EXCEPT ![c] = x]
    BY <1>6 DEF Ask
  <2> HIDE DEF x
  <2> QED
    BY <1>1, <2>1, <2>2 DEF Refreshing
<1>7. ASSUME NEW c \in Call, CheckToken(c) PROVE KindFits'
  BY <1>2, <1>3, <1>7 DEF CheckToken, KindFits, Refreshing
<1>8. ASSUME NEW c \in Call, Get(c) PROVE KindFits'
  <2>1. call[c].kind = "fetch"
    BY <1>8 DEF Get, KindFits
  <2>2. CASE call' = [call EXCEPT ![c].at = "reading", ![c].background = TRUE]
    <3> DEFINE x == [call[c] EXCEPT !.at = "reading", !.background = TRUE]
    <3>1. x.at = "reading" /\ x.kind = "fetch"
      BY <1>0, <2>1 DEF Calls
    <3>2. call' = [call EXCEPT ![c] = x]
      BY <2>2
    <3> HIDE DEF x
    <3> QED
      BY <1>1, <3>1, <3>2 DEF Refreshing
  <2>3. CASE Return(c) \/ Go(c, "reading")
    BY <1>2, <1>3, <2>1, <2>3 DEF Refreshing
  <2> QED
    BY <1>8, <2>2, <2>3 DEF Get
<1>9. ASSUME NEW c \in Call, Read(c) PROVE KindFits'
  <2> DEFINE r == row[call[c].user]
  <2>1. call[c].kind = "fetch"
    BY <1>9 DEF Read, KindFits
  <2>2. CASE r # None /\ r.expired
    <3> DEFINE y == [call[c] EXCEPT !.row = r, !.at = "exchanging"]
    <3>1. y.at = "exchanging" /\ y.kind = "fetch"
      BY <1>0, <2>1 DEF Calls
    <3>2. call' = [call EXCEPT ![c] = y]
      BY <1>9, <2>2 DEF Read
    <3> HIDE DEF y
    <3> QED
      BY <1>1, <3>1, <3>2 DEF Refreshing
  <2>3. CASE ~(r # None /\ r.expired)
    <3> DEFINE y == [call[c] EXCEPT !.row = r, !.at = "connecting",
                                    !.pair = IF r = None THEN Blank ELSE r.access]
    <3>1. y.at = "connecting" /\ y.kind = "fetch"
      BY <1>0, <2>1 DEF Calls
    <3>2. call' = [call EXCEPT ![c] = y]
      BY <1>9, <2>3 DEF Read
    <3> HIDE DEF y
    <3> QED
      BY <1>1, <3>1, <3>2 DEF Refreshing
  <2> QED
    BY <2>2, <2>3
<1>10. ASSUME NEW c \in Call, Exchange(c) PROVE KindFits'
  <2>1. call[c].kind \in {"fetch", "cron"}
    BY <1>10 DEF Exchange, KindFits, Refreshing
  <2>2. CASE Go(c, "rereading")
    BY <1>2, <2>1, <2>2
  <2>3. CASE call' = [call EXCEPT ![c].at = "persisting", ![c].pair = issued + 1]
    <3> DEFINE y == [call[c] EXCEPT !.at = "persisting", !.pair = issued + 1]
    <3>1. y.at = "persisting" /\ y.kind = call[c].kind
      BY <1>0 DEF Calls
    <3>2. call' = [call EXCEPT ![c] = y]
      BY <2>3
    <3> HIDE DEF y
    <3> QED
      BY <1>1, <2>1, <3>1, <3>2
  <2>4. CASE Refreshed(c, call[c].row, Blank)
    BY <1>4, <1>10, <2>4 DEF Exchange, Refreshing
  <2> QED
    BY <1>10, <2>2, <2>3, <2>4 DEF Exchange
<1>11. ASSUME NEW c \in Call, Persist(c) \/ Reload(c) \/ Reread(c) PROVE KindFits'
  <2>1. call[c].at \in Refreshing /\ call[c].kind \in {"fetch", "cron"}
    BY <1>11 DEF Persist, Reload, Reread, KindFits, Refreshing
  <2>2. CASE Go(c, "reloading")
    BY <1>2, <2>1, <2>2
  <2>3. ASSUME NEW r, NEW p, Refreshed(c, r, p) PROVE KindFits'
    BY <1>4, <2>1, <2>3
  <2> QED
    BY <1>11, <2>2, <2>3 DEF Persist, Reload, Reread
<1>12. ASSUME NEW c \in Call, Connect(c) \/ FetchFails(c) PROVE KindFits'
  BY <1>3, <1>12 DEF Connect, FetchFails, Fail
<1>13. ASSUME NEW c \in Call, NEW u \in User, Test(c, u) PROVE KindFits'
  <2> DEFINE y == [Idle EXCEPT !.user = u, !.at = "checking"]
  <2>1. y.at = "checking" /\ y.kind = "fetch"
    BY DEF Idle
  <2>2. Clear(c, y)
    BY <1>13 DEF Test
  <2> HIDE DEF y
  <2> QED
    BY <1>5, <2>1, <2>2
<1>14. ASSUME NEW c \in Call, Reconnect(c) PROVE KindFits'
  BY <1>5, <1>14, IdleFits DEF Reconnect
<1>15. ASSUME NEW c \in Call, NEW u \in User, Callback(c, u) PROVE KindFits'
  <2> DEFINE y == [Idle EXCEPT !.kind = "callback", !.user = u, !.at = "creating", !.pair = issued + 1]
  <2>1. y.at = "creating"
    BY DEF Idle
  <2>2. call' = [call EXCEPT ![c] = y]
    BY <1>15 DEF Callback
  <2> HIDE DEF y
  <2> QED
    BY <1>1, <2>1, <2>2 DEF Refreshing
<1>16. ASSUME NEW c \in Call, CreateRow(c) PROVE KindFits'
  <2> DEFINE y == [call[c] EXCEPT !.at = "saving", !.row = row'[call[c].user]]
  <2>1. y.at = "saving"
    BY <1>0 DEF Calls
  <2>2. call' = [call EXCEPT ![c] = y]
    <3>1. call' = [call EXCEPT ![c].at = "saving", ![c].row = row'[call[c].user]]
      BY <1>16 DEF CreateRow
    <3> QED
      BY <3>1, <1>0 DEF TypeOK, Calls
  <2> HIDE DEF y
  <2> QED
    BY <1>1, <2>1, <2>2 DEF Refreshing
<1>17. ASSUME NEW c \in Call, SaveToken(c) PROVE KindFits'
  <2> DEFINE y == [Idle EXCEPT !.kind = "callback", !.user = call[c].user, !.at = "clearing"]
  <2>1. y.at = "clearing"
    BY DEF Idle
  <2>2. Return(c) \/ call' = [call EXCEPT ![c] = y]
    BY <1>17 DEF SaveToken
  <2> HIDE DEF y
  <2> QED
    BY <1>1, <1>3, <2>1, <2>2 DEF Refreshing
<1>18. ASSUME NEW c \in Call, NEW u \in User, Disconnect(c, u) PROVE KindFits'
  <2> DEFINE y == [Idle EXCEPT !.kind = "disconnect", !.user = u, !.at = "clearing"]
  <2>1. y.at = "clearing"
    BY DEF Idle
  <2>2. call' = [call EXCEPT ![c] = y]
    BY <1>18 DEF Disconnect
  <2> HIDE DEF y
  <2> QED
    BY <1>1, <2>1, <2>2 DEF Refreshing
<1>19. ASSUME NEW c \in Call, Cron(c) PROVE KindFits'
  <2>1. PICK todo : call' = [call EXCEPT ![c] = [Idle EXCEPT !.kind = "cron", !.at = "next", !.todo = todo]]
    BY <1>19 DEF Cron
  <2> DEFINE y == [Idle EXCEPT !.kind = "cron", !.at = "next", !.todo = todo]
  <2>2. y.at = "next" /\ y.kind = "cron"
    BY DEF Idle
  <2>3. call' = [call EXCEPT ![c] = y]
    BY <2>1
  <2> HIDE DEF y
  <2> QED
    BY <1>1, <2>2, <2>3 DEF Refreshing
<1>20. ASSUME NEW c \in Call, NextToken(c) PROVE KindFits'
  <2>1. call[c].kind = "cron"
    BY <1>20 DEF NextToken, KindFits
  <2>2. ASSUME NEW x \in call[c].todo,
               call' = [call EXCEPT ![c].user = x.user, ![c].row = x.row,
                                    ![c].todo = @ \ {x}, ![c].at = "exchanging"]
        PROVE  KindFits'
    <3> DEFINE y == [call[c] EXCEPT !.user = x.user, !.row = x.row, !.todo = @ \ {x}, !.at = "exchanging"]
    <3>1. y.at = "exchanging" /\ y.kind = "cron"
      BY <1>0, <2>1 DEF Calls
    <3>2. call' = [call EXCEPT ![c] = y]
      BY <1>0, <2>2 DEF Calls, TypeOK
    <3> HIDE DEF y
    <3> QED
      BY <1>1, <3>1, <3>2
  <2> QED
    BY <1>3, <1>20, <2>2 DEF NextToken
<1>21. ASSUME call' = call PROVE KindFits'
  BY <1>21 DEF KindFits
<1> QED
  BY <1>6, <1>7, <1>8, <1>9, <1>10, <1>11, <1>12, <1>13, <1>14, <1>15, <1>16, <1>17, <1>18,
     <1>19, <1>20, <1>21 DEF Next, Progress, Lapse, Expire, Cooldown, vars

\* A fetch that will cache what it gets keeps its copy, or has just made one.
LEMMA CopiesFit ==
    ASSUME TypeOK, Placed, KindFits, [Next]_vars, NEW c \in Call, Caching(c)'
    PROVE  /\ call[c].user \in User /\ call'[c].user = call[c].user
           /\ \/ Caching(c) /\ call'[c].row = call[c].row
              \/ call'[c].row = row[call[c].user] /\ row' = row
<1> USE IntegrationAssumption
<1> DEFINE Kept == Caching(c) /\ call'[c].row = call[c].row
           Made == call'[c].row = row[call[c].user] /\ row' = row
           Goal == /\ call[c].user \in User /\ call'[c].user = call[c].user
                   /\ Kept \/ Made
<1>0. \A d \in Call : call[d] \in Calls
  BY DEF TypeOK, Calls
<1>1. call'[c] = call[c] => Goal
  BY DEF Caching, Fetches, Fetching, Placed
<1>2. ASSUME NEW d \in Call, NEW x, call' = [call EXCEPT ![d] = x], c # d PROVE Goal
  BY <1>1, <1>2 DEF TypeOK
<1>3. ASSUME NEW x, call' = [call EXCEPT ![c] = x]
      PROVE  x.kind = "fetch" /\ x.at \in Fetching \ {"reading"} /\ ~x.raced /\ call'[c] = x
  <2>1. call'[c] = x
    BY <1>3 DEF TypeOK
  <2> QED
    BY <2>1 DEF Caching, Fetches
<1>4. ~Return(c)
  BY <1>3, IdleFits DEF Return, Fetching
<1>5. ASSUME NEW d \in Call, Return(d) PROVE Goal
  BY <1>2, <1>4, <1>5 DEF Return
<1>6. ASSUME NEW d \in Call, NEW stage, Go(d, stage) PROVE c = d => stage \in Fetching \ {"reading"}
  <2> SUFFICES ASSUME c = d PROVE stage \in Fetching \ {"reading"}
    OBVIOUS
  <2> DEFINE y == [call[c] EXCEPT !.at = stage]
  <2>1. y.at = stage
    BY <1>0 DEF Calls
  <2>2. call' = [call EXCEPT ![c] = y]
    BY <1>6 DEF Go
  <2> HIDE DEF y
  <2> QED
    BY <1>3, <2>1, <2>2
<1>7. ASSUME NEW d \in Call, NEW stage, Go(d, stage), call[d].at \in Fetching \ {"reading"} PROVE Goal
  <2> DEFINE y == [call[d] EXCEPT !.at = stage]
  <2>1. y.user = call[d].user /\ y.row = call[d].row /\ y.kind = call[d].kind /\ y.raced = call[d].raced
    BY <1>0 DEF Calls
  <2>2. call' = [call EXCEPT ![d] = y]
    BY <1>7 DEF Go
  <2> HIDE DEF y
  <2>3. CASE c = d
    BY <1>3, <1>7, <2>1, <2>2, <2>3 DEF Caching, Fetches, Placed, Fetching
  <2> QED
    BY <1>2, <2>2, <2>3
<1>8. ASSUME NEW d \in Call, NEW r, NEW p, Refreshed(d, r, p), call[d].at \in Refreshing,
             r = call[d].row \/ (r = row[call[d].user] /\ row' = row)
      PROVE  Goal
  <2>1. CASE call[d].kind = "cron"
    <3> DEFINE y == [Idle EXCEPT !.kind = "cron", !.at = "next", !.todo = call[d].todo]
    <3>1. y.at = "next" /\ call' = [call EXCEPT ![d] = y]
      BY <1>8, <2>1 DEF Refreshed, Idle
    <3> HIDE DEF y
    <3> QED
      BY <1>2, <1>3, <3>1 DEF Fetching
  <2>2. CASE call[d].kind # "cron"
    <3> DEFINE y == [call[d] EXCEPT !.row = r, !.pair = p, !.at = "connecting"]
    <3>1. y.user = call[d].user /\ y.row = r /\ y.kind = call[d].kind /\ y.raced = call[d].raced
      BY <1>0 DEF Calls
    <3>2. call' = [call EXCEPT ![d] = y]
      BY <1>8, <2>2 DEF Refreshed
    <3> HIDE DEF y
    <3>3. CASE c = d
      BY <1>3, <1>8, <3>1, <3>2, <3>3 DEF Caching, Fetches, Placed, Refreshing, Fetching
    <3> QED
      BY <1>2, <3>2, <3>3
  <2> QED
    BY <2>1, <2>2
<1>9. ASSUME NEW d \in Call, NEW after, Clear(d, after), after.at \notin Fetching PROVE FALSE
  <2>1. CASE c = d
    BY <1>9, <2>1 DEF Clear, Caching, Fetches
  <2>2. CASE c # d
    <3> DEFINE b == call[c].raced \/ Fetches(c)
    <3>1. call'[c] = [call[c] EXCEPT !.raced = b]
      BY <1>0, <1>9, <2>2 DEF Clear, Calls
    <3>2. call'[c].kind = call[c].kind /\ call'[c].at = call[c].at /\ (call'[c].raced = b)
      BY <1>0, <3>1 DEF Calls
    <3> QED
      BY <3>2 DEF Caching, Fetches
  <2> QED
    BY <2>1, <2>2
<1>10. ASSUME NEW d \in Call, NEW u \in User, NEW first \in {"asking", "checking"}, Ask(d, u, first)
       PROVE  Goal
  <2> DEFINE x == [Idle EXCEPT !.user = u, !.at = first]
  <2>1. x.at = first /\ call' = [call EXCEPT ![d] = x]
    BY <1>10 DEF Ask, Idle
  <2> HIDE DEF x
  <2> QED
    BY <1>2, <1>3, <2>1 DEF Fetching
<1>11. ASSUME NEW d \in Call, CheckToken(d) \/ Get(d) PROVE Goal
  <2>1. CASE call' = [call EXCEPT ![d].at = "reading", ![d].background = TRUE]
    <3> DEFINE x == [call[d] EXCEPT !.at = "reading", !.background = TRUE]
    <3>1. x.at = "reading"
      BY <1>0 DEF Calls
    <3>2. call' = [call EXCEPT ![d] = x]
      BY <2>1
    <3> HIDE DEF x
    <3> QED
      BY <1>2, <1>3, <3>1, <3>2
  <2>2. CASE Return(d)
    BY <1>5, <2>2
  <2>3. ASSUME NEW stage \in {"asking", "reading"}, Go(d, stage) PROVE Goal
    <3>1. c # d
      BY <1>6, <2>3 DEF Fetching
    <3> QED
      BY <1>2, <2>3, <3>1 DEF Go
  <2> QED
    BY <1>11, <2>1, <2>2, <2>3 DEF CheckToken, Get
<1>12. ASSUME NEW d \in Call, Read(d) PROVE Goal
  <2> DEFINE r == row[call[d].user]
  <2>1. call[d].user \in User /\ row' = row /\ call[d].at = "reading"
    BY <1>12 DEF Read, Placed, tokens
  <2>2. PICK y : /\ call' = [call EXCEPT ![d] = y] /\ y.row = r /\ y.user = call[d].user
    <3>1. CASE r # None /\ r.expired
      <4> DEFINE y == [call[d] EXCEPT !.row = r, !.at = "exchanging"]
      <4>1. y.user = call[d].user /\ y.row = r
        BY <1>0 DEF Calls
      <4>2. call' = [call EXCEPT ![d] = y]
        BY <1>12, <3>1 DEF Read
      <4> HIDE DEF y
      <4> QED
        BY <4>1, <4>2
    <3>2. CASE ~(r # None /\ r.expired)
      <4> DEFINE y == [call[d] EXCEPT !.row = r, !.at = "connecting",
                                      !.pair = IF r = None THEN Blank ELSE r.access]
      <4>1. y.user = call[d].user /\ y.row = r
        BY <1>0 DEF Calls
      <4>2. call' = [call EXCEPT ![d] = y]
        BY <1>12, <3>2 DEF Read
      <4> HIDE DEF y
      <4> QED
        BY <4>1, <4>2
    <3> QED
      BY <3>1, <3>2
  <2>3. CASE c = d
    BY <1>3, <2>1, <2>2, <2>3
  <2> QED
    BY <1>2, <2>2, <2>3
<1>13. ASSUME NEW d \in Call, Exchange(d) PROVE Goal
  <2>1. call[d].at = "exchanging"
    BY <1>13 DEF Exchange
  <2>2. CASE Go(d, "rereading")
    BY <1>7, <2>1, <2>2 DEF Fetching
  <2>3. CASE call' = [call EXCEPT ![d].at = "persisting", ![d].pair = issued + 1]
    <3> DEFINE y == [call[d] EXCEPT !.at = "persisting", !.pair = issued + 1]
    <3>1. y.user = call[d].user /\ y.row = call[d].row /\ y.kind = call[d].kind /\ y.raced = call[d].raced
      BY <1>0 DEF Calls
    <3>2. call' = [call EXCEPT ![d] = y]
      BY <2>3
    <3> HIDE DEF y
    <3>3. CASE c = d
      BY <1>3, <2>1, <3>1, <3>2, <3>3 DEF Caching, Fetches, Placed, Fetching
    <3> QED
      BY <1>2, <3>2, <3>3
  <2>4. CASE Refreshed(d, call[d].row, Blank)
    BY <1>8, <2>1, <2>4 DEF Refreshing
  <2> QED
    BY <1>13, <2>2, <2>3, <2>4 DEF Exchange
<1>14. ASSUME NEW d \in Call, Persist(d) \/ Reload(d) \/ Reread(d) PROVE Goal
  <2>1. call[d].at \in Refreshing /\ call[d].at \in Fetching \ {"reading"}
    BY <1>14 DEF Persist, Reload, Reread, Refreshing, Fetching
  <2>2. CASE Go(d, "reloading")
    BY <1>7, <2>1, <2>2
  <2>3. CASE \E p : Refreshed(d, call[d].row, p)
    BY <1>8, <2>1, <2>3
  <2>4. CASE (\E p : Refreshed(d, row[call[d].user], p)) /\ row' = row
    BY <1>8, <2>1, <2>4
  <2> QED
    BY <1>14, <2>2, <2>3, <2>4 DEF Persist, Reload, Reread, tokens
<1>15. ASSUME NEW d \in Call, Connect(d) \/ FetchFails(d) PROVE Goal
  BY <1>5, <1>15 DEF Connect, FetchFails, Fail
<1>16. ASSUME NEW d \in Call, Reconnect(d) \/ \E u \in User : Test(d, u) PROVE Goal
  <2>1. \A u \in User : [Idle EXCEPT !.user = u, !.at = "checking"].at = "checking"
    BY DEF Idle
  <2> QED
    BY <1>9, <1>16, <2>1, IdleFits DEF Reconnect, Test, Fetching
<1>17. ASSUME NEW d \in Call, NEW y, call' = [call EXCEPT ![d] = y],
              y.at \notin Fetching \/ y.kind # "fetch"
       PROVE  Goal
  BY <1>2, <1>3, <1>17
<1>18. ASSUME NEW d \in Call, CreateRow(d) \/ SaveToken(d) \/ \E u \in User : Callback(d, u) \/ Disconnect(d, u)
       PROVE  Goal
  <2>1. ASSUME CreateRow(d) PROVE Goal
    <3> DEFINE y == [call[d] EXCEPT !.at = "saving", !.row = row'[call[d].user]]
    <3>1. y.at = "saving"
      BY <1>0 DEF Calls
    <3>2. call' = [call EXCEPT ![d] = y]
      <4>1. call' = [call EXCEPT ![d].at = "saving", ![d].row = row'[call[d].user]]
        BY <2>1 DEF CreateRow
      <4> QED
        BY <4>1, <1>0 DEF TypeOK, Calls
    <3> HIDE DEF y
    <3> QED
      BY <1>17, <3>1, <3>2 DEF Fetching
  <2>2. ASSUME NEW kind, NEW u,
               call' = [call EXCEPT ![d] = [Idle EXCEPT !.kind = kind, !.user = u, !.at = "clearing"]]
        PROVE  Goal
    <3> DEFINE y == [Idle EXCEPT !.kind = kind, !.user = u, !.at = "clearing"]
    <3>1. y.at = "clearing" /\ call' = [call EXCEPT ![d] = y]
      BY <2>2 DEF Idle
    <3> HIDE DEF y
    <3> QED
      BY <1>17, <3>1 DEF Fetching
  <2>3. ASSUME NEW u \in User, Callback(d, u) PROVE Goal
    <3> DEFINE y == [Idle EXCEPT !.kind = "callback", !.user = u, !.at = "creating", !.pair = issued + 1]
    <3>1. y.at = "creating" /\ call' = [call EXCEPT ![d] = y]
      BY <2>3 DEF Idle, Callback
    <3> HIDE DEF y
    <3> QED
      BY <1>17, <3>1 DEF Fetching
  <2> QED
    BY <1>5, <1>18, <2>1, <2>2, <2>3 DEF SaveToken, Disconnect
<1>19. ASSUME NEW d \in Call, Cron(d) PROVE Goal
  <2>1. PICK todo : call' = [call EXCEPT ![d] = [Idle EXCEPT !.kind = "cron", !.at = "next", !.todo = todo]]
    BY <1>19 DEF Cron
  <2> DEFINE y == [Idle EXCEPT !.kind = "cron", !.at = "next", !.todo = todo]
  <2>2. y.at = "next" /\ call' = [call EXCEPT ![d] = y]
    BY <2>1 DEF Idle
  <2> HIDE DEF y
  <2> QED
    BY <1>17, <2>2 DEF Fetching
<1>20. ASSUME NEW d \in Call, NextToken(d) PROVE Goal
  <2>1. call[d].kind = "cron"
    BY <1>20 DEF NextToken, KindFits
  <2>2. ASSUME NEW x \in call[d].todo,
               call' = [call EXCEPT ![d].user = x.user, ![d].row = x.row,
                                    ![d].todo = @ \ {x}, ![d].at = "exchanging"]
        PROVE  Goal
    <3> DEFINE y == [call[d] EXCEPT !.user = x.user, !.row = x.row, !.todo = @ \ {x}, !.at = "exchanging"]
    <3>1. y.kind = "cron"
      BY <1>0, <2>1 DEF Calls
    <3>2. call' = [call EXCEPT ![d] = y]
      BY <1>0, <2>2 DEF Calls, TypeOK
    <3> HIDE DEF y
    <3> QED
      BY <1>17, <3>1, <3>2
  <2> QED
    BY <1>5, <1>20, <2>2 DEF NextToken
<1> HIDE DEF Goal
<1>21. Goal
  BY <1>1, <1>10, <1>11, <1>12, <1>13, <1>14, <1>15, <1>16, <1>18, <1>19, <1>20
     DEF Next, Progress, Lapse, Expire, Cooldown, vars
<1> QED
  BY <1>21 DEF Goal

Clears == \E c \in Call : Reconnect(c) \/ \E u \in User : Test(c, u)

\* No fetch that was under way caches for good what it gets.
LEMMA ClearedAll ==
    ASSUME TypeOK, Clears
    PROVE  (\A c \in Call : ~Caching(c)') /\ (\A u \in User : cache'[u] = None)
<1>0. \A d \in Call : call[d] \in Calls
  BY DEF TypeOK, Calls
<1>1. PICK d, after : d \in Call /\ Clear(d, after) /\ after.at \notin Fetching
  <2>1. \A u \in User : [Idle EXCEPT !.user = u, !.at = "checking"].at = "checking"
    BY DEF Idle
  <2> QED
    BY <2>1, IdleFits DEF Clears, Reconnect, Test, Fetching
<1>2. ASSUME NEW c \in Call, c # d PROVE ~Caching(c)'
  <2> DEFINE b == call[c].raced \/ Fetches(c)
  <2>1. call'[c] = [call[c] EXCEPT !.raced = b]
    BY <1>0, <1>1, <1>2 DEF Clear, Calls
  <2>2. call'[c].kind = call[c].kind /\ call'[c].at = call[c].at /\ (call'[c].raced = b)
    BY <1>0, <2>1 DEF Calls
  <2> QED
    BY <2>2 DEF Caching, Fetches
<1>3. ~Caching(d)'
  BY <1>1 DEF Clear, Caching, Fetches
<1>4. \A u \in User : cache'[u] = None
  BY <1>1 DEF Clear
<1> QED
  BY <1>2, <1>3, <1>4

\* Only a cleared cache ends a change of the connection.
LEMMA ChangesLast ==
    ASSUME TypeOK, Placed, [Next]_vars, NEW u \in User, Changing(u), ~Clears
    PROVE  Changing(u)'
<1>1. PICK c \in Call : call[c].user = u /\ call[c].at = "clearing"
  BY DEF Changing
<1>2. ASSUME NEW d \in Call, NEW x, call' = [call EXCEPT ![d] = x], call[d].at # "clearing"
      PROVE  call'[c] = call[c]
  BY <1>1, <1>2 DEF TypeOK
<1>3. ASSUME NEW d \in Call, call[d].at # "clearing",
             Return(d) \/ \E stage : Go(d, stage)
      PROVE  call'[c] = call[c]
  BY <1>1, <1>3 DEF TypeOK, Return, Go
<1>4. ASSUME NEW d \in Call, CheckToken(d) \/ Connect(d) \/ FetchFails(d) PROVE call'[c] = call[c]
  BY <1>3, <1>4 DEF CheckToken, Connect, FetchFails, Fail, Fetches, Fetching
<1>5. ASSUME NEW d \in Call, NEW r, NEW p, Refreshed(d, r, p), call[d].at # "clearing" PROVE call'[c] = call[c]
  BY <1>1, <1>5 DEF TypeOK, Refreshed
<1>6. ASSUME NEW d \in Call, Exchange(d) \/ Persist(d) \/ Reload(d) \/ Reread(d) PROVE call'[c] = call[c]
  <2>1. call[d].at # "clearing"
    BY <1>6 DEF Exchange, Persist, Reload, Reread
  <2>2. CASE call' = [call EXCEPT ![d].at = "persisting", ![d].pair = issued + 1]
    BY <1>1, <2>1, <2>2 DEF TypeOK
  <2> QED
    BY <1>3, <1>5, <1>6, <2>1, <2>2 DEF Exchange, Persist, Reload, Reread
<1>7. ASSUME NEW d \in Call, Get(d) \/ Read(d) \/ CreateRow(d) \/ SaveToken(d) PROVE call'[c] = call[c]
  <2>1. call[d].at # "clearing" /\ c # d
    BY <1>1, <1>7 DEF Get, Read, CreateRow, SaveToken
  <2>2. Get(d) => call'[c] = call[c]
    BY <2>1 DEF Get, Return, Go, TypeOK
  <2>3. Read(d) => call'[c] = call[c]
    BY <2>1 DEF Read, TypeOK
  <2>4. CreateRow(d) => call'[c] = call[c]
    BY <2>1 DEF CreateRow, TypeOK
  <2>5. SaveToken(d) => call'[c] = call[c]
    BY <2>1 DEF SaveToken, Return, TypeOK
  <2> QED
    BY <1>7, <2>2, <2>3, <2>4, <2>5
<1>8. ASSUME NEW d \in Call, NextToken(d) \/ Cron(d) PROVE call'[c] = call[c]
  <2>1. call[d].at # "clearing" /\ c # d
    BY <1>1, <1>8 DEF NextToken, Cron
  <2>2. NextToken(d) => call'[c] = call[c]
    BY <2>1 DEF NextToken, Return, TypeOK
  <2>3. Cron(d) => call'[c] = call[c]
    BY <2>1 DEF Cron, TypeOK
  <2> QED
    BY <1>8, <2>2, <2>3
<1>9. ASSUME NEW d \in Call, NEW v \in User,
             Ask(d, v, "asking") \/ Ask(d, v, "checking") \/ Callback(d, v) \/ Disconnect(d, v)
      PROVE  call'[c] = call[c]
  <2>1. c # d
    BY <1>1, <1>9 DEF Ask, Callback, Disconnect
  <2> QED
    BY <1>9, <2>1 DEF Ask, Callback, Disconnect, TypeOK
<1>10. call'[c] = call[c]
  BY <1>4, <1>6, <1>7, <1>8, <1>9 DEF Next, Progress, Lapse, Expire, Cooldown, vars, Clears
<1> QED
  BY <1>1, <1>10 DEF Changing

\* A user's row that is not mixed changes its grant only while the user's
\* connection changes, and so does one that stops being mixed.
LEMMA GrantChanges ==
    ASSUME TypeOK, TypeOK', Placed, TokenInv, [Next]_vars, NEW u \in User
    PROVE  \/ GrantOf(row[u])' = GrantOf(row[u]) /\ ~Mixed(u)
           \/ Mixed(u)'
           \/ Changing(u)'
<1>1. ASSUME NEW c \in Call, CreateRow(c), call[c].user = u PROVE GrantOf(row[u])' = GrantOf(row[u])
  <2>1. CASE row[u] = None
    <3>1. row'[u] = Fresh(call[c].pair)
      BY <1>1, <2>1 DEF CreateRow, TypeOK, Fresh
    <3> QED
      BY <2>1, <3>1 DEF GrantOf, Fresh
  <2>2. CASE row[u] # None
    BY <1>1, <2>2 DEF CreateRow, GrantOf, TypeOK
  <2> QED
    BY <2>1, <2>2
<1>2. ASSUME NEW c \in Call, NEW kind,
             call' = [call EXCEPT ![c] = [Idle EXCEPT !.kind = kind, !.user = u, !.at = "clearing"]]
      PROVE  Changing(u)'
  <2>1. call'[c] = [Idle EXCEPT !.kind = kind, !.user = u, !.at = "clearing"]
    BY <1>2 DEF TypeOK
  <2>2. call'[c].user = u /\ call'[c].at = "clearing"
    BY <2>1 DEF Idle
  <2> QED
    BY <2>2 DEF Changing
<1>3. ASSUME NEW c \in Call, SaveToken(c), call[c].user = u, ~Changing(u)'
      PROVE  GrantOf(row[u])' = GrantOf(row[u])
  <2>1. row' = row /\ grant' = grant
    BY <1>2, <1>3 DEF SaveToken
  <2> QED
    BY <2>1 DEF GrantOf
<1>4. ASSUME NEW c \in Call, Disconnect(c, u) PROVE Changing(u)'
  BY <1>2, <1>4 DEF Disconnect
<1>5. CASE ~Mixed(u)
  BY <1>1, <1>3, <1>4, <1>5, GrantOfRow
<1>6. CASE Mixed(u) /\ ~Mixed(u)'
  <2>1. mixed' # mixed
    BY <1>6 DEF Mixed
  <2>2. \E c \in Call : SaveToken(c) \/ \E v \in User : Disconnect(c, v)
    BY <2>1 DEF Next, Progress, Ask, CheckToken, Get, Read, Exchange, Persist, Reload, Reread, Connect,
         CreateRow, Reconnect, NextToken, FetchFails, Fail, Cron, Test, Callback,
         Lapse, Expire, Cooldown, tokens, vars
  <2>3. ASSUME NEW c \in Call, SaveToken(c) PROVE Changing(u)'
    <3>1. call[c].user = u
      BY <1>6, <2>3 DEF SaveToken, Mixed
    <3>2. call' = [call EXCEPT ![c] = [Idle EXCEPT !.kind = "callback", !.user = u, !.at = "clearing"]]
      BY <2>1, <2>3, <3>1 DEF SaveToken
    <3> QED
      BY <1>2, <3>2
  <2>4. ASSUME NEW c \in Call, NEW v \in User, Disconnect(c, v) PROVE Changing(u)'
    <3>1. u = v
      BY <1>6, <2>4 DEF Disconnect, Mixed
    <3> QED
      BY <1>4, <2>4, <3>1
  <2> QED
    BY <2>2, <2>3, <2>4
<1> QED
  BY <1>5, <1>6

\* For any overlap of fetches, refreshes, callbacks and disconnects: what is
\* cached for a user whose row is not mixed belongs to the user's present
\* connection, unless its fetch was under way when the cache was cleared.
THEOREM CacheFollowsTheGrant == Spec => []CachedForThisGrant
<1> USE IntegrationAssumption
<1>1. Init => CacheInv
  BY IdleFits DEF Init, CacheInv, KindFits, FetchFits, CachedForThisGrant, Caching, Fetches, Fetching,
     Refreshing
<1>2. ASSUME TypeOK, TypeOK', Placed, TokenInv, CacheInv, [Next]_vars PROVE CacheInv'
  <2> USE <1>2
  <2>1. KindFits'
    BY KindsFit DEF CacheInv
  <2>2. CASE Clears
    BY <2>1, <2>2, ClearedAll DEF CacheInv, FetchFits, CachedForThisGrant
  <2>3. CASE ~Clears
    <3>1. ASSUME NEW u \in User, ~Mixed(u)', ~Changing(u)'
          PROVE  ~Mixed(u) /\ ~Changing(u) /\ GrantOf(row[u])' = GrantOf(row[u])
      BY <2>3, <3>1, ChangesLast, GrantChanges
    <3>2. FetchFits'
      <4> SUFFICES ASSUME NEW c \in Call, Caching(c)', ~Mixed(call[c].user)',
                          ~Changing(call[c].user)'
                   PROVE  GrantOf(call[c].row)' = GrantOf(row[call[c].user])'
        BY DEF FetchFits
      <4> DEFINE u == call[c].user
      <4>1. /\ u \in User /\ call'[c].user = u
            /\ \/ Caching(c) /\ call'[c].row = call[c].row
               \/ call'[c].row = row[u] /\ row' = row
        BY CopiesFit DEF CacheInv
      <4>2. ~Mixed(u) /\ ~Changing(u) /\ GrantOf(row[u])' = GrantOf(row[u])
        <5>1. ~Mixed(u)' /\ ~Changing(u)'
          BY <4>1 DEF Mixed
        <5> QED
          BY <3>1, <4>1, <5>1
      <4>3. CASE call'[c].row = row[u] /\ row' = row
        BY <4>1, <4>3 DEF GrantOf
      <4>4. CASE Caching(c) /\ call'[c].row = call[c].row
        <5>1. GrantOf(call[c].row) = GrantOf(row[u])
          BY <4>1, <4>2, <4>4 DEF CacheInv, FetchFits
        <5>2. GrantOf(call[c].row)' = GrantOf(call[c].row)
          <6>1. PICK r : r = call[c].row
            OBVIOUS
          <6>2. CASE r = None
            BY <4>4, <6>1, <6>2 DEF GrantOf
          <6>3. CASE r # None
            <7>1. r \in Rows /\ Known(u, r)
              BY <4>1, <6>1, <6>3 DEF Known, TypeOK
            <7>2. GrantOf(r)' = GrantOf(r)
              BY <4>1, <7>1, RowsKeepTheirGrant
            <7> QED
              BY <4>4, <6>1, <7>2 DEF GrantOf
          <6> QED
            BY <6>2, <6>3
        <5> QED
          BY <4>1, <4>2, <5>1, <5>2 DEF GrantOf
      <4> QED
        BY <4>1, <4>3, <4>4
    <3>3. CachedForThisGrant'
      <4> SUFFICES ASSUME NEW u \in User, cache'[u] # None, ~cache'[u].raced, ~Mixed(u)',
                          ~Changing(u)'
                   PROVE  cache'[u].grant = GrantOf(row[u])'
        BY DEF CachedForThisGrant
      <4>1. CASE cache'[u] = cache[u]
        BY <3>1, <4>1 DEF CacheInv, CachedForThisGrant
      <4>2. ASSUME NEW c \in Call, Connect(c), call[c].user = u
            PROVE  cache'[u].grant = GrantOf(row[u])'
        <5>1. cache'[u] = [tools |-> call[c].pair, grant |-> GrantOf(call[c].row), raced |-> call[c].raced]
          BY <4>2 DEF Connect, TypeOK
        <5>2. Caching(c)
          BY <4>2, <5>1 DEF Connect, CacheInv, KindFits, Caching, Fetches, Fetching
        <5> QED
          BY <3>1, <4>2, <5>1, <5>2 DEF CacheInv, FetchFits
      <4>3. CASE cache'[u] # cache[u]
        <5>1. ASSUME NEW c \in Call, Connect(c) PROVE call[c].user = u
          BY <4>3, <5>1 DEF Connect, TypeOK
        <5>2. ASSUME NEW v \in User, Expire(v) PROVE FALSE
          BY <4>3, <5>2 DEF Expire, TypeOK
        <5>3. (\E c \in Call : Connect(c)) \/ (\E v \in User : Expire(v))
          BY <2>3, <4>3 DEF Next, Progress, Ask, CheckToken, Get, Read, Exchange, Persist, Reload, Reread,
             CreateRow, SaveToken, NextToken, FetchFails, Fail, Cron, Callback,
             Disconnect, Lapse, Cooldown, health, vars, Clears
        <5> QED
          BY <4>2, <5>1, <5>2, <5>3
      <4> QED
        BY <4>1, <4>3
    <3> QED
      BY <2>1, <3>2, <3>3 DEF CacheInv
  <2> QED
    BY <2>2, <2>3
<1>3. CacheInv => CachedForThisGrant
  BY DEF CacheInv
<1> QED
  BY <1>1, <1>2, <1>3, TypesHold, TokenInvHolds, PTL DEF Spec
=============================================================================
