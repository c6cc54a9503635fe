\* One user, two calls at a time, a provider that issues three pairs, rotates
\* refresh tokens and may answer the second authorization without one, timeouts
\* between an exchange and its save.
SPECIFICATION FairSpec
CONSTANTS
    Call = {c1, c2}
    User = {u1}
    MaxIssued = 3
    Slow = {"persisting"}
    Rotates = {TRUE}
    Bare = {2}
    None = None
CHECK_DEADLOCK FALSE
INVARIANTS OnlyLossStrands CachedForThisGrant
PROPERTIES NewerGrantWins Recovers
