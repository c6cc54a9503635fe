SPECIFICATION Spec
CONSTANTS
    Drafts <- MCDrafts
    Fallback <- MCFallback
    Supplies <- MCSupplies
    Exposures <- MCExposures
    Refused = {"model_dump"}
    MaxDepth = 2
    MaxFields = 2
    MaxEnum = 2
    None = None
CHECK_DEADLOCK FALSE
INVARIANTS AcceptedIffRunnable SchemasHold
PROPERTY RunsAsAccepted
