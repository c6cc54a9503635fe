SPECIFICATION Spec
CONSTANTS
    Call = {c1, c2}
    ann = ann
    bob = bob
    staff = staff
    team = team
    User = {ann, bob}
    Group = {staff, team}
    GroupsOf <- Membership
    Gone = Gone
    None = None
SYMMETRY Symmetry
INVARIANTS UsersMayRun
CHECK_DEADLOCK FALSE
