----------------------------- MODULE MCSharing -----------------------------
EXTENDS Endpoints
CONSTANTS ann, bob, staff, team
\* One user is in both groups, the other in one of them.
Membership == (ann :> {staff, team}) @@ (bob :> {staff})
Symmetry == Permutations(Call)
=============================================================================
