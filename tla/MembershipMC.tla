---------------------------- MODULE MembershipMC ----------------------------
EXTENDS Membership, TLC
Asked == {{"team_leader"}, {"administrateur"}}
NamedPositions == {"chef_pole"}
IdleRequest == [op |-> "idle"]
Symmetry == Permutations(Actors)
=============================================================================
