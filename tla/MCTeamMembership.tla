-------------------------- MODULE MCTeamMembership --------------------------
(* TeamMembership for TLC: requests and users are interchangeable.          *)
EXTENDS TeamMembership, TLC

Symmetry == Permutations(Reqs) \cup Permutations(Users)
=============================================================================
