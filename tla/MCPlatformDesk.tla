---------------------------- MODULE MCPlatformDesk ----------------------------
(***************************************************************************)
(* Instances of PlatformDesk for TLC.                                      *)
(***************************************************************************)
EXTENDS PlatformDesk, TLC

CONSTANTS o1, o2, q1, q2

OneOrganization == {o1}
TwoOrganizations == {o1, o2}
OneRequest == {q1}
TwoRequests == {q1, q2}

Symmetry == Permutations(TwoOrganizations) \cup Permutations(TwoRequests)
=============================================================================
