------------------------- MODULE MCPushRegistration -------------------------
(* Instances of PushRegistration for TLC.                                  *)
EXTENDS PushRegistration, TLC

OrganizationSymmetry == Permutations(Organizations)
=============================================================================
