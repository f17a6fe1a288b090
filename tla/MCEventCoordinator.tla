-------------------------- MODULE MCEventCoordinator --------------------------
(* Instances of EventCoordinator for TLC.                                  *)
EXTENDS EventCoordinator, TLC

\* The properties treat all devices alike.
DeviceSymmetry == Permutations(Devices)
=============================================================================
