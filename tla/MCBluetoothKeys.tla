---------------------------- MODULE MCBluetoothKeys ----------------------------
(* BluetoothKeys for TLC: the unit of time is half an Interval.              *)
EXTENDS BluetoothKeys, TLC

LockSymmetry == Permutations(Locks)
=============================================================================
