---------------------------- MODULE MCDeviceEnv ----------------------------
(* Instances of DeviceEnv for TLC. *)
EXTENDS DeviceEnv, TLC

Symm == Permutations(Threads) \cup Permutations(Paths) \cup Permutations(Handles)

=============================================================================
