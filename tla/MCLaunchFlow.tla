---------------------------- MODULE MCLaunchFlow ----------------------------
(* The instances of LaunchFlow that TLC checks. *)
EXTENDS LaunchFlow, TLC

Symmetric == Permutations(Caller)
=============================================================================
