---------------------------- MODULE MCLifecycle ----------------------------
(* Parameters for TLC: the ends of the range of can_id and just outside.   *)
EXTENDS Lifecycle

TriedCanIds     == {-1, 0, 255, 256}
TriedJointNames == {Unset, "joint1"}
TriedMotorTypes == {Unset, "AK80-9", "AK60-39", "AKE60-8", "ak80-9"}

GoodCanIds     == {1}
GoodJointNames == {"joint1"}
=============================================================================
