---------------------------- MODULE MotorModels ----------------------------
(***************************************************************************)
(* The table of motor models of motor_limits.cpp.  Velocity limits are in  *)
(* tenths of rad/s, torque limits in tenths of N*m; both ranges are        *)
(* symmetric.  pole_pairs and gear_ratio enter every conversion as their   *)
(* product.                                                                *)
(***************************************************************************)
EXTENDS Integers

Spec_(velocity_max, torque_max, pole_pairs, gear_ratio) ==
  [velocity_max |-> velocity_max, torque_max |-> torque_max,
   erpm_per_rpm |-> pole_pairs * gear_ratio]

KnownModels == {"AK10-9", "AK60-6", "AK60-39", "AK70-9", "AK80-8", "AK80-9"}

kMotorTable ==
  [name \in KnownModels |->
     CASE name = "AK10-9"  -> Spec_(280, 540, 21, 9)
       [] name = "AK60-6"  -> Spec_(600, 120, 14, 6)
       [] name = "AK60-39" -> Spec_(100, 800, 14, 39)
       [] name = "AK70-9"  -> Spec_(300, 320, 21, 9)
       [] name = "AK80-8"  -> Spec_(380, 320, 21, 8)
       [] name = "AK80-9"  -> Spec_(650, 180, 21, 9)]

(* lookupMotorModel() has a value.                                          *)
HasModel(motor_type) == motor_type \in DOMAIN kMotorTable
=============================================================================
