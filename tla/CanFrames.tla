----------------------------- MODULE CanFrames -----------------------------
(***************************************************************************)
(* CAN frames as the driver of one motor sees them: the 29-bit identifier  *)
(* of the AK-V3 protocol (protocol.cpp), the raw-frame filter of           *)
(* CanSocket::receive() and the acceptance tests of the frame decoders.    *)
(* The payload is abstracted to the one byte a property speaks of, the     *)
(* fault code.                                                             *)
(***************************************************************************)
EXTENDS Integers

DriverId == 0..255      \* what loadParameters() accepts as can_id

FUNC_ID_STATUS       == 41      \* 0x29
FUNC_ID_EXT_POSITION == 42      \* 0x2A
FUNC_ID_STARTUP      == 44      \* 0x2C

(* Mutant: the two bytes are exchanged.                                    *)
BuildCanId_Swapped(mode_id, can_id) == can_id * 256 + mode_id

(* (mode_id << 8) | can_id on two bytes: the or never meets a carry.        *)
BuildCanId(mode_id, can_id) == mode_id * 256 + can_id

(***************************************************************************)
(* What read() on the socket yields.  whole is FALSE for a short read or a *)
(* read that fails (an error pending on the socket); err, eff and rtr are  *)
(* the flag bits of can_id; origin says who emitted the frame and is read  *)
(* by properties only.                                                     *)
(***************************************************************************)
Origin == {"motor_status", "motor_ext", "motor_startup", "other"}

RawFrame == [whole : BOOLEAN, err : BOOLEAN, eff : BOOLEAN, rtr : BOOLEAN,
             id : 0..536870911, dlc : 0..8, fault : 0..255, origin : Origin]

(* CanSocket::receive() returns true: only whole extended data frames.      *)
Surfaced(raw) == raw.whole /\ ~raw.err /\ raw.eff /\ ~raw.rtr

(* Mutant: the payload length is not checked.                              *)
IsStatusFrame_AnyLength(raw, can_id) ==
  raw.id = BuildCanId(FUNC_ID_STATUS, can_id)

(* Mutant: the function identifier alone is compared.                      *)
IsStatusFrame_AnyId(raw, can_id) ==
  /\ raw.id \div 256 = FUNC_ID_STATUS
  /\ raw.dlc >= 8

(* decodeStatusFrame() and decodeExtendedPositionFrame() return a value.    *)
IsStatusFrame(raw, can_id) ==
  /\ raw.id = BuildCanId(FUNC_ID_STATUS, can_id)
  /\ raw.dlc >= 8

IsExtendedPositionFrame(raw, can_id) ==
  /\ raw.id = BuildCanId(FUNC_ID_EXT_POSITION, can_id)
  /\ raw.dlc >= 4
=============================================================================
