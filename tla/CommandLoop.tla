---------------------------- MODULE CommandLoop ----------------------------
(***************************************************************************)
(* One turn of the control loop through the CAN boundary: onCommand()      *)
(* converts and packs a MotorCommand, an ideal motor executes the frame    *)
(* and reports where it is, drainRxQueueAndPublish() converts the report   *)
(* into a MotorState.  Threads and queues are RxPipeline's business; here  *)
(* the numbers matter.                                                     *)
(*                                                                         *)
(* Units of messages: position 0.01 rad, velocity and acceleration 0.1     *)
(* rad/s (per s), current mA, torque 0.1 N*m, kp 1, kd 0.01, duty 0.00001. *)
(* Degrees are counted in ten-thousandths.  678/710 stands for 60/(2 pi)   *)
(* per unit of velocity, 406800/71 for the degrees of a unit of position.  *)
(***************************************************************************)
EXTENDS WireFormat, MotorModels

CONSTANTS CanId,        \* this node's can_id parameter
          Commands,     \* MotorCommand messages a client may publish
          ExtUnit,      \* ten-thousandths of a degree in a 0x2A count
          Absent        \* nothing sent, reported or cached yet

ASSUME CanIdAssumption == CanId \in DriverId

(* MotorCommand.msg, but for the header and the name of the joint.         *)
MotorCommand ==
  [mode : Byte, duty : Int, current : Int, velocity : Int, position : Int,
   acceleration : Int, mit_velocity : Int, mit_torque : Int, kp : Int, kd : Int]

ASSUME CommandsAssumption == Commands \subseteq MotorCommand
ASSUME UnitAssumption == ExtUnit \in Nat \ {0}

(* std::nullopt is neither a number nor a payload.                         *)
ASSUME AbsentAssumption == Absent \notin Int /\ Absent \notin [1..4 -> Byte]

VARIABLES invert_direction, motor_type, \* parameters of the node
          ext_enabled,                  \* the motor sends 0x2A frames
          pc,                           \* where the turn has got to
          msg, frame,                   \* the command and its frame
          motor,                        \* what the motor executes
          status, ext,                  \* payloads it reports with
          last_extended_position_deg,
          state                         \* the MotorState published

params == <<invert_direction, motor_type, ext_enabled>>
vars == <<params, pc, msg, frame, motor, status, ext,
          last_extended_position_deg, state>>

Sign == IF invert_direction THEN -1 ELSE 1
ErpmPerRpm == kMotorTable[motor_type].erpm_per_rpm
Limits == MitFields(kMotorTable[motor_type])

RadToDeg(rad) == Quotient(rad * 406800, 71)
DegToRad(deg) == Quotient(deg * 71, 406800)
RadPerSecToErpm(rad_s) == Quotient(rad_s * ErpmPerRpm * 678, 710)
ErpmToRadPerSec(erpm) == Quotient(erpm * 710, ErpmPerRpm * 678)

-----------------------------------------------------------------------------
(* onCommand(): a frame for each mode.                                     *)

PackPositionVelocity(position_deg, speed_erpm, accel_erpm_s2) ==
  AppendInt32(position_deg)
    \o AppendInt16(CastInt16(Quotient(speed_erpm, 10)))
    \o AppendInt16(CastInt16(Quotient(accel_erpm_s2, 10)))

(* A float times the scale of its field, cast to int32_t: the product of a *)
(* value of count units may be just below the count, or not (4.002f *      *)
(* 1000.0f is), and the cast gives up the rest.  This much is lost as long *)
(* as floats tell counts apart, up to 2^23.                                *)
ToInt32(count, low) ==
  IF low /\ count > 0 THEN count - 1
  ELSE IF low /\ count < 0 THEN count + 1 ELSE count

PackMitCommand(m) ==
  PackMit(FloatToUint(m.kp, Limits.kp),
          FloatToUint(m.kd, Limits.kd),
          FloatToUint(Sign * m.position, Limits.position),
          FloatToUint(Sign * m.mit_velocity, Limits.velocity),
          FloatToUint(Sign * m.mit_torque, Limits.torque))

(* Mutant: the direction is forgotten in the combined mode.                *)
PackCommand_HalfInverted(m, low) ==
  CASE m.mode = MODE_DUTY          -> AppendInt32(ToInt32(Sign * m.duty, low))
    [] m.mode = MODE_CURRENT       ->
         AppendInt32(ToInt32(Sign * m.current, low))
    [] m.mode = MODE_CURRENT_BRAKE -> AppendInt32(ToInt32(m.current, low))
    [] m.mode = MODE_VELOCITY      ->
         AppendInt32(RadPerSecToErpm(Sign * m.velocity))
    [] m.mode = MODE_POSITION      -> AppendInt32(RadToDeg(Sign * m.position))
    [] m.mode = MODE_POSITION_VELOCITY ->
         PackPositionVelocity(RadToDeg(Sign * m.position),
                              RadPerSecToErpm(m.velocity),
                              RadPerSecToErpm(m.acceleration))
    [] m.mode = MODE_MIT -> PackMitCommand(m)

(* Braking current is a magnitude: the direction does not apply to it.     *)
(* Degrees and ERPM are results of conversions that are rounded anyway:    *)
(* what a product loses there is far less than a unit of the message.      *)
PackCommand(m, low) ==
  CASE m.mode = MODE_DUTY          -> AppendInt32(ToInt32(Sign * m.duty, low))
    [] m.mode = MODE_CURRENT       ->
         AppendInt32(ToInt32(Sign * m.current, low))
    [] m.mode = MODE_CURRENT_BRAKE -> AppendInt32(ToInt32(m.current, low))
    [] m.mode = MODE_VELOCITY      ->
         AppendInt32(RadPerSecToErpm(Sign * m.velocity))
    [] m.mode = MODE_POSITION      -> AppendInt32(RadToDeg(Sign * m.position))
    [] m.mode = MODE_POSITION_VELOCITY ->
         PackPositionVelocity(RadToDeg(Sign * m.position),
                              RadPerSecToErpm(Sign * m.velocity),
                              RadPerSecToErpm(Sign * m.acceleration))
    [] m.mode = MODE_MIT -> PackMitCommand(m)

OnCommand(m, low) ==
  /\ pc = "idle"
  /\ m.mode \in CommandModes
  /\ msg' = m
  /\ frame' = MakeFrame(m.mode, CanId, PackCommand(m, low))
  /\ pc' = "sent"
  /\ UNCHANGED <<params, motor, status, ext, last_extended_position_deg,
                 state>>

(* Mutant: break instead of return: the default frame is sent.             *)
OnUnknownCommand_Sends(m) ==
  /\ pc = "idle"
  /\ m.mode \notin CommandModes
  /\ msg' = m
  /\ frame' = [id |-> 0, dlc |-> 0, data |-> Zeros(8)]
  /\ pc' = "sent"
  /\ UNCHANGED <<params, motor, status, ext, last_extended_position_deg,
                 state>>

(* An unrecognized mode is logged and dropped.                             *)
OnUnknownCommand(m) ==
  /\ pc = "idle"
  /\ m.mode \notin CommandModes
  /\ msg' = m
  /\ UNCHANGED <<params, pc, frame, motor, status, ext,
                 last_extended_position_deg, state>>

-----------------------------------------------------------------------------
(* The motor (external) executes the frame and is at its target at once.   *)

Rest == [brake |-> 0, duty |-> 0, current |-> 0, speed |-> 0, accel |-> 0,
         position |-> 0]

Executed(mode, d) ==
  LET word == GetInt32(d[1], d[2], d[3], d[4])
  IN CASE mode = MODE_DUTY          -> [Rest EXCEPT !.duty = word]
       [] mode = MODE_CURRENT       -> [Rest EXCEPT !.current = word]
       [] mode = MODE_CURRENT_BRAKE -> [Rest EXCEPT !.brake = word]
       [] mode = MODE_VELOCITY      -> [Rest EXCEPT !.speed = word]
       [] mode = MODE_POSITION      -> [Rest EXCEPT !.position = word]
       [] mode = MODE_POSITION_VELOCITY ->
            [Rest EXCEPT !.position = word,
                         !.speed = 10 * GetInt16(d[5], d[6]),
                         !.accel = 10 * GetInt16(d[7], d[8])]

MotorExecutes ==
  /\ pc = "sent"
  /\ motor' = LET mode == frame.id \div 256
              IN IF mode = MODE_MIT THEN UnpackMit(frame.data)
                                    ELSE Executed(mode, frame.data)
  /\ pc' = "moved"
  /\ UNCHANGED <<params, msg, frame, status, ext, last_extended_position_deg,
                 state>>

(* The 0x29 frame counts 0.1 degree, 10 ERPM and 10 mA in int16; the 0x2A  *)
(* frame has a finer position, in int32.  A motor in MIT mode is followed  *)
(* no further than the codes it reads.                                     *)
MotorReports ==
  /\ pc = "moved"
  /\ msg.mode # MODE_MIT
  /\ status' = AppendInt16(Quotient(motor.position, 1000))
                  \o AppendInt16(Quotient(motor.speed, 10))
                  \o AppendInt16(Quotient(motor.current, 10))
                  \o <<25, 0>>
  /\ ext' = IF ext_enabled THEN AppendInt32(Quotient(motor.position, ExtUnit))
                           ELSE Absent
  /\ pc' = "reported"
  /\ UNCHANGED <<params, msg, frame, motor, last_extended_position_deg, state>>

-----------------------------------------------------------------------------
(* The decoders, and the conversions of drainRxQueueAndPublish().          *)

(* Mutant: the octets are joined without a sign.                           *)
DecodeStatusFrame_Unsigned(d) ==
  [position_deg  |-> (d[1] * 256 + d[2]) * 1000,
   speed_erpm    |-> (d[3] * 256 + d[4]) * 10,
   current_a     |-> (d[5] * 256 + d[6]) * 10,
   temperature_c |-> d[7],
   error_code    |-> d[8]]

DecodeStatusFrame(d) ==
  [position_deg  |-> GetInt16(d[1], d[2]) * 1000,
   speed_erpm    |-> GetInt16(d[3], d[4]) * 10,
   current_a     |-> GetInt16(d[5], d[6]) * 10,
   temperature_c |-> Signed(d[7]),
   error_code    |-> d[8]]

(* Mutant: the low half only, read as the status frame's position is.      *)
DecodeExtendedPositionFrame_LowHalf(d) == GetInt16(d[3], d[4]) * 100

(* The count times 0.01 degree.                                            *)
DecodeExtendedPositionFrame(d) == GetInt32(d[1], d[2], d[3], d[4]) * 100

Publish ==
  /\ pc = "reported"
  /\ last_extended_position_deg' =
       IF ext = Absent THEN last_extended_position_deg
                       ELSE DecodeExtendedPositionFrame(ext)
  /\ LET s == DecodeStatusFrame(status)
         position_deg == IF last_extended_position_deg' = Absent
                         THEN s.position_deg
                         ELSE last_extended_position_deg'
     IN state' = [position |-> Sign * DegToRad(position_deg),
                  velocity |-> Sign * ErpmToRadPerSec(s.speed_erpm),
                  current  |-> Sign * s.current_a,
                  extended_position_valid |->
                    last_extended_position_deg' # Absent]
  /\ pc' = "published"
  /\ UNCHANGED <<params, msg, frame, motor, status, ext>>

(* All that remains of a turn is the cached position.                      *)
NextTurn ==
  /\ pc = "published" \/ (pc = "moved" /\ msg.mode = MODE_MIT)
  /\ pc' = "idle"
  /\ msg' = Absent /\ frame' = Absent /\ motor' = Absent
  /\ status' = Absent /\ ext' = Absent /\ state' = Absent
  /\ UNCHANGED <<params, last_extended_position_deg>>

-----------------------------------------------------------------------------
Init ==
  /\ invert_direction \in BOOLEAN /\ motor_type \in KnownModels
  /\ ext_enabled \in BOOLEAN
  /\ pc = "idle" /\ msg = Absent /\ frame = Absent /\ motor = Absent
  /\ status = Absent /\ ext = Absent
  /\ last_extended_position_deg = Absent /\ state = Absent

Next ==
  \/ \E m \in Commands, low \in BOOLEAN : OnCommand(m, low)
  \/ \E m \in Commands : OnUnknownCommand(m)
  \/ MotorExecutes
  \/ MotorReports
  \/ Publish
  \/ NextTurn

Spec == Init /\ [][Next]_vars

-----------------------------------------------------------------------------
(* Properties.                                                             *)

(* Every payload put on the bus is eight octets of which dlc count: no     *)
(* field, however large the request, spills out of its byte.               *)
TypeOK ==
  /\ pc \in {"idle", "sent", "moved", "reported", "published"}
  /\ frame = Absent \/ /\ frame.id \in Nat
                       /\ frame.dlc \in {4, 8}
                       /\ frame.data \in Payload
  /\ status = Absent \/ status \in Payload
  /\ ext = Absent \/ ext \in [1..4 -> Byte]

(* A frame sent for a command is addressed to the node's own motor, in the *)
(* mode of the command; no node on the bus takes it for feedback of its    *)
(* motor, and it is none of the frames reserved to the services.           *)
OwnMotorOnly ==
  pc = "sent" =>
    /\ frame.id % 256 = CanId /\ frame.id \div 256 = msg.mode
    /\ \A func \in {FUNC_ID_STATUS, FUNC_ID_EXT_POSITION, FUNC_ID_STARTUP},
          node \in 0..255 : frame.id # BuildCanId(func, node)
    /\ frame.id \div 256 \notin
         {MODE_SET_ORIGIN, MODE_DISABLE, MODE_FEEDBACK_CONFIG}

Near(a, b, tolerance) == a - b \in -tolerance..tolerance

(* What the wire can tell.  Speed and acceleration are reported and, in    *)
(* the combined mode, sent in int16 counts of 10 ERPM; a position is sent  *)
(* and reported by 0x2A in an int32, but reported by 0x29 in int16 counts  *)
(* of 0.1 degree; a current is reported in int16 counts of 10 mA.  Duty    *)
(* and current are told to the count as far as a float tells counts apart; *)
(* a 0x2A position is told only by a motor that counts it as the decoder   *)
(* does.                                                                   *)
UpTo(n) == -n..n
Word == UpTo(2147483647)
Exact == UpTo(8388607)
Counted(n) == UpTo(32768 * n - 1)

Fits(rad_s) == RadPerSecToErpm(rad_s) \in Counted(10)

Reaches(rad) ==
  IF state.extended_position_valid
  THEN ExtUnit = 100 /\ RadToDeg(rad) \in Word
  ELSE RadToDeg(rad) \in Counted(1000)

(* "callers get a consistent sign convention independent of how the motor  *)
(* happens to be mechanically mounted" (README): whatever the direction,   *)
(* the model and the source of the position, the state published for a     *)
(* motor that does as it is told repeats the command, to one unit of the   *)
(* model and one count of the wire, as far as the wire can tell; duty and  *)
(* braking current reach the motor to one count, braking current without   *)
(* the direction.                                                          *)
FollowsCommand ==
  pc = "published" =>
    CASE msg.mode = MODE_VELOCITY ->
           Fits(msg.velocity) => Near(state.velocity, msg.velocity, 1)
      [] msg.mode = MODE_POSITION ->
           Reaches(msg.position) => Near(state.position, msg.position, 1)
      [] msg.mode = MODE_CURRENT  ->
           msg.current \in Counted(10)
             => Near(state.current, msg.current, 10)
      [] msg.mode = MODE_CURRENT_BRAKE ->
           msg.current \in Exact => Near(motor.brake, msg.current, 1)
      [] msg.mode = MODE_DUTY ->
           msg.duty \in Exact => Near(Sign * motor.duty, msg.duty, 1)
      [] OTHER -> TRUE

(* The combined mode: the profile the motor runs has the position, speed   *)
(* and acceleration of the request, sign included, as far as the wire can  *)
(* tell.                                                                   *)
ProfileAsRequested ==
  pc = "published" /\ msg.mode = MODE_POSITION_VELOCITY
    /\ Reaches(msg.position) /\ Fits(msg.velocity) /\ Fits(msg.acceleration)
    => /\ Near(state.position, msg.position, 1)
       /\ Near(state.velocity, msg.velocity, 1)
       /\ Near(Sign * motor.accel, RadPerSecToErpm(msg.acceleration), 10)

(* A position published from a 0x2A frame is the count times 0.01 degree,  *)
(* for multi-turn positions of either sign and in either direction: a      *)
(* motor that counts in ExtUnit is published at 100 / ExtUnit times where  *)
(* it is, to two units of the count and one of the position.               *)
ExtendedScaled ==
  pc = "published" /\ state.extended_position_valid =>
    Near(ExtUnit * (Sign * state.position), 100 * DegToRad(motor.position),
         2 * ExtUnit + 100)

(* "Extended position frame, position (0.0001 degree, multi-turn)"         *)
(* (README, feedback frames; protocol.hpp): with a motor that counts as    *)
(* the documents say, a position taken from a 0x2A frame is where the      *)
(* motor is.                                                               *)
ExtendedPositionTrue ==
  pc = "published" /\ state.extended_position_valid =>
    Near(Sign * state.position, DegToRad(motor.position), 1)

MitRequest ==
  [position |-> Sign * msg.position, velocity |-> Sign * msg.mit_velocity,
   kp |-> msg.kp, kd |-> msg.kd, torque |-> Sign * msg.mit_torque]

MitMoved == pc = "moved" /\ msg.mode = MODE_MIT

(* MIT mode: as long as no request reaches a top that overflows, the motor *)
(* reads every field within one code of the clamped request, whatever the  *)
(* other fields hold.  Only the position's scale is rounded down, so only  *)
(* a position may be at or beyond its top.                                 *)
BelowTop(f) == MitRequest[f] < Limits[f].max \/ Limits[f].down

MitFieldsExact ==
  MitMoved /\ (\A f \in DOMAIN Limits : BelowTop(f)) =>
    \A f \in DOMAIN Limits :
      LET field == Limits[f]
          span  == field.max - field.min
          want  == (Clamp(MitRequest[f], field.min, field.max) - field.min)
                     * field.codes
      IN motor[f] * span <= want /\ want <= (motor[f] + 1) * span

(* "packing at the extremes of a model's declared range should use the     *)
(* full 12/16-bit span (0 and max code), not overflow"                     *)
(* (test_protocol.cpp): a field requested at or beyond an end of its range *)
(* is read by the motor as the code of that end.                           *)
MitExtremes ==
  MitMoved =>
    \A f \in DOMAIN Limits :
      /\ MitRequest[f] <= Limits[f].min => motor[f] = 0
      /\ MitRequest[f] >= Limits[f].max => motor[f] = Limits[f].codes - 1
=============================================================================
