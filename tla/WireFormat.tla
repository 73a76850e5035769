----------------------------- MODULE WireFormat -----------------------------
(***************************************************************************)
(* The payloads of the AK-V3 protocol (protocol.cpp): big-endian integers, *)
(* fixed-point quantisation and the bit fields of an MIT command.  A       *)
(* payload is a sequence of bytes; index i of the source is i + 1 here.    *)
(* The real numbers of the program are integers in a fixed unit.           *)
(***************************************************************************)
EXTENDS CanFrames, Sequences

MODE_DUTY              == 0
MODE_CURRENT           == 1
MODE_CURRENT_BRAKE     == 2
MODE_VELOCITY          == 3
MODE_POSITION          == 4
MODE_SET_ORIGIN        == 5
MODE_POSITION_VELOCITY == 6
MODE_MIT               == 8
MODE_DISABLE           == 15
MODE_FEEDBACK_CONFIG   == 16

(* The modes a MotorCommand may ask for.                                   *)
ServoModes == {MODE_DUTY, MODE_CURRENT, MODE_CURRENT_BRAKE, MODE_VELOCITY,
               MODE_POSITION, MODE_POSITION_VELOCITY}
CommandModes == ServoModes \cup {MODE_MIT}

Byte    == 0..255
Payload == [1..8 -> Byte]
Int16   == -32768..32767

(* Mutant: the value is shifted and not cut to a byte.                      *)
Octet_NoCast(value, unit) == value \div unit

(* The octet of a two's-complement number that counts units of 2^shift: >>  *)
(* is \div, the cast is %.                                                  *)
Octet(value, unit) == (value \div unit) % 256

AppendInt32(value) ==
  <<Octet(value, 16777216), Octet(value, 65536), Octet(value, 256),
    Octet(value, 1)>>

AppendInt16(value) == <<Octet(value, 256), Octet(value, 1)>>

AppendUint16(value) == <<Octet(value, 256), Octet(value, 1)>>

Signed(byte) == IF byte >= 128 THEN byte - 256 ELSE byte

GetInt16(high, low) == Signed(high) * 256 + low

GetInt32(b0, b1, b2, b3) ==
  Signed(b0) * 16777216 + b1 * 65536 + b2 * 256 + b3

(* static_cast<int16_t> of a float beyond int16_t: undefined by the         *)
(* language; the targets convert to int32_t and keep the low half.          *)
CastInt16(value) == ((value + 32768) % 65536) - 32768

(* static_cast<int> of a quotient truncates toward zero.                    *)
Quotient(a, b) == IF a >= 0 THEN a \div b ELSE -((-a) \div b)

Zeros(n) == [i \in 1..n |-> 0]

MakeFrame(mode, can_id, data) ==
  [id |-> BuildCanId(mode, can_id), dlc |-> Len(data),
   data |-> data \o Zeros(8 - Len(data))]

-----------------------------------------------------------------------------
(* The requests of the services and their frames.                          *)

Disable == [service |-> "disable"]
SetOrigin(permanent) == [service |-> "set_origin", permanent |-> permanent]
SetFeedbackConfig(add_extended_position, single_turn) ==
  [service |-> "set_feedback_config", add |-> add_extended_position,
   single |-> single_turn]

(* Mutant: the byte says temporary.                                        *)
PackSetOrigin_Inverted(can_id, permanent) ==
  MakeFrame(MODE_SET_ORIGIN, can_id, <<IF permanent THEN 0 ELSE 1>>)

PackSetOrigin(can_id, permanent) ==
  MakeFrame(MODE_SET_ORIGIN, can_id, <<IF permanent THEN 1 ELSE 0>>)

PackDisable(can_id) == MakeFrame(MODE_DISABLE, can_id, <<>>)

(* Mutant: the two flags are exchanged.                                    *)
PackFeedbackConfig_Swapped(can_id, add_extended_position, single_turn) ==
  MakeFrame(MODE_FEEDBACK_CONFIG, can_id,
            Zeros(6) \o AppendUint16((IF single_turn THEN 32768 ELSE 0)
                          + (IF add_extended_position THEN 16384 ELSE 0)))

(* Bits 15 and 14 of the word in bytes 6 and 7.                            *)
PackFeedbackConfig(can_id, add_extended_position, single_turn) ==
  MakeFrame(MODE_FEEDBACK_CONFIG, can_id,
            Zeros(6) \o AppendUint16((IF add_extended_position THEN 32768 ELSE 0)
                          + (IF single_turn THEN 16384 ELSE 0)))

-----------------------------------------------------------------------------
(* MIT quantisation.                                                       *)

(***************************************************************************)
(* A field: its range in the unit of the model, how many codes its width   *)
(* has (1u << bits), and whether the float product (x - x_min) * scale     *)
(* falls just below an exact integer.                                      *)
(* 65536 / 25.12f is rounded down, which is why zero packs to 0x7FFF and   *)
(* 12.56 rad to 0xFFFF; the scales of the other fields are exact enough    *)
(* for every multiple of their unit.                                       *)
(***************************************************************************)
Field(min, max, codes, down) ==
  [min |-> min, max |-> max, codes |-> codes, down |-> down]

(* position in 0.01 rad, velocity and torque in tenths, kd in 0.01.         *)
MitFields(limits) ==
  [position |-> Field(-1256, 1256, 65536, TRUE),
   velocity |-> Field(-limits.velocity_max, limits.velocity_max, 4096, FALSE),
   kp       |-> Field(0, 500, 4096, FALSE),
   kd       |-> Field(0, 500, 4096, FALSE),
   torque   |-> Field(-limits.torque_max, limits.torque_max, 4096, FALSE)]

Clamp(x, min, max) == IF x < min THEN min ELSE IF x > max THEN max ELSE x

(* floatToUint(): clamp, then scale by the codes over the span.             *)
FloatToUint(x, field) ==
  LET offset == (Clamp(x, field.min, field.max) - field.min) * field.codes
      span   == field.max - field.min
  IN IF field.down /\ offset > 0 THEN (offset - 1) \div span
                                 ELSE offset \div span

(* high | low for a high nibble and the five low bits a code may reach.     *)
JoinNibble(high, low) ==
  IF low < 16 \/ (high \div 16) % 2 = 0 THEN high + low ELSE high

(* Mutant: the high nibble of kd's byte is taken from the velocity.         *)
PackMit_Swapped(kp, kd, p, v, t) ==
  <<Octet(kp, 16), JoinNibble((kp % 16) * 16, v \div 256), kd % 256,
    Octet(p, 256), p % 256,
    Octet(v, 16), JoinNibble((v % 16) * 16, t \div 256), t % 256>>

(* kp(12) | kd(12) | position(16) | velocity(12) | torque(12).              *)
PackMit(kp, kd, p, v, t) ==
  <<Octet(kp, 16), JoinNibble((kp % 16) * 16, kd \div 256), kd % 256,
    Octet(p, 256), p % 256,
    Octet(v, 16), JoinNibble((v % 16) * 16, t \div 256), t % 256>>

(* The motor's reading of the same layout (external).                       *)
UnpackMit(d) ==
  [kp       |-> d[1] * 16 + d[2] \div 16,
   kd       |-> (d[2] % 16) * 256 + d[3],
   position |-> d[4] * 256 + d[5],
   velocity |-> d[6] * 16 + d[7] \div 16,
   torque   |-> (d[7] % 16) * 256 + d[8]]
=============================================================================
