------------------------- MODULE CommandLoopProofs -------------------------
(***************************************************************************)
(* The control loop for every can_id, every motor of the table and every   *)
(* command a client may publish, whatever its mode and its values: the     *)
(* payloads, where frames go, what the motor reads in MIT mode, and how    *)
(* near what is published comes to what was commanded.                     *)
(***************************************************************************)
EXTENDS CommandLoop, WireFormatProofs, TLAPS

Motion == [brake : Int, duty : Int, current : Int, speed : Int, accel : Int,
           position : Int]

(* What is sent is addressed to the node's motor, and in MIT mode the      *)
(* motor reads what was packed; a moving motor has integers to report.     *)
LoopInv ==
  /\ TypeOK
  /\ invert_direction \in BOOLEAN /\ motor_type \in KnownModels
  /\ pc \in {"sent", "moved"} => msg \in Commands /\ msg.mode \in CommandModes
  /\ pc = "sent" =>
       /\ frame.id = BuildCanId(msg.mode, CanId) /\ frame.data \in Payload
       /\ msg.mode = MODE_MIT =>
            UnpackMit(frame.data) = UnpackMit(PackMitCommand(msg))
  /\ pc = "moved" =>
       IF msg.mode = MODE_MIT THEN motor = UnpackMit(PackMitCommand(msg))
                              ELSE motor \in Motion

-----------------------------------------------------------------------------
(* Identifiers.                                                            *)

(* The identifiers of two functions never meet, whatever the two nodes.    *)
LEMMA IdsApart ==
  ASSUME NEW mode \in Nat, NEW func \in Nat, mode # func,
         NEW m \in Nat, m <= 255, NEW n \in Nat, n <= 255
  PROVE  BuildCanId(mode, m) # BuildCanId(func, n)
  BY SMT DEF BuildCanId

(* An identifier says which motor and which function.                      *)
LEMMA IdSays ==
  ASSUME NEW mode \in Nat, NEW m \in Nat, m <= 255
  PROVE  /\ BuildCanId(mode, m) % 256 = m
         /\ BuildCanId(mode, m) \div 256 = mode
  BY SMT DEF BuildCanId

LEMMA ModesApart ==
  ASSUME NEW mode \in CommandModes
  PROVE  /\ mode \in Nat /\ mode <= 8
         /\ mode \notin {FUNC_ID_STATUS, FUNC_ID_EXT_POSITION, FUNC_ID_STARTUP}
         /\ mode \notin {MODE_SET_ORIGIN, MODE_DISABLE, MODE_FEEDBACK_CONFIG}
  BY SMT
     DEF CommandModes, ServoModes, MODE_DUTY, MODE_CURRENT, MODE_CURRENT_BRAKE,
         MODE_VELOCITY, MODE_POSITION, MODE_POSITION_VELOCITY, MODE_MIT,
         MODE_SET_ORIGIN, MODE_DISABLE, MODE_FEEDBACK_CONFIG,
         FUNC_ID_STATUS, FUNC_ID_EXT_POSITION, FUNC_ID_STARTUP

-----------------------------------------------------------------------------
(* The payload of a command.                                               *)

LEMMA ModelFacts ==
  \A name \in KnownModels : /\ kMotorTable[name].velocity_max \in Nat \ {0}
                            /\ kMotorTable[name].torque_max \in Nat \ {0}
                            /\ kMotorTable[name].erpm_per_rpm \in Nat \ {0}
  BY SMT DEF kMotorTable, KnownModels, Spec_

LEMMA QuotientInt ==
  ASSUME NEW a \in Int, NEW b \in Nat \ {0}
  PROVE  Quotient(a, b) \in Int
  BY SMT DEF Quotient

LEMMA CastInt ==
  ASSUME NEW a \in Int
  PROVE  CastInt16(a) \in Int
  BY SMT DEF CastInt16

LEMMA ConversionsInt ==
  ASSUME motor_type \in KnownModels, NEW x \in Int
  PROVE  RadToDeg(x) \in Int /\ RadPerSecToErpm(x) \in Int
<1>1. ErpmPerRpm \in Nat \ {0}
  BY ModelFacts DEF ErpmPerRpm
<1>2. x * 406800 \in Int /\ x * ErpmPerRpm * 678 \in Int
  BY <1>1, SMT
<1>3. QED
  BY <1>2, QuotientInt DEF RadToDeg, RadPerSecToErpm

LEMMA Int32Bytes ==
  ASSUME NEW v \in Int
  PROVE  AppendInt32(v) \in Seq(Byte) /\ Len(AppendInt32(v)) = 4
<1>1. /\ Octet(v, 16777216) \in Byte /\ Octet(v, 65536) \in Byte
      /\ Octet(v, 256) \in Byte /\ Octet(v, 1) \in Byte
  BY OctetByte
<1>2. QED
  BY <1>1 DEF AppendInt32

LEMMA Int16Bytes ==
  ASSUME NEW v \in Int
  PROVE  AppendInt16(v) \in Seq(Byte) /\ Len(AppendInt16(v)) = 2
<1>1. Octet(v, 256) \in Byte /\ Octet(v, 1) \in Byte
  BY OctetByte
<1>2. QED
  BY <1>1 DEF AppendInt16

LEMMA ProfileBytes ==
  ASSUME NEW p \in Int, NEW s \in Int, NEW a \in Int
  PROVE  /\ PackPositionVelocity(p, s, a) \in Seq(Byte)
         /\ Len(PackPositionVelocity(p, s, a)) = 8
<1> DEFINE d1 == AppendInt32(p)
           d2 == AppendInt16(CastInt16(Quotient(s, 10)))
           d3 == AppendInt16(CastInt16(Quotient(a, 10)))
<1>1. d1 \in Seq(Byte) /\ Len(d1) = 4
  BY Int32Bytes
<1>2. \A v \in Int : CastInt16(Quotient(v, 10)) \in Int
  BY QuotientInt, CastInt
<1>3. d2 \in Seq(Byte) /\ Len(d2) = 2 /\ d3 \in Seq(Byte) /\ Len(d3) = 2
  BY <1>2, Int16Bytes
<1>4. PackPositionVelocity(p, s, a) = (d1 \o d2) \o d3
  BY DEF PackPositionVelocity
<1> HIDE DEF d1, d2, d3
<1>5. d2 \o d3 \in Seq(Byte) /\ Len(d2 \o d3) = 4
  <2>1. d2 \o d3 \in Seq(Byte) /\ Len(d2 \o d3) = Len(d2) + Len(d3)
    BY <1>3, ConcatProperties
  <2>2. QED
    BY <1>3, <2>1
<1> DEFINE e == d2 \o d3
<1> HIDE DEF e
<1>6. d1 \o e \in Seq(Byte) /\ Len(d1 \o e) = Len(d1) + Len(e)
  BY <1>1, <1>5, ConcatProperties DEF e
<1>7. (d1 \o d2) \o d3 = d1 \o e
  <2>1. \A t1, t2, t3 \in Seq(Byte) : (t1 \o t2) \o t3 = t1 \o (t2 \o t3)
    BY ConcatAssociative
  <2>2. (d1 \o d2) \o d3 = d1 \o (d2 \o d3)
    BY <1>1, <1>3, <2>1, Zenon
  <2>3. QED
    BY <2>2 DEF e
<1>8. QED
  BY <1>1, <1>4, <1>5, <1>6, <1>7 DEF e

(* A code beyond twelve bits still makes bytes: bit fields may spill into  *)
(* each other, octets do not.                                              *)
LEMMA JoinedByte ==
  ASSUME NEW a \in Nat, NEW b \in Nat, b <= 4096
  PROVE  JoinNibble((a % 16) * 16, b \div 256) \in Byte
<1>1. a % 16 \in Nat /\ a % 16 <= 15 /\ b \div 256 \in Nat /\ b \div 256 <= 16
  BY SMT
<1> DEFINE n == a % 16
           m == b \div 256
<1> HIDE DEF n, m
<1>2. ASSUME n \in Nat, n <= 15, m \in Nat, m <= 16
      PROVE  JoinNibble(n * 16, m) \in Byte
  BY <1>2, SMT DEF JoinNibble, Byte
<1>3. QED
  BY <1>1, <1>2 DEF n, m

(* The five quantities of an MIT command, the direction applied.           *)
Quantities == {"position", "velocity", "kp", "kd", "torque"}

Request(m) ==
  [position |-> Sign * m.position, velocity |-> Sign * m.mit_velocity,
   kp |-> m.kp, kd |-> m.kd, torque |-> Sign * m.mit_torque]

Code(m, f) == FloatToUint(Request(m)[f], Limits[f])

LEMMA RequestInt ==
  ASSUME invert_direction \in BOOLEAN, NEW m \in Commands, NEW f \in Quantities
  PROVE  Request(m)[f] \in Int
<1>1. m \in MotorCommand
  BY CommandsAssumption
<1>2. /\ m.position \in Int /\ m.mit_velocity \in Int /\ m.mit_torque \in Int
      /\ m.kp \in Int /\ m.kd \in Int /\ Sign \in {1, -1}
  BY <1>1 DEF MotorCommand, Sign
<1>3. /\ Sign * m.position \in Int /\ Sign * m.mit_velocity \in Int
      /\ Sign * m.mit_torque \in Int
  BY <1>2
<1>4. QED
  BY <1>2, <1>3 DEF Request, Quantities

LEMMA LimitsSane ==
  ASSUME motor_type \in KnownModels, NEW f \in Quantities
  PROVE  SaneField(Limits[f])
<1> DEFINE v == kMotorTable[motor_type].velocity_max
           t == kMotorTable[motor_type].torque_max
<1>1. v \in Nat \ {0} /\ t \in Nat \ {0}
  BY ModelFacts
<1>2. Limits = [position |-> Field(-1256, 1256, 65536, TRUE),
                velocity |-> Field(-v, v, 4096, FALSE),
                kp |-> Field(0, 500, 4096, FALSE),
                kd |-> Field(0, 500, 4096, FALSE),
                torque |-> Field(-t, t, 4096, FALSE)]
  BY DEF Limits, MitFields
<1> HIDE DEF v, t
<1>3. CASE f = "position"
  <2>1. Limits[f] = Field(-1256, 1256, 65536, TRUE)
    BY <1>2, <1>3
  <2>2. QED
    BY <2>1, SMT DEF SaneField, Field
<1>4. CASE f = "velocity"
  <2>1. Limits[f] = Field(-v, v, 4096, FALSE)
    BY <1>2, <1>4, SMT
  <2>2. -v \in Int /\ v \in Int /\ -v < v
    BY <1>1, SMT
  <2>3. QED
    BY <2>1, <2>2, SMT DEF SaneField, Field
<1>5. CASE f = "kp"
  <2>1. Limits[f] = Field(0, 500, 4096, FALSE)
    BY <1>2, <1>5, SMT
  <2>2. QED
    BY <2>1, SMT DEF SaneField, Field
<1>6. CASE f = "kd"
  <2>1. Limits[f] = Field(0, 500, 4096, FALSE)
    BY <1>2, <1>6, SMT
  <2>2. QED
    BY <2>1, SMT DEF SaneField, Field
<1>7. CASE f = "torque"
  <2>1. Limits[f] = Field(-t, t, 4096, FALSE)
    BY <1>2, <1>7, SMT
  <2>2. -t \in Int /\ t \in Int /\ -t < t
    BY <1>1, SMT
  <2>3. QED
    BY <2>1, <2>2, SMT DEF SaneField, Field
<1>8. QED
  BY <1>3, <1>4, <1>5, <1>6, <1>7 DEF Quantities

(* Every quantity is quantised as WireFormatProofs says.                   *)
Exactly(m, f) ==
  LET field == Limits[f]
      code  == Code(m, f)
      span  == field.max - field.min
      want  == (Clamp(Request(m)[f], field.min, field.max) - field.min)
                 * field.codes
  IN /\ code \in Nat /\ code <= field.codes
     /\ code * span <= want /\ want <= (code + 1) * span
     /\ Request(m)[f] < field.max \/ field.down => code < field.codes

LEMMA FieldQuantised ==
  ASSUME motor_type \in KnownModels, invert_direction \in BOOLEAN,
         NEW m \in Commands, NEW f \in Quantities
  PROVE  Exactly(m, f)
<1>1. Request(m)[f] \in Int /\ SaneField(Limits[f])
  BY RequestInt, LimitsSane
<1>2. QED
  BY <1>1, Quantised DEF Exactly, Code

LEMMA WidthOf ==
  ASSUME motor_type \in KnownModels
  PROVE  /\ Limits["position"].codes = 65536
         /\ \A f \in Quantities \ {"position"} : Limits[f].codes = 4096
         /\ DOMAIN Limits = Quantities
  BY DEF Limits, MitFields, Field, Quantities

LEMMA MitBytes ==
  ASSUME motor_type \in KnownModels, invert_direction \in BOOLEAN,
         NEW m \in Commands
  PROVE  PackMitCommand(m) \in Seq(Byte) /\ Len(PackMitCommand(m)) = 8
<1> DEFINE kp == Code(m, "kp")
           kd == Code(m, "kd")
           p  == Code(m, "position")
           v  == Code(m, "velocity")
           t  == Code(m, "torque")
<1>1. \A f \in Quantities : Code(m, f) \in Nat /\ Code(m, f) <= Limits[f].codes
  BY FieldQuantised DEF Exactly
<1>2. /\ kp \in Nat /\ kd \in Nat /\ p \in Nat /\ v \in Nat /\ t \in Nat
      /\ kd <= 4096 /\ t <= 4096
  BY <1>1, WidthOf DEF Quantities
<1>3. PackMitCommand(m) = PackMit(kp, kd, p, v, t)
  BY DEF PackMitCommand, Code, Request
<1> HIDE DEF kp, kd, p, v, t
<1>4. \A x \in Nat : x % 256 \in Byte
  BY SMT DEF Byte
<1>5. /\ Octet(kp, 16) \in Byte /\ kd % 256 \in Byte /\ Octet(p, 256) \in Byte
      /\ p % 256 \in Byte /\ Octet(v, 16) \in Byte /\ t % 256 \in Byte
  BY <1>2, <1>4, OctetByte
<1>6. /\ JoinNibble((kp % 16) * 16, kd \div 256) \in Byte
      /\ JoinNibble((v % 16) * 16, t \div 256) \in Byte
  BY <1>2, JoinedByte
<1>7. QED
  BY <1>3, <1>5, <1>6 DEF PackMit
LEMMA SignTimes ==
  ASSUME invert_direction \in BOOLEAN, NEW x \in Int
  PROVE  Sign * x \in Int
<1>1. Sign \in Int
  BY DEF Sign
<1>2. QED
  BY <1>1

(* The cast gives up a count at most, and never leaves a range.            *)
LEMMA CastNear ==
  ASSUME NEW count \in Int, NEW low \in BOOLEAN
  PROVE  /\ ToInt32(count, low) \in Int
         /\ ToInt32(count, low) - count \in -1..1
         /\ \A n \in Int : -n <= count /\ count <= n =>
              -n <= ToInt32(count, low) /\ ToInt32(count, low) <= n
<1> DEFINE r == ToInt32(count, low)
<1>1. r \in Int /\ r \in {count, count - 1, count + 1}
      /\ (count >= 0 => r >= 0 /\ r <= count)
      /\ (count <= 0 => r <= 0 /\ r >= count)
  BY DEF ToInt32
<1> HIDE DEF r
<1>2. QED
  BY <1>1 DEF r

(* A command in any mode fills four or eight bytes.                        *)
LEMMA CommandBytes ==
  ASSUME motor_type \in KnownModels, invert_direction \in BOOLEAN,
         NEW m \in Commands, m.mode \in CommandModes, NEW low \in BOOLEAN
  PROVE  /\ PackCommand(m, low) \in Seq(Byte)
         /\ Len(PackCommand(m, low)) \in {4, 8}
<1>1. /\ m.duty \in Int /\ m.current \in Int /\ m.velocity \in Int
      /\ m.position \in Int /\ m.acceleration \in Int
  BY CommandsAssumption DEF MotorCommand
<1>2. /\ Sign * m.duty \in Int /\ Sign * m.current \in Int
      /\ Sign * m.velocity \in Int /\ Sign * m.position \in Int
      /\ Sign * m.acceleration \in Int
      /\ ToInt32(Sign * m.duty, low) \in Int
      /\ ToInt32(Sign * m.current, low) \in Int
      /\ ToInt32(m.current, low) \in Int
  BY <1>1, SignTimes, CastNear
<1>3. /\ RadToDeg(Sign * m.position) \in Int
      /\ RadPerSecToErpm(Sign * m.velocity) \in Int
      /\ RadPerSecToErpm(Sign * m.acceleration) \in Int
  BY <1>2, ConversionsInt
<1>4. CASE m.mode = MODE_DUTY
  <2>1. PackCommand(m, low) = AppendInt32(ToInt32(Sign * m.duty, low))
    BY <1>4, SMT DEF PackCommand, MODE_DUTY, MODE_CURRENT, MODE_CURRENT_BRAKE,
       MODE_VELOCITY, MODE_POSITION, MODE_POSITION_VELOCITY, MODE_MIT
  <2>2. QED
    BY <1>2, <2>1, Int32Bytes
<1>5. CASE m.mode = MODE_CURRENT
  <2>1. PackCommand(m, low) = AppendInt32(ToInt32(Sign * m.current, low))
    BY <1>5, SMT DEF PackCommand, MODE_DUTY, MODE_CURRENT, MODE_CURRENT_BRAKE,
       MODE_VELOCITY, MODE_POSITION, MODE_POSITION_VELOCITY, MODE_MIT
  <2>2. QED
    BY <1>2, <2>1, Int32Bytes
<1>6. CASE m.mode = MODE_CURRENT_BRAKE
  <2>1. PackCommand(m, low) = AppendInt32(ToInt32(m.current, low))
    BY <1>6, SMT DEF PackCommand, MODE_DUTY, MODE_CURRENT, MODE_CURRENT_BRAKE,
       MODE_VELOCITY, MODE_POSITION, MODE_POSITION_VELOCITY, MODE_MIT
  <2>2. QED
    BY <1>2, <2>1, Int32Bytes
<1>7. CASE m.mode = MODE_VELOCITY
  <2>1. PackCommand(m, low) = AppendInt32(RadPerSecToErpm(Sign * m.velocity))
    BY <1>7, SMT DEF PackCommand, MODE_DUTY, MODE_CURRENT, MODE_CURRENT_BRAKE,
       MODE_VELOCITY, MODE_POSITION, MODE_POSITION_VELOCITY, MODE_MIT
  <2>2. QED
    BY <1>3, <2>1, Int32Bytes
<1>8. CASE m.mode = MODE_POSITION
  <2>1. PackCommand(m, low) = AppendInt32(RadToDeg(Sign * m.position))
    BY <1>8, SMT DEF PackCommand, MODE_DUTY, MODE_CURRENT, MODE_CURRENT_BRAKE,
       MODE_VELOCITY, MODE_POSITION, MODE_POSITION_VELOCITY, MODE_MIT
  <2>2. QED
    BY <1>3, <2>1, Int32Bytes
<1>9. CASE m.mode = MODE_POSITION_VELOCITY
  <2>1. PackCommand(m, low) =
          PackPositionVelocity(RadToDeg(Sign * m.position),
                               RadPerSecToErpm(Sign * m.velocity),
                               RadPerSecToErpm(Sign * m.acceleration))
    BY <1>9, SMT DEF PackCommand, MODE_DUTY, MODE_CURRENT, MODE_CURRENT_BRAKE,
       MODE_VELOCITY, MODE_POSITION, MODE_POSITION_VELOCITY, MODE_MIT
  <2>2. QED
    BY <1>3, <2>1, ProfileBytes
<1>10. CASE m.mode = MODE_MIT
  <2>1. PackCommand(m, low) = PackMitCommand(m)
    BY <1>10, SMT DEF PackCommand, MODE_DUTY, MODE_CURRENT, MODE_CURRENT_BRAKE,
       MODE_VELOCITY, MODE_POSITION, MODE_POSITION_VELOCITY, MODE_MIT
  <2>2. QED
    BY <2>1, MitBytes
<1>11. QED
  BY <1>4, <1>5, <1>6, <1>7, <1>8, <1>9, <1>10 DEF CommandModes, ServoModes

(* The frame of a command: its address, its payload, and that the padding  *)
(* leaves what the motor reads in MIT mode alone.                          *)
LEMMA CommandFrame ==
  ASSUME motor_type \in KnownModels, invert_direction \in BOOLEAN,
         NEW m \in Commands, m.mode \in CommandModes, NEW low \in BOOLEAN
  PROVE  LET f == MakeFrame(m.mode, CanId, PackCommand(m, low))
         IN /\ f.id = BuildCanId(m.mode, CanId) /\ f.dlc \in {4, 8}
            /\ f.data \in Payload
            /\ m.mode = MODE_MIT =>
                 UnpackMit(f.data) = UnpackMit(PackMitCommand(m))
<1> DEFINE d == PackCommand(m, low)
           all == d \o Zeros(8 - Len(d))
           f == MakeFrame(m.mode, CanId, d)
<1>1. d \in Seq(Byte) /\ Len(d) \in {4, 8}
  BY CommandBytes
<1>2. f.id = BuildCanId(m.mode, CanId) /\ f.dlc = Len(d) /\ f.data = all
  BY DEF MakeFrame
<1>3. m.mode = MODE_MIT => d = PackMitCommand(m)
  BY SMT DEF PackCommand, MODE_DUTY, MODE_CURRENT, MODE_CURRENT_BRAKE,
     MODE_VELOCITY, MODE_POSITION, MODE_POSITION_VELOCITY, MODE_MIT
<1> HIDE DEF d, f
<1>4. all \in Payload /\ \A i \in 1..Len(d) : all[i] = d[i]
  <2>1. \A n \in {4, 8} : n <= 8
    OBVIOUS
  <2>2. Len(d) <= 8
    BY <1>1, <2>1, Zenon
  <2>3. QED
    BY <1>1, <2>2, PayloadMade
<1> HIDE DEF all
<1>5. ASSUME m.mode = MODE_MIT
      PROVE  UnpackMit(all) = UnpackMit(PackMitCommand(m))
  <2>1. d = PackMitCommand(m) /\ Len(d) = 8
    BY <1>3, <1>5, MitBytes
  <2>2. /\ all[1] = d[1] /\ all[2] = d[2] /\ all[3] = d[3] /\ all[4] = d[4]
        /\ all[5] = d[5] /\ all[6] = d[6] /\ all[7] = d[7] /\ all[8] = d[8]
    BY <1>4, <2>1, SMT
  <2>3. UnpackMit(all) = UnpackMit(d)
    BY <2>2, Zenon DEF UnpackMit
  <2>4. QED
    BY <2>1, <2>3
<1>6. QED
  BY <1>1, <1>2, <1>4, <1>5 DEF f, d

-----------------------------------------------------------------------------
(* The motor and its reports.                                              *)

LEMMA WordInt ==
  ASSUME NEW d \in Payload
  PROVE  /\ GetInt32(d[1], d[2], d[3], d[4]) \in Int
         /\ 10 * GetInt16(d[5], d[6]) \in Int
         /\ 10 * GetInt16(d[7], d[8]) \in Int
<1>1. /\ d[1] \in Int /\ d[2] \in Int /\ d[3] \in Int /\ d[4] \in Int
      /\ d[5] \in Int /\ d[6] \in Int /\ d[7] \in Int /\ d[8] \in Int
  BY DEF Payload, Byte
<1>2. /\ Signed(d[1]) \in Int /\ Signed(d[5]) \in Int /\ Signed(d[7]) \in Int
  BY <1>1 DEF Signed
<1>3. QED
  BY <1>1, <1>2, SMT DEF GetInt32, GetInt16

LEMMA ExecutedMotion ==
  ASSUME NEW d \in Payload, NEW mode \in ServoModes
  PROVE  Executed(mode, d) \in Motion
<1> DEFINE word  == GetInt32(d[1], d[2], d[3], d[4])
           speed == 10 * GetInt16(d[5], d[6])
           accel == 10 * GetInt16(d[7], d[8])
<1>1. word \in Int /\ speed \in Int /\ accel \in Int
  BY WordInt
<1>2. Rest \in Motion
  BY DEF Rest, Motion
<1>3. /\ [Rest EXCEPT !.duty = word] \in Motion
      /\ [Rest EXCEPT !.current = word] \in Motion
      /\ [Rest EXCEPT !.brake = word] \in Motion
      /\ [Rest EXCEPT !.speed = word] \in Motion
      /\ [Rest EXCEPT !.position = word] \in Motion
      /\ [Rest EXCEPT !.position = word, !.speed = speed, !.accel = accel]
           \in Motion
  <2> HIDE DEF word, speed, accel
  <2>1. QED
    BY <1>1, <1>2 DEF Motion
<1>4. Executed(mode, d) \in
        {[Rest EXCEPT !.duty = word], [Rest EXCEPT !.current = word],
         [Rest EXCEPT !.brake = word], [Rest EXCEPT !.speed = word],
         [Rest EXCEPT !.position = word],
         [Rest EXCEPT !.position = word, !.speed = speed, !.accel = accel]}
  BY SMT DEF Executed, ServoModes, MODE_DUTY, MODE_CURRENT,
     MODE_CURRENT_BRAKE, MODE_VELOCITY, MODE_POSITION, MODE_POSITION_VELOCITY
<1> HIDE DEF word, speed, accel
<1>5. QED
  BY <1>3, <1>4, Zenon

(* The 0x29 payload of any motion is eight bytes.                          *)
LEMMA StatusPayload ==
  ASSUME NEW p \in Int, NEW s \in Int, NEW c \in Int
  PROVE  AppendInt16(p) \o AppendInt16(s) \o AppendInt16(c) \o <<25, 0>>
           \in Payload
<1> DEFINE p2 == AppendInt16(p)
           s2 == AppendInt16(s)
           c2 == AppendInt16(c)
           tail == <<25, 0>>
<1>1. /\ p2 \in Seq(Byte) /\ s2 \in Seq(Byte) /\ c2 \in Seq(Byte)
      /\ Len(p2) = 2 /\ Len(s2) = 2 /\ Len(c2) = 2
  BY Int16Bytes
<1>2. tail \in Seq(Byte) /\ Len(tail) = 2
  BY DEF Byte
<1> HIDE DEF p2, s2, c2, tail
<1> DEFINE a == p2 \o s2
           b == a \o c2
           all == b \o tail
<1>3. a \in Seq(Byte) /\ Len(a) = 4
  <2>1. a \in Seq(Byte) /\ Len(a) = Len(p2) + Len(s2)
    BY <1>1, ConcatProperties
  <2> HIDE DEF a
  <2>2. QED
    BY <1>1, <2>1
<1> HIDE DEF a
<1>4. b \in Seq(Byte) /\ Len(b) = 6
  <2>1. b \in Seq(Byte) /\ Len(b) = Len(a) + Len(c2)
    BY <1>1, <1>3, ConcatProperties
  <2> HIDE DEF b
  <2>2. QED
    BY <1>1, <1>3, <2>1
<1> HIDE DEF b
<1>5. all \in Seq(Byte) /\ Len(all) = 8
  <2>1. all \in Seq(Byte) /\ Len(all) = Len(b) + Len(tail)
    BY <1>2, <1>4, ConcatProperties
  <2> HIDE DEF all
  <2>2. QED
    BY <1>2, <1>4, <2>1
<1> HIDE DEF all
<1>6. all \in Payload
  BY <1>5, LenProperties DEF Payload
<1>7. QED
  BY <1>6 DEF all, a, b, p2, s2, c2, tail

LEMMA ExtPayload ==
  ASSUME NEW v \in Int
  PROVE  AppendInt32(v) \in [1..4 -> Byte]
<1>1. AppendInt32(v) \in Seq(Byte) /\ Len(AppendInt32(v)) = 4
  BY Int32Bytes
<1>2. QED
  BY <1>1, LenProperties

-----------------------------------------------------------------------------
(* The invariant.                                                          *)

LEMMA InitLoop == Init => LoopInv
  BY DEF Init, LoopInv, TypeOK

LEMMA NextLoop ==
  ASSUME LoopInv, [Next]_vars
  PROVE  LoopInv'
<1>1. /\ TypeOK /\ invert_direction \in BOOLEAN /\ motor_type \in KnownModels
  BY DEF LoopInv
<1>2. ASSUME NEW m \in Commands, NEW low \in BOOLEAN, OnCommand(m, low)
      PROVE  LoopInv'
  <2> DEFINE f == MakeFrame(m.mode, CanId, PackCommand(m, low))
  <2>1. /\ m.mode \in CommandModes /\ msg' = m /\ frame' = f /\ pc' = "sent"
        /\ UNCHANGED <<params, motor, status, ext>>
    BY <1>2 DEF OnCommand
  <2>2. /\ f.id = BuildCanId(m.mode, CanId) /\ f.dlc \in {4, 8}
        /\ f.data \in Payload
        /\ m.mode = MODE_MIT =>
             UnpackMit(f.data) = UnpackMit(PackMitCommand(m))
    BY <1>1, <2>1, CommandFrame
  <2>3. BuildCanId(m.mode, CanId) \in Nat
    <3>1. m.mode \in Nat /\ m.mode <= 8 /\ CanId \in Nat /\ CanId <= 255
      BY <2>1, ModesApart, CanIdAssumption DEF DriverId
    <3>2. QED
      BY <3>1, SMT DEF BuildCanId
  <2> HIDE DEF f
  <2>4. TypeOK'
    BY <1>1, <2>1, <2>2, <2>3 DEF TypeOK
  <2>5. PackMitCommand(m)' = PackMitCommand(m)
    BY <2>1 DEF PackMitCommand, Limits, Sign, params
  <2>6. pc' = "sent" =>
          /\ frame.id' = BuildCanId(msg'.mode, CanId) /\ frame.data' \in Payload
          /\ msg'.mode = MODE_MIT =>
               UnpackMit(frame.data') = UnpackMit(PackMitCommand(msg)')
    BY <2>1, <2>2, <2>5
  <2>7. QED
    BY <1>1, <2>1, <2>4, <2>6 DEF LoopInv, params
<1>3. ASSUME NEW m \in Commands, OnUnknownCommand(m)
      PROVE  LoopInv'
  BY <1>1, <1>3 DEF OnUnknownCommand, LoopInv, TypeOK, params
<1>4. CASE MotorExecutes
  <2>1. /\ pc = "sent" /\ pc' = "moved"
        /\ UNCHANGED <<params, msg, frame, status, ext>>
    BY <1>4 DEF MotorExecutes
  <2>2. /\ msg \in Commands /\ msg.mode \in CommandModes
        /\ frame.id = BuildCanId(msg.mode, CanId) /\ frame.data \in Payload
        /\ msg.mode = MODE_MIT =>
             UnpackMit(frame.data) = UnpackMit(PackMitCommand(msg))
    BY <2>1 DEF LoopInv
  <2>3. frame.id \div 256 = msg.mode
    BY <2>2, ModesApart, IdSays, CanIdAssumption DEF DriverId
  <2>4. motor' = IF msg.mode = MODE_MIT THEN UnpackMit(frame.data)
                                        ELSE Executed(msg.mode, frame.data)
    BY <1>4, <2>3 DEF MotorExecutes
  <2>5. msg.mode # MODE_MIT => motor' \in Motion
    BY <2>2, <2>4, ExecutedMotion DEF CommandModes
  <2>6. PackMitCommand(msg)' = PackMitCommand(msg)
    BY <2>1 DEF PackMitCommand, Limits, Sign, params
  <2>7. TypeOK'
    BY <1>1, <2>1 DEF TypeOK
  <2>8. IF msg.mode = MODE_MIT THEN motor' = UnpackMit(PackMitCommand(msg)')
                               ELSE motor' \in Motion
    BY <2>2, <2>4, <2>5, <2>6
  <2>9. QED
    BY <1>1, <2>1, <2>2, <2>7, <2>8 DEF LoopInv, params
<1>5. CASE MotorReports
  <2>1. /\ pc = "moved" /\ pc' = "reported" /\ msg.mode # MODE_MIT
        /\ status' = AppendInt16(Quotient(motor.position, 1000))
                       \o AppendInt16(Quotient(motor.speed, 10))
                       \o AppendInt16(Quotient(motor.current, 10))
                       \o <<25, 0>>
        /\ ext' = IF ext_enabled
                  THEN AppendInt32(Quotient(motor.position, ExtUnit))
                  ELSE Absent
        /\ UNCHANGED <<params, msg, frame, motor>>
    BY <1>5 DEF MotorReports
  <2>2. motor.position \in Int /\ motor.speed \in Int /\ motor.current \in Int
    BY <2>1 DEF LoopInv, Motion
  <2>3. /\ Quotient(motor.position, 1000) \in Int
        /\ Quotient(motor.speed, 10) \in Int
        /\ Quotient(motor.current, 10) \in Int
        /\ Quotient(motor.position, ExtUnit) \in Int
    BY <2>2, QuotientInt, UnitAssumption
  <2>4. status' \in Payload
    BY <2>1, <2>3, StatusPayload
  <2>5. ext' = Absent \/ ext' \in [1..4 -> Byte]
    BY <2>1, <2>3, ExtPayload
  <2>6. TypeOK'
    BY <1>1, <2>1, <2>4, <2>5 DEF TypeOK
  <2>7. QED
    BY <1>1, <2>1, <2>6 DEF LoopInv, params
<1>6. CASE Publish
  BY <1>1, <1>6 DEF Publish, LoopInv, TypeOK, params
<1>7. CASE NextTurn
  BY <1>1, <1>7 DEF NextTurn, LoopInv, TypeOK, params
<1>8. CASE UNCHANGED vars
  <2>1. PackMitCommand(msg)' = PackMitCommand(msg)
    BY <1>8 DEF vars, PackMitCommand, Limits, Sign, params
  <2>2. QED
    BY <1>8, <2>1 DEF vars, LoopInv, TypeOK, params
<1>9. QED
  BY <1>2, <1>3, <1>4, <1>5, <1>6, <1>7, <1>8 DEF Next

LEMMA AlwaysLoop == Spec => []LoopInv
<1>1. LoopInv /\ [Next]_vars => LoopInv'
  BY NextLoop
<1>2. QED
  BY InitLoop, <1>1, PTL DEF Spec

(* Whatever is commanded, each payload on the bus is made of bytes, and of *)
(* as many as dlc and the layout say.                                      *)
THEOREM LoopTyped == Spec => []TypeOK
<1>1. LoopInv => TypeOK
  BY DEF LoopInv
<1>2. QED
  BY AlwaysLoop, <1>1, PTL

(* For every can_id and every command, a command's frame reaches its own   *)
(* motor in the mode asked for, is never taken for feedback and never for  *)
(* the frame of a service.                                                 *)
THEOREM CommandsStayHome == Spec => []OwnMotorOnly
<1>1. ASSUME LoopInv PROVE OwnMotorOnly
  <2>1. SUFFICES ASSUME pc = "sent"
                 PROVE  /\ frame.id % 256 = CanId
                        /\ frame.id \div 256 = msg.mode
                        /\ \A func \in {FUNC_ID_STATUS, FUNC_ID_EXT_POSITION,
                                        FUNC_ID_STARTUP},
                              node \in 0..255 : frame.id # BuildCanId(func, node)
                        /\ frame.id \div 256 \notin
                             {MODE_SET_ORIGIN, MODE_DISABLE, MODE_FEEDBACK_CONFIG}
    BY DEF OwnMotorOnly
  <2>2. msg.mode \in CommandModes /\ frame.id = BuildCanId(msg.mode, CanId)
    BY <1>1, <2>1 DEF LoopInv
  <2>3. CanId \in Nat /\ CanId <= 255
    BY CanIdAssumption DEF DriverId
  <2>4. /\ msg.mode \in Nat
        /\ msg.mode \notin {FUNC_ID_STATUS, FUNC_ID_EXT_POSITION, FUNC_ID_STARTUP}
        /\ msg.mode \notin {MODE_SET_ORIGIN, MODE_DISABLE, MODE_FEEDBACK_CONFIG}
    BY <2>2, ModesApart
  <2>5. frame.id % 256 = CanId /\ frame.id \div 256 = msg.mode
    BY <2>2, <2>3, <2>4, IdSays
  <2>6. ASSUME NEW func \in {FUNC_ID_STATUS, FUNC_ID_EXT_POSITION,
                             FUNC_ID_STARTUP},
               NEW node \in 0..255
        PROVE  frame.id # BuildCanId(func, node)
    <3>1. func \in Nat /\ func # msg.mode /\ node \in Nat /\ node <= 255
      BY <2>4, SMT DEF FUNC_ID_STATUS, FUNC_ID_EXT_POSITION, FUNC_ID_STARTUP
    <3>2. QED
      BY <2>2, <2>3, <2>4, <3>1, IdsApart
  <2>7. QED
    BY <2>4, <2>5, <2>6
<1>2. LoopInv => OwnMotorOnly
  BY <1>1
<1>3. QED
  BY AlwaysLoop, <1>2, PTL

(* For every command whose MIT quantities stay below a top that overflows, *)
(* the motor reads each of them within one code of the clamped request.    *)
THEOREM FieldsExact == Spec => []MitFieldsExact
<1>1. ASSUME LoopInv PROVE MitFieldsExact
  <2>1. SUFFICES ASSUME MitMoved, \A f \in DOMAIN Limits : BelowTop(f),
                        NEW f \in DOMAIN Limits
                 PROVE
                   LET field == Limits[f]
                       span  == field.max - field.min
                       want  == (Clamp(MitRequest[f], field.min, field.max)
                                   - field.min) * field.codes
                   IN motor[f] * span <= want /\ want <= (motor[f] + 1) * span
    BY DEF MitFieldsExact
  <2>2. /\ motor_type \in KnownModels /\ invert_direction \in BOOLEAN
        /\ msg \in Commands /\ motor = UnpackMit(PackMitCommand(msg))
    BY <1>1, <2>1 DEF LoopInv, MitMoved
  <2>3. MitRequest = Request(msg)
    BY DEF MitRequest, Request
  <2>4. /\ DOMAIN Limits = Quantities /\ Limits["position"].codes = 65536
        /\ \A g \in Quantities \ {"position"} : Limits[g].codes = 4096
    BY <2>2, WidthOf
  <2>5. \A g \in Quantities : Exactly(msg, g)
    BY <2>2, FieldQuantised
  <2>6. ASSUME NEW g \in Quantities
        PROVE  Code(msg, g) \in Nat /\ Code(msg, g) < Limits[g].codes
    <3>1. Request(msg)[g] < Limits[g].max \/ Limits[g].down
      BY <2>1, <2>3, <2>4 DEF BelowTop
    <3>2. Exactly(msg, g)
      BY <2>5
    <3>3. QED
      BY <3>1, <3>2 DEF Exactly
  <2> DEFINE kp == Code(msg, "kp")
             kd == Code(msg, "kd")
             p  == Code(msg, "position")
             v  == Code(msg, "velocity")
             t  == Code(msg, "torque")
  <2>7. /\ kp \in Code12 /\ kd \in Code12 /\ p \in Code16
        /\ v \in Code12 /\ t \in Code12
    BY <2>4, <2>6, SMT DEF Code12, Code16, Quantities
  <2>8. motor = [kp |-> kp, kd |-> kd, position |-> p, velocity |-> v,
                 torque |-> t]
    <3>1. PackMitCommand(msg) = PackMit(kp, kd, p, v, t)
      BY DEF PackMitCommand, Code, Request
    <3> HIDE DEF kp, kd, p, v, t
    <3>2. UnpackMit(PackMit(kp, kd, p, v, t))
            = [kp |-> kp, kd |-> kd, position |-> p, velocity |-> v, torque |-> t]
      BY <2>7, MitRoundTrip
    <3>3. QED
      BY <2>2, <3>1, <3>2, Zenon
  <2>9. motor[f] = Code(msg, f)
    BY <2>4, <2>8 DEF Quantities
  <2>10. Exactly(msg, f)
    BY <2>4, <2>5
  <2>11. QED
    BY <2>3, <2>9, <2>10, Zenon DEF Exactly
<1>2. LoopInv => MitFieldsExact
  BY <1>1
<1>3. QED
  BY AlwaysLoop, <1>2, PTL

-----------------------------------------------------------------------------
(* Arithmetic of the conversions.                                          *)

(* Truncation toward zero is odd, and the floor of what is not negative.   *)
LEMMA QuotientOdd ==
  ASSUME NEW a \in Int, NEW b \in Nat \ {0}
  PROVE  Quotient(-a, b) = -Quotient(a, b)
  BY SMT DEF Quotient

LEMMA QuotientNat ==
  ASSUME NEW a \in Nat, NEW b \in Nat \ {0}
  PROVE  Quotient(a, b) = a \div b /\ Quotient(a, b) \in Nat
  BY SMT DEF Quotient

LEMMA QuotientLaw ==
  ASSUME NEW a \in Nat, NEW b \in Nat \ {0}
  PROVE  /\ Quotient(a, b) \in Nat /\ Quotient(a, b) * b <= a
         /\ a < (Quotient(a, b) + 1) * b
  BY QuotientNat, DivLaw

(* Scaled by k/n, truncated, counted by d, multiplied out and scaled back  *)
(* by n/k, a quantity loses one unit at most if a count is finer than one. *)
LEMMA EchoNat ==
  ASSUME NEW x \in Nat, NEW k \in Nat, NEW n \in Nat \ {0}, NEW d \in Nat \ {0},
         d * n <= k,
         NEW e, e = (x * k) \div n, NEW c, c = e \div d,
         NEW y, y = (c * d * n) \div k
  PROVE  y \in Nat /\ y <= x /\ x <= y + 1
<1>1. x * k \in Nat /\ d * n \in Nat \ {0} /\ k \in Nat \ {0}
  BY SMT
<1>2. e \in Nat /\ e * n <= x * k /\ x * k < (e + 1) * n
  BY <1>1, DivLaw
<1>3. c \in Nat /\ c * d <= e /\ e < (c + 1) * d
  BY <1>2, DivLaw
<1>4. c * d * n \in Nat
  BY <1>3, SMT
<1>5. y \in Nat /\ y * k <= c * d * n /\ c * d * n < (y + 1) * k
  BY <1>1, <1>4, DivLaw
<1>6. c * d * n <= e * n
  BY <1>2, <1>3, SMT
<1>7. (e + 1) * n <= c * d * n + d * n
  <2>1. e + 1 <= (c + 1) * d /\ e + 1 \in Nat /\ (c + 1) * d \in Nat
    BY <1>2, <1>3, SMT
  <2>2. \A u, v \in Nat : u <= v => u * n <= v * n
    BY SMT
  <2>3. (e + 1) * n <= ((c + 1) * d) * n
    BY <2>1, <2>2
  <2>4. ((c + 1) * d) * n = c * d * n + d * n
    BY <1>3, SMT
  <2>5. QED
    BY <2>3, <2>4
<1>8. y * k < (x + 1) * k
  BY <1>1, <1>2, <1>5, <1>6, SMT
<1>9. x * k < (y + 2) * k
  BY <1>1, <1>2, <1>4, <1>5, <1>7, SMT
<1>10. y < x + 1 /\ x < y + 2
  BY <1>1, <1>5, <1>8, <1>9, Grows
<1>11. QED
  BY <1>5, <1>10

(* The same for either sign, truncating toward zero.                       *)
LEMMA Echo ==
  ASSUME NEW x \in Int, NEW k \in Nat, NEW n \in Nat \ {0}, NEW d \in Nat \ {0},
         d * n <= k
  PROVE  LET c == Quotient(Quotient(x * k, n), d)
         IN Quotient(c * d * n, k) - x \in -1..1
<1> DEFINE E(a) == Quotient(a * k, n)
           C(a) == Quotient(E(a), d)
           Y(a) == Quotient(C(a) * d * n, k)
<1>1. k \in Nat \ {0} /\ \A a \in Int : a * k \in Int
  BY SMT
<1>2. \A a \in Int : E(a) \in Int /\ C(a) \in Int
  BY <1>1, QuotientInt
<1>3. \A a \in Nat : Y(a) - a \in -1..1
  <2> SUFFICES ASSUME NEW a \in Nat PROVE Y(a) - a \in -1..1
    OBVIOUS
  <2>1. a * k \in Nat
    BY SMT
  <2>2. E(a) = (a * k) \div n /\ E(a) \in Nat
    BY <2>1, QuotientNat
  <2> HIDE DEF E
  <2>3. C(a) = E(a) \div d /\ C(a) \in Nat
    BY <2>2, QuotientNat
  <2> HIDE DEF C
  <2>4. C(a) * d * n \in Nat
    BY <2>3, SMT
  <2>5. Y(a) = (C(a) * d * n) \div k
    BY <1>1, <2>4, QuotientNat
  <2> HIDE DEF Y
  <2>6. Y(a) \in Nat /\ Y(a) <= a /\ a <= Y(a) + 1
    BY <2>2, <2>3, <2>5, EchoNat
  <2>7. QED
    BY <2>6
<1>4. \A a \in Int : Y(-a) = -Y(a) /\ Y(a) \in Int
  <2> SUFFICES ASSUME NEW a \in Int PROVE Y(-a) = -Y(a) /\ Y(a) \in Int
    OBVIOUS
  <2>1. (-a) * k = -(a * k)
    BY SMT
  <2>2. E(-a) = -E(a)
    BY <1>1, <2>1, QuotientOdd
  <2>3. E(a) \in Int
    BY <1>2
  <2> HIDE DEF E
  <2>4. C(-a) = -C(a)
    BY <2>2, <2>3, QuotientOdd
  <2>5. C(a) \in Int
    BY <2>3, QuotientInt
  <2> HIDE DEF C
  <2>6. (-C(a)) * d * n = -(C(a) * d * n) /\ C(a) * d * n \in Int
    BY <2>5, SMT
  <2> DEFINE z == C(a) * d * n
  <2>7. Y(-a) = Quotient(-z, k) /\ Y(a) = Quotient(z, k)
    BY <2>4, <2>6
  <2>8. z \in Int
    BY <2>6
  <2> HIDE DEF z, Y
  <2>9. QED
    BY <1>1, <2>7, <2>8, QuotientOdd, QuotientInt
<1> HIDE DEF Y
<1>5. CASE x >= 0
  BY <1>3, <1>5 DEF Y
<1>6. CASE x < 0
  <2>1. -x \in Nat
    BY <1>6
  <2>2. Y(-x) - (-x) \in -1..1
    BY <1>3, <2>1
  <2>3. Y(x) - x \in -1..1
    BY <1>4, <2>2
  <2>4. QED
    BY <2>3 DEF Y
<1>7. QED
  BY <1>5, <1>6

(* What the motor reads of a word, and of a pair.                          *)
Word32(d) == GetInt32(d[1], d[2], d[3], d[4])

(* A command as the motor reads it from its frame, which is longer than    *)
(* the payload: the padding is never looked at.                            *)
LEMMA PaddingIgnored ==
  ASSUME NEW d \in Seq(Byte), Len(d) \in {4, 8}, NEW mode \in ServoModes,
         mode = MODE_POSITION_VELOCITY => Len(d) = 8,
         NEW all, \A i \in 1..Len(d) : all[i] = d[i]
  PROVE  Executed(mode, all) = Executed(mode, d)
<1>1. all[1] = d[1] /\ all[2] = d[2] /\ all[3] = d[3] /\ all[4] = d[4]
  BY SMT
<1>2. Len(d) = 8 =>
        all[5] = d[5] /\ all[6] = d[6] /\ all[7] = d[7] /\ all[8] = d[8]
  BY SMT
<1>3. CASE mode = MODE_POSITION_VELOCITY
  BY <1>1, <1>2, <1>3, Zenon DEF Executed
<1>4. CASE mode # MODE_POSITION_VELOCITY
  BY <1>1, <1>4, SMT DEF Executed, ServoModes, MODE_DUTY, MODE_CURRENT,
     MODE_CURRENT_BRAKE, MODE_VELOCITY, MODE_POSITION, MODE_POSITION_VELOCITY
<1>5. QED
  BY <1>3, <1>4

(* A payload is not Absent, nor is what it says.                           *)
LEMMA ExtSent ==
  ASSUME motor \in Motion
  PROVE  AppendInt32(Quotient(motor.position, ExtUnit)) # Absent
<1>1. motor.position \in Int
  BY DEF Motion
<1>2. QED
  BY <1>1, QuotientInt, UnitAssumption, ExtPayload, AbsentAssumption

LEMMA ExtInt ==
  ASSUME NEW d \in [1..4 -> Byte]
  PROVE  DecodeExtendedPositionFrame(d) \in Int
<1>1. d[1] \in Int /\ d[2] \in Int /\ d[3] \in Int /\ d[4] \in Int
  BY DEF Byte
<1>2. QED
  BY <1>1, SMT DEF DecodeExtendedPositionFrame, GetInt32, Signed

(* What is packed for each mode.                                           *)
LEMMA PackedFor ==
  ASSUME NEW m, NEW low
  PROVE  /\ m.mode = MODE_DUTY =>
              PackCommand(m, low) = AppendInt32(ToInt32(Sign * m.duty, low))
         /\ m.mode = MODE_CURRENT =>
              PackCommand(m, low) = AppendInt32(ToInt32(Sign * m.current, low))
         /\ m.mode = MODE_CURRENT_BRAKE =>
              PackCommand(m, low) = AppendInt32(ToInt32(m.current, low))
         /\ m.mode = MODE_VELOCITY =>
              PackCommand(m, low) =
                AppendInt32(RadPerSecToErpm(Sign * m.velocity))
         /\ m.mode = MODE_POSITION =>
              PackCommand(m, low) = AppendInt32(RadToDeg(Sign * m.position))
         /\ m.mode = MODE_POSITION_VELOCITY =>
              PackCommand(m, low) =
                PackPositionVelocity(RadToDeg(Sign * m.position),
                                     RadPerSecToErpm(Sign * m.velocity),
                                     RadPerSecToErpm(Sign * m.acceleration))
  BY SMT DEF PackCommand, MODE_DUTY, MODE_CURRENT, MODE_CURRENT_BRAKE,
     MODE_VELOCITY, MODE_POSITION, MODE_POSITION_VELOCITY, MODE_MIT

LEMMA ProfileLong ==
  ASSUME motor_type \in KnownModels, invert_direction \in BOOLEAN,
         NEW m \in Commands, m.mode = MODE_POSITION_VELOCITY, NEW low
  PROVE  Len(PackCommand(m, low)) = 8
<1>1. m.position \in Int /\ m.velocity \in Int /\ m.acceleration \in Int
  BY CommandsAssumption DEF MotorCommand
<1>2. /\ RadToDeg(Sign * m.position) \in Int
      /\ RadPerSecToErpm(Sign * m.velocity) \in Int
      /\ RadPerSecToErpm(Sign * m.acceleration) \in Int
  BY <1>1, SignTimes, ConversionsInt
<1>3. QED
  BY <1>2, PackedFor, ProfileBytes

(* What the motor does in each mode.                                       *)
LEMMA DoneFor ==
  ASSUME NEW d
  PROVE  LET word == Word32(d)
         IN /\ Executed(MODE_DUTY, d) = [Rest EXCEPT !.duty = word]
            /\ Executed(MODE_CURRENT, d) = [Rest EXCEPT !.current = word]
            /\ Executed(MODE_CURRENT_BRAKE, d) = [Rest EXCEPT !.brake = word]
            /\ Executed(MODE_VELOCITY, d) = [Rest EXCEPT !.speed = word]
            /\ Executed(MODE_POSITION, d) = [Rest EXCEPT !.position = word]
            /\ Executed(MODE_POSITION_VELOCITY, d) =
                 [Rest EXCEPT !.position = word,
                              !.speed = 10 * GetInt16(d[5], d[6]),
                              !.accel = 10 * GetInt16(d[7], d[8])]
  BY SMT DEF Executed, Word32, MODE_DUTY, MODE_CURRENT, MODE_CURRENT_BRAKE,
     MODE_VELOCITY, MODE_POSITION, MODE_POSITION_VELOCITY

-----------------------------------------------------------------------------
(* Values through a turn: what each stage holds is the image of the        *)
(* command under the conversions passed so far.                            *)

Report ==
  AppendInt16(Quotient(motor.position, 1000))
    \o AppendInt16(Quotient(motor.speed, 10))
    \o AppendInt16(Quotient(motor.current, 10)) \o <<25, 0>>

Reading ==
  LET s == DecodeStatusFrame(status)
  IN [position |-> Sign * DegToRad(IF ext_enabled
                                   THEN DecodeExtendedPositionFrame(ext)
                                   ELSE s.position_deg),
      velocity |-> Sign * ErpmToRadPerSec(s.speed_erpm),
      current  |-> Sign * s.current_a,
      extended_position_valid |-> ext_enabled]

TurnInv ==
  /\ ext_enabled \in BOOLEAN
  /\ ext_enabled \/ last_extended_position_deg = Absent
  /\ pc # "idle" => msg \in Commands /\ msg.mode \in CommandModes
  /\ pc \in {"reported", "published"} =>
       msg.mode # MODE_MIT /\ motor \in Motion
  /\ pc = "sent" =>
       \E low \in BOOLEAN : \A i \in 1..Len(PackCommand(msg, low)) :
         frame.data[i] = PackCommand(msg, low)[i]
  /\ pc \in {"moved", "reported", "published"} /\ msg.mode # MODE_MIT =>
       \E low \in BOOLEAN : motor = Executed(msg.mode, PackCommand(msg, low))
  /\ pc \in {"reported", "published"} =>
       /\ status = Report
       /\ ext = IF ext_enabled THEN AppendInt32(Quotient(motor.position, ExtUnit))
                               ELSE Absent
  /\ pc = "published" => state = Reading

LEMMA InitTurn == Init => TurnInv
  BY DEF Init, TurnInv

LEMMA NextTurnInv ==
  ASSUME LoopInv, TurnInv, [Next]_vars
  PROVE  TurnInv'
<1>1. /\ TypeOK /\ invert_direction \in BOOLEAN /\ motor_type \in KnownModels
      /\ ext_enabled \in BOOLEAN
      /\ ext_enabled \/ last_extended_position_deg = Absent
  BY DEF LoopInv, TurnInv
<1>2. ASSUME UNCHANGED params
      PROVE  \A m, low : /\ PackCommand(m, low)' = PackCommand(m, low)
                         /\ Sign' = Sign /\ ErpmPerRpm' = ErpmPerRpm
  BY <1>2 DEF params, PackCommand, PackMitCommand, RadPerSecToErpm, ErpmPerRpm,
              Sign, Limits
<1>3. ASSUME NEW m \in Commands, NEW low \in BOOLEAN, OnCommand(m, low)
      PROVE  TurnInv'
  <2> DEFINE d == PackCommand(m, low)
  <2>1. /\ m.mode \in CommandModes /\ msg' = m /\ pc' = "sent"
        /\ frame' = MakeFrame(m.mode, CanId, d)
        /\ UNCHANGED <<params, last_extended_position_deg>>
    BY <1>3 DEF OnCommand
  <2>2. frame'.data = d \o Zeros(8 - Len(d))
    BY <2>1 DEF MakeFrame
  <2>3. d \in Seq(Byte) /\ Len(d) \in {4, 8}
    BY <1>1, <2>1, CommandBytes
  <2>4. PackCommand(msg, low)' = d
    BY <1>2, <2>1
  <2> HIDE DEF d
  <2>5. \A i \in 1..Len(d) : frame'.data[i] = d[i]
    <3>1. \A n \in {4, 8} : n <= 8
      OBVIOUS
    <3>2. QED
      BY <2>2, <2>3, <3>1, PayloadMade, Zenon
  <2>6. QED
    BY <1>1, <2>1, <2>4, <2>5 DEF TurnInv, params
<1>4. ASSUME NEW m \in Commands, OnUnknownCommand(m)
      PROVE  TurnInv'
  BY <1>1, <1>4 DEF OnUnknownCommand, TurnInv, params
<1>5. CASE MotorExecutes
  <2>1. /\ pc = "sent" /\ pc' = "moved"
        /\ UNCHANGED <<params, msg, last_extended_position_deg>>
        /\ frame.id = BuildCanId(msg.mode, CanId)
        /\ msg \in Commands /\ msg.mode \in CommandModes
    BY <1>5 DEF MotorExecutes, TurnInv, LoopInv
  <2>2. frame.id \div 256 = msg.mode
    BY <2>1, ModesApart, IdSays, CanIdAssumption DEF DriverId
  <2>. PICK low \in BOOLEAN :
         \A i \in 1..Len(PackCommand(msg, low)) :
           frame.data[i] = PackCommand(msg, low)[i]
    BY <2>1 DEF TurnInv
  <2> DEFINE d == PackCommand(msg, low)
  <2>3. ASSUME msg.mode # MODE_MIT
        PROVE  motor' = Executed(msg.mode, d)
    <3>1. motor' = Executed(msg.mode, frame.data) /\ msg.mode \in ServoModes
      BY <1>5, <2>1, <2>2, <2>3 DEF MotorExecutes, CommandModes
    <3>2. /\ d \in Seq(Byte) /\ Len(d) \in {4, 8}
          /\ \A i \in 1..Len(d) : frame.data[i] = d[i]
      BY <1>1, <2>1, CommandBytes
    <3>3. msg.mode = MODE_POSITION_VELOCITY => Len(d) = 8
      BY <1>1, <2>1, ProfileLong
    <3> HIDE DEF d
    <3>4. QED
      BY <3>1, <3>2, <3>3, PaddingIgnored
  <2>4. PackCommand(msg, low)' = d
    BY <1>2, <2>1
  <2>5. QED
    BY <1>1, <2>1, <2>3, <2>4 DEF TurnInv, params
<1>6. CASE MotorReports
  <2>1. /\ pc = "moved" /\ pc' = "reported" /\ msg.mode # MODE_MIT
        /\ status' = Report
        /\ ext' = IF ext_enabled
                  THEN AppendInt32(Quotient(motor.position, ExtUnit))
                  ELSE Absent
        /\ UNCHANGED <<params, msg, frame, motor, last_extended_position_deg>>
        /\ motor \in Motion
    BY <1>6 DEF MotorReports, Report, LoopInv
  <2>2. (\A low : PackCommand(msg, low)' = PackCommand(msg, low))
        /\ Report' = Report
    BY <1>2, <2>1 DEF Report
  <2>3. QED
    BY <1>1, <2>1, <2>2 DEF TurnInv, params
<1>7. CASE Publish
  <2>1. /\ pc = "reported" /\ pc' = "published" /\ msg.mode # MODE_MIT
        /\ motor \in Motion
        /\ UNCHANGED <<params, msg, frame, motor, status, ext>>
        /\ last_extended_position_deg' =
             IF ext = Absent THEN last_extended_position_deg
                             ELSE DecodeExtendedPositionFrame(ext)
    BY <1>7 DEF Publish, TurnInv
  <2>2. /\ \A low : PackCommand(msg, low)' = PackCommand(msg, low)
        /\ Report' = Report /\ Reading' = Reading
    BY <1>2, <2>1 DEF Report, Reading, params, DegToRad, ErpmToRadPerSec
  <2>3. IF ext_enabled
        THEN /\ last_extended_position_deg' = DecodeExtendedPositionFrame(ext)
             /\ last_extended_position_deg' # Absent
        ELSE last_extended_position_deg' = Absent
    <3>1. CASE ext_enabled
      <4>1. ext = AppendInt32(Quotient(motor.position, ExtUnit))
        BY <2>1, <3>1 DEF TurnInv
      <4>2. ext # Absent /\ ext \in [1..4 -> Byte]
        BY <1>1, <2>1, <3>1, <4>1, ExtSent DEF TypeOK
      <4>3. DecodeExtendedPositionFrame(ext) \in Int
        BY <4>2, ExtInt
      <4>4. QED
        BY <2>1, <3>1, <4>2, <4>3, AbsentAssumption
    <3>2. CASE ~ext_enabled
      BY <1>1, <2>1, <3>2 DEF TurnInv
    <3>3. QED
      BY <3>1, <3>2
  <2>4. state' = Reading
    <3>1. state' = [position |-> Sign * DegToRad(
                       IF last_extended_position_deg' = Absent
                       THEN DecodeStatusFrame(status).position_deg
                       ELSE last_extended_position_deg'),
                    velocity |-> Sign * ErpmToRadPerSec(
                       DecodeStatusFrame(status).speed_erpm),
                    current |-> Sign * DecodeStatusFrame(status).current_a,
                    extended_position_valid |->
                      last_extended_position_deg' # Absent]
      BY <1>7 DEF Publish
    <3>2. (last_extended_position_deg' # Absent) = ext_enabled
      BY <1>1, <2>3
    <3>3. (IF last_extended_position_deg' = Absent
           THEN DecodeStatusFrame(status).position_deg
           ELSE last_extended_position_deg')
          = IF ext_enabled THEN DecodeExtendedPositionFrame(ext)
                           ELSE DecodeStatusFrame(status).position_deg
      BY <2>3
    <3>4. QED
      BY <3>1, <3>2, <3>3, Zenon DEF Reading
  <2>5. QED
    BY <1>1, <2>1, <2>2, <2>3, <2>4 DEF TurnInv, params
<1>8. CASE NextTurn
  BY <1>1, <1>8 DEF NextTurn, TurnInv, params
<1>9. CASE UNCHANGED vars
  <2>1. /\ UNCHANGED <<params, pc, msg, frame, motor, status, ext, state,
                       last_extended_position_deg>>
    BY <1>9 DEF vars
  <2>2. /\ \A low : PackCommand(msg, low)' = PackCommand(msg, low)
        /\ Report' = Report /\ Reading' = Reading
    BY <1>2, <2>1 DEF Report, Reading, params, DegToRad, ErpmToRadPerSec
  <2>3. QED
    BY <1>1, <2>1, <2>2 DEF TurnInv, params
<1>10. QED
  BY <1>3, <1>4, <1>5, <1>6, <1>7, <1>8, <1>9 DEF Next

-----------------------------------------------------------------------------
(* Numbers through the wire and back.                                      *)

LEMMA SignUnit ==
  ASSUME invert_direction \in BOOLEAN
  PROVE  Sign \in {1, -1}
  BY DEF Sign

(* Conversions are odd: the direction may be applied before or after.      *)
LEMMA SignFlips ==
  ASSUME motor_type \in KnownModels, invert_direction \in BOOLEAN,
         NEW x \in Int
  PROVE  /\ RadToDeg(Sign * x) = Sign * RadToDeg(x)
         /\ RadPerSecToErpm(Sign * x) = Sign * RadPerSecToErpm(x)
         /\ RadToDeg(x) \in Int /\ RadPerSecToErpm(x) \in Int
<1>1. ErpmPerRpm \in Nat \ {0}
  BY ModelFacts DEF ErpmPerRpm
<1>2. RadToDeg(x) \in Int /\ RadPerSecToErpm(x) \in Int
  BY ConversionsInt
<1>3. CASE Sign = 1
  <2>1. Sign * x = x
    BY <1>3
  <2>2. QED
    BY <1>2, <1>3, <2>1
<1>4. CASE Sign = -1
  <2>1. Sign * x = -x
    BY <1>4
  <2>2. /\ x * 406800 \in Int /\ (-x) * 406800 = -(x * 406800)
        /\ x * ErpmPerRpm * 678 \in Int
        /\ (-x) * ErpmPerRpm * 678 = -(x * ErpmPerRpm * 678)
    BY <1>1, SMT
  <2>3. Quotient(-(x * 406800), 71) = -Quotient(x * 406800, 71)
    BY <2>2, QuotientOdd
  <2>4. Quotient(-(x * ErpmPerRpm * 678), 710)
          = -Quotient(x * ErpmPerRpm * 678, 710)
    BY <2>2, QuotientOdd
  <2>5. RadToDeg(-x) = -RadToDeg(x)
    BY <2>2, <2>3 DEF RadToDeg
  <2>6. RadPerSecToErpm(-x) = -RadPerSecToErpm(x)
    BY <2>2, <2>4 DEF RadPerSecToErpm
  <2>7. QED
    BY <1>2, <1>4, <2>1, <2>5, <2>6
<1>5. QED
  BY <1>3, <1>4, SignUnit

(* The erpm of a unit of speed is many counts of the wire.                 *)
LEMMA ErpmFine ==
  ASSUME motor_type \in KnownModels
  PROVE  ErpmPerRpm \in Nat /\ 84 <= ErpmPerRpm
  BY SMT DEF ErpmPerRpm, kMotorTable, KnownModels, Spec_

(* A speed that is converted, counted and converted back is off by one     *)
(* unit at most.                                                           *)
LEMMA SpeedEcho ==
  ASSUME motor_type \in KnownModels, NEW x \in Int
  PROVE  ErpmToRadPerSec(Quotient(RadPerSecToErpm(x), 10) * 10) - x \in -1..1
<1> DEFINE k == ErpmPerRpm * 678
<1>1. k \in Nat /\ 10 * 710 <= k
  BY ErpmFine
<1>2. x * ErpmPerRpm * 678 = x * k
  BY ErpmFine, SMT
<1>3. RadPerSecToErpm(x) = Quotient(x * k, 710)
  BY <1>2 DEF RadPerSecToErpm
<1>4. \A e : ErpmToRadPerSec(e) = Quotient(e * 710, k)
  BY DEF ErpmToRadPerSec
<1> HIDE DEF k
<1>5. 710 \in Nat \ {0} /\ 10 \in Nat \ {0}
  OBVIOUS
<1>6. Quotient(Quotient(Quotient(x * k, 710), 10) * 10 * 710, k) - x \in -1..1
  BY <1>1, <1>5, Echo
<1>7. QED
  BY <1>3, <1>4, <1>6

(* So is a position, counted in 0.1 or in 0.01 degree.                     *)
LEMMA PositionEcho ==
  ASSUME NEW x \in Int
  PROVE  /\ DegToRad(Quotient(RadToDeg(x), 1000) * 1000) - x \in -1..1
         /\ DegToRad(Quotient(RadToDeg(x), 100) * 100) - x \in -1..1
<1>1. /\ 71 \in Nat \ {0} /\ 1000 \in Nat \ {0} /\ 100 \in Nat \ {0}
      /\ 406800 \in Nat /\ 1000 * 71 <= 406800 /\ 100 * 71 <= 406800
  OBVIOUS
<1>2. Quotient(Quotient(Quotient(x * 406800, 71), 1000) * 1000 * 71, 406800) - x
        \in -1..1
  BY <1>1, Echo
<1>3. Quotient(Quotient(Quotient(x * 406800, 71), 100) * 100 * 71, 406800) - x
        \in -1..1
  BY <1>1, Echo
<1>4. QED
  BY <1>2, <1>3 DEF RadToDeg, DegToRad

(* Ranges, kept from being enumerated.                                     *)
LEMMA Symmetric ==
  ASSUME NEW n \in Int, NEW a \in UpTo(n)
  PROVE  a \in Int /\ -n <= a /\ a <= n
  BY SMT DEF UpTo

(* An int32 is read back as it was packed.                                 *)
Holds32(v) == v \in Int /\ -2147483648 <= v /\ v <= 2147483647

LEMMA Int32Says ==
  ASSUME NEW v, Holds32(v)
  PROVE  Word32(AppendInt32(v)) = v
<1> DEFINE d == AppendInt32(v)
<1>1. v \in Int /\ -2147483648 <= v /\ v <= 2147483647
  BY SMT DEF Holds32
<1>2. GetInt32(d[1], d[2], d[3], d[4]) = v
  BY <1>1, Int32RoundTrip, SMT
<1> HIDE DEF d
<1>3. Word32(d) = v
  BY <1>2, SMT DEF Word32
<1>4. QED
  BY <1>3 DEF d

LEMMA WordHolds ==
  ASSUME NEW v \in Word
  PROVE  Holds32(v)
<1>1. v \in Int /\ -2147483647 <= v /\ v <= 2147483647
  BY Symmetric, SMT DEF Word
<1>2. QED
  BY <1>1, SMT DEF Holds32

LEMMA WordSays ==
  ASSUME NEW v \in Word
  PROVE  Word32(AppendInt32(v)) = v
  BY WordHolds, Int32Says

(* What fits its count is truncated to less than the int16 can hold.       *)
Holds16(q) == q \in Int /\ -32767 <= q /\ q <= 32767

LEMMA CountFits ==
  ASSUME NEW n \in Nat \ {0}, NEW a \in Counted(n)
  PROVE  Holds16(Quotient(a, n))
<1>1. a \in Int /\ -(32768 * n - 1) <= a /\ a <= 32768 * n - 1
  BY Symmetric, SMT DEF Counted
<1>2. ASSUME NEW c \in Nat, c <= 32768 * n - 1
      PROVE  Quotient(c, n) \in Nat /\ Quotient(c, n) <= 32767
  <2> DEFINE q == Quotient(c, n)
  <2>1. q \in Nat /\ q * n <= c
    BY QuotientNat, DivLaw
  <2> HIDE DEF q
  <2>2. ASSUME q >= 32768
        PROVE  FALSE
    <3>1. (q - 32768) * n \in Nat /\ (q - 32768) * n = q * n - 32768 * n
      BY <2>1, <2>2, SMT
    <3>2. QED
      BY <1>2, <2>1, <3>1, SMT
  <2>3. q \in Nat /\ q <= 32767
    BY <2>1, <2>2, SMT
  <2>4. QED
    BY <2>3 DEF q
<1>3. CASE a >= 0
  <2>1. a \in Nat
    BY <1>1, <1>3, SMT
  <2>2. Quotient(a, n) \in Nat /\ Quotient(a, n) <= 32767
    BY <1>1, <1>2, <2>1
  <2>3. QED
    BY <2>2, SMT DEF Holds16
<1>4. CASE a < 0
  <2>1. -a \in Nat /\ -a <= 32768 * n - 1
    BY <1>1, <1>4, SMT
  <2>2. Quotient(-a, n) \in Nat /\ Quotient(-a, n) <= 32767
    BY <1>2, <2>1
  <2>3. Quotient(a, n) = -Quotient(-a, n)
    BY <1>1, <2>1, QuotientOdd
  <2>4. QED
    BY <2>2, <2>3, SMT DEF Holds16
<1>5. QED
  BY <1>1, <1>3, <1>4, SMT

(* So is a count, and casting it changes nothing.                          *)
LEMMA CountSays ==
  ASSUME NEW v, Holds16(v)
  PROVE  /\ GetInt16(AppendInt16(v)[1], AppendInt16(v)[2]) = v
         /\ CastInt16(v) = v
<1>1. v \in Int /\ -32768 <= v /\ v <= 32767
  BY SMT DEF Holds16
<1>2. CastInt16(v) = v
  BY <1>1, SMT DEF CastInt16
<1>3. GetInt16(AppendInt16(v)[1], AppendInt16(v)[2]) = v
  BY <1>1, Int16RoundTrip, SMT
<1>4. QED
  BY <1>2, <1>3

(* What the node reads of a 0x29 payload.                                  *)
LEMMA StatusSays ==
  ASSUME NEW p \in Int, NEW s \in Int, NEW c \in Int
  PROVE  LET d == AppendInt16(p) \o AppendInt16(s) \o AppendInt16(c) \o <<25, 0>>
             x == DecodeStatusFrame(d)
         IN /\ Holds16(p) => x.position_deg = p * 1000
            /\ Holds16(s) => x.speed_erpm = s * 10
            /\ Holds16(c) => x.current_a = c * 10
<1> DEFINE p2  == AppendInt16(p)
           s2  == AppendInt16(s)
           c2  == AppendInt16(c)
           t2  == <<25, 0>>
           ps  == p2 \o s2
           psc == ps \o c2
           d   == psc \o t2
<1>1. /\ p2 \in Seq(Byte) /\ Len(p2) = 2 /\ s2 \in Seq(Byte) /\ Len(s2) = 2
      /\ c2 \in Seq(Byte) /\ Len(c2) = 2
  BY Int16Bytes
<1>2. t2 \in Seq(Byte) /\ Len(t2) = 2
  BY DEF Byte
<1>3. /\ Holds16(p) => GetInt16(p2[1], p2[2]) = p
      /\ Holds16(s) => GetInt16(s2[1], s2[2]) = s
      /\ Holds16(c) => GetInt16(c2[1], c2[2]) = c
  BY CountSays
<1> HIDE DEF p2, s2, c2, t2
<1>4. /\ ps \in Seq(Byte) /\ Len(ps) = 4
      /\ \A i \in 1..4 : ps[i] = IF i <= 2 THEN p2[i] ELSE s2[i - 2]
  <2>1. /\ ps \in Seq(Byte) /\ Len(ps) = Len(p2) + Len(s2)
        /\ \A i \in 1..Len(p2) + Len(s2) :
             ps[i] = IF i <= Len(p2) THEN p2[i] ELSE s2[i - Len(p2)]
    BY <1>1, ConcatProperties
  <2> HIDE DEF ps
  <2>2. QED
    BY <1>1, <2>1
<1> HIDE DEF ps
<1>5. /\ psc \in Seq(Byte) /\ Len(psc) = 6
      /\ \A i \in 1..6 : psc[i] = IF i <= 4 THEN ps[i] ELSE c2[i - 4]
  <2>1. /\ psc \in Seq(Byte) /\ Len(psc) = Len(ps) + Len(c2)
        /\ \A i \in 1..Len(ps) + Len(c2) :
             psc[i] = IF i <= Len(ps) THEN ps[i] ELSE c2[i - Len(ps)]
    BY <1>1, <1>4, ConcatProperties
  <2> HIDE DEF psc
  <2>2. QED
    BY <1>1, <1>4, <2>1
<1> HIDE DEF psc
<1>6. /\ d \in Seq(Byte) /\ Len(d) = 8
      /\ \A i \in 1..8 : d[i] = IF i <= 6 THEN psc[i] ELSE t2[i - 6]
  <2>1. /\ d \in Seq(Byte) /\ Len(d) = Len(psc) + Len(t2)
        /\ \A i \in 1..Len(psc) + Len(t2) :
             d[i] = IF i <= Len(psc) THEN psc[i] ELSE t2[i - Len(psc)]
    BY <1>2, <1>5, ConcatProperties
  <2> HIDE DEF d
  <2>2. QED
    BY <1>2, <1>5, <2>1
<1> HIDE DEF d
<1>7. /\ ps[1] = p2[1] /\ ps[2] = p2[2] /\ ps[3] = s2[1] /\ ps[4] = s2[2]
  BY <1>4
<1>8. /\ psc[1] = ps[1] /\ psc[2] = ps[2] /\ psc[3] = ps[3] /\ psc[4] = ps[4]
      /\ psc[5] = c2[1] /\ psc[6] = c2[2]
  BY <1>5
<1>9. /\ d[1] = psc[1] /\ d[2] = psc[2] /\ d[3] = psc[3] /\ d[4] = psc[4]
      /\ d[5] = psc[5] /\ d[6] = psc[6] /\ d[7] = t2[1] /\ d[8] = t2[2]
  BY <1>6
<1>10. /\ DecodeStatusFrame(d).position_deg = GetInt16(d[1], d[2]) * 1000
       /\ DecodeStatusFrame(d).speed_erpm = GetInt16(d[3], d[4]) * 10
       /\ DecodeStatusFrame(d).current_a = GetInt16(d[5], d[6]) * 10
  BY DEF DecodeStatusFrame
<1>11. /\ Holds16(p) => DecodeStatusFrame(d).position_deg = p * 1000
       /\ Holds16(s) => DecodeStatusFrame(d).speed_erpm = s * 10
       /\ Holds16(c) => DecodeStatusFrame(d).current_a = c * 10
  BY <1>3, <1>7, <1>8, <1>9, <1>10
<1>12. QED
  BY <1>11 DEF d, psc, ps, p2, s2, c2, t2

(* What the node publishes at the end of a turn, by what the motor does.   *)
LEMMA TurnSays ==
  ASSUME LoopInv, TurnInv, pc = "published"
  PROVE  /\ motor_type \in KnownModels /\ invert_direction \in BOOLEAN
         /\ ext_enabled \in BOOLEAN
         /\ msg \in Commands /\ msg.mode \in CommandModes \ {MODE_MIT}
         /\ motor \in Motion
         /\ \E low \in BOOLEAN :
              motor = Executed(msg.mode, PackCommand(msg, low))
         /\ state.extended_position_valid = ext_enabled
         /\ motor.speed \in Counted(10) =>
              state.velocity =
                Sign * ErpmToRadPerSec(Quotient(motor.speed, 10) * 10)
         /\ motor.current \in Counted(10) =>
              state.current = Sign * (Quotient(motor.current, 10) * 10)
         /\ ~ext_enabled /\ motor.position \in Counted(1000) =>
              state.position =
                Sign * DegToRad(Quotient(motor.position, 1000) * 1000)
         /\ ext_enabled /\ Holds32(Quotient(motor.position, ExtUnit)) =>
              state.position =
                Sign * DegToRad(Quotient(motor.position, ExtUnit) * 100)
<1> DEFINE p == Quotient(motor.position, 1000)
           s == Quotient(motor.speed, 10)
           c == Quotient(motor.current, 10)
           e == Quotient(motor.position, ExtUnit)
           x == DecodeStatusFrame(status)
<1>1. /\ motor_type \in KnownModels /\ invert_direction \in BOOLEAN
      /\ ext_enabled \in BOOLEAN
      /\ msg \in Commands /\ msg.mode \in CommandModes \ {MODE_MIT}
      /\ motor \in Motion
      /\ \E low \in BOOLEAN : motor = Executed(msg.mode, PackCommand(msg, low))
      /\ status = Report /\ state = Reading
      /\ ext_enabled => ext = AppendInt32(e)
  BY DEF LoopInv, TurnInv
<1>2. motor.position \in Int /\ motor.speed \in Int /\ motor.current \in Int
  BY <1>1 DEF Motion
<1>3. p \in Int /\ s \in Int /\ c \in Int /\ e \in Int
  BY <1>2, QuotientInt, UnitAssumption
<1>4. /\ motor.position \in Counted(1000) => Holds16(p)
      /\ motor.speed \in Counted(10) => Holds16(s)
      /\ motor.current \in Counted(10) => Holds16(c)
  BY <1>2, CountFits
<1>5. status = AppendInt16(p) \o AppendInt16(s) \o AppendInt16(c) \o <<25, 0>>
  BY <1>1 DEF Report
<1> HIDE DEF p, s, c, e
<1>6. /\ Holds16(p) => x.position_deg = p * 1000
      /\ Holds16(s) => x.speed_erpm = s * 10
      /\ Holds16(c) => x.current_a = c * 10
  BY <1>3, <1>5, StatusSays
<1>7. ext_enabled /\ Holds32(e) => DecodeExtendedPositionFrame(ext) = e * 100
  BY <1>1, <1>3, Int32Says DEF DecodeExtendedPositionFrame, Word32
<1> HIDE DEF x
<1>8. /\ state.velocity = Sign * ErpmToRadPerSec(x.speed_erpm)
      /\ state.current = Sign * x.current_a
      /\ state.extended_position_valid = ext_enabled
      /\ ext_enabled =>
           state.position = Sign * DegToRad(DecodeExtendedPositionFrame(ext))
      /\ ~ext_enabled => state.position = Sign * DegToRad(x.position_deg)
  BY <1>1 DEF Reading, x
<1>9. QED
  BY <1>1, <1>4, <1>6, <1>7, <1>8 DEF p, s, c, e

(* What the motor reads of the payload of the combined mode.               *)
LEMMA ProfileSays ==
  ASSUME NEW w \in Word, NEW v \in Counted(10), NEW a \in Counted(10)
  PROVE  LET d == PackPositionVelocity(w, v, a)
         IN /\ Word32(d) = w
            /\ GetInt16(d[5], d[6]) = Quotient(v, 10)
            /\ GetInt16(d[7], d[8]) = Quotient(a, 10)
<1> DEFINE qv == Quotient(v, 10)
           qa == Quotient(a, 10)
           d1 == AppendInt32(w)
           d2 == AppendInt16(CastInt16(qv))
           d3 == AppendInt16(CastInt16(qa))
           e  == d1 \o d2
           d  == e \o d3
<1>1. /\ d1 \in Seq(Byte) /\ Len(d1) = 4 /\ d2 \in Seq(Byte) /\ Len(d2) = 2
      /\ d3 \in Seq(Byte) /\ Len(d3) = 2
  <2>1. w \in Int /\ Holds16(qv) /\ Holds16(qa)
    BY Symmetric, CountFits, SMT DEF Word
  <2>2. CastInt16(qv) \in Int /\ CastInt16(qa) \in Int
    BY <2>1, CastInt DEF Holds16
  <2>3. QED
    BY <2>1, <2>2, Int32Bytes, Int16Bytes
<1>2. GetInt32(d1[1], d1[2], d1[3], d1[4]) = w
  BY WordSays DEF Word32
<1>3. GetInt16(d2[1], d2[2]) = qv /\ GetInt16(d3[1], d3[2]) = qa
  <2>1. Holds16(qv) /\ Holds16(qa)
    BY CountFits
  <2> HIDE DEF qv, qa
  <2>2. CastInt16(qv) = qv /\ CastInt16(qa) = qa
    BY <2>1, CountSays
  <2>3. QED
    BY <2>1, <2>2, CountSays
<1>4. PackPositionVelocity(w, v, a) = d
  BY DEF PackPositionVelocity
<1> HIDE DEF d1, d2, d3, qv, qa
<1>5. /\ e \in Seq(Byte) /\ Len(e) = 6
      /\ \A i \in 1..6 : e[i] = IF i <= 4 THEN d1[i] ELSE d2[i - 4]
  <2>1. /\ e \in Seq(Byte) /\ Len(e) = Len(d1) + Len(d2)
        /\ \A i \in 1..Len(d1) + Len(d2) :
             e[i] = IF i <= Len(d1) THEN d1[i] ELSE d2[i - Len(d1)]
    BY <1>1, ConcatProperties
  <2> HIDE DEF e
  <2>2. QED
    BY <1>1, <2>1
<1> HIDE DEF e
<1>6. \A i \in 1..8 : d[i] = IF i <= 6 THEN e[i] ELSE d3[i - 6]
  <2>1. \A i \in 1..Len(e) + Len(d3) :
          d[i] = IF i <= Len(e) THEN e[i] ELSE d3[i - Len(e)]
    BY <1>1, <1>5, ConcatProperties
  <2> HIDE DEF d
  <2>2. QED
    BY <1>1, <1>5, <2>1
<1> HIDE DEF d
<1>7. /\ e[1] = d1[1] /\ e[2] = d1[2] /\ e[3] = d1[3] /\ e[4] = d1[4]
      /\ e[5] = d2[1] /\ e[6] = d2[2]
  BY <1>5
<1>8. /\ d[1] = e[1] /\ d[2] = e[2] /\ d[3] = e[3] /\ d[4] = e[4]
      /\ d[5] = e[5] /\ d[6] = e[6] /\ d[7] = d3[1] /\ d[8] = d3[2]
  BY <1>6
<1>9. Word32(d) = w /\ GetInt16(d[5], d[6]) = qv /\ GetInt16(d[7], d[8]) = qa
  BY <1>2, <1>3, <1>7, <1>8 DEF Word32
<1>10. QED
  BY <1>4, <1>9 DEF qv, qa

-----------------------------------------------------------------------------
(* Ranges.                                                                 *)

LEMMA InUpTo ==
  ASSUME NEW n \in Int, NEW a \in Int, -n <= a, a <= n
  PROVE  a \in UpTo(n)
  BY SMT DEF UpTo

LEMMA CountedIsWord ==
  ASSUME NEW a, a \in Counted(10) \/ a \in Counted(1000)
  PROVE  a \in Word
<1>1. /\ a \in Counted(10) => a \in Int /\ -(32768 * 10 - 1) <= a
                              /\ a <= 32768 * 10 - 1
      /\ a \in Counted(1000) => a \in Int /\ -(32768 * 1000 - 1) <= a
                                /\ a <= 32768 * 1000 - 1
  BY Symmetric, SMT DEF Counted
<1>2. a \in Int /\ -2147483647 <= a /\ a <= 2147483647
  BY <1>1, SMT
<1>3. QED
  BY <1>2, InUpTo, SMT DEF Word

(* Ranges are symmetric: the direction does not leave them.                *)
LEMMA SignedUpTo ==
  ASSUME invert_direction \in BOOLEAN, NEW n \in Int, NEW a \in UpTo(n)
  PROVE  Sign * a \in UpTo(n)
<1>1. a \in Int /\ -n <= a /\ a <= n
  BY Symmetric
<1>2. Sign * a \in Int /\ -n <= Sign * a /\ Sign * a <= n
  BY <1>1, SignUnit, SMT
<1>3. QED
  BY <1>2, InUpTo

LEMMA ExactIsWord ==
  ASSUME NEW a \in Exact
  PROVE  a \in Word
<1>1. a \in Int /\ -8388607 <= a /\ a <= 8388607
  BY Symmetric, SMT DEF Exact
<1>2. a \in Int /\ -2147483647 <= a /\ a <= 2147483647
  BY <1>1, SMT
<1>3. QED
  BY <1>2, InUpTo, SMT DEF Word

(* The cast gives up a count at most, toward zero.                         *)
LEMMA CastUpTo ==
  ASSUME NEW n \in Int, NEW a \in UpTo(n), NEW low \in BOOLEAN
  PROVE  ToInt32(a, low) \in UpTo(n)
<1>1. a \in Int /\ -n <= a /\ a <= n
  BY Symmetric
<1>2. /\ ToInt32(a, low) \in Int
      /\ -n <= ToInt32(a, low) /\ ToInt32(a, low) <= n
  BY <1>1, CastNear
<1>3. QED
  BY <1>2, InUpTo

(* Truncation keeps a range.                                               *)
LEMMA QuotientUpTo ==
  ASSUME NEW n \in Int, NEW a \in UpTo(n), NEW b \in Nat \ {0}
  PROVE  Quotient(a, b) \in UpTo(n)
<1>1. a \in Int /\ -n <= a /\ a <= n
  BY Symmetric
<1>2. ASSUME NEW c \in Nat
      PROVE  Quotient(c, b) \in Nat /\ Quotient(c, b) <= c
  <2> DEFINE q == Quotient(c, b)
  <2>1. q \in Nat /\ q * b <= c
    BY QuotientNat, DivLaw
  <2> HIDE DEF q
  <2>2. q * (b - 1) \in Nat /\ q * b = q * (b - 1) + q
    BY <2>1, SMT
  <2>3. q \in Nat /\ q <= c
    BY <2>1, <2>2, SMT
  <2>4. QED
    BY <2>3 DEF q
<1>3. CASE a >= 0
  <2>1. Quotient(a, b) \in Nat /\ Quotient(a, b) <= a
    BY <1>1, <1>2, <1>3
  <2>2. QED
    BY <1>1, <1>3, <2>1, InUpTo
<1>4. CASE a < 0
  <2>1. -a \in Nat /\ Quotient(a, b) = -Quotient(-a, b)
    BY <1>1, <1>4, QuotientOdd
  <2>2. Quotient(-a, b) \in Nat /\ Quotient(-a, b) <= -a
    BY <1>2, <2>1
  <2>3. QED
    BY <1>1, <1>4, <2>1, <2>2, InUpTo
<1>5. QED
  BY <1>1, <1>3, <1>4

(* So it keeps the range of an int32, which has one more below zero.       *)
LEMMA QuotientBetween ==
  ASSUME NEW m \in Int, NEW n \in Int, m <= 0, 0 <= n,
         NEW a \in Int, m <= a, a <= n, NEW b \in Nat \ {0}
  PROVE  /\ Quotient(a, b) \in Int
         /\ m <= Quotient(a, b) /\ Quotient(a, b) <= n
<1>1. CASE a >= 0
  <2>1. a \in UpTo(a)
    BY <1>1, InUpTo
  <2>2. Quotient(a, b) \in UpTo(a)
    BY <2>1, QuotientUpTo
  <2>3. Quotient(a, b) \in Int /\ -a <= Quotient(a, b) /\ Quotient(a, b) <= a
    BY <2>2, Symmetric
  <2>4. a \in Nat
    BY <1>1
  <2>5. Quotient(a, b) \in Nat
    BY <2>4, QuotientNat
  <2>6. QED
    BY <2>3, <2>5, <1>1
<1>2. CASE a < 0
  <2>1. -a \in Nat /\ Quotient(a, b) = -Quotient(-a, b)
    BY <1>2, QuotientOdd
  <2>2. -a \in UpTo(-a)
    BY <1>2, InUpTo
  <2>3. Quotient(-a, b) \in UpTo(-a) /\ Quotient(-a, b) \in Nat
    BY <2>1, <2>2, QuotientUpTo, QuotientNat
  <2>4. Quotient(-a, b) \in Nat /\ Quotient(-a, b) <= -a
    BY <2>3, Symmetric
  <2>5. QED
    BY <1>2, <2>1, <2>4
<1>3. QED
  BY <1>1, <1>2

LEMMA QuotientHolds32 ==
  ASSUME NEW a, Holds32(a), NEW b \in Nat \ {0}
  PROVE  Holds32(Quotient(a, b))
<1> DEFINE m == -2147483648
           n == 2147483647
<1>1. m \in Int /\ n \in Int /\ m <= 0 /\ 0 <= n
  BY SMT
<1>2. \A c : Holds32(c) <=> c \in Int /\ m <= c /\ c <= n
  BY SMT DEF Holds32
<1> HIDE DEF m, n
<1>3. /\ Quotient(a, b) \in Int
      /\ m <= Quotient(a, b) /\ Quotient(a, b) <= n
  BY <1>1, <1>2, QuotientBetween
<1>4. QED
  BY <1>2, <1>3

(* Applying the direction twice cancels, and keeps distances.              *)
LEMMA SignNear ==
  ASSUME invert_direction \in BOOLEAN, NEW n \in Nat, NEW x \in Int,
         NEW y \in Int, y - Sign * x \in -n..n
  PROVE  Near(Sign * y, x, n)
  BY SignUnit, SMT DEF Near

-----------------------------------------------------------------------------
(* A turn, quantity by quantity.                                           *)

(* A count that is multiplied out and counted again.                       *)
LEMMA Recounted ==
  ASSUME NEW v \in Counted(10)
  PROVE  LET q == Quotient(v, 10)
         IN q \in Int /\ 10 * q \in Counted(10) /\ Quotient(10 * q, 10) = q
<1> DEFINE q == Quotient(v, 10)
<1>1. q \in Int /\ -32767 <= q /\ q <= 32767
  BY CountFits DEF Holds16
<1> HIDE DEF q
<1>2. Quotient(10 * q, 10) = q
  BY <1>1, SMT DEF Quotient
<1>3. 10 * q \in Counted(10)
  <2> DEFINE n == 32768 * 10 - 1
  <2>1. n \in Int /\ 10 * q \in Int /\ -n <= 10 * q /\ 10 * q <= n
    BY <1>1, SMT
  <2> HIDE DEF n
  <2>2. 10 * q \in UpTo(n)
    BY <2>1, InUpTo
  <2>3. QED
    BY <2>2 DEF n, Counted
<1>4. QED
  BY <1>1, <1>2, <1>3 DEF q

(* What is sent of a speed fits its count if the request does.             *)
LEMMA SpeedSent ==
  ASSUME motor_type \in KnownModels, invert_direction \in BOOLEAN,
         NEW x \in Int, Fits(x)
  PROVE  /\ RadPerSecToErpm(Sign * x) \in Counted(10)
         /\ RadPerSecToErpm(Sign * x) \in Word
<1>1. RadPerSecToErpm(Sign * x) = Sign * RadPerSecToErpm(x)
  BY SignFlips
<1>2. Sign * RadPerSecToErpm(x) \in Counted(10)
  <2> DEFINE r == RadPerSecToErpm(x)
  <2>1. r \in UpTo(32768 * 10 - 1) /\ 32768 * 10 - 1 \in Int
    BY DEF Fits, Counted
  <2> HIDE DEF r
  <2>2. Sign * r \in UpTo(32768 * 10 - 1)
    BY <2>1, SignedUpTo
  <2>3. QED
    BY <2>2 DEF r, Counted
<1>3. QED
  BY <1>1, <1>2, CountedIsWord

(* What is published of a speed is near the request.                       *)
LEMMA SpeedReported ==
  ASSUME LoopInv, TurnInv, pc = "published", NEW x \in Int,
         motor.speed \in Counted(10),
         Quotient(motor.speed, 10) = Quotient(RadPerSecToErpm(Sign * x), 10)
  PROVE  Near(state.velocity, x, 1)
<1>1. /\ motor_type \in KnownModels /\ invert_direction \in BOOLEAN
      /\ state.velocity = Sign * ErpmToRadPerSec(Quotient(motor.speed, 10) * 10)
  BY TurnSays
<1>2. Sign * x \in Int
  BY <1>1, SignTimes
<1> DEFINE y == ErpmToRadPerSec(Quotient(RadPerSecToErpm(Sign * x), 10) * 10)
<1>3. y - Sign * x \in -1..1
  BY <1>1, <1>2, SpeedEcho
<1>4. y \in Int
  <2> DEFINE r == RadPerSecToErpm(Sign * x)
  <2>1. r \in Int
    BY <1>1, <1>2, ConversionsInt
  <2> HIDE DEF r
  <2>2. Quotient(r, 10) \in Int
    BY <2>1, QuotientInt
  <2> DEFINE b == ErpmPerRpm * 678
             a == Quotient(r, 10) * 10 * 710
  <2>3. b \in Nat \ {0} /\ a \in Int
    BY <1>1, <2>2, ErpmFine
  <2> HIDE DEF a, b
  <2>4. Quotient(a, b) \in Int
    BY <2>3, QuotientInt
  <2>5. QED
    BY <2>4 DEF a, b, r, ErpmToRadPerSec
<1>5. state.velocity = Sign * y
  BY <1>1
<1> HIDE DEF y
<1>6. QED
  BY <1>1, <1>3, <1>4, <1>5, SignNear

(* What is sent of a position reaches the reader if the request does.      *)
LEMMA PositionSent ==
  ASSUME motor_type \in KnownModels, invert_direction \in BOOLEAN,
         NEW x \in Int, Reaches(x)
  PROVE  /\ RadToDeg(Sign * x) \in Word
         /\ RadToDeg(Sign * x) \in IF state.extended_position_valid
                                   THEN Word ELSE Counted(1000)
         /\ state.extended_position_valid => ExtUnit = 100
<1> DEFINE r == RadToDeg(x)
           w == 2147483647
           c == 32768 * 1000 - 1
           n == IF state.extended_position_valid THEN w ELSE c
<1>1. RadToDeg(Sign * x) = Sign * r /\ r \in Int
  BY SignFlips
<1>2. w \in Int /\ c \in Int
  BY SMT
<1>3. Word = UpTo(w) /\ Counted(1000) = UpTo(c)
  BY DEF Word, Counted
<1> HIDE DEF w, c
<1>4. n \in Int /\ r \in UpTo(n)
  BY <1>2, <1>3 DEF Reaches
<1> HIDE DEF r
<1>5. Sign * r \in UpTo(n)
  BY <1>4, SignedUpTo
<1>6. IF state.extended_position_valid
      THEN Sign * r \in Word ELSE Sign * r \in Counted(1000)
  BY <1>3, <1>5
<1>7. Sign * r \in Word
  BY <1>6, CountedIsWord
<1>8. state.extended_position_valid => ExtUnit = 100
  BY DEF Reaches
<1>9. QED
  BY <1>1, <1>6, <1>7, <1>8

(* What is published of a position is near the request, by either frame.   *)
LEMMA PositionReported ==
  ASSUME LoopInv, TurnInv, pc = "published",
         NEW x \in Int, Reaches(x), motor.position = RadToDeg(Sign * x)
  PROVE  Near(state.position, x, 1)
<1>1. /\ motor_type \in KnownModels /\ invert_direction \in BOOLEAN
      /\ state.extended_position_valid = ext_enabled /\ ext_enabled \in BOOLEAN
  BY TurnSays
<1>2. Sign * x \in Int
  BY <1>1, SignTimes
<1> DEFINE r == RadToDeg(Sign * x)
           y(u) == DegToRad(Quotient(r, u) * u)
<1>3. y(1000) - Sign * x \in -1..1 /\ y(100) - Sign * x \in -1..1
  BY <1>2, PositionEcho
<1>4. r \in Int
  BY <1>1, <1>2, ConversionsInt
<1>5. y(1000) \in Int /\ y(100) \in Int
  <2> HIDE DEF r
  <2>1. Quotient(r, 1000) \in Int /\ Quotient(r, 100) \in Int
    BY <1>4, QuotientInt
  <2> DEFINE a == Quotient(r, 1000) * 1000 * 71
             b == Quotient(r, 100) * 100 * 71
  <2>2. a \in Int /\ b \in Int /\ 406800 \in Nat \ {0}
    BY <2>1
  <2> HIDE DEF a, b
  <2>3. Quotient(a, 406800) \in Int /\ Quotient(b, 406800) \in Int
    BY <2>2, QuotientInt
  <2>4. QED
    BY <2>3 DEF a, b, DegToRad
<1>6. /\ r \in Word
      /\ ~ext_enabled => r \in Counted(1000)
      /\ ext_enabled => ExtUnit = 100
  BY <1>1, PositionSent
<1>7. Holds32(Quotient(r, 100))
  <2> DEFINE w == 2147483647
  <2>1. w \in Int /\ 100 \in Nat \ {0}
    BY SMT
  <2>2. Word = UpTo(w)
    BY DEF Word
  <2> HIDE DEF r, w
  <2>3. Quotient(r, 100) \in Word
    BY <1>6, <2>1, <2>2, QuotientUpTo
  <2>4. QED
    BY <2>3, WordHolds
<1>8. state.position = Sign * (IF ext_enabled THEN y(100) ELSE y(1000))
  BY <1>6, <1>7, TurnSays
<1> HIDE DEF y
<1>9. QED
  BY <1>1, <1>3, <1>5, <1>8, SignNear

(* Counted in tens, a quantity loses less than ten, and what a cast has    *)
(* given up before does not make it more than ten.                         *)
LEMMA CastTens ==
  ASSUME NEW a \in Int, NEW low \in BOOLEAN
  PROVE  LET q == Quotient(ToInt32(a, low), 10)
         IN q \in Int /\ q * 10 \in Int /\ q * 10 - a \in -10..10
<1> DEFINE r == ToInt32(a, low)
           q == Quotient(r, 10)
<1>1. r \in Int /\ r \in {a, a - 1, a + 1}
      /\ (a >= 0 => r >= 0 /\ r <= a)
      /\ (a <= 0 => r <= 0 /\ r >= a)
  BY DEF ToInt32
<1> HIDE DEF r
<1>2. /\ q \in Int
      /\ r >= 0 => r - 10 < q * 10 /\ q * 10 <= r
      /\ r <= 0 => r <= q * 10 /\ q * 10 < r + 10
  BY <1>1, SMT DEF Quotient
<1> HIDE DEF q
<1>3. q * 10 \in Int /\ q * 10 - a \in -10..10
  BY <1>1, <1>2, SMT
<1>4. QED
  BY <1>2, <1>3 DEF q, r

LEMMA TruncatedTens ==
  ASSUME NEW a \in Int
  PROVE  LET q == Quotient(a, 10)
         IN q \in Int /\ q * 10 \in Int /\ q * 10 - a \in -10..10
<1> DEFINE q == Quotient(a, 10)
<1>1. q \in Int /\ a - 10 < q * 10 /\ q * 10 < a + 10
  BY SMT DEF Quotient
<1> HIDE DEF q
<1>2. q * 10 \in Int /\ q * 10 - a \in -10..10
  BY <1>1, SMT
<1>3. QED
  BY <1>1, <1>2 DEF q

(* Every mode but MIT, for a turn that is done.                            *)
LEMMA TurnFollows ==
  ASSUME LoopInv, TurnInv
  PROVE  FollowsCommand
<1> SUFFICES ASSUME pc = "published"
             PROVE  FollowsCommand
  BY DEF FollowsCommand
<1>1. /\ motor_type \in KnownModels /\ invert_direction \in BOOLEAN
      /\ msg \in Commands
  BY TurnSays
<1> PICK low \in BOOLEAN : motor = Executed(msg.mode, PackCommand(msg, low))
  BY TurnSays
<1>2. /\ msg.duty \in Int /\ msg.current \in Int /\ msg.velocity \in Int
      /\ msg.position \in Int
  BY <1>1, CommandsAssumption DEF MotorCommand
<1>3. ASSUME msg.mode = MODE_VELOCITY, Fits(msg.velocity)
      PROVE  Near(state.velocity, msg.velocity, 1)
  <2> DEFINE r == RadPerSecToErpm(Sign * msg.velocity)
  <2>1. r \in Counted(10) /\ r \in Word
    BY <1>1, <1>2, <1>3, SpeedSent
  <2>2. motor = [Rest EXCEPT !.speed = Word32(AppendInt32(r))]
    BY <1>1, <1>3, PackedFor, DoneFor
  <2>3. motor.speed = r
    <3> HIDE DEF r
    <3>1. Word32(AppendInt32(r)) = r
      BY <2>1, WordSays
    <3>2. QED
      BY <2>2, <3>1 DEF Rest
  <2>4. QED
    BY <1>2, <1>3, <2>1, <2>3, SpeedReported
<1>4. ASSUME msg.mode = MODE_POSITION, Reaches(msg.position)
      PROVE  Near(state.position, msg.position, 1)
  <2> DEFINE r == RadToDeg(Sign * msg.position)
  <2>1. r \in Word
    BY <1>1, <1>2, <1>4, PositionSent
  <2>2. motor = [Rest EXCEPT !.position = Word32(AppendInt32(r))]
    BY <1>1, <1>4, PackedFor, DoneFor
  <2>3. motor.position = r
    <3> HIDE DEF r
    <3>1. Word32(AppendInt32(r)) = r
      BY <2>1, WordSays
    <3>2. QED
      BY <2>2, <3>1 DEF Rest
  <2>4. QED
    BY <1>2, <1>4, <2>3, PositionReported
<1>5. ASSUME msg.mode = MODE_CURRENT, msg.current \in Counted(10)
      PROVE  Near(state.current, msg.current, 10)
  <2> DEFINE s == Sign * msg.current
             r == ToInt32(s, low)
             n == 32768 * 10 - 1
             y == Quotient(r, 10) * 10
  <2>1. s \in Int
    BY <1>1, <1>2, SignTimes
  <2>2. r \in Counted(10) /\ r \in Word
    <3>1. n \in Int /\ Counted(10) = UpTo(n)
      BY DEF Counted
    <3> HIDE DEF n, r, s
    <3>2. s \in UpTo(n)
      BY <1>1, <1>5, <3>1, SignedUpTo DEF s
    <3>3. r \in UpTo(n)
      BY <3>1, <3>2, CastUpTo DEF r
    <3>4. QED
      BY <3>1, <3>3, CountedIsWord
  <2>3. motor = [Rest EXCEPT !.current = Word32(AppendInt32(r))]
    <3>1. PackCommand(msg, low) = AppendInt32(r)
      BY <1>5, PackedFor
    <3> HIDE DEF r
    <3>2. Executed(MODE_CURRENT, AppendInt32(r))
            = [Rest EXCEPT !.current = Word32(AppendInt32(r))]
      BY DoneFor
    <3>3. QED
      BY <1>5, <3>1, <3>2
  <2>4. y \in Int /\ y - s \in -10..10
    <3> HIDE DEF s
    <3>1. QED
      BY <2>1, CastTens
  <2> HIDE DEF r, n
  <2>5. motor.current = r
    <3>1. Word32(AppendInt32(r)) = r
      BY <2>2, WordSays
    <3>2. QED
      BY <2>3, <3>1 DEF Rest
  <2>6. state.current = Sign * y
    BY <2>2, <2>5, TurnSays
  <2> HIDE DEF y
  <2>7. y - Sign * msg.current \in -10..10
    BY <2>4 DEF s
  <2>8. QED
    BY <1>1, <1>2, <2>4, <2>6, <2>7, SignNear
<1>6. ASSUME msg.mode = MODE_CURRENT_BRAKE, msg.current \in Exact
      PROVE  Near(motor.brake, msg.current, 1)
  <2> DEFINE r == ToInt32(msg.current, low)
  <2>1. r \in Word
    <3> DEFINE w == 2147483647
    <3>1. w \in Int /\ Word = UpTo(w)
      BY DEF Word
    <3> HIDE DEF w
    <3>2. msg.current \in UpTo(w)
      BY <1>6, <3>1, ExactIsWord
    <3>3. QED
      BY <3>1, <3>2, CastUpTo
  <2>2. motor = [Rest EXCEPT !.brake = Word32(AppendInt32(r))]
    <3>1. PackCommand(msg, low) = AppendInt32(r)
      BY <1>6, PackedFor
    <3> HIDE DEF r
    <3>2. Executed(MODE_CURRENT_BRAKE, AppendInt32(r))
            = [Rest EXCEPT !.brake = Word32(AppendInt32(r))]
      BY DoneFor
    <3>3. QED
      BY <1>6, <3>1, <3>2
  <2>3. r - msg.current \in -1..1
    BY <1>2, CastNear
  <2> HIDE DEF r
  <2>4. Word32(AppendInt32(r)) = r
    BY <2>1, WordSays
  <2>5. motor.brake = r
    BY <2>2, <2>4 DEF Rest
  <2>6. QED
    BY <2>3, <2>5 DEF Near
<1>7. ASSUME msg.mode = MODE_DUTY, msg.duty \in Exact
      PROVE  Near(Sign * motor.duty, msg.duty, 1)
  <2> DEFINE s == Sign * msg.duty
             r == ToInt32(s, low)
             w == 2147483647
  <2>1. s \in Int
    BY <1>1, <1>2, SignTimes
  <2>2. r \in Word
    <3>1. w \in Int /\ Word = UpTo(w)
      BY DEF Word
    <3> HIDE DEF w, r, s
    <3>2. msg.duty \in UpTo(w)
      BY <1>7, <3>1, ExactIsWord
    <3>3. s \in UpTo(w)
      BY <1>1, <3>1, <3>2, SignedUpTo DEF s
    <3>4. QED
      BY <3>1, <3>3, CastUpTo DEF r
  <2>3. motor = [Rest EXCEPT !.duty = Word32(AppendInt32(r))]
    <3>1. PackCommand(msg, low) = AppendInt32(r)
      BY <1>7, PackedFor
    <3> HIDE DEF r
    <3>2. Executed(MODE_DUTY, AppendInt32(r))
            = [Rest EXCEPT !.duty = Word32(AppendInt32(r))]
      BY DoneFor
    <3>3. QED
      BY <1>7, <3>1, <3>2
  <2>4. r \in Int /\ r - s \in -1..1
    <3> HIDE DEF s
    <3>1. QED
      BY <2>1, CastNear
  <2> HIDE DEF r
  <2>5. Word32(AppendInt32(r)) = r
    BY <2>2, WordSays
  <2>6. motor.duty = r
    BY <2>3, <2>5 DEF Rest
  <2>7. Near(Sign * r, msg.duty, 1)
    BY <1>1, <1>2, <2>4, SignNear
  <2>8. QED
    BY <2>6, <2>7
<1>8. QED
  BY <1>3, <1>4, <1>5, <1>6, <1>7, SMT
     DEF FollowsCommand, MODE_DUTY, MODE_CURRENT, MODE_CURRENT_BRAKE,
         MODE_VELOCITY, MODE_POSITION

(* The combined mode, for a turn that is done.                             *)
LEMMA TurnRunsProfile ==
  ASSUME LoopInv, TurnInv
  PROVE  ProfileAsRequested
<1> SUFFICES ASSUME pc = "published", msg.mode = MODE_POSITION_VELOCITY,
                    Reaches(msg.position), Fits(msg.velocity),
                    Fits(msg.acceleration)
             PROVE  /\ Near(state.position, msg.position, 1)
                    /\ Near(state.velocity, msg.velocity, 1)
                    /\ Near(Sign * motor.accel,
                            RadPerSecToErpm(msg.acceleration), 10)
  BY DEF ProfileAsRequested
<1>1. /\ motor_type \in KnownModels /\ invert_direction \in BOOLEAN
      /\ msg \in Commands
  BY TurnSays
<1> PICK low \in BOOLEAN : motor = Executed(msg.mode, PackCommand(msg, low))
  BY TurnSays
<1>2. /\ msg.position \in Int /\ msg.velocity \in Int
      /\ msg.acceleration \in Int
  BY <1>1, CommandsAssumption DEF MotorCommand
<1> DEFINE w == RadToDeg(Sign * msg.position)
           v == RadPerSecToErpm(Sign * msg.velocity)
           a == RadPerSecToErpm(Sign * msg.acceleration)
           d == PackPositionVelocity(w, v, a)
<1>3. w \in Word /\ v \in Counted(10) /\ a \in Counted(10)
  BY <1>1, <1>2, PositionSent, SpeedSent
<1>4. motor = [Rest EXCEPT !.position = Word32(d),
                           !.speed = 10 * GetInt16(d[5], d[6]),
                           !.accel = 10 * GetInt16(d[7], d[8])]
  BY <1>1, PackedFor, DoneFor
<1>5. a = Sign * RadPerSecToErpm(msg.acceleration) /\ a \in Int
      /\ RadPerSecToErpm(msg.acceleration) \in Int
  BY <1>1, <1>2, SignFlips, SignTimes
<1> HIDE DEF w, v, a
<1>6. /\ Word32(d) = w /\ GetInt16(d[5], d[6]) = Quotient(v, 10)
      /\ GetInt16(d[7], d[8]) = Quotient(a, 10)
  BY <1>3, ProfileSays
<1> HIDE DEF d
<1>7. /\ motor.position = w /\ motor.speed = 10 * Quotient(v, 10)
      /\ motor.accel = 10 * Quotient(a, 10)
  BY <1>4, <1>6 DEF Rest
<1>8. Near(state.position, msg.position, 1)
  BY <1>2, <1>7, PositionReported DEF w
<1>9. Near(state.velocity, msg.velocity, 1)
  <2>1. /\ motor.speed \in Counted(10)
        /\ Quotient(motor.speed, 10) = Quotient(v, 10)
    BY <1>3, <1>7, Recounted
  <2>2. QED
    BY <1>2, <2>1, SpeedReported DEF v
<1>10. Near(Sign * motor.accel, RadPerSecToErpm(msg.acceleration), 10)
  <2> DEFINE q == Quotient(a, 10)
             x == RadPerSecToErpm(msg.acceleration)
  <2>1. q \in Int /\ q * 10 - a \in -10..10
    BY <1>5, TruncatedTens
  <2> HIDE DEF q, x
  <2>2. 10 * q \in Int /\ 10 * q - a \in -10..10
    BY <1>5, <2>1
  <2>3. a = Sign * x /\ x \in Int /\ motor.accel = 10 * q
    BY <1>5, <1>7 DEF q, x
  <2>4. Near(Sign * (10 * q), x, 10)
    BY <1>1, <2>2, <2>3, SignNear
  <2>5. QED
    BY <2>3, <2>4 DEF x
<1>11. QED
  BY <1>8, <1>9, <1>10

-----------------------------------------------------------------------------
(* The position of the 0x2A frame.                                         *)

LEMMA WordBounds ==
  ASSUME NEW a \in Byte, NEW b \in Byte, NEW c \in Byte, NEW d \in Byte
  PROVE  /\ GetInt32(a, b, c, d) \in Int
         /\ -2147483648 <= GetInt32(a, b, c, d)
         /\ GetInt32(a, b, c, d) <= 2147483647
<1> DEFINE w == GetInt32(a, b, c, d)
<1>1. \A x \in Byte : x \in Int /\ 0 <= x /\ x <= 255
  BY SMT DEF Byte
<1>2. w \in Int /\ -2147483648 <= w /\ w <= 2147483647
  BY <1>1, SMT DEF GetInt32, Signed
<1>3. QED
  BY <1>2, SMT

(* A position counted in u, read as if counted in 100 and converted, is    *)
(* 100 / u times the position converted.                                   *)
LEMMA ScaledNat ==
  ASSUME NEW a \in Nat, NEW u \in Nat \ {0}, NEW k \in Nat \ {0}, 7100 <= k,
         NEW c \in Nat, c * u <= a, a < (c + 1) * u,
         NEW x \in Nat, x * k <= c * 7100, c * 7100 < (x + 1) * k,
         NEW y \in Nat, y * k <= a * 71, a * 71 < (y + 1) * k
  PROVE  /\ u * x \in Nat
         /\ u * x < 100 * y + 100 /\ 100 * y < u * x + 2 * u
<1>1. c * u <= a /\ a < (c + 1) * u
  OBVIOUS
<1>2. c * 7100 \in Nat /\ a * 71 \in Nat
  OBVIOUS
<1>3. /\ x \in Nat /\ x * k <= c * 7100 /\ c * 7100 < (x + 1) * k
      /\ y \in Nat /\ y * k <= a * 71 /\ a * 71 < (y + 1) * k
  OBVIOUS
<1> DEFINE cu == c * u
           ux == u * x
<1>4. cu \in Nat /\ ux \in Nat /\ cu <= a /\ a < cu + u
  BY <1>1, <1>3, SMT
<1>5. ux < 100 * y + 100
  <2>1. u * (x * k) <= u * (c * 7100)
    <3>1. \A v, w \in Nat : v <= w => u * v <= u * w
      BY SMT
    <3>2. x * k \in Nat
      BY <1>3, SMT
    <3>3. QED
      BY <1>2, <1>3, <3>1, <3>2
  <2>2. ux * k = u * (x * k) /\ u * (c * 7100) = cu * 7100
    BY <1>1, <1>3, SMT
  <2>3. 100 * ((y + 1) * k) = (100 * y + 100) * k /\ (y + 1) * k \in Nat
    BY <1>3, SMT
  <2>4. ux * k \in Nat
    BY <1>4, SMT
  <2> DEFINE yk == (y + 1) * k
             xk == ux * k
  <2>5. xk <= cu * 7100 /\ a * 71 < yk /\ xk \in Nat /\ yk \in Nat
    BY <1>3, <2>1, <2>2, <2>3, <2>4
  <2> HIDE DEF yk, xk, cu, ux
  <2>6. xk < 100 * yk
    BY <1>4, <2>5, SMT
  <2>7. ux * k < (100 * y + 100) * k
    BY <2>3, <2>6 DEF yk, xk
  <2>8. QED
    BY <1>3, <1>4, <2>7, Grows
<1>6. 100 * y < ux + 2 * u
  <2>1. c * 7100 + 7100 < (x + 1) * k + k /\ (x + 1) * k + k = (x + 2) * k
    BY <1>1, <1>3, SMT
  <2>2. u * (c * 7100 + 7100) < u * ((x + 2) * k)
    <3>1. \A v, w \in Nat : v < w => u * v < u * w
      BY SMT
    <3>2. c * 7100 + 7100 \in Nat /\ (x + 2) * k \in Nat
      BY <1>1, <1>3, SMT
    <3>3. QED
      BY <2>1, <3>1, <3>2
  <2>3. /\ u * (c * 7100 + 7100) = cu * 7100 + u * 7100
        /\ u * ((x + 2) * k) = (ux + 2 * u) * k
    BY <1>1, <1>3, SMT
  <2>4. 100 * (y * k) = (100 * y) * k /\ y * k \in Nat
        /\ (ux + 2 * u) * k \in Nat
    BY <1>3, <1>4, SMT
  <2> DEFINE yk == y * k
             xk == (ux + 2 * u) * k
  <2>5. yk <= a * 71 /\ cu * 7100 + u * 7100 < xk /\ yk \in Nat /\ xk \in Nat
    BY <1>3, <2>2, <2>3, <2>4
  <2> HIDE DEF yk, xk, cu, ux
  <2>6. 100 * yk < xk
    BY <1>4, <2>5, SMT
  <2>7. (100 * y) * k < (ux + 2 * u) * k
    BY <2>4, <2>6 DEF yk, xk
  <2>8. 100 * y \in Nat /\ ux + 2 * u \in Nat
    BY <1>3, <1>4
  <2>9. QED
    BY <2>7, <2>8, Grows
<1>7. QED
  BY <1>3, <1>4, <1>5, <1>6

(* The same for either sign, truncating toward zero.                       *)
LEMMA Scaled100 ==
  ASSUME NEW a \in Int, NEW u \in Nat \ {0}
  PROVE  LET x == DegToRad(Quotient(a, u) * 100)
             y == DegToRad(a)
         IN /\ x \in Int /\ y \in Int
            /\ u * x - 100 * y \in -(2 * u + 100)..(2 * u + 100)
<1> DEFINE C(b) == Quotient(b, u)
           X(b) == DegToRad(C(b) * 100)
           Y(b) == DegToRad(b)
           k == 406800
<1>1. k \in Nat \ {0} /\ 7100 <= k
  OBVIOUS
<1>2. \A b \in Int : Y(b) = Quotient(b * 71, k) /\ X(b) = Quotient(C(b) * 7100, k)
                    /\ C(b) \in Int /\ b * 71 \in Int /\ C(b) * 7100 \in Int
  <2> SUFFICES ASSUME NEW b \in Int
               PROVE  /\ Y(b) = Quotient(b * 71, k)
                      /\ X(b) = Quotient(C(b) * 7100, k)
                      /\ C(b) \in Int /\ b * 71 \in Int
                      /\ C(b) * 7100 \in Int
    OBVIOUS
  <2>1. C(b) \in Int
    BY QuotientInt
  <2> HIDE DEF C
  <2>2. (C(b) * 100) * 71 = C(b) * 7100
    BY <2>1
  <2>3. QED
    BY <2>1, <2>2 DEF DegToRad
<1> HIDE DEF X, Y, k
<1>3. ASSUME NEW b \in Nat
      PROVE  /\ X(b) \in Nat /\ Y(b) \in Nat /\ u * X(b) \in Nat
             /\ u * X(b) < 100 * Y(b) + 100 /\ 100 * Y(b) < u * X(b) + 2 * u
  <2>1. C(b) \in Nat /\ C(b) * u <= b /\ b < (C(b) + 1) * u
    BY QuotientLaw
  <2> HIDE DEF C
  <2>2. C(b) * 7100 \in Nat /\ b * 71 \in Nat
    BY <2>1
  <2> DEFINE c == C(b)
             x == X(b)
             y == Y(b)
             e == c * 7100
             f == b * 71
  <2>3. x = Quotient(e, k) /\ y = Quotient(f, k)
    BY <1>2
  <2>4. e \in Nat /\ f \in Nat
    BY <2>2
  <2>5. k \in Nat \ {0}
    BY <1>1
  <2> HIDE DEF c, x, y, e, f
  <2>6. /\ x \in Nat /\ x * k <= e /\ e < (x + 1) * k
        /\ y \in Nat /\ y * k <= f /\ f < (y + 1) * k
    BY <2>3, <2>4, <2>5, QuotientLaw
  <2>7. /\ x \in Nat /\ y \in Nat /\ u * x \in Nat
        /\ u * x < 100 * y + 100 /\ 100 * y < u * x + 2 * u
    <3>1. /\ x * k <= c * 7100 /\ c * 7100 < (x + 1) * k
          /\ y * k <= b * 71 /\ b * 71 < (y + 1) * k
      BY <2>6 DEF e, f
    <3>2. c \in Nat /\ c * u <= b /\ b < (c + 1) * u
      BY <2>1 DEF c
    <3>3. QED
      BY <1>1, <2>6, <3>1, <3>2, ScaledNat
  <2>8. QED
    BY <2>7 DEF x, y
<1>4. CASE a >= 0
  <2>1. a \in Nat
    BY <1>4
  <2>2. u * X(a) - 100 * Y(a) \in -(2 * u + 100)..(2 * u + 100)
        /\ X(a) \in Int /\ Y(a) \in Int
    <3> DEFINE ux == u * X(a)
    <3>1. /\ X(a) \in Nat /\ Y(a) \in Nat /\ ux \in Nat
          /\ ux < 100 * Y(a) + 100 /\ 100 * Y(a) < ux + 2 * u
      BY <1>3, <2>1
    <3> HIDE DEF ux
    <3>2. ux - 100 * Y(a) \in -(2 * u + 100)..(2 * u + 100)
      BY <3>1, SMT
    <3>3. QED
      BY <3>1, <3>2 DEF ux
  <2>3. QED
    BY <2>2 DEF X, Y
<1>5. CASE a < 0
  <2> DEFINE b == -a
  <2>1. b \in Nat /\ a = -b
    BY <1>5
  <2> HIDE DEF b
  <2>2. C(a) = -C(b) /\ C(b) \in Int
    BY <2>1, QuotientOdd, QuotientInt
  <2> HIDE DEF C
  <2>3. C(a) * 7100 = -(C(b) * 7100) /\ a * 71 = -(b * 71)
    BY <2>1, <2>2
  <2>4. X(a) = -X(b) /\ Y(a) = -Y(b)
    BY <1>1, <1>2, <2>1, <2>3, QuotientOdd
  <2>5. u * X(a) - 100 * Y(a) \in -(2 * u + 100)..(2 * u + 100)
        /\ X(a) \in Int /\ Y(a) \in Int
    <3> DEFINE ux == u * X(b)
    <3>1. /\ X(b) \in Nat /\ Y(b) \in Nat /\ ux \in Nat
          /\ ux < 100 * Y(b) + 100 /\ 100 * Y(b) < ux + 2 * u
      BY <1>3, <2>1
    <3>2. u * X(a) = -ux
      BY <2>4, <3>1, SMT
    <3> HIDE DEF ux
    <3>3. -ux + 100 * Y(b) \in -(2 * u + 100)..(2 * u + 100)
      BY <3>1, SMT
    <3>4. QED
      BY <2>4, <3>1, <3>2, <3>3
  <2>6. QED
    BY <2>5 DEF X, Y, C
<1>6. QED
  BY <1>4, <1>5

(* What the motor executes is a position it read from four bytes, or none. *)
LEMMA PositionRead ==
  ASSUME LoopInv, TurnInv, pc = "published"
  PROVE  /\ motor.position \in Int
         /\ -2147483648 <= motor.position /\ motor.position <= 2147483647
<1> PICK low \in BOOLEAN : motor = Executed(msg.mode, PackCommand(msg, low))
  BY TurnSays
<1> DEFINE d == PackCommand(msg, low)
<1>1. /\ motor_type \in KnownModels /\ invert_direction \in BOOLEAN
      /\ msg \in Commands /\ msg.mode \in CommandModes \ {MODE_MIT}
      /\ motor = Executed(msg.mode, d)
  BY TurnSays
<1>2. d \in Seq(Byte) /\ Len(d) \in {4, 8}
  BY <1>1, CommandBytes
<1> HIDE DEF d
<1>3. /\ Word32(d) \in Int
      /\ -2147483648 <= Word32(d) /\ Word32(d) <= 2147483647
  <2>1. d[1] \in Byte /\ d[2] \in Byte /\ d[3] \in Byte /\ d[4] \in Byte
    BY <1>2
  <2>2. Word32(d) = GetInt32(d[1], d[2], d[3], d[4])
    BY DEF Word32
  <2>3. QED
    BY <2>1, <2>2, WordBounds
<1>4. motor.position \in {0, Word32(d)}
  <2>1. msg.mode \in {MODE_DUTY, MODE_CURRENT, MODE_CURRENT_BRAKE,
                      MODE_VELOCITY, MODE_POSITION, MODE_POSITION_VELOCITY}
    BY <1>1 DEF CommandModes, ServoModes
  <2>2. /\ Executed(MODE_DUTY, d) = [Rest EXCEPT !.duty = Word32(d)]
        /\ Executed(MODE_CURRENT, d) = [Rest EXCEPT !.current = Word32(d)]
        /\ Executed(MODE_CURRENT_BRAKE, d) = [Rest EXCEPT !.brake = Word32(d)]
        /\ Executed(MODE_VELOCITY, d) = [Rest EXCEPT !.speed = Word32(d)]
        /\ Executed(MODE_POSITION, d) = [Rest EXCEPT !.position = Word32(d)]
        /\ Executed(MODE_POSITION_VELOCITY, d) =
             [Rest EXCEPT !.position = Word32(d),
                          !.speed = 10 * GetInt16(d[5], d[6]),
                          !.accel = 10 * GetInt16(d[7], d[8])]
    BY DoneFor
  <2>3. /\ Executed(MODE_DUTY, d).position = 0
        /\ Executed(MODE_CURRENT, d).position = 0
        /\ Executed(MODE_CURRENT_BRAKE, d).position = 0
        /\ Executed(MODE_VELOCITY, d).position = 0
        /\ Executed(MODE_POSITION, d).position = Word32(d)
        /\ Executed(MODE_POSITION_VELOCITY, d).position = Word32(d)
    BY <2>2 DEF Rest
  <2>4. QED
    BY <1>1, <2>1, <2>3
<1>5. QED
  BY <1>3, <1>4, SMT

LEMMA TurnExtended ==
  ASSUME LoopInv, TurnInv
  PROVE  ExtendedScaled
<1> SUFFICES ASSUME pc = "published", state.extended_position_valid
             PROVE  Near(ExtUnit * (Sign * state.position),
                         100 * DegToRad(motor.position), 2 * ExtUnit + 100)
  BY DEF ExtendedScaled
<1> DEFINE a == motor.position
           q == Quotient(a, ExtUnit)
           x == DegToRad(q * 100)
           y == DegToRad(a)
<1>1. a \in Int /\ Holds32(a)
  BY PositionRead, SMT DEF Holds32
<1>2. Holds32(q)
  BY <1>1, UnitAssumption, QuotientHolds32
<1>3. /\ invert_direction \in BOOLEAN
      /\ state.position = Sign * x
  <2>1. q = Quotient(motor.position, ExtUnit)
    BY DEF a
  <2> HIDE DEF a, q
  <2>2. ext_enabled /\ invert_direction \in BOOLEAN
    BY TurnSays
  <2>3. Holds32(Quotient(motor.position, ExtUnit))
    BY <1>2, <2>1
  <2>4. state.position = Sign * DegToRad(Quotient(motor.position, ExtUnit) * 100)
    BY <2>2, <2>3, TurnSays
  <2>5. QED
    BY <2>1, <2>2, <2>4
<1>4. /\ x \in Int /\ y \in Int
      /\ ExtUnit * x - 100 * y \in -(2 * ExtUnit + 100)..(2 * ExtUnit + 100)
  <2> HIDE DEF a
  <2>1. QED
    BY <1>1, UnitAssumption, Scaled100
<1> HIDE DEF x
<1>5. Sign * state.position = x
  BY <1>3, <1>4, SignUnit
<1>6. QED
  BY <1>4, <1>5 DEF Near

LEMMA AlwaysTurn == Spec => [](LoopInv /\ TurnInv)
<1>1. LoopInv /\ TurnInv /\ [Next]_vars => (LoopInv /\ TurnInv)'
  BY NextLoop, NextTurnInv
<1>2. QED
  BY InitLoop, InitTurn, <1>1, PTL DEF Spec

(* A motor that does as it is told is published with the position, speed,  *)
(* current, duty or braking current it was commanded, whatever the         *)
(* direction, the model, the source of the position and the command, as    *)
(* far as the wire can tell.                                               *)
THEOREM CommandIsFollowed == Spec => []FollowsCommand
<1>1. LoopInv /\ TurnInv => FollowsCommand
  BY TurnFollows
<1>2. QED
  BY AlwaysTurn, <1>1, PTL

(* In the combined mode the motor runs the profile asked for, sign         *)
(* included, for every request the wire can tell.                          *)
THEOREM ProfileRuns == Spec => []ProfileAsRequested
<1>1. LoopInv /\ TurnInv => ProfileAsRequested
  BY TurnRunsProfile
<1>2. QED
  BY AlwaysTurn, <1>1, PTL

(* A position published from a 0x2A frame is 100 / ExtUnit times where the *)
(* motor is, in every unit the motor may count in, whatever was commanded: *)
(* it is the position itself for a motor that counts 0.01 degree, and a    *)
(* hundred times as far for one that counts 0.0001.                        *)
THEOREM ExtendedIsScaled == Spec => []ExtendedScaled
<1>1. LoopInv /\ TurnInv => ExtendedScaled
  BY TurnExtended
<1>2. QED
  BY AlwaysTurn, <1>1, PTL
=============================================================================
