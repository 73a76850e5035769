--------------------------- MODULE MCCommandLoop ---------------------------
(* Commands for TLC: both signs of every quantity, zero, the smallest step *)
(* and values near and beyond the ends of the ranges.                      *)
EXTENDS CommandLoop

Blank == [mode |-> 0, duty |-> 0, current |-> 0, velocity |-> 0,
          position |-> 0, acceleration |-> 0, mit_velocity |-> 0,
          mit_torque |-> 0, kp |-> 0, kd |-> 0]

Currents   == {-60000, -4000, -1, 0, 1, 255, 256, 4000, 4002, 60000}
Velocities == {-650, -100, -1, 0, 1, 60, 100, 650}
Positions  == {-4000, -314, -1, 0, 1, 1745, 4000}
Accels     == {-500, 0, 30, 620, 640}

ServoCommands ==
  {[Blank EXCEPT !.mode = MODE_DUTY, !.duty = d] :
     d \in {-100000, -1, 0, 20000, 100000}}
  \cup {[Blank EXCEPT !.mode = m, !.current = c] :
          m \in {MODE_CURRENT, MODE_CURRENT_BRAKE}, c \in Currents}
  \cup {[Blank EXCEPT !.mode = MODE_VELOCITY, !.velocity = v] :
          v \in Velocities}
  \cup {[Blank EXCEPT !.mode = MODE_POSITION, !.position = p] :
          p \in Positions}
  \cup {[Blank EXCEPT !.mode = MODE_POSITION_VELOCITY, !.position = p,
                      !.velocity = v, !.acceleration = a] :
          p \in {-4000, 1, 1745}, v \in {-60, 1, 100}, a \in Accels}

(* Modes 5, 15 and 16 belong to the services; 7 and 200 to nobody.         *)
UnknownCommands == {[Blank EXCEPT !.mode = m] : m \in {5, 7, 15, 16, 200}}

MitCommands ==
  {[Blank EXCEPT !.mode = MODE_MIT, !.position = p, !.mit_velocity = v,
                 !.kp = kp, !.kd = kd, !.mit_torque = t] :
     p \in {-2000, 0, 1255, 1256}, v \in {-1000, 60, 279}, kp \in {-1, 15, 499},
     kd \in {0, 200, 499}, t \in {-81, 0, 79}}

MitExtremeCommands ==
  {[Blank EXCEPT !.mode = MODE_MIT, !.position = e * 1256,
                 !.mit_velocity = e * 800, !.kp = k, !.kd = k,
                 !.mit_torque = e * 900] :
     e \in {-1, 0, 1}, k \in {0, 500}}

(* Positions within a turn: what the documents' unit makes of them fits.   *)
TurnCommands ==
  {[Blank EXCEPT !.mode = MODE_POSITION, !.position = p] :
     p \in {-50, -1, 0, 1, 50}}

AllCommands == ServoCommands \cup UnknownCommands \cup MitCommands
=============================================================================
