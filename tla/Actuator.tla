------------------------------ MODULE Actuator ------------------------------
(***************************************************************************)
(* What the driver promises its clients, without frames, queues or writes: *)
(* the motor does as the newest command it has heard says, hears commands  *)
(* in the order of publication and may miss any of them; it hears of a     *)
(* call only after the service has answered success, once, and after the   *)
(* earlier calls of that service that were answered so; and what had       *)
(* reached the driver when a client asked the motor to coast sets it       *)
(* moving again Depth times at most.  Nothing is promised about when.      *)
(***************************************************************************)
EXTENDS Integers, Sequences

CONSTANTS Requests,     \* what a client may ask of the services
          Depth         \* commands that a request may overtake

VARIABLES published,    \* rank of the command published last
          calls,        \* calls of the services: what, when, with what result
          command,      \* rank of the command heard last
          drive,        \* the command the motor carries out, 0 if it coasts
          extended,     \* the motor sends its extended position
          flash,        \* writes of the motor's flash memory
          heard,        \* the calls the motor has heard of
          since,        \* the rank at the request that made it coast last
          spare         \* how many commands up to that one it may yet obey

vars == <<published, calls, command, drive, extended, flash, heard, since,
          spare>>

Init ==
  /\ published = 0 /\ calls = <<>> /\ command = 0 /\ drive = 0
  /\ extended \in BOOLEAN /\ flash = 0 /\ heard = {}
  /\ since = 0 /\ spare = Depth

-----------------------------------------------------------------------------
Publish ==
  /\ published' = published + 1
  /\ UNCHANGED <<calls, command, drive, extended, flash, heard, since, spare>>

Call(request) ==
  /\ calls' = Append(calls, [request |-> request, at |-> published,
                             result |-> "pending"])
  /\ UNCHANGED <<published, command, drive, extended, flash, heard, since,
                 spare>>

SameService(i, j) == calls[i].request.service = calls[j].request.service

(* Each service answers its calls in order.                                *)
Answer(i, result) ==
  /\ calls[i].result = "pending"
  /\ \A j \in 1..(i - 1) : SameService(i, j) => calls[j].result # "pending"
  /\ calls' = [calls EXCEPT ![i].result = result]
  /\ UNCHANGED <<published, command, drive, extended, flash, heard, since,
                 spare>>

(* The driver is stopped and started: no call waits any longer, and the    *)
(* motor is left as it is.                                                 *)
Lose ==
  /\ calls' = [i \in DOMAIN calls |->
                IF calls[i].result = "pending"
                THEN [calls[i] EXCEPT !.result = "lost"] ELSE calls[i]]
  /\ UNCHANGED <<published, command, drive, extended, flash, heard, since,
                 spare>>

-----------------------------------------------------------------------------
Drive(n) ==
  /\ command < n /\ n <= published
  /\ command' = n /\ drive' = n
  /\ \/ n > since /\ UNCHANGED spare
     \/ n <= since /\ spare > 0 /\ spare' = spare - 1
  /\ UNCHANGED <<published, calls, extended, flash, heard, since>>

Coast(i) ==
  /\ calls[i].request.service = "disable"
  /\ drive' = 0 /\ since' = calls[i].at /\ spare' = Depth
  /\ UNCHANGED <<extended, flash>>

MoveOrigin(i) ==
  /\ calls[i].request.service = "set_origin"
  /\ flash' = IF calls[i].request.permanent THEN flash + 1 ELSE flash
  /\ UNCHANGED <<drive, extended, since, spare>>

Configure(i) ==
  /\ calls[i].request.service = "set_feedback_config"
  /\ extended' = calls[i].request.add /\ flash' = flash + 1
  /\ UNCHANGED <<drive, since, spare>>

Hear(i) ==
  /\ calls[i].result = "success" /\ i \notin heard
  /\ \A j \in 1..(i - 1) :
       SameService(i, j) /\ calls[j].result = "success" => j \in heard
  /\ heard' = heard \cup {i}
  /\ Coast(i) \/ MoveOrigin(i) \/ Configure(i)
  /\ UNCHANGED <<published, calls, command>>

-----------------------------------------------------------------------------
Next ==
  \/ Publish
  \/ \E request \in Requests : Call(request)
  \/ \E i \in DOMAIN calls, result \in {"success", "failure"} : Answer(i, result)
  \/ Lose
  \/ \E n \in (command + 1)..published : Drive(n)
  \/ \E i \in DOMAIN calls : Hear(i)

Spec == Init /\ [][Next]_vars
=============================================================================
