----------------------------- MODULE Lifecycle -----------------------------
(***************************************************************************)
(* The life of one ak_v3_driver_node process: main(), the constructor of   *)
(* MotorDriverNode with that of CanSocket, spin, the destructor, and the   *)
(* unwinding of a constructor that throws.  A SIGINT may come at any time  *)
(* after rclcpp::init() and shuts the ROS context down.  What the threads  *)
(* do with frames is RxPipeline's business.                                *)
(***************************************************************************)
EXTENDS MotorModels

CONSTANTS CanIds, JointNames, MotorTypes,   \* parameter values tried
          Unset                 \* the empty string; no exit status yet

(* The system call that fails while the socket is opened, if one does.     *)
Faults == {"none", "socket", "ioctl", "bind"}

SIGABRT == 134      \* the status a shell sees after std::terminate()

ASSUME UnsetAssumption == Unset \notin {0, 1, SIGABRT}

VARIABLES
  config,       \* the parameters, and the fault of this start
  context,      \* the ROS context: "valid" or "shutdown"
  pc,           \* where the main thread is
  exception,    \* "thrown": one is on its way to main()'s handler
  fd,           \* the socket: "none", "open", "bound" or "closed"
  timer,        \* the drain timer exists
  rx, running,  \* the RX thread's control point, rx_thread_running_
  fatal,        \* main() has logged "Startup failed" at FATAL
  exit_status   \* of the process: Unset while it runs

Config == [can_id : CanIds, joint_name : JointNames, motor_type : MotorTypes,
           fault : Faults]

threadVars == <<rx, running>>
endVars    == <<fatal, exit_status>>
vars == <<config, context, pc, exception, fd, timer, threadVars, endVars>>

Goto(label) == pc' = label /\ UNCHANGED exception
Throw       == pc' = "unwind" /\ exception' = "thrown"

-----------------------------------------------------------------------------
(* The constructor.                                                        *)

(* The base class: rcl makes no node in a context that is shut down.       *)
CreateNode ==
  /\ pc = "node"
  /\ IF context = "shutdown" THEN Throw ELSE Goto("parameters")
  /\ UNCHANGED <<config, context, fd, timer, threadVars, endVars>>

ParametersValid ==
  /\ config.can_id \in 0..255
  /\ config.joint_name # Unset
  /\ config.motor_type # Unset

LoadParameters ==
  /\ pc = "parameters"
  /\ IF ParametersValid THEN Goto("lookup") ELSE Throw
  /\ UNCHANGED <<config, context, fd, timer, threadVars, endVars>>

(* Mutant: has_value() is not looked at.                                   *)
LookupModel_Unchecked ==
  /\ pc = "lookup"
  /\ Goto("socket")
  /\ UNCHANGED <<config, context, fd, timer, threadVars, endVars>>

LookupModel ==
  /\ pc = "lookup"
  /\ IF HasModel(config.motor_type) THEN Goto("socket") ELSE Throw
  /\ UNCHANGED <<config, context, fd, timer, threadVars, endVars>>

CreateSocket ==
  /\ pc = "socket"
  /\ IF config.fault = "socket" THEN Throw /\ UNCHANGED fd
                                ELSE Goto("ioctl") /\ fd' = "open"
  /\ UNCHANGED <<config, context, timer, threadVars, endVars>>

(* Mutant: the descriptor is not closed when the interface is missing.     *)
ResolveInterface_Leaks ==
  /\ pc = "ioctl"
  /\ IF config.fault = "ioctl" THEN Throw ELSE Goto("bind")
  /\ UNCHANGED <<config, context, fd, timer, threadVars, endVars>>

(* A constructor that throws closes what it opened: ~CanSocket() is not    *)
(* run for it.                                                             *)
ResolveInterface ==
  /\ pc = "ioctl"
  /\ IF config.fault = "ioctl" THEN Throw /\ fd' = "closed"
                               ELSE Goto("bind") /\ UNCHANGED fd
  /\ UNCHANGED <<config, context, timer, threadVars, endVars>>

BindSocket ==
  /\ pc = "bind"
  /\ IF config.fault = "bind" THEN Throw /\ fd' = "closed"
                              ELSE Goto("entities") /\ fd' = "bound"
  /\ UNCHANGED <<config, context, timer, threadVars, endVars>>

(* Subscription, publishers and services; rclcpp may refuse to create one  *)
(* once the context is shut down.                                          *)
CreateEntities ==
  /\ pc = "entities"
  /\ Goto("flag") \/ (context = "shutdown" /\ Throw)
  /\ UNCHANGED <<config, context, fd, timer, threadVars, endVars>>

(* Mutant: the flag keeps its initial value.                               *)
SetRunning_Forgotten ==
  /\ pc = "flag"
  /\ Goto("thread")
  /\ UNCHANGED <<config, context, fd, timer, threadVars, endVars>>

SetRunning ==
  /\ pc = "flag"
  /\ running' = TRUE
  /\ Goto("thread")
  /\ UNCHANGED <<config, context, fd, timer, rx, endVars>>

StartThread ==
  /\ pc = "thread"
  /\ rx' = "loop"
  /\ Goto("timer")
  /\ UNCHANGED <<config, context, fd, timer, running, endVars>>

(* A timer owns a guard condition, which rcl does not create in a context  *)
(* that is shut down.                                                      *)
CreateTimer ==
  /\ pc = "timer"
  /\ IF context = "shutdown" THEN Throw /\ UNCHANGED timer
                             ELSE Goto("spin") /\ timer' = TRUE
  /\ UNCHANGED <<config, context, fd, threadVars, endVars>>

-----------------------------------------------------------------------------
(* Spin and the destructor.                                                *)

(* rclcpp::spin() returns when the context is shut down.                   *)
SpinReturns ==
  /\ pc = "spin"
  /\ context = "shutdown"
  /\ Goto("stop")
  /\ UNCHANGED <<config, context, fd, timer, threadVars, endVars>>

(* An exception out of spin meets the handler of a failed construction,    *)
(* after the destructor.                                                   *)
SpinThrows ==
  /\ pc = "spin"
  /\ pc' = "stop" /\ exception' = "thrown"
  /\ UNCHANGED <<config, context, fd, timer, threadVars, endVars>>

(* Mutant: the flag is not cleared.                                        *)
DestructorStop_NoFlag ==
  /\ pc = "stop"
  /\ Goto("join")
  /\ UNCHANGED <<config, context, fd, timer, threadVars, endVars>>

DestructorStop ==
  /\ pc = "stop"
  /\ running' = FALSE
  /\ Goto("join")
  /\ UNCHANGED <<config, context, fd, timer, rx, endVars>>

(* Mutant: rx_thread_.detach().                                            *)
DestructorJoin_Detaches ==
  /\ pc = "join"
  /\ Goto("release")
  /\ UNCHANGED <<config, context, fd, timer, threadVars, endVars>>

DestructorJoin ==
  /\ pc = "join"
  /\ rx = "exit"
  /\ Goto("release")
  /\ UNCHANGED <<config, context, fd, timer, threadVars, endVars>>

(* A constructor has thrown: no destructor body, only the members, last    *)
(* declared first.  A thread that was started is still joinable, and its   *)
(* destructor calls std::terminate().                                      *)
UnwindThread ==
  /\ pc = "unwind"
  /\ IF rx = "none" THEN Goto("release") /\ UNCHANGED exit_status
     ELSE Goto("ended") /\ exit_status' = SIGABRT
  /\ UNCHANGED <<config, context, fd, timer, threadVars, fatal>>

(* The members declared before the thread: the entities, can_socket_.      *)
ReleaseMembers ==
  /\ pc = "release"
  /\ timer' = FALSE
  /\ fd' = IF fd = "bound" THEN "closed" ELSE fd
  /\ Goto(IF exception = "thrown" THEN "catch" ELSE "return")
  /\ UNCHANGED <<config, context, threadVars, endVars>>

(* main(): the handler, and the end of a normal run.                       *)
CatchInMain ==
  /\ pc = "catch"
  /\ fatal' = TRUE /\ context' = "shutdown" /\ exit_status' = 1
  /\ Goto("ended")
  /\ UNCHANGED <<config, fd, timer, threadVars>>

ReturnFromMain ==
  /\ pc = "return"
  /\ context' = "shutdown" /\ exit_status' = 0
  /\ Goto("ended")
  /\ UNCHANGED <<config, fd, timer, threadVars, fatal>>

Main ==
  \/ CreateNode \/ LoadParameters \/ LookupModel
  \/ CreateSocket \/ ResolveInterface \/ BindSocket
  \/ CreateEntities \/ SetRunning \/ StartThread \/ CreateTimer
  \/ SpinReturns \/ DestructorStop \/ DestructorJoin
  \/ UnwindThread \/ ReleaseMembers \/ CatchInMain \/ ReturnFromMain

-----------------------------------------------------------------------------
(* The RX thread: check the flag, wait in receive() for 50 ms at most.     *)

RxCheck ==
  /\ pc # "ended"
  /\ rx = "loop"
  /\ rx' = IF running THEN "receive" ELSE "exit"
  /\ UNCHANGED <<config, context, pc, exception, fd, timer, running, endVars>>

RxReceive ==
  /\ pc # "ended"
  /\ rx = "receive"
  /\ rx' = "loop"
  /\ UNCHANGED <<config, context, pc, exception, fd, timer, running, endVars>>

RxThread == RxCheck \/ RxReceive

(* rclcpp's signal handler (external).                                     *)
Sigint ==
  /\ pc # "ended"
  /\ context = "valid"
  /\ context' = "shutdown"
  /\ UNCHANGED <<config, pc, exception, fd, timer, threadVars, endVars>>

(* The process is gone.                                                    *)
Ended == pc = "ended" /\ UNCHANGED vars

-----------------------------------------------------------------------------
Init ==
  /\ config \in Config
  /\ context = "valid" /\ pc = "node" /\ exception = "none"
  /\ fd = "none" /\ timer = FALSE /\ rx = "none" /\ running = FALSE
  /\ fatal = FALSE /\ exit_status = Unset

Next == Main \/ SpinThrows \/ RxThread \/ Sigint \/ Ended

Spec == Init /\ [][Next]_vars

(* Both threads run; nobody owes a SIGINT or an exception.                 *)
FairSpec == Spec /\ WF_vars(Main) /\ WF_vars(RxThread)

-----------------------------------------------------------------------------
(* Properties.                                                             *)

(* Types; the descriptor's state follows the constructor's progress.       *)
TypeOK ==
  /\ config \in Config
  /\ context \in {"valid", "shutdown"} /\ exception \in {"none", "thrown"}
  /\ pc \in {"node", "parameters", "lookup", "socket", "ioctl", "bind",
             "entities", "flag", "thread", "timer", "spin", "stop", "join",
             "unwind", "release", "catch", "return", "ended"}
  /\ fd \in {"none", "open", "bound", "closed"}
  /\ fd = "open" => pc \in {"ioctl", "bind"}
  /\ timer \in BOOLEAN /\ running \in BOOLEAN
  /\ rx \in {"none", "loop", "receive", "exit"}
  /\ fatal \in BOOLEAN /\ exit_status \in {Unset, 0, 1, SIGABRT}
  /\ exit_status # Unset <=> pc = "ended"

(* "rather than spinning a half-initialized node" (README, Nodes): what    *)
(* spins has valid parameters, a bound socket, a timer to drain the queues *)
(* and an RX thread that fills them.                                       *)
NoHalfInitialized ==
  pc = "spin" =>
    /\ ParametersValid /\ HasModel(config.motor_type)
    /\ fd = "bound" /\ timer /\ rx \in {"loop", "receive"}

(* "no background thread is touching node state during shutdown" (README): *)
(* the RX thread is never in receive() without an open, bound socket, and  *)
(* is over before the members go.                                          *)
RxWithinSocketLife ==
  /\ rx = "receive" => fd = "bound"
  /\ pc \in {"release", "catch", "return"} => rx \in {"none", "exit"}

(* A process that returns from main() has closed its socket, ended its     *)
(* thread and shut ROS down, however it got there ("on every exit path",   *)
(* motor_driver_node_main.cpp); status 1 is what a logged failure returns. *)
OrderlyExit ==
  exit_status \in {0, 1} =>
    /\ fd \in {"none", "closed"}
    /\ rx \in {"none", "exit"} /\ ~timer
    /\ context = "shutdown"
    /\ exit_status = 1 <=> fatal

(* "exits with status 1" (README): with a bad parameter, an unknown model  *)
(* or an unreachable interface the process logs FATAL and returns 1.       *)
BadConfigurationExits ==
  ~(ParametersValid /\ HasModel(config.motor_type) /\ config.fault = "none")
    ~> exit_status = 1 /\ fatal

(* A SIGINT ends the process, wherever it finds it.                        *)
InterruptEnds == context = "shutdown" ~> exit_status # Unset

(* "If construction throws [...] logs the error at FATAL and exits with    *)
(* status 1" (README): a process in which an exception was thrown does so. *)
FailedStartExits1 ==
  pc = "ended" /\ exception = "thrown" => exit_status = 1 /\ fatal
=============================================================================
