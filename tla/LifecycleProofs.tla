-------------------------- MODULE LifecycleProofs --------------------------
(* What holds of every start, run and end of the process, for all          *)
(* parameter values and wherever a SIGINT or an exception falls.           *)
EXTENDS Lifecycle, TLAPS

(* What the constructor has done by the time the main thread is at pc.     *)
Constructed ==
  /\ pc \notin {"node", "parameters", "unwind", "release", "catch", "return",
                "ended"} => ParametersValid
  /\ pc \in {"socket", "ioctl", "bind", "entities", "flag", "thread", "timer",
             "spin"} => HasModel(config.motor_type)
  /\ pc \in {"entities", "flag", "thread", "timer", "spin", "stop", "join"}
       => fd = "bound"
  /\ pc = "spin" => timer

(* The thread exists from "timer" on and runs until the destructor clears  *)
(* the flag; it outlives nothing it uses.                                  *)
ThreadLife ==
  /\ pc \in {"node", "parameters", "lookup", "socket", "ioctl", "bind",
             "entities", "flag", "thread"} => rx = "none"
  /\ pc \in {"thread", "timer", "spin"} => running
  /\ pc \in {"timer", "spin"} => rx \in {"loop", "receive"}
  /\ rx \in {"loop", "receive"} => fd = "bound"
  /\ pc \in {"release", "catch", "return"} => rx \in {"none", "exit"}

(* What is left when main() is about to return, and after it.              *)
Remains ==
  /\ pc \in {"unwind", "release", "catch", "return"} => fd # "open"
  /\ pc \in {"catch", "return"} => fd # "bound" /\ ~timer
  /\ pc # "ended" => exit_status = Unset /\ ~fatal
  /\ exit_status \in {0, 1} =>
       /\ fd \in {"none", "closed"}
       /\ rx \in {"none", "exit"} /\ ~timer
       /\ context = "shutdown"
       /\ exit_status = 1 <=> fatal

IInv == TypeOK /\ Constructed /\ ThreadLife /\ Remains

LEMMA InitEstablishes == Init => IInv
BY UnsetAssumption
   DEF Init, IInv, TypeOK, Constructed, ThreadLife, Remains, SIGABRT

(* No action touches the parameters.                                       *)
LEMMA ParametersStay ==
  ASSUME [Next]_vars
  PROVE  /\ config' = config
         /\ ParametersValid' <=> ParametersValid
         /\ HasModel(config.motor_type)' <=> HasModel(config.motor_type)
<1>1. config' = config
  BY DEF Next, Main, RxThread, vars,
         CreateNode, LoadParameters, LookupModel, CreateSocket,
         ResolveInterface, BindSocket, CreateEntities, SetRunning,
         StartThread, CreateTimer, SpinReturns, SpinThrows,
         DestructorStop, DestructorJoin, UnwindThread, ReleaseMembers,
         CatchInMain, ReturnFromMain, RxCheck, RxReceive,
         Sigint, Ended
<1> QED
  BY <1>1 DEF ParametersValid, HasModel

LEMMA NextPreserves == IInv /\ [Next]_vars => IInv'
<1> SUFFICES ASSUME TypeOK, Constructed, ThreadLife, Remains, [Next]_vars
             PROVE  IInv'
  BY DEF IInv
<1>0. /\ config' = config
      /\ ParametersValid' <=> ParametersValid
      /\ HasModel(config.motor_type)' <=> HasModel(config.motor_type)
  BY ParametersStay
<1> USE <1>0, UnsetAssumption
        DEF IInv, TypeOK, Constructed, ThreadLife, Remains, Goto, Throw,
            threadVars, endVars, SIGABRT
<1>1. CASE CreateNode
  BY <1>1 DEF CreateNode
<1>2. CASE LoadParameters
  BY <1>2 DEF LoadParameters
<1>3. CASE LookupModel
  BY <1>3 DEF LookupModel
<1>4. CASE CreateSocket
  BY <1>4 DEF CreateSocket
<1>5. CASE ResolveInterface
  BY <1>5 DEF ResolveInterface
<1>6. CASE BindSocket
  BY <1>6 DEF BindSocket
<1>7. CASE CreateEntities
  BY <1>7 DEF CreateEntities
<1>8. CASE SetRunning
  BY <1>8 DEF SetRunning
<1>9. CASE StartThread
  BY <1>9 DEF StartThread
<1>10. CASE CreateTimer
  <2>1. TypeOK'
    BY <1>10 DEF CreateTimer
  <2>2. Constructed'
    BY <1>10 DEF CreateTimer
  <2>3. ThreadLife'
    BY <1>10 DEF CreateTimer
  <2>4. Remains'
    BY <1>10 DEF CreateTimer
  <2> QED
    BY <2>1, <2>2, <2>3, <2>4
<1>11. CASE SpinReturns
  BY <1>11 DEF SpinReturns
<1>12. CASE SpinThrows
  BY <1>12 DEF SpinThrows
<1>13. CASE DestructorStop
  BY <1>13 DEF DestructorStop
<1>14. CASE DestructorJoin
  BY <1>14 DEF DestructorJoin
<1>15. CASE UnwindThread
  BY <1>15 DEF UnwindThread
<1>16. CASE ReleaseMembers
  <2>1. TypeOK'
    BY <1>16 DEF ReleaseMembers
  <2>2. Constructed'
    BY <1>16 DEF ReleaseMembers
  <2>3. ThreadLife'
    BY <1>16 DEF ReleaseMembers
  <2>4. Remains'
    BY <1>16 DEF ReleaseMembers
  <2> QED
    BY <2>1, <2>2, <2>3, <2>4
<1>17. CASE CatchInMain
  BY <1>17 DEF CatchInMain
<1>18. CASE ReturnFromMain
  BY <1>18 DEF ReturnFromMain
<1>19. CASE RxCheck
  BY <1>19 DEF RxCheck
<1>20. CASE RxReceive
  BY <1>20 DEF RxReceive
<1>21. CASE Sigint
  BY <1>21 DEF Sigint
<1>22. CASE Ended
  BY <1>22 DEF Ended, vars
<1>23. CASE UNCHANGED vars
  BY <1>23 DEF vars
<1> QED
  BY <1>1, <1>2, <1>3, <1>4, <1>5, <1>6, <1>7, <1>8, <1>9, <1>10,
     <1>11, <1>12, <1>13, <1>14, <1>15, <1>16, <1>17, <1>18, <1>19, <1>20,
     <1>21, <1>22, <1>23
     DEF Next, Main, RxThread

LEMMA InvariantHolds == Spec => []IInv
BY InitEstablishes, NextPreserves, PTL DEF Spec

(* The variables keep their types, the descriptor follows the constructor. *)
THEOREM LifecycleTyped == Spec => []TypeOK
<1>1. IInv => TypeOK
  BY DEF IInv
<1> QED
  BY <1>1, InvariantHolds, PTL

(* Whatever the parameters, the faults and the moment of a SIGINT: what    *)
(* spins is a complete node (constructor of MotorDriverNode).              *)
THEOREM SpinsComplete == Spec => []NoHalfInitialized
<1>1. IInv => NoHalfInitialized
  BY DEF IInv, Constructed, ThreadLife, NoHalfInitialized
<1> QED
  BY <1>1, InvariantHolds, PTL

(* The RX thread uses the socket only within its life, and is over before  *)
(* the members go (destructor of MotorDriverNode).                         *)
THEOREM ThreadWithinSocket == Spec => []RxWithinSocketLife
<1>1. IInv => RxWithinSocketLife
  BY DEF IInv, ThreadLife, RxWithinSocketLife
<1> QED
  BY <1>1, InvariantHolds, PTL

(* A return from main() leaves nothing open, running or logged wrongly.    *)
THEOREM ExitsOrderly == Spec => []OrderlyExit
<1>1. IInv => OrderlyExit
  BY DEF IInv, Remains, OrderlyExit
<1> QED
  BY <1>1, InvariantHolds, PTL
=============================================================================
