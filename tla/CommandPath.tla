---------------------------- MODULE CommandPath ----------------------------
(***************************************************************************)
(* The actuation path: ~/cmd messages in the bounded history of the        *)
(* subscription, requests to the three services, the callbacks that turn   *)
(* both into CAN frames on the executor thread, the transmit queue of the  *)
(* kernel, and the motor that reads the frames one by one.                 *)
(*                                                                         *)
(* Callbacks never overlap (rclcpp::spin() is single-threaded), but which  *)
(* ready callback is next is open: a request may overtake the commands     *)
(* that were published before it, and be overtaken.                        *)
(*                                                                         *)
(* A command is its rank among those published, sent as its current.  The  *)
(* feedback of the motor is reduced to the readings of its 0x2A frames;    *)
(* RxPipeline has their way through the driver in detail.                  *)
(***************************************************************************)
EXTENDS WireFormat, FiniteSets

CONSTANTS CanId,        \* this node's can_id parameter
          CmdDepth,     \* history depth of SensorDataQoS
          TxDepth,      \* frames the kernel queues for the interface
          Requests,     \* the service requests a client may make
          Lossy,        \* best-effort messages may be lost in transit
          MaxCommands,  \* bound: commands in a behaviour
          MaxRequests,  \* bound: requests in a behaviour
          MaxRestarts   \* bound: times the node is stopped and started

ASSUME CanIdAssumption == CanId \in DriverId
ASSUME DepthAssumption ==
  /\ CmdDepth \in Nat \ {0} /\ TxDepth \in Nat \ {0}
  /\ Lossy \in BOOLEAN /\ MaxCommands \in Nat /\ MaxRequests \in Nat
  /\ MaxRestarts \in Nat

(* A command is its own current in mA: it has to fit the payload.          *)
ASSUME RanksFitAssumption == MaxCommands <= 2147483647

VARIABLES
  last,         \* rank of the command published last
  cmd_queue,    \* commands the node has received and not yet taken
  handled,      \* rank of the command taken last
  calls,        \* requests made, in order: what, when and with what result
  tx,           \* frames written to the socket and not yet sent
  motor,        \* what the motor's controller is doing and has stored
  reading,      \* a 0x2A reading is on its way to the drain timer
  cached,       \* last_extended_position_deg_ holds a value
  restarts,     \* times the node has been stopped and started
  history       \* read by properties only: the requests the motor heard,
                \* the command it heard last, and, since it last heard a
                \* request to coast made after command `since`, how many
                \* commands no newer than that it heard

vars == <<last, cmd_queue, handled, calls, tx, motor, reading, cached,
          restarts, history>>

Rank == 1..MaxCommands

ASSUME RequestsAssumption ==
  \A request \in Requests :
    \/ request = Disable
    \/ \E permanent \in BOOLEAN : request = SetOrigin(permanent)
    \/ \E add, single \in BOOLEAN : request = SetFeedbackConfig(add, single)

-----------------------------------------------------------------------------
(* Clients.                                                                *)

(* Mutant: a subscription that keeps everything.                           *)
KeepLast_All(q) == q

(* Mutant: a full history refuses the newcomer.                            *)
KeepLast_Oldest(q) == SubSeq(q, 1, CmdDepth)

(* KEEP_LAST: the oldest entries make room.                                *)
KeepLast(q) ==
  SubSeq(q, 1 + (IF Len(q) > CmdDepth THEN Len(q) - CmdDepth ELSE 0), Len(q))

(* A command counts as published when the transport hands it over to the   *)
(* subscription or loses it: what is still in transit is not there yet.    *)
(* Topics and services are not ordered with respect to each other, so a    *)
(* request may reach the node before a command that its client published   *)
(* first; that command has a rank above calls[i].at.                       *)
PublishCommand(mode) ==
  /\ last < MaxCommands
  /\ last' = last + 1
  /\ \/ cmd_queue' = KeepLast(Append(cmd_queue, [mode |-> mode, rank |-> last']))
     \/ Lossy /\ UNCHANGED cmd_queue
  /\ UNCHANGED <<handled, calls, tx, motor, reading, cached,
                 restarts, history>>

CallService(request) ==
  /\ Len(calls) < MaxRequests
  /\ calls' = Append(calls, [request |-> request, at |-> last,
                             result |-> "pending"])
  /\ UNCHANGED <<last, cmd_queue, handled, tx, motor, reading, cached,
                 restarts, history>>

-----------------------------------------------------------------------------
(* The executor's callbacks.                                               *)

(* Mutant: a frame that went out is reported as one that did not.          *)
Send_Queued(frame, from, ok) ==
  /\ Len(tx) < TxDepth
  /\ tx' = Append(tx, [frame |-> frame, from |-> from])

(* CanSocket::send(): the write is all or nothing; it fails when the queue *)
(* is full, and may fail for other reasons, the interface being down.      *)
Send(frame, from, ok) ==
  /\ ok => Len(tx) < TxDepth
  /\ tx' = IF ok THEN Append(tx, [frame |-> frame, from |-> from]) ELSE tx

(* A frame that cannot be sent is dropped; so is an unknown mode.          *)
OnCommand(ok) ==
  /\ cmd_queue # <<>>
  /\ cmd_queue' = Tail(cmd_queue)
  /\ LET m == Head(cmd_queue)
     IN /\ handled' = m.rank
        /\ \/ /\ m.mode \in CommandModes
              /\ Send(MakeFrame(m.mode, CanId, AppendInt32(m.rank)), 0, ok)
           \/ /\ m.mode \notin CommandModes
              /\ ok
              /\ UNCHANGED tx
  /\ UNCHANGED <<last, calls, motor, reading, cached,
                 restarts, history>>

(* The oldest request a service has not answered is call i.                *)
NextOf(service, i) ==
  /\ calls[i].request.service = service
  /\ calls[i].result = "pending"
  /\ \A j \in 1..(i - 1) :
       calls[j].request.service = service => calls[j].result # "pending"

(* Mutant: the response does not wait for the result of the write.         *)
Respond_Always(i, frame, ok) ==
  /\ Send(frame, i, ok)
  /\ calls' = [calls EXCEPT ![i].result = "success"]

(* response->success is the result of the write.                           *)
Respond(i, frame, ok) ==
  /\ Send(frame, i, ok)
  /\ calls' = [calls EXCEPT ![i].result = IF ok THEN "success" ELSE "failure"]

OnDisable(i, ok) ==
  /\ NextOf("disable", i)
  /\ Respond(i, PackDisable(CanId), ok)
  /\ UNCHANGED <<last, cmd_queue, handled, motor, reading, cached,
                 restarts, history>>

OnSetOrigin(i, ok) ==
  /\ NextOf("set_origin", i)
  /\ Respond(i, PackSetOrigin(CanId, calls[i].request.permanent), ok)
  /\ UNCHANGED <<last, cmd_queue, handled, motor, reading, cached,
                 restarts, history>>

(* The cache goes whether or not the request went out.                     *)
OnSetFeedbackConfig(i, ok) ==
  /\ NextOf("set_feedback_config", i)
  /\ LET request == calls[i].request
     IN /\ Respond(i, PackFeedbackConfig(CanId, request.add, request.single), ok)
        /\ cached' = (cached /\ request.add)
  /\ UNCHANGED <<last, cmd_queue, handled, motor, reading, restarts,
                 history>>

(* The drain timer finds a reading in its queue and caches it; another may *)
(* be on its way behind.                                                   *)
DrainCaches ==
  /\ reading
  /\ reading' \in BOOLEAN
  /\ cached' = TRUE
  /\ UNCHANGED <<last, cmd_queue, handled, calls, tx, motor, restarts,
                 history>>

(* Mutant: ~/cmd is transient local, and a new subscription is given the   *)
(* last command again.                                                     *)
NodeRestarts_TransientLocal ==
  /\ restarts < MaxRestarts
  /\ restarts' = restarts + 1
  /\ cmd_queue' = IF last = 0 THEN <<>>
                  ELSE <<[mode |-> MODE_CURRENT, rank |-> last]>>
  /\ reading' = FALSE /\ cached' = FALSE
  /\ UNCHANGED <<last, handled, calls, tx, motor, history>>

(* A SIGINT ends spin() between two callbacks and the node is started      *)
(* again.  What the node had received is lost; what it had written is not: *)
(* the destructor sends nothing, and the motor goes on as it was told.     *)
NodeRestarts ==
  /\ restarts < MaxRestarts
  /\ restarts' = restarts + 1
  /\ cmd_queue' = <<>>
  /\ calls' = [i \in DOMAIN calls |->
                IF calls[i].result = "pending"
                THEN [calls[i] EXCEPT !.result = "lost"] ELSE calls[i]]
  /\ reading' = FALSE /\ cached' = FALSE
  /\ UNCHANGED <<last, handled, tx, motor, history>>

-----------------------------------------------------------------------------
(* The bus and the motor (external).                                       *)

Obeys(data, mode) ==
  CASE mode = MODE_DISABLE -> [motor EXCEPT !.drive = 0]
    [] mode = MODE_SET_ORIGIN ->
         [motor EXCEPT !.flash = @ + data[1]]
    [] mode = MODE_FEEDBACK_CONFIG ->
         [motor EXCEPT !.ext = data[7] >= 128, !.flash = @ + 1]
    [] OTHER -> [motor EXCEPT
                   !.drive = GetInt32(data[1], data[2], data[3], data[4])]

(* A frame leaves the queue and the motor does what it says.               *)
BusTransmits ==
  /\ tx # <<>>
  /\ tx' = Tail(tx)
  /\ LET frame == Head(tx).frame
         mode  == frame.id \div 256
         from  == Head(tx).from
         rank  == motor'.drive
     IN /\ motor' = Obeys(frame.data, mode)
        /\ \/ /\ mode \in CommandModes
              /\ history' = [history EXCEPT
                               !.command = rank,
                               !.stale = IF rank <= history.since THEN @ + 1
                                                                  ELSE @]
           \/ /\ mode \notin CommandModes
              /\ history' = [history EXCEPT
                               !.heard = @ \cup {from},
                               !.since = IF mode = MODE_DISABLE
                                         THEN calls[from].at ELSE @,
                               !.stale = IF mode = MODE_DISABLE THEN 0 ELSE @]
  /\ UNCHANGED <<last, cmd_queue, handled, calls, reading, cached,
                 restarts>>

MotorSendsExt ==
  /\ motor.ext
  /\ ~reading
  /\ reading' = TRUE
  /\ UNCHANGED <<last, cmd_queue, handled, calls, tx, motor, cached,
                 restarts, history>>

-----------------------------------------------------------------------------
Init ==
  /\ last = 0 /\ cmd_queue = <<>> /\ handled = 0 /\ calls = <<>> /\ tx = <<>>
  /\ motor \in [drive : {0}, ext : BOOLEAN, flash : {0}]
  /\ reading = FALSE /\ cached = FALSE /\ restarts = 0
  /\ history = [heard |-> {}, command |-> 0, since |-> 0, stale |-> 0]

Serve(i, ok) ==
  OnDisable(i, ok) \/ OnSetOrigin(i, ok) \/ OnSetFeedbackConfig(i, ok)

Next ==
  \/ \E mode \in {MODE_CURRENT, 7} : PublishCommand(mode)
  \/ \E request \in Requests : CallService(request)
  \/ \E ok \in BOOLEAN : OnCommand(ok)
  \/ \E i \in DOMAIN calls, ok \in BOOLEAN : Serve(i, ok)
  \/ DrainCaches
  \/ NodeRestarts
  \/ BusTransmits
  \/ MotorSendsExt

Spec == Init /\ [][Next]_vars

(***************************************************************************)
(* The executor dispatches every ready subscription and service sooner or  *)
(* later (each wait set it collects is worked off before the next one),    *)
(* and runs the timer.  That the bus carries what was queued, and that the *)
(* motor sends what it is configured to, are assumptions on the hardware.  *)
(***************************************************************************)
FairSpec ==
  /\ Spec
  /\ WF_vars(\E ok \in BOOLEAN : OnCommand(ok))
  /\ \A i \in 1..MaxRequests :
       WF_vars(i \in DOMAIN calls /\ \E ok \in BOOLEAN : Serve(i, ok))
  /\ WF_vars(DrainCaches)
  /\ WF_vars(BusTransmits)
  /\ WF_vars(MotorSendsExt)

-----------------------------------------------------------------------------
(* Properties.                                                             *)

Message == [mode : {MODE_CURRENT, 7}, rank : Rank]
Frame   == [id : Nat, dlc : 0..8, data : Payload]

(* Types, with the bounds of the two queues.                               *)
TypeOK ==
  /\ last \in 0..MaxCommands /\ handled \in 0..MaxCommands
  /\ cmd_queue \in Seq(Message) /\ Len(cmd_queue) <= CmdDepth
  /\ calls \in Seq([request : Requests, at : 0..MaxCommands,
                    result : {"pending", "success", "failure", "lost"}])
  /\ tx \in Seq([frame : Frame, from : 0..MaxRequests]) /\ Len(tx) <= TxDepth
  /\ motor \in [drive : 0..MaxCommands, ext : BOOLEAN, flash : Nat]
  /\ reading \in BOOLEAN /\ cached \in BOOLEAN
  /\ restarts \in 0..MaxRestarts
  /\ history \in [heard : SUBSET (1..MaxRequests), command : 0..MaxCommands,
                  since : 0..MaxCommands, stale : 0..MaxCommands]

(* The motor never hears a command twice, nor one older than a command it  *)
(* has heard, whatever was dropped in between and however often the node   *)
(* was started: each frame of a command that it reads is a newer one.      *)
HearsCommand ==
  /\ BusTransmits
  /\ Head(tx).frame.id \div 256 \in CommandModes

CommandsInOrder ==
  [][HearsCommand => history'.command > history.command]_vars

(* "a stale queued command is worse than a dropped one" (README, ~/cmd):   *)
(* once the motor coasts on a request to disable, at most CmdDepth of the  *)
(* commands that had reached the node when the client made that request    *)
(* set it moving again.  Of commands still in transit at that moment       *)
(* nothing is said: they are executed as new ones.                         *)
StaleBounded == history.stale <= CmdDepth

(* Both writers of the motor's flash memory, "don't call often" (README):  *)
(* there is one write for each call that asked for it and succeeded, and   *)
(* none for any other call or command.                                     *)
WritesFlash(request) ==
  \/ request.service = "set_feedback_config"
  \/ request.service = "set_origin" /\ request.permanent

FlashFrames ==
  {k \in DOMAIN tx :
     LET mode == tx[k].frame.id \div 256
     IN \/ mode = MODE_FEEDBACK_CONFIG
        \/ mode = MODE_SET_ORIGIN /\ tx[k].frame.data[1] = 1}

FlashAccounted ==
  motor.flash + Cardinality(FlashFrames) =
    Cardinality({i \in DOMAIN calls : /\ WritesFlash(calls[i].request)
                                      /\ calls[i].result = "success"})

Service == INSTANCE Actuator
  WITH Depth <- CmdDepth, published <- last, command <- history.command,
       drive <- motor.drive, extended <- motor.ext, flash <- motor.flash,
       heard <- history.heard, since <- history.since,
       spare <- CmdDepth - history.stale

(* What the clients are promised (Actuator): a command is lost in one of   *)
(* many ways, a request overtakes it, a write fails, the node is stopped,  *)
(* and yet the motor does nothing but what they asked for, in order.       *)
ImplementsActuator == Service!Spec

(* A service that answers success has been heard by the motor, or will be, *)
(* if the bus carries what the kernel took (FairSpec): success is the      *)
(* result of a write, and nothing in the code would notice a loss.         *)
SuccessIsHeard ==
  \A i \in 1..MaxRequests :
    (i \in DOMAIN calls /\ calls[i].result = "success")
      ~> i \in history.heard

(* Latest command wins (README): the newest command is not the one that    *)
(* the bounded history gives up, as long as the transport delivers and the *)
(* node is not stopped.                                                    *)
NewestHandled ==
  ~Lossy => \A n \in Rank : last = n ~> handled >= n \/ restarts > 0

(* Once the extended frame has been enabled, the node publishes from it,   *)
(* unless another call disables it.                                        *)
Configures(i, add) ==
  /\ i \in DOMAIN calls
  /\ calls[i].request.service = "set_feedback_config"
  /\ calls[i].request.add = add

EnableTakesEffect ==
  \A i \in 1..MaxRequests :
    (Configures(i, TRUE) /\ calls[i].result = "success")
      ~> cached \/ \E j \in 1..MaxRequests : Configures(j, FALSE)
=============================================================================
