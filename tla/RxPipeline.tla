----------------------------- MODULE RxPipeline -----------------------------
(***************************************************************************)
(* The feedback path of MotorDriverNode: the RX thread that reads the CAN  *)
(* socket, the two queues it shares with the executor under                *)
(* rx_queue_mutex_, the drain timer that empties them and publishes, the   *)
(* cached extended position with its other writer ~/set_feedback_config,   *)
(* and the destructor that stops the thread.                               *)
(*                                                                         *)
(* The node runs on rclcpp::spin(), a single-threaded executor: callbacks  *)
(* never overlap, and the one concurrency is executor against RX thread.   *)
(* A status or position reading is abstracted to its stamp, the rank of    *)
(* its frame on the bus.                                                   *)
(***************************************************************************)
EXTENDS CanFrames, Sequences

CONSTANTS CanId,        \* this node's can_id parameter
          BusFrames,    \* raw frames the bus may carry
          RcvBuf,       \* frames the kernel keeps for the socket
          MaxFrames,    \* bound: frames on the bus in a behaviour
          MaxRequests   \* bound: ~/set_feedback_config calls in a behaviour

ASSUME CanIdAssumption == CanId \in DriverId
ASSUME BusFramesAssumption == BusFrames \subseteq RawFrame
ASSUME BoundsAssumption == /\ RcvBuf \in Nat \ {0}
                           /\ MaxFrames \in Nat
                           /\ MaxRequests \in Nat

VARIABLES
  (* the bus, the kernel and the motor *)
  sockbuf,      \* frames received by the kernel and not yet read
  lastStamp,    \* stamp of the latest frame on the bus
  motorExt,     \* the motor is configured to send 0x2A frames
  (* the RX thread *)
  rx,           \* its control point
  frame,        \* the decoded frame it is about to push
  running,      \* rx_thread_running_
  (* shared under rx_queue_mutex_ *)
  mutex,
  status_queue,
  ext_position_queue,
  (* the executor thread *)
  exec,         \* its control point
  statuses,     \* locals of drainRxQueueAndPublish()
  ext_positions,
  last_extended_position_deg,
  requests,     \* ~/set_feedback_config calls so far
  (* history, read by properties only *)
  accepted,     \* status frames decoded by the RX thread
  extSeen,      \* stamps of extended positions decoded by the RX thread
  cleared,      \* newest extended position dropped from the cache
  disabledAt,   \* stamp of the latest frame when the motor last obeyed a
                \* request to disable the extended frame
  published     \* MotorState / DiagnosticStatus pairs, in order

busVars   == <<sockbuf, lastStamp, motorExt>>
rxVars    == <<rx, frame, running>>
queueVars == <<mutex, status_queue, ext_position_queue>>
execVars  == <<exec, statuses, ext_positions, last_extended_position_deg,
               requests>>
historyVars == <<accepted, extSeen, cleared, disabledAt, published>>
vars == <<busVars, rxVars, queueVars, execVars, historyVars>>

Stamp  == 1..MaxFrames
Fault  == {raw.fault : raw \in BusFrames}
Status == [stamp : Stamp, fault : Fault]
NoExt  == 0                     \* std::nullopt
NoFrame == [kind |-> "none"]
PendingFrame == [kind : {"status"}, status : Status]
                  \cup [kind : {"ext"}, position : Stamp]

(* What one iteration of the publishing loop sends: position is the stamp  *)
(* of the reading the position field came from; level the DiagnosticStatus *)
(* level; cleared the value of the history variable at that moment.        *)
Published == [status : Status, position : Stamp, valid : BOOLEAN,
              level : {"OK", "ERROR"}, cleared : {NoExt} \cup Stamp]

-----------------------------------------------------------------------------
(* Bus, kernel and motor (external).                                       *)

(* A frame reaches the socket; the kernel drops it when the receive buffer *)
(* is full.  The motor sends 0x2A frames only while configured to.         *)
BusDelivers(raw) ==
  /\ lastStamp < MaxFrames
  /\ exec # "destroyed"
  /\ raw.origin = "motor_ext" => motorExt
  /\ lastStamp' = lastStamp + 1
  /\ sockbuf' = IF Len(sockbuf) < RcvBuf
                THEN Append(sockbuf, [raw |-> raw, stamp |-> lastStamp'])
                ELSE sockbuf
  /\ UNCHANGED <<motorExt, rxVars, queueVars, execVars, historyVars>>

(* An entry of the receive buffer that is received and decoded: as status, *)
(* which is tried first, or as extended position.                          *)
OwnStatus(entry) == Surfaced(entry.raw) /\ IsStatusFrame(entry.raw, CanId)
OwnExtPosition(entry) ==
  /\ Surfaced(entry.raw)
  /\ ~IsStatusFrame(entry.raw, CanId)
  /\ IsExtendedPositionFrame(entry.raw, CanId)

-----------------------------------------------------------------------------
(* RX thread: rxThreadMain().                                              *)

(* Mutant: while (true).                                                   *)
RxCheck_Forever ==
  /\ rx = "loop"
  /\ rx' = "poll"
  /\ UNCHANGED <<busVars, frame, running, queueVars, execVars,
                 historyVars>>

(* while (rx_thread_running_.load())                                       *)
RxCheck ==
  /\ rx = "loop"
  /\ rx' = IF running THEN "poll" ELSE "exit"
  /\ UNCHANGED <<busVars, frame, running, queueVars, execVars,
                 historyVars>>

(* poll() runs into its timeout, which it does only with nothing to read.  *)
RxTimeout ==
  /\ rx = "poll"
  /\ sockbuf = <<>>
  /\ rx' = "loop"
  /\ UNCHANGED <<busVars, frame, running, queueVars, execVars,
                 historyVars>>

(* Mutant: a read that yields no frame ends the thread.                    *)
RxRead_GivesUp ==
  /\ rx = "poll"
  /\ sockbuf # <<>>
  /\ sockbuf' = Tail(sockbuf)
  /\ LET raw   == Head(sockbuf).raw
         stamp == Head(sockbuf).stamp
     IN \/ /\ OwnStatus(Head(sockbuf))
           /\ frame' = [kind |-> "status",
                        status |-> [stamp |-> stamp, fault |-> raw.fault]]
           /\ accepted' = Append(accepted, frame'.status)
           /\ rx' = "lock"
        \/ /\ ~OwnStatus(Head(sockbuf))
           /\ rx' = IF raw.whole THEN "loop" ELSE "exit"
           /\ UNCHANGED <<frame, accepted>>
  /\ UNCHANGED <<lastStamp, motorExt, running, queueVars, execVars, extSeen,
                 cleared, disabledAt, published>>

RxRead ==
  /\ rx = "poll"
  /\ sockbuf # <<>>
  /\ sockbuf' = Tail(sockbuf)
  /\ LET raw   == Head(sockbuf).raw
         stamp == Head(sockbuf).stamp
     IN \/ /\ OwnStatus(Head(sockbuf))
           /\ frame' = [kind |-> "status",
                        status |-> [stamp |-> stamp, fault |-> raw.fault]]
           /\ accepted' = Append(accepted, frame'.status)
           /\ rx' = "lock"
           /\ UNCHANGED extSeen
        \/ /\ OwnExtPosition(Head(sockbuf))
           /\ frame' = [kind |-> "ext", position |-> stamp]
           /\ extSeen' = extSeen \cup {stamp}
           /\ rx' = "lock"
           /\ UNCHANGED accepted
        \/ /\ ~OwnStatus(Head(sockbuf)) /\ ~OwnExtPosition(Head(sockbuf))
           /\ rx' = "loop"
           /\ UNCHANGED <<frame, accepted, extSeen>>
  /\ UNCHANGED <<lastStamp, motorExt, running, queueVars, execVars,
                 cleared, disabledAt, published>>

(* Mutant: no lock_guard in the RX thread.                                 *)
RxLock_Unguarded ==
  /\ rx = "lock"
  /\ mutex' = "rx"
  /\ rx' = "push"
  /\ UNCHANGED <<busVars, frame, running, status_queue, ext_position_queue,
                 execVars, historyVars>>

RxLock ==
  /\ rx = "lock"
  /\ mutex = "free"
  /\ mutex' = "rx"
  /\ rx' = "push"
  /\ UNCHANGED <<busVars, frame, running, status_queue, ext_position_queue,
                 execVars, historyVars>>

(* push_back, then the lock_guard leaves its scope.                        *)
RxPush ==
  /\ rx = "push"
  /\ \/ /\ frame.kind = "status"
        /\ status_queue' = Append(status_queue, frame.status)
        /\ UNCHANGED ext_position_queue
     \/ /\ frame.kind = "ext"
        /\ ext_position_queue' = Append(ext_position_queue, frame.position)
        /\ UNCHANGED status_queue
  /\ mutex' = "free"
  /\ frame' = NoFrame
  /\ rx' = "loop"
  /\ UNCHANGED <<busVars, running, execVars, historyVars>>

RxThread == RxCheck \/ RxTimeout \/ RxRead \/ RxLock \/ RxPush

-----------------------------------------------------------------------------
(* Executor thread: drainRxQueueAndPublish().                              *)

(* The 200 Hz wall timer is dispatched.                                    *)
DrainStart ==
  /\ exec = "spin"
  /\ exec' = "drain_lock"
  /\ UNCHANGED <<busVars, rxVars, queueVars, statuses, ext_positions,
                 last_extended_position_deg, requests, historyVars>>

(* Mutant: no lock_guard in the drain.                                     *)
DrainLock_Unguarded ==
  /\ exec = "drain_lock"
  /\ mutex' = "exec"
  /\ exec' = "swap_status"
  /\ UNCHANGED <<busVars, rxVars, status_queue, ext_position_queue,
                 statuses, ext_positions, last_extended_position_deg,
                 requests, historyVars>>

DrainLock ==
  /\ exec = "drain_lock"
  /\ mutex = "free"
  /\ mutex' = "exec"
  /\ exec' = "swap_status"
  /\ UNCHANGED <<busVars, rxVars, status_queue, ext_position_queue,
                 statuses, ext_positions, last_extended_position_deg,
                 requests, historyVars>>

(* Mutant: the queue is copied, not swapped.                               *)
SwapStatus_Copies ==
  /\ exec = "swap_status"
  /\ statuses' = status_queue
  /\ exec' = "swap_ext"
  /\ UNCHANGED <<busVars, rxVars, mutex, status_queue, ext_position_queue,
                 ext_positions, last_extended_position_deg, requests,
                 historyVars>>

SwapStatus ==
  /\ exec = "swap_status"
  /\ statuses' = status_queue
  /\ status_queue' = statuses
  /\ exec' = "swap_ext"
  /\ UNCHANGED <<busVars, rxVars, mutex, ext_position_queue, ext_positions,
                 last_extended_position_deg, requests, historyVars>>

(* The second swap; the lock_guard leaves its scope.                       *)
SwapExt ==
  /\ exec = "swap_ext"
  /\ ext_positions' = ext_position_queue
  /\ ext_position_queue' = ext_positions
  /\ mutex' = "free"
  /\ exec' = "apply"
  /\ UNCHANGED <<busVars, rxVars, status_queue, statuses,
                 last_extended_position_deg, requests, historyVars>>

(* Mutant: the first reading of the batch is kept, not the last.           *)
ApplyExt_First ==
  /\ exec = "apply"
  /\ last_extended_position_deg' =
       IF ext_positions = <<>> THEN last_extended_position_deg
                               ELSE ext_positions[1]
  /\ exec' = "publish"
  /\ UNCHANGED <<busVars, rxVars, queueVars, statuses, ext_positions,
                 requests, historyVars>>

(* The loop over ext_positions assigns each in turn: the last one stays.   *)
ApplyExt ==
  /\ exec = "apply"
  /\ last_extended_position_deg' =
       IF ext_positions = <<>> THEN last_extended_position_deg
                               ELSE ext_positions[Len(ext_positions)]
  /\ exec' = "publish"
  /\ UNCHANGED <<busVars, rxVars, queueVars, statuses, ext_positions,
                 requests, historyVars>>

MakeState(status) ==
  LET valid == last_extended_position_deg # NoExt
  IN [status   |-> status,
      position |-> IF valid THEN last_extended_position_deg
                            ELSE status.stamp,
      valid    |-> valid,
      level    |-> IF status.fault = 0 THEN "OK" ELSE "ERROR",
      cleared  |-> cleared]

(* Mutant: the loop runs from the back of the deque.                       *)
PublishOne_FromBack ==
  /\ exec = "publish"
  /\ statuses # <<>>
  /\ published' = Append(published, MakeState(statuses[Len(statuses)]))
  /\ statuses' = SubSeq(statuses, 1, Len(statuses) - 1)
  /\ UNCHANGED <<busVars, rxVars, queueVars, exec, ext_positions,
                 last_extended_position_deg, requests, accepted, extSeen,
                 cleared, disabledAt>>

(* One round of the publishing loop; statuses keeps what is left of it.    *)
PublishOne ==
  /\ exec = "publish"
  /\ statuses # <<>>
  /\ published' = Append(published, MakeState(Head(statuses)))
  /\ statuses' = Tail(statuses)
  /\ UNCHANGED <<busVars, rxVars, queueVars, exec, ext_positions,
                 last_extended_position_deg, requests, accepted, extSeen,
                 cleared, disabledAt>>

(* Mutant: the deque of positions is a member that nobody clears.          *)
DrainDone_KeepsPositions ==
  /\ exec = "publish"
  /\ statuses = <<>>
  /\ exec' = "spin"
  /\ UNCHANGED <<busVars, rxVars, queueVars, statuses, ext_positions,
                 last_extended_position_deg, requests, historyVars>>

(* Mutant: one status frame is published per tick, the others dropped.     *)
DrainDone_DropsRest ==
  /\ exec = "publish"
  /\ statuses' = <<>>
  /\ ext_positions' = <<>>
  /\ exec' = "spin"
  /\ UNCHANGED <<busVars, rxVars, queueVars, last_extended_position_deg,
                 requests, historyVars>>

(* The callback returns and its locals are gone.                           *)
DrainDone ==
  /\ exec = "publish"
  /\ statuses = <<>>
  /\ ext_positions' = <<>>
  /\ exec' = "spin"
  /\ UNCHANGED <<busVars, rxVars, queueVars, statuses,
                 last_extended_position_deg, requests, historyVars>>

(* Mutant: the cached position is not reset.                               *)
OnSetFeedbackConfig_NoReset(add_extended_position_frame, success) ==
  /\ exec = "spin"
  /\ requests < MaxRequests
  /\ requests' = requests + 1
  /\ motorExt' = IF success THEN add_extended_position_frame ELSE motorExt
  /\ disabledAt' = IF success /\ ~add_extended_position_frame THEN lastStamp
                                                            ELSE disabledAt
  /\ IF add_extended_position_frame \/ last_extended_position_deg = NoExt
       THEN UNCHANGED cleared
       ELSE cleared' = last_extended_position_deg
  /\ UNCHANGED <<sockbuf, lastStamp, rxVars, queueVars, exec, statuses,
                 ext_positions, last_extended_position_deg, accepted, extSeen,
                 published>>

(***************************************************************************)
(* onSetFeedbackConfig(): the frame is sent (or the write fails), then the *)
(* cache is reset if the request disables the extended frame, whether or   *)
(* not the send succeeded.  The motor obeys a sent frame at once, the      *)
(* kindest case for the driver.                                            *)
(***************************************************************************)
OnSetFeedbackConfig(add_extended_position_frame, success) ==
  /\ exec = "spin"
  /\ requests < MaxRequests
  /\ requests' = requests + 1
  /\ motorExt' = IF success THEN add_extended_position_frame ELSE motorExt
  /\ disabledAt' = IF success /\ ~add_extended_position_frame THEN lastStamp
                                                            ELSE disabledAt
  /\ IF add_extended_position_frame \/ last_extended_position_deg = NoExt
       THEN UNCHANGED cleared
       ELSE cleared' = last_extended_position_deg
  /\ last_extended_position_deg' =
       IF add_extended_position_frame THEN last_extended_position_deg
                                      ELSE NoExt
  /\ UNCHANGED <<sockbuf, lastStamp, rxVars, queueVars, exec, statuses,
                 ext_positions, accepted, extSeen, published>>

(* spin() has returned: ~MotorDriverNode() clears the flag ...             *)
DestructorStop ==
  /\ exec = "spin"
  /\ running' = FALSE
  /\ exec' = "join"
  /\ UNCHANGED <<busVars, rx, frame, queueVars, statuses, ext_positions,
                 last_extended_position_deg, requests, historyVars>>

(* Mutant: the thread is detached.                                         *)
DestructorJoin_Detaches ==
  /\ exec = "join"
  /\ exec' = "destroyed"
  /\ UNCHANGED <<busVars, rxVars, queueVars, statuses, ext_positions,
                 last_extended_position_deg, requests, historyVars>>

(* ... and joins the thread; the members are destroyed after that.         *)
DestructorJoin ==
  /\ exec = "join"
  /\ rx = "exit"
  /\ exec' = "destroyed"
  /\ UNCHANGED <<busVars, rxVars, queueVars, statuses, ext_positions,
                 last_extended_position_deg, requests, historyVars>>

(* main() has returned: nothing is left to run.                            *)
Ended ==
  /\ exec = "destroyed"
  /\ UNCHANGED vars

Drain == \/ DrainStart \/ DrainLock \/ SwapStatus \/ SwapExt
         \/ ApplyExt \/ PublishOne \/ DrainDone

-----------------------------------------------------------------------------
(* The constructor has started the thread and the timer.                   *)
Init ==
  /\ sockbuf = <<>> /\ lastStamp = 0 /\ motorExt \in BOOLEAN
  /\ rx = "loop" /\ frame = NoFrame /\ running = TRUE
  /\ mutex = "free" /\ status_queue = <<>> /\ ext_position_queue = <<>>
  /\ exec = "spin" /\ statuses = <<>> /\ ext_positions = <<>>
  /\ last_extended_position_deg = NoExt /\ requests = 0
  /\ accepted = <<>> /\ extSeen = {} /\ cleared = NoExt
  /\ disabledAt = 0 /\ published = <<>>

Next ==
  \/ \E raw \in BusFrames : BusDelivers(raw)
  \/ RxThread
  \/ Drain
  \/ \E add, success \in BOOLEAN : OnSetFeedbackConfig(add, success)
  \/ DestructorStop
  \/ DestructorJoin
  \/ Ended

Spec == Init /\ [][Next]_vars

(***************************************************************************)
(* Both threads keep running.  A thread waiting for the mutex gets it if   *)
(* it is free again and again: the executor holds it for two swaps every   *)
(* 5 ms, the RX thread for one push_back per frame.  The bus, the service  *)
(* callers and the shutdown request owe nothing.                           *)
(***************************************************************************)
Fairness ==
  /\ WF_vars(RxThread) /\ SF_vars(RxLock)
  /\ WF_vars(Drain) /\ SF_vars(DrainLock)
  /\ WF_vars(DestructorJoin)

FairSpec == Spec /\ Fairness

-----------------------------------------------------------------------------
(* Properties.                                                             *)

(* Types, and the lock discipline: a thread is at a control point that     *)
(* touches the shared queues exactly when it holds rx_queue_mutex_, and    *)
(* the RX thread carries a frame exactly between decoding and push_back.   *)
TypeOK ==
  /\ sockbuf \in Seq([raw : BusFrames, stamp : Stamp])
  /\ Len(sockbuf) <= RcvBuf
  /\ lastStamp \in 0..MaxFrames /\ motorExt \in BOOLEAN
  /\ rx \in {"loop", "poll", "lock", "push", "exit"} /\ running \in BOOLEAN
  /\ \/ rx \notin {"lock", "push"} /\ frame = NoFrame
     \/ rx \in {"lock", "push"} /\ frame \in PendingFrame
  /\ mutex \in {"free", "rx", "exec"}
  /\ (mutex = "rx") <=> (rx = "push")
  /\ (mutex = "exec") <=> (exec \in {"swap_status", "swap_ext"})
  /\ status_queue \in Seq(Status) /\ ext_position_queue \in Seq(Stamp)
  /\ exec \in {"spin", "drain_lock", "swap_status", "swap_ext", "apply",
               "publish", "join", "destroyed"}
  /\ statuses \in Seq(Status) /\ ext_positions \in Seq(Stamp)
  /\ last_extended_position_deg \in {NoExt} \cup Stamp
  /\ requests \in 0..MaxRequests
  /\ accepted \in Seq(Status) /\ extSeen \subseteq Stamp
  /\ cleared \in {NoExt} \cup Stamp /\ disabledAt \in 0..MaxFrames
  /\ published \in Seq(Published)

(* The drain's local deques hold nothing outside the drain: a swap always  *)
(* hands the RX thread an empty queue back, so no frame can come round     *)
(* again in a later drain.                                                 *)
LocalsFresh ==
  /\ exec \notin {"swap_ext", "apply", "publish"} => statuses = <<>>
  /\ exec \notin {"apply", "publish"} => ext_positions = <<>>

Delivered == [i \in 1..Len(published) |-> published[i].status]
InHand == IF frame.kind = "status" THEN <<frame.status>> ELSE <<>>

(* No status frame is lost, duplicated or reordered between the decoder    *)
(* and the publishers: what was accepted is, in order, what was published, *)
(* what the drain holds, what is queued and what the RX thread carries.    *)
StreamConserved ==
  accepted = Delivered \o (statuses \o (status_queue \o InHand))

(* The feedback path implements the abstract stream.                       *)
Stream == INSTANCE FeedbackStream WITH delivered <- Delivered
ImplementsStream == Stream!Spec

(* A drain takes a clean cut of the traffic: every frame it swapped out,   *)
(* of either kind, was on the bus before every frame it left in a queue.   *)
Stamps(q) == {q[i].stamp : i \in DOMAIN q}
Values(q) == {q[i] : i \in DOMAIN q}

CleanCut ==
  exec \in {"apply", "publish"} =>
    \A d \in Stamps(statuses) \cup Values(ext_positions),
       q \in Stamps(status_queue) \cup Values(ext_position_queue) : d < q

(* "a 0x29 frame arriving after a 0x2A frame doesn't clobber the higher-   *)
(* resolution position" (motor_driver_node.hpp): a published status never  *)
(* carries a position older than an extended position that preceded it on  *)
(* the bus, unless a request to disable the frame dropped that one.        *)
NoClobber ==
  \A i \in DOMAIN published :
    LET p == published[i]
        newest == IF p.valid THEN p.position ELSE p.cleared
    IN \A e \in extSeen : e < p.status.stamp => e <= newest

(* A reading dropped by ~/set_feedback_config is never published again.    *)
ClearedNotReused ==
  \A i \in DOMAIN published :
    published[i].valid => published[i].position > published[i].cleared

(* Only whole status and extended-position frames of the node's own motor  *)
(* enter the pipeline, whatever else is on the bus.                        *)
OnlyOwnFeedback ==
  [][ /\ accepted' # accepted => Head(sockbuf).raw.origin = "motor_status"
      /\ extSeen' # extSeen => Head(sockbuf).raw.origin = "motor_ext" ]_vars

(* Once the members are destroyed no thread touches the shared state: the  *)
(* destructor has joined the RX thread before.                             *)
UntouchedAfterJoin ==
  [][exec = "destroyed" => UNCHANGED <<rxVars, queueVars>>]_vars

(* Every status frame that the kernel has kept for the socket is published *)
(* and its fault code raises the DiagnosticStatus level, whatever failed   *)
(* reads, timeouts and foreign frames lie in between, unless the node      *)
(* shuts down first.                                                       *)
ReceivedIsPublished ==
  \A n \in Stamp :
    (\E k \in DOMAIN sockbuf : sockbuf[k].stamp = n /\ OwnStatus(sockbuf[k]))
      ~> \/ \E i \in DOMAIN published :
              /\ published[i].status.stamp = n
              /\ (published[i].status.fault # 0) = (published[i].level = "ERROR")
         \/ exec \in {"join", "destroyed"}

(* The destructor returns: the RX thread notices the flag.                 *)
ShutdownCompletes == exec = "join" ~> exec = "destroyed"

(* README, ~/state: a call that disables the extended frame clears the     *)
(* cached value, "so publishing falls back to the status-frame position    *)
(* again": a status frame the motor sent after it stopped sending 0x2A     *)
(* frames is not published with an extended position.                      *)
FallbackAfterDisable ==
  [][ published' # published /\ ~motorExt =>
        LET p == published'[Len(published')]
        IN p.status.stamp > disabledAt => ~p.valid ]_vars
=============================================================================
