---------------------------- MODULE DriverSystem ----------------------------
(***************************************************************************)
(* One driver and its motor as a closed system: the actuation path of      *)
(* CommandPath and the feedback it brings about, up to what is published   *)
(* on ~/state and ~/diagnostics.                                           *)
(*                                                                         *)
(* The feedback path is coarser than in RxPipeline, which shows that a     *)
(* drain takes a clean cut of the traffic in its order: incoming is the    *)
(* socket's receive buffer and the two shared queues together, and a drain *)
(* takes however much of it the RX thread has decoded.  A position reading *)
(* is the number of times the motor had been zeroed when it was taken.     *)
(***************************************************************************)
EXTENDS WireFormat

CONSTANTS CanId, CmdDepth, TxDepth, Requests, Lossy, MaxCommands,
          MaxRequests, MaxRestarts,       \* as in CommandPath
          RcvBuf,       \* frames under way before the kernel drops one
          Faults        \* fault codes the motor may report

ASSUME FaultsAssumption == Faults \subseteq 1..7 /\ RcvBuf \in Nat \ {0}

(* What CommandPath assumes of its constants.                              *)
ASSUME PathAssumption ==
  /\ CanId \in DriverId
  /\ CmdDepth \in Nat \ {0} /\ TxDepth \in Nat \ {0} /\ Lossy \in BOOLEAN
  /\ MaxCommands \in Nat /\ MaxCommands <= 2147483647
  /\ MaxRequests \in Nat /\ MaxRestarts \in Nat
  /\ \A request \in Requests :
       \/ request = Disable
       \/ \E permanent \in BOOLEAN : request = SetOrigin(permanent)
       \/ \E add, single \in BOOLEAN : request = SetFeedbackConfig(add, single)

VARIABLES
  last, cmd_queue, handled, calls, tx, motor, restarts, history,
  zero,         \* times the motor's position has been zeroed
  fault,        \* the motor's fault code, 0 for none
  ack,          \* the motor has yet to confirm a request to coast
  incoming,     \* feedback frames not yet taken by a drain
  statuses,     \* what is left of the batch being published
  last_extended_position_deg,
  state,        \* the MotorState and DiagnosticStatus published last
  faulted       \* read by properties only: there has been a fault

feedbackVars == <<incoming, statuses, last_extended_position_deg, state>>
motorVars    == <<zero, fault, ack, faulted>>
pathVars     == <<last, cmd_queue, handled, calls, tx, motor, restarts, history>>
vars         == <<pathVars, motorVars, feedbackVars>>

NoExt == -1                     \* std::nullopt

(* The actuation path, closed by the feedback: a 0x2A reading is under way *)
(* when one is among the incoming frames.                                  *)
Path == INSTANCE CommandPath WITH
          reading <- \E k \in DOMAIN incoming : incoming[k].kind = "ext",
          cached  <- last_extended_position_deg # NoExt

-----------------------------------------------------------------------------
(* Clients and the callbacks that only send: they leave the feedback as it *)
(* is, and none runs while the drain's callback publishes.                 *)

Client ==
  /\ UNCHANGED <<motorVars, feedbackVars>>
  /\ \/ Path!PublishCommand(MODE_CURRENT)
     \/ \E request \in Requests : Path!CallService(request)

OnCommand(ok) ==
  /\ statuses = <<>>
  /\ UNCHANGED <<motorVars, feedbackVars>>
  /\ Path!OnCommand(ok)

Serve(i, ok) ==
  /\ statuses = <<>>
  /\ UNCHANGED <<motorVars, feedbackVars>>
  /\ Path!OnDisable(i, ok) \/ Path!OnSetOrigin(i, ok)

OnSetFeedbackConfig(i, ok) ==
  /\ statuses = <<>>
  /\ Path!NextOf("set_feedback_config", i)
  /\ last_extended_position_deg' =
       IF calls[i].request.add THEN last_extended_position_deg ELSE NoExt
  /\ UNCHANGED <<motorVars, incoming, statuses, state>>
  /\ Path!OnSetFeedbackConfig(i, ok)

NodeRestarts ==
  /\ statuses = <<>>
  /\ incoming' = <<>>
  /\ last_extended_position_deg' = NoExt
  /\ UNCHANGED <<motorVars, statuses, state>>
  /\ Path!NodeRestarts

-----------------------------------------------------------------------------
(* The bus and the motor (external).                                       *)

BusTransmits ==
  /\ UNCHANGED <<fault, faulted, feedbackVars>>
  /\ Path!BusTransmits
  /\ LET mode == Head(tx).frame.id \div 256
     IN /\ zero' = IF mode = MODE_SET_ORIGIN THEN zero + 1 ELSE zero
        /\ ack' = (ack \/ mode = MODE_DISABLE)

(* A frame that finds the receive buffer full is dropped by the kernel.    *)
Arrives(frame) ==
  incoming' = IF Len(incoming) < RcvBuf THEN Append(incoming, frame)
                                        ELSE incoming

(* 0x77, by which the motor confirms a request to coast.                   *)
DISABLED == 119

(* The 0x29 frame; the first one after a request to coast echoes DISABLED  *)
(* in the byte of the fault code (packDisable).                            *)
MotorSendsStatus ==
  /\ Arrives([kind |-> "status", zero |-> zero,
              error_code |-> IF ack THEN DISABLED ELSE fault])
  /\ ack' = FALSE
  /\ UNCHANGED <<zero, fault, faulted, statuses, last_extended_position_deg,
                 state, pathVars>>

MotorSendsExt ==
  /\ motor.ext
  /\ Arrives([kind |-> "ext", zero |-> zero])
  /\ UNCHANGED <<motorVars, statuses, last_extended_position_deg, state,
                 pathVars>>

MotorFaults(code) ==
  /\ fault' = code
  /\ faulted' = (faulted \/ code # 0)
  /\ UNCHANGED <<zero, ack, feedbackVars, pathVars>>

-----------------------------------------------------------------------------
(* The drain timer.                                                        *)

kFaultText ==
  <<"motor_over_temperature", "over_current", "over_voltage",
    "under_voltage", "encoder_fault", "mosfet_over_temperature",
    "motor_lockup">>

FaultCodeToString(code) ==
  IF code = 0 THEN "none"
  ELSE IF code \in DOMAIN kFaultText THEN kFaultText[code] ELSE "unknown"

(* The frames of a kind, in their order: SelectSeq, as a function.          *)
OfKind(kind, frames) ==
  LET found[n \in 0..Len(frames)] ==
        IF n = 0 THEN <<>>
        ELSE IF frames[n].kind = kind THEN Append(found[n - 1], frames[n])
        ELSE found[n - 1]
  IN found[Len(frames)]

(* Mutant: the cache follows the newest batch, which may have no reading.  *)
Newest_OrNothing(batch) ==
  LET exts == OfKind("ext", batch)
  IN IF exts = <<>> THEN NoExt ELSE exts[Len(exts)].zero

(* Mutant: a cached value is kept for good.                                *)
Newest_Sticky(batch) ==
  LET exts == OfKind("ext", batch)
  IN IF exts = <<>> \/ last_extended_position_deg # NoExt
     THEN last_extended_position_deg ELSE exts[Len(exts)].zero

(* Mutant: readings are ignored after a request to disable, although its   *)
(* frame was not sent and the motor knows nothing of it.                   *)
Newest_AsRequested(batch) ==
  LET exts == OfKind("ext", batch)
      answered == {i \in DOMAIN calls : calls[i].result \in {"success", "failure"}}
      disabled == \E i \in answered :
                    /\ Path!Configures(i, FALSE)
                    /\ \A j \in answered : Path!Configures(j, TRUE) => j < i
  IN IF exts = <<>> \/ disabled THEN last_extended_position_deg
     ELSE exts[Len(exts)].zero

(* The last extended position of a batch, if it has any, is cached.        *)
Newest(batch) ==
  LET exts == OfKind("ext", batch)
  IN IF exts = <<>> THEN last_extended_position_deg ELSE exts[Len(exts)].zero

(* Mutant: both decoders push to the same queue.                           *)
Drain_Mixed(n) ==
  /\ statuses = <<>>
  /\ n \in 1..Len(incoming)
  /\ statuses' = SubSeq(incoming, 1, n)
  /\ last_extended_position_deg' = Newest(statuses')
  /\ incoming' = SubSeq(incoming, n + 1, Len(incoming))
  /\ UNCHANGED <<state, motorVars, pathVars>>

(* Mutant: a tick empties one of the two queues.                           *)
Drain_OneQueue(n) ==
  /\ statuses = <<>>
  /\ n \in 1..Len(incoming)
  /\ LET batch == SubSeq(incoming, 1, n)
         rest  == SubSeq(incoming, n + 1, Len(incoming))
     IN \/ /\ statuses' = OfKind("status", batch)
           /\ incoming' = OfKind("ext", batch) \o rest
           /\ UNCHANGED last_extended_position_deg
        \/ /\ last_extended_position_deg' = Newest(batch)
           /\ incoming' = OfKind("status", batch) \o rest
           /\ UNCHANGED statuses
  /\ UNCHANGED <<state, motorVars, pathVars>>

(* A tick that finds n frames in the queues.                               *)
Drain(n) ==
  /\ statuses = <<>>
  /\ n \in 1..Len(incoming)
  /\ LET batch == SubSeq(incoming, 1, n)
     IN /\ statuses' = OfKind("status", batch)
        /\ last_extended_position_deg' = Newest(batch)
  /\ incoming' = SubSeq(incoming, n + 1, Len(incoming))
  /\ UNCHANGED <<state, motorVars, pathVars>>

MakeState(status) ==
  LET text  == FaultCodeToString(status.error_code)
      valid == last_extended_position_deg # NoExt
  IN [position |-> IF valid THEN last_extended_position_deg ELSE status.zero,
      extended_position_valid |-> valid,
      error_code |-> status.error_code, error_text |-> text,
      level   |-> IF status.error_code = 0 THEN "OK" ELSE "ERROR",
      message |-> IF status.error_code = 0 THEN "no fault" ELSE text]

(* Mutant: the diagnostics are updated only when the level changes.        *)
PublishOne_OnLevelChange ==
  /\ statuses # <<>>
  /\ statuses' = Tail(statuses)
  /\ LET new == MakeState(Head(statuses))
     IN state' = IF new.level = state.level
                 THEN [new EXCEPT !.message = state.message] ELSE new
  /\ UNCHANGED <<incoming, last_extended_position_deg, motorVars, pathVars>>

PublishOne ==
  /\ statuses # <<>>
  /\ statuses' = Tail(statuses)
  /\ state' = MakeState(Head(statuses))
  /\ UNCHANGED <<incoming, last_extended_position_deg, motorVars, pathVars>>

-----------------------------------------------------------------------------
Nothing == [position |-> 0, extended_position_valid |-> FALSE,
            error_code |-> 0, error_text |-> "", level |-> "", message |-> ""]

Init ==
  /\ incoming = <<>> /\ statuses = <<>> /\ state = Nothing
  /\ last_extended_position_deg = NoExt
  /\ zero = 0 /\ fault = 0 /\ ack = FALSE /\ faulted = FALSE
  /\ Path!Init

Next ==
  \/ Client
  \/ \E ok \in BOOLEAN : OnCommand(ok)
  \/ \E i \in DOMAIN calls, ok \in BOOLEAN :
       Serve(i, ok) \/ OnSetFeedbackConfig(i, ok)
  \/ NodeRestarts
  \/ BusTransmits
  \/ MotorSendsStatus \/ MotorSendsExt
  \/ \E code \in Faults \cup {0} : MotorFaults(code)
  \/ \E n \in 1..RcvBuf : Drain(n)
  \/ PublishOne

Spec == Init /\ [][Next]_vars

(***************************************************************************)
(* The executor keeps dispatching and the bus keeps transmitting, as in    *)
(* CommandPath.  The motor sends its frames periodically, and the receive  *)
(* buffer has room for one again and again: strong fairness, for a frame   *)
(* may find it full now and then.  A fault, a client, a failing write and  *)
(* a restart owe nothing.                                                  *)
(***************************************************************************)
FairSpec ==
  /\ Spec
  /\ \A i \in 1..MaxRequests :
       WF_vars(i \in DOMAIN calls /\ \E ok \in BOOLEAN :
                 Serve(i, ok) \/ OnSetFeedbackConfig(i, ok))
  /\ WF_vars(BusTransmits)
  /\ WF_vars(\E n \in 1..RcvBuf : Drain(n))
  /\ WF_vars(PublishOne)
  /\ SF_vars(MotorSendsStatus) /\ SF_vars(MotorSendsExt)

-----------------------------------------------------------------------------
(* Properties.                                                             *)

Reading == [kind : {"ext"}, zero : Nat]
StatusFrame ==
  [kind : {"status"}, zero : Nat, error_code : Faults \cup {0, DISABLED}]

(* Types; a reading cannot have been taken after more zeroings than there  *)
(* have been.                                                              *)
TypeOK ==
  /\ incoming \in Seq(Reading \cup StatusFrame) /\ Len(incoming) <= RcvBuf
  /\ statuses \in Seq(StatusFrame)
  /\ last_extended_position_deg \in {NoExt} \cup 0..zero
  /\ state.position \in 0..zero
  /\ fault \in Faults \cup {0} /\ ack \in BOOLEAN
  /\ \A k \in DOMAIN incoming : incoming[k].zero <= zero

(* The closed system implements the actuation path, which knows of the     *)
(* feedback only whether a reading is under way or cached: order of the    *)
(* commands, bound on stale ones and writes to flash carry over.           *)
ImplementsPath == Path!Spec

(* Once a position measured from a new origin has been published, none     *)
(* measured from an older one is, whatever is queued, cached, switched     *)
(* between the two sources or restarted in between.                        *)
ZeroNeverReturns == [][state'.position >= state.position]_vars

(* ~/set_origin shows: the positions published are measured from the new   *)
(* origin sooner or later, from whichever source, unless a call disables   *)
(* the extended frame while a reading is queued (see FallbackAfterDisable  *)
(* of RxPipeline).                                                         *)
OriginShows ==
  \A n \in 1..MaxRequests :
    zero >= n ~> \/ state.position >= n
                 \/ \E i \in 1..MaxRequests : Path!Configures(i, FALSE)

(* A fault that lasts is named on ~/diagnostics, and one that goes is      *)
(* reported gone, whatever the motor echoes in the same byte meanwhile.    *)
FaultFollowed ==
  \A code \in Faults \cup {0} :
    fault = code ~>
      \/ fault # code
      \/ IF code = 0 THEN state.level = "OK"
         ELSE state.level = "ERROR" /\ state.message = FaultCodeToString(code)

(* "If the optional extended (multi-turn) position frame is enabled, its   *)
(* value takes priority over the lower-resolution status-frame position    *)
(* once received" (README, ~/state): as long as the motor sends 0x2A       *)
(* frames, positions are sooner or later published from them, also after   *)
(* the cache was dropped for a request to disable that failed, and after a *)
(* restart that knows nothing of the motor's configuration.                *)
SourceFollowsMotor ==
  motor.ext ~> state.extended_position_valid \/ ~motor.ext

(* "the 0x29 status frame only ever reports codes 0-7" (README, fault      *)
(* codes; MotorState.msg has error_code 0 for no fault): the diagnostics   *)
(* report an error only for a motor that has had one.                      *)
NoFalseAlarm == state.level = "ERROR" => faulted
=============================================================================
