---------------------------- MODULE MCRxPipeline ----------------------------
(* Instances of RxPipeline for TLC: the node's motor has driver ID 2.      *)
EXTENDS RxPipeline

Extended(func, node, dlc, fault, origin) ==
  [whole |-> TRUE, err |-> FALSE, eff |-> TRUE, rtr |-> FALSE,
   id |-> BuildCanId(func, node), dlc |-> dlc, fault |-> fault,
   origin |-> origin]

StatusOk    == Extended(FUNC_ID_STATUS, 2, 8, 0, "motor_status")
StatusFault == Extended(FUNC_ID_STATUS, 2, 8, 2, "motor_status")
ExtPosition == Extended(FUNC_ID_EXT_POSITION, 2, 4, 0, "motor_ext")

(* What an otherwise quiet bus carries.                                    *)
OwnTraffic == {StatusOk, StatusFault, ExtPosition}
QuietTraffic == {StatusOk, ExtPosition}

(* Everything else the socket may read: the startup marker, the status of  *)
(* the other motor, frames with our identifier that are too short, remote  *)
(* requests, base-format and error frames, and a failed read.  All that    *)
(* neighbours send, commands included, is SharedBus's business.            *)
Noise ==
  {Extended(FUNC_ID_STARTUP, 2, 4, 0, "motor_startup"),
   Extended(FUNC_ID_STATUS, 3, 8, 2, "other"),
   Extended(FUNC_ID_STATUS, 2, 7, 0, "other"),
   Extended(FUNC_ID_EXT_POSITION, 2, 3, 0, "other"),
   [StatusOk EXCEPT !.rtr = TRUE, !.origin = "other"],
   [StatusOk EXCEPT !.eff = FALSE, !.origin = "other"],
   [StatusFault EXCEPT !.err = TRUE, !.origin = "other"],
   [StatusOk EXCEPT !.whole = FALSE, !.origin = "other"]}

BusyTraffic == OwnTraffic \cup Noise
=============================================================================
