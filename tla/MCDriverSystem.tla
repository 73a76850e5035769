--------------------------- MODULE MCDriverSystem ---------------------------
(* Instances of DriverSystem for TLC.                                      *)
EXTENDS DriverSystem

(* Everything that decides which position is published.                    *)
PositionRequests ==
  {SetOrigin(FALSE), SetFeedbackConfig(TRUE, FALSE),
   SetFeedbackConfig(FALSE, FALSE)}

(* What the motor confirms in the byte of the fault code, and what makes   *)
(* the other frames of a batch.                                            *)
FaultRequests == {Disable, SetFeedbackConfig(TRUE, FALSE)}

DisableRequests == {Disable}
=============================================================================
