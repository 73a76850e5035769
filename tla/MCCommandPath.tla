--------------------------- MODULE MCCommandPath ---------------------------
(* Instances of CommandPath for TLC.                                       *)
EXTENDS CommandPath

(* A request to coast, and both writers of the motor's flash, with calls   *)
(* that switch the extended frame on and off.                              *)
SomeRequests ==
  {Disable, SetOrigin(TRUE), SetFeedbackConfig(TRUE, FALSE),
   SetFeedbackConfig(FALSE, TRUE)}
=============================================================================
