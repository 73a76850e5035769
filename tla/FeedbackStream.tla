--------------------------- MODULE FeedbackStream ---------------------------
(***************************************************************************)
(* What the feedback path promises, without threads, queues or locks: the  *)
(* status frames accepted from the bus are delivered to ~/state and        *)
(* ~/diagnostics one for one, in the order in which they were accepted     *)
(* ("preserving the order/rate at which they were actually received",      *)
(* motor_driver_node.cpp).  Nothing is promised about how long a frame     *)
(* waits, nor about frames still waiting when the node is destroyed.       *)
(***************************************************************************)
EXTENDS Integers, Sequences

CONSTANT Status         \* the decoded status frames

VARIABLES accepted,     \* every status frame taken from the bus, in order
          delivered     \* every status frame published, in order

vars == <<accepted, delivered>>

Init == accepted = <<>> /\ delivered = <<>>

Accept(s) ==
  /\ accepted' = Append(accepted, s)
  /\ UNCHANGED delivered

(* The next undelivered frame, and no other.                                *)
Deliver ==
  /\ Len(delivered) < Len(accepted)
  /\ delivered' = Append(delivered, accepted[Len(delivered) + 1])
  /\ UNCHANGED accepted

Next == Deliver \/ \E s \in Status : Accept(s)

Spec == Init /\ [][Next]_vars
=============================================================================
