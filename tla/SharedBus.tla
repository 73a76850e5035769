----------------------------- MODULE SharedBus -----------------------------
(***************************************************************************)
(* Several nodes on one CAN interface, as the launch file starts them: one *)
(* process per motor, each with its own socket.  Their writes share the    *)
(* interface's transmit queue; what goes on the bus reaches every motor    *)
(* and every socket but the sender's, so a node also reads the commands of *)
(* its neighbours and the feedback of their motors.  "each node filters to *)
(* its own can_id in software and ignores every other frame on the wire".  *)
(*                                                                         *)
(* A node is named by its can_id, and so is its motor.  from and count say *)
(* who emitted a frame and as which of its frames; only properties read    *)
(* them.                                                                   *)
(***************************************************************************)
EXTENDS WireFormat

CONSTANTS Ids,          \* the can_id of each node, and of its motor
          UsedModes,    \* modes the nodes send
          TxDepth,      \* frames the interface's queue holds
          RcvBuf,       \* frames the kernel keeps for a socket
          MaxFrames     \* bound: frames of each node, and of each motor

Modes == CommandModes \cup {MODE_SET_ORIGIN, MODE_DISABLE, MODE_FEEDBACK_CONFIG}

ASSUME IdsAssumption == Ids \subseteq DriverId
ASSUME ModesAssumption == UsedModes \subseteq Modes
ASSUME DepthAssumption == TxDepth \in Nat /\ RcvBuf \in Nat /\ MaxFrames \in Nat

VARIABLES
  tx,         \* the interface's transmit queue
  sockbuf,    \* frames each node has yet to read
  heard,      \* the feedback frame each node decoded last
  sent,       \* frames each node has written
  emitted,    \* frames each motor has sent
  obeyed      \* the command each motor obeyed last

vars == <<tx, sockbuf, heard, sent, emitted, obeyed>>

Frame == [id : Int, dlc : {8}, from : Ids, count : 1..MaxFrames]
NoneOf(n) == [id |-> 0, dlc |-> 0, from |-> n, count |-> 0]

(* A frame goes on the bus: it reaches the sockets of these nodes.         *)
Reaches(nodes, frame) ==
  sockbuf' = [n \in Ids |->
                IF n \in nodes /\ Len(sockbuf[n]) < RcvBuf
                THEN Append(sockbuf[n], frame) ELSE sockbuf[n]]

(* The frame a packer of node n builds, at the length of a status frame.   *)
CommandFrame(n, mode) ==
  [id |-> BuildCanId(mode, n), dlc |-> 8, from |-> n, count |-> sent[n] + 1]

(* Mutant: the queue is taken for endless.                                 *)
Send_Unbounded(n, mode) ==
  /\ sent[n] < MaxFrames
  /\ tx' = Append(tx, CommandFrame(n, mode))
  /\ sent' = [sent EXCEPT ![n] = @ + 1]
  /\ UNCHANGED <<sockbuf, heard, emitted, obeyed>>

(* CanSocket::send(); a write that finds the queue full leaves no trace.   *)
Send(n, mode) ==
  /\ sent[n] < MaxFrames
  /\ Len(tx) < TxDepth
  /\ tx' = Append(tx, CommandFrame(n, mode))
  /\ sent' = [sent EXCEPT ![n] = @ + 1]
  /\ UNCHANGED <<sockbuf, heard, emitted, obeyed>>

(* The oldest frame of the queue goes on the bus; the motor whose driver   *)
(* id is its low byte obeys (external).  CAN_RAW_RECV_OWN_MSGS is off.     *)
BusTransmits ==
  /\ tx # <<>>
  /\ tx' = Tail(tx)
  /\ Reaches(Ids \ {Head(tx).from}, Head(tx))
  /\ obeyed' = [m \in Ids |->
                  IF Head(tx).id % 256 = m /\ Head(tx).id \div 256 \in Modes
                  THEN Head(tx) ELSE obeyed[m]]
  /\ UNCHANGED <<heard, sent, emitted>>

(* A motor sends a status or an extended-position frame (external).        *)
MotorSends(m, function_id) ==
  /\ emitted[m] < MaxFrames
  /\ emitted' = [emitted EXCEPT ![m] = @ + 1]
  /\ Reaches(Ids, [id |-> function_id * 256 + m, dlc |-> 8, from |-> m,
                   count |-> emitted[m] + 1])
  /\ UNCHANGED <<tx, heard, sent, obeyed>>

(* One round of rxThreadMain() at node n.                                  *)
Receive(n) ==
  /\ sockbuf[n] # <<>>
  /\ sockbuf' = [sockbuf EXCEPT ![n] = Tail(@)]
  /\ LET frame == Head(sockbuf[n])
     IN heard' = IF IsStatusFrame(frame, n) \/ IsExtendedPositionFrame(frame, n)
                 THEN [heard EXCEPT ![n] = frame] ELSE heard
  /\ UNCHANGED <<tx, sent, emitted, obeyed>>

Init ==
  /\ tx = <<>>
  /\ sockbuf = [n \in Ids |-> <<>>]
  /\ heard = [n \in Ids |-> NoneOf(n)]
  /\ sent = [n \in Ids |-> 0]
  /\ emitted = [m \in Ids |-> 0]
  /\ obeyed = [m \in Ids |-> NoneOf(m)]

Next ==
  \/ \E n \in Ids, mode \in UsedModes : Send(n, mode)
  \/ BusTransmits
  \/ \E m \in Ids, function_id \in {FUNC_ID_STATUS, FUNC_ID_EXT_POSITION} :
       MotorSends(m, function_id)
  \/ \E n \in Ids : Receive(n)

Spec == Init /\ [][Next]_vars

-----------------------------------------------------------------------------
(* Properties.                                                             *)

TypeOK ==
  /\ tx \in Seq(Frame) /\ Len(tx) <= TxDepth
  /\ sockbuf \in [Ids -> Seq(Frame)]
  /\ \A n \in Ids : Len(sockbuf[n]) <= RcvBuf
  /\ heard \in [Ids -> Frame \cup {NoneOf(n) : n \in Ids}]
  /\ sent \in [Ids -> 0..MaxFrames] /\ emitted \in [Ids -> 0..MaxFrames]
  /\ obeyed \in [Ids -> Frame \cup {NoneOf(n) : n \in Ids}]

(* What a node decodes is its own motor's, and never older than what it    *)
(* decoded before: neither a neighbour's motor nor a neighbour's command   *)
(* can pass for its motor's feedback.                                      *)
OwnMotorHeard ==
  [][\A n \in Ids : /\ heard'[n].from = n
                    /\ heard'[n] # heard[n] =>
                         /\ heard[n].count < heard'[n].count
                         /\ heard'[n].count <= emitted[n]]_vars

(* A motor obeys its own node only, and once the queue holds no frame of   *)
(* that node it holds the last one the node wrote, whatever the others     *)
(* wrote in between.                                                       *)
LastSentWins ==
  \A n \in Ids :
    /\ obeyed[n].from = n
    /\ (\A i \in DOMAIN tx : tx[i].from # n) => obeyed[n].count = sent[n]
=============================================================================
