-------------------------- MODULE SharedBusProofs --------------------------
(***************************************************************************)
(* Nodes on one interface do not mix up their motors, for every set of     *)
(* driver ids, every queue depth and every bound.  The argument rests on   *)
(* the identifiers: two driver ids never build the same one, and no mode   *)
(* is a function identifier of the feedback.                               *)
(***************************************************************************)
EXTENDS SharedBus, SequenceTheorems, TLAPS

FeedbackIds == {FUNC_ID_STATUS, FUNC_ID_EXT_POSITION}

Command(f)  == \E mode \in Modes : f.id = mode * 256 + f.from
Feedback(f) == \E fn \in FeedbackIds : f.id = fn * 256 + f.from

(* An identifier names one function and one driver.                        *)
LEMMA IdInjective ==
  ASSUME NEW m1 \in Nat, NEW m2 \in Nat, NEW c1 \in DriverId, NEW c2 \in DriverId,
         BuildCanId(m1, c1) = BuildCanId(m2, c2)
  PROVE  m1 = m2 /\ c1 = c2
  BY DEF BuildCanId, DriverId

LEMMA IdSplits ==
  ASSUME NEW m \in Nat, NEW c \in DriverId
  PROVE  BuildCanId(m, c) % 256 = c /\ BuildCanId(m, c) \div 256 = m
  BY DEF BuildCanId, DriverId

LEMMA ModesAreSmall == Modes \subseteq 0..16
  BY DEF Modes, CommandModes, ServoModes, MODE_DUTY, MODE_CURRENT,
         MODE_CURRENT_BRAKE, MODE_VELOCITY, MODE_POSITION, MODE_SET_ORIGIN,
         MODE_POSITION_VELOCITY, MODE_MIT, MODE_DISABLE, MODE_FEEDBACK_CONFIG

-----------------------------------------------------------------------------
(* Types.                                                                  *)

LEMMA InitTypeOK == Init => TypeOK
  BY DepthAssumption DEF Init, TypeOK

(* A frame on the bus fits in every buffer it enters.                      *)
LEMMA ReachesTyped ==
  ASSUME TypeOK, NEW nodes, NEW f \in Frame, Reaches(nodes, f)
  PROVE  /\ sockbuf' \in [Ids -> Seq(Frame)]
         /\ \A n \in Ids : Len(sockbuf'[n]) <= RcvBuf
<1>1. ASSUME NEW n \in Ids
      PROVE  sockbuf'[n] \in Seq(Frame) /\ Len(sockbuf'[n]) <= RcvBuf
  <2>1. sockbuf[n] \in Seq(Frame) /\ Len(sockbuf[n]) <= RcvBuf
    BY DEF TypeOK
  <2>2. /\ Append(sockbuf[n], f) \in Seq(Frame)
        /\ Len(Append(sockbuf[n], f)) = Len(sockbuf[n]) + 1
        /\ Len(sockbuf[n]) \in Nat
    BY <2>1, AppendProperties, LenProperties
  <2>3. sockbuf'[n] = IF n \in nodes /\ Len(sockbuf[n]) < RcvBuf
                      THEN Append(sockbuf[n], f) ELSE sockbuf[n]
    BY DEF Reaches
  <2>4. QED
    BY <2>1, <2>2, <2>3, DepthAssumption
<1>2. QED
  BY <1>1 DEF Reaches

(* What a node writes and what a motor sends are frames of the model.      *)
LEMMA FramesTyped ==
  ASSUME TypeOK, NEW n \in Ids
  PROVE  /\ sent[n] < MaxFrames =>
              \A mode \in Modes : CommandFrame(n, mode) \in Frame
         /\ emitted[n] < MaxFrames =>
              \A fn \in FeedbackIds :
                [id |-> fn * 256 + n, dlc |-> 8, from |-> n,
                 count |-> emitted[n] + 1] \in Frame
<1>1. n \in Int /\ sent[n] \in 0..MaxFrames /\ emitted[n] \in 0..MaxFrames
  BY IdsAssumption DEF TypeOK, DriverId
<1>2. \A mode \in Modes \cup FeedbackIds : mode * 256 + n \in Int
  BY <1>1, ModesAreSmall DEF FeedbackIds, FUNC_ID_STATUS, FUNC_ID_EXT_POSITION
<1>3. QED
  BY <1>1, <1>2, DepthAssumption DEF CommandFrame, BuildCanId, Frame

LEMMA NextTypeOK == TypeOK /\ [Next]_vars => TypeOK'
<1> SUFFICES ASSUME TypeOK, [Next]_vars PROVE TypeOK'
  OBVIOUS
<1> USE DepthAssumption
<1>1. ASSUME NEW n \in Ids, NEW mode \in UsedModes, Send(n, mode) PROVE TypeOK'
  <2>1. CommandFrame(n, mode) \in Frame
    BY <1>1, FramesTyped, ModesAssumption DEF Send
  <2> DEFINE f == CommandFrame(n, mode)
  <2>2. tx \in Seq(Frame) /\ tx' = Append(tx, f) /\ Len(tx) < TxDepth
    BY <1>1 DEF Send, TypeOK
  <2> HIDE DEF f
  <2>3. tx' \in Seq(Frame) /\ Len(tx') <= TxDepth
    BY <2>1, <2>2, AppendProperties, LenProperties DEF f
  <2>4. sent' \in [Ids -> 0..MaxFrames]
    BY <1>1 DEF Send, TypeOK
  <2>5. QED
    BY <1>1, <2>3, <2>4 DEF Send, TypeOK
<1>2. CASE BusTransmits
  <2>1. tx \in Seq(Frame) /\ tx # <<>> /\ Len(tx) <= TxDepth
    BY <1>2 DEF BusTransmits, TypeOK
  <2>2. Head(tx) \in Frame /\ tx' \in Seq(Frame) /\ Len(tx') <= TxDepth
    <3>1. Len(tx) \in Nat /\ tx' = Tail(tx)
      BY <1>2, <2>1, LenProperties DEF BusTransmits
    <3>2. QED
      BY <2>1, <3>1, HeadTailProperties
  <2>3. obeyed' \in [Ids -> Frame \cup {NoneOf(n) : n \in Ids}]
    BY <1>2, <2>2 DEF BusTransmits, TypeOK
  <2>4. QED
    BY <1>2, <2>2, <2>3, ReachesTyped DEF BusTransmits, TypeOK
<1>3. ASSUME NEW m \in Ids, NEW fn \in FeedbackIds, MotorSends(m, fn)
      PROVE  TypeOK'
  <2>1. emitted' \in [Ids -> 0..MaxFrames]
    BY <1>3 DEF MotorSends, TypeOK
  <2> DEFINE f == [id |-> fn * 256 + m, dlc |-> 8, from |-> m,
                   count |-> emitted[m] + 1]
  <2>2. f \in Frame /\ Reaches(Ids, f)
    BY <1>3, FramesTyped DEF MotorSends
  <2> HIDE DEF f
  <2>3. QED
    BY <1>3, <2>1, <2>2, ReachesTyped DEF MotorSends, TypeOK
<1>4. ASSUME NEW n \in Ids, Receive(n) PROVE TypeOK'
  <2>1. sockbuf[n] \in Seq(Frame) /\ sockbuf[n] # <<>> /\ Len(sockbuf[n]) <= RcvBuf
    BY <1>4 DEF Receive, TypeOK
  <2>2. /\ Head(sockbuf[n]) \in Frame /\ Tail(sockbuf[n]) \in Seq(Frame)
        /\ Len(Tail(sockbuf[n])) <= RcvBuf
    <3>1. Len(sockbuf[n]) \in Nat
      BY <2>1, LenProperties
    <3>2. QED
      BY <2>1, <3>1, HeadTailProperties
  <2>3. /\ sockbuf' \in [Ids -> Seq(Frame)]
        /\ \A k \in Ids : Len(sockbuf'[k]) <= RcvBuf
    BY <1>4, <2>2 DEF Receive, TypeOK
  <2>4. heard' \in [Ids -> Frame \cup {NoneOf(k) : k \in Ids}]
    BY <1>4, <2>2 DEF Receive, TypeOK
  <2>5. QED
    BY <1>4, <2>3, <2>4 DEF Receive, TypeOK
<1>5. CASE UNCHANGED vars
  BY <1>5 DEF vars, TypeOK
<1>6. QED
  BY <1>1, <1>2, <1>3, <1>4, <1>5 DEF Next, FeedbackIds

(* The queue and the buffers keep within their capacities, and every frame *)
(* in them is one that some node or motor has counted.                     *)
THEOREM BusTyped == Spec => []TypeOK
  BY InitTypeOK, NextTypeOK, PTL DEF Spec

-----------------------------------------------------------------------------
(* The queue they share.                                                   *)

(* Frames of one node leave in the order they were written, none is lost   *)
(* in the queue, and what has left was obeyed by the node's own motor.     *)
TxInv ==
  /\ \A i \in DOMAIN tx :
       /\ Command(tx[i])
       /\ obeyed[tx[i].from].count < tx[i].count
       /\ tx[i].count <= sent[tx[i].from]
  /\ \A i, j \in DOMAIN tx :
       i < j /\ tx[i].from = tx[j].from => tx[i].count < tx[j].count
  /\ \A n \in Ids : obeyed[n].from = n /\ obeyed[n].count \in 0..sent[n]
  /\ \A n \in Ids : \A k \in 1..sent[n] :
       \/ k <= obeyed[n].count
       \/ \E i \in DOMAIN tx : tx[i].from = n /\ tx[i].count = k

LEMMA InitTxInv == Init => TxInv
  BY DEF Init, TxInv, NoneOf

LEMMA SendTx ==
  ASSUME TypeOK, TxInv, NEW n \in Ids, NEW mode \in UsedModes, Send(n, mode)
  PROVE  TxInv'
<1> DEFINE f == CommandFrame(n, mode)
           L == Len(tx)
<1>1. f \in Frame /\ f.from = n /\ f.count = sent[n] + 1 /\ Command(f)
  BY FramesTyped, ModesAssumption DEF Send, CommandFrame, Command, BuildCanId
<1>2. /\ L \in Nat /\ DOMAIN tx = 1..L /\ DOMAIN tx' = 1..(L + 1)
      /\ \A i \in 1..L : tx'[i] = tx[i] /\ tx[i] \in Frame
      /\ tx'[L + 1] = f
  <2>1. tx \in Seq(Frame) /\ tx' = Append(tx, f)
    BY DEF Send, TypeOK
  <2> HIDE DEF f
  <2>2. QED
    BY <1>1, <2>1, AppendProperties, LenProperties, ElementOfSeq
<1>3. /\ obeyed' = obeyed /\ sent[n] \in Nat /\ sent'[n] = sent[n] + 1
      /\ \A m \in Ids : sent[m] \in Nat /\ (m # n => sent'[m] = sent[m])
  BY DepthAssumption DEF Send, TypeOK
<1> HIDE DEF f, L
<1>4. \A i \in 1..L : /\ tx[i].from \in Ids /\ tx[i].count \in Nat
                      /\ tx[i].count <= sent[tx[i].from]
                      /\ tx[i].from = n => tx[i].count < f.count
  BY <1>1, <1>2, <1>3 DEF TxInv, Frame
<1>5. \A m \in Ids : obeyed[m].from = m /\ obeyed[m].count \in 0..sent[m]
  BY DEF TxInv
<1>6. \A i \in DOMAIN tx' :
        /\ Command(tx'[i]) /\ obeyed'[tx'[i].from].count < tx'[i].count
        /\ tx'[i].count <= sent'[tx'[i].from]
  <2> TAKE i \in DOMAIN tx'
  <2>1. CASE i \in 1..L
    <3>1. /\ tx'[i] = tx[i] /\ Command(tx[i]) /\ tx[i].from \in Ids
          /\ obeyed[tx[i].from].count < tx[i].count
      BY <1>2, <1>4, <2>1 DEF TxInv
    <3>2. tx[i].count <= sent'[tx[i].from]
      <4>1. sent[tx[i].from] \in Nat /\ sent'[tx[i].from] >= sent[tx[i].from]
        BY <1>3, <3>1
      <4>2. tx[i].count \in Nat /\ tx[i].count <= sent[tx[i].from]
        BY <1>4, <2>1
      <4>3. sent'[tx[i].from] \in Nat
        BY <1>3, <3>1
      <4>4. QED
        BY <4>1, <4>2, <4>3
    <3>3. QED
      BY <1>3, <3>1, <3>2
  <2>2. CASE i = L + 1
    BY <1>1, <1>2, <1>3, <1>5, <2>2
  <2>3. QED
    BY <1>2, <2>1, <2>2
<1>7. \A i, j \in DOMAIN tx' :
        i < j /\ tx'[i].from = tx'[j].from => tx'[i].count < tx'[j].count
  <2> SUFFICES ASSUME NEW i \in 1..(L + 1), NEW j \in 1..(L + 1), i < j,
                      tx'[i].from = tx'[j].from
               PROVE  tx'[i].count < tx'[j].count
    BY <1>2
  <2>1. i \in 1..L
    BY <1>2
  <2>2. CASE j \in 1..L
    BY <1>2, <2>1, <2>2 DEF TxInv
  <2>3. CASE j = L + 1
    BY <1>1, <1>2, <1>4, <2>1, <2>3
  <2>4. QED
    BY <1>2, <2>2, <2>3
<1>8. \A m \in Ids : obeyed'[m].from = m /\ obeyed'[m].count \in 0..sent'[m]
  BY <1>3, <1>5
<1>9. \A m \in Ids : \A k \in 1..sent'[m] :
        \/ k <= obeyed'[m].count
        \/ \E i \in DOMAIN tx' : tx'[i].from = m /\ tx'[i].count = k
  <2> SUFFICES ASSUME NEW m \in Ids, NEW k \in 1..sent'[m],
                      ~(k <= obeyed'[m].count)
               PROVE  \E i \in DOMAIN tx' : tx'[i].from = m /\ tx'[i].count = k
    OBVIOUS
  <2>1. CASE k \in 1..sent[m]
    <3>1. PICK i \in 1..L : tx[i].from = m /\ tx[i].count = k
      BY <1>2, <1>3, <2>1 DEF TxInv
    <3>2. i \in DOMAIN tx' /\ tx'[i] = tx[i]
      BY <1>2
    <3>3. QED
      BY <3>1, <3>2
  <2>2. CASE k \notin 1..sent[m]
    <3>1. m = n /\ k = f.count
      BY <1>1, <1>3, <2>2
    <3>2. QED
      BY <1>1, <1>2, <3>1
  <2>3. QED
    BY <2>1, <2>2
<1>10. QED
  BY <1>6, <1>7, <1>8, <1>9 DEF TxInv

(* The head of the queue reaches the motor of the node that wrote it, and  *)
(* no other obeys it.                                                      *)
LEMMA TransmitTx ==
  ASSUME TypeOK, TxInv, BusTransmits
  PROVE  TxInv'
<1> DEFINE h == Head(tx)
           L == Len(tx)
<1>1. /\ L \in Nat \ {0} /\ DOMAIN tx = 1..L /\ h = tx[1] /\ h \in Frame
      /\ DOMAIN tx' = 1..(L - 1)
      /\ \A i \in 1..(L - 1) : tx'[i] = tx[i + 1] /\ i + 1 \in 1..L /\ 1 < i + 1
      /\ \A i \in 1..L : tx[i] \in Frame
  <2>1. tx \in Seq(Frame) /\ tx # <<>> /\ tx' = Tail(tx)
    BY DEF TypeOK, BusTransmits
  <2>2. L \in Nat \ {0} /\ DOMAIN tx = 1..L /\ h = tx[1]
        /\ \A i \in 1..L : tx[i] \in Frame
    BY <2>1, EmptySeq, LenProperties, ElementOfSeq
  <2>3. /\ Tail(tx) \in Seq(Frame) /\ Len(Tail(tx)) = L - 1
        /\ \A i \in 1..(L - 1) : Tail(tx)[i] = tx[i + 1]
    BY <2>1, HeadTailProperties
  <2>4. DOMAIN Tail(tx) = 1..(L - 1)
    BY <2>3, LenProperties
  <2>5. QED
    BY <2>1, <2>2, <2>3, <2>4
<1>2. h.from \in Ids /\ h.count \in Nat /\ h.count >= 1
  BY <1>1 DEF Frame
<1>3. h.id % 256 = h.from /\ h.id \div 256 \in Modes
  <2>1. PICK mode \in Modes : h.id = mode * 256 + h.from
    BY <1>1 DEF TxInv, Command
  <2>2. mode \in Nat /\ h.from \in DriverId
    BY <1>2, ModesAreSmall, IdsAssumption
  <2> HIDE DEF h
  <2>3. QED
    BY <2>1, <2>2, IdSplits DEF BuildCanId
<1>4. /\ sent' = sent
      /\ \A m \in Ids : obeyed'[m] = IF m = h.from THEN h ELSE obeyed[m]
  BY <1>3 DEF BusTransmits
<1>5. \A m \in Ids : sent[m] \in Nat
  BY DepthAssumption DEF TypeOK
<1> HIDE DEF h, L
<1>6. \A i \in DOMAIN tx' :
        /\ Command(tx'[i]) /\ obeyed'[tx'[i].from].count < tx'[i].count
        /\ tx'[i].count <= sent'[tx'[i].from]
  <2> TAKE i \in DOMAIN tx'
  <2>1. tx[i + 1].from \in Ids
    BY <1>1 DEF Frame
  <2>2. CASE tx[i + 1].from = h.from
    BY <1>1, <1>4, <2>1, <2>2 DEF TxInv
  <2>3. CASE tx[i + 1].from # h.from
    BY <1>1, <1>4, <2>1, <2>3 DEF TxInv
  <2>4. QED
    BY <2>2, <2>3
<1>7. \A i, j \in DOMAIN tx' :
        i < j /\ tx'[i].from = tx'[j].from => tx'[i].count < tx'[j].count
  BY <1>1 DEF TxInv
<1>8. \A m \in Ids : obeyed'[m].from = m /\ obeyed'[m].count \in 0..sent'[m]
  BY <1>1, <1>2, <1>4, <1>5 DEF TxInv
<1>9. \A m \in Ids : \A k \in 1..sent'[m] :
        \/ k <= obeyed'[m].count
        \/ \E i \in DOMAIN tx' : tx'[i].from = m /\ tx'[i].count = k
  <2> SUFFICES ASSUME NEW m \in Ids, NEW k \in 1..sent[m],
                      ~(k <= obeyed'[m].count)
               PROVE  \E i \in DOMAIN tx' : tx'[i].from = m /\ tx'[i].count = k
    BY <1>4
  <2>1. ~(k <= obeyed[m].count)
    <3>1. CASE m = h.from
      <4>1. obeyed[m].count \in Nat /\ obeyed[m].count < h.count
        BY <1>1, <1>5, <3>1 DEF TxInv
      <4>2. obeyed'[m] = h
        BY <1>4, <3>1
      <4>3. QED
        BY <1>2, <4>1, <4>2
    <3>2. CASE m # h.from
      BY <1>4, <3>2
    <3>3. QED
      BY <3>1, <3>2
  <2>2. PICK i \in 1..L : tx[i].from = m /\ tx[i].count = k
    BY <1>1, <2>1 DEF TxInv
  <2>3. i # 1
    BY <1>1, <1>2, <1>4, <2>2
  <2>4. i - 1 \in DOMAIN tx' /\ tx'[i - 1] = tx[i]
    BY <1>1, <2>3
  <2>5. QED
    BY <2>2, <2>4
<1>10. QED
  BY <1>6, <1>7, <1>8, <1>9 DEF TxInv

LEMMA NextTxInv == TypeOK /\ TxInv /\ [Next]_vars => TxInv'
<1> SUFFICES ASSUME TypeOK, TxInv, [Next]_vars PROVE TxInv'
  OBVIOUS
<1>1. CASE UNCHANGED <<tx, sent, obeyed>>
  BY <1>1 DEF TxInv
<1>2. QED
  BY <1>1, SendTx, TransmitTx DEF Next, MotorSends, Receive, vars

LEMMA TxInvariant == Spec => [](TypeOK /\ TxInv)
  BY InitTypeOK, NextTypeOK, InitTxInv, NextTxInv, PTL DEF Spec

(* A motor obeys its own node only, and none of that node's commands is    *)
(* lost or overtaken between the write and the bus.                        *)
THEOREM NodesKeepTheirMotors == Spec => []LastSentWins
<1>1. TypeOK /\ TxInv => LastSentWins
  <2> SUFFICES ASSUME TypeOK, TxInv, NEW n \in Ids,
                      \A i \in DOMAIN tx : tx[i].from # n
               PROVE  obeyed[n].count = sent[n]
    BY DEF LastSentWins, TxInv
  <2>1. sent[n] \in Nat /\ obeyed[n].count \in 0..sent[n]
    BY DepthAssumption DEF TypeOK, TxInv
  <2>2. \A k \in 1..sent[n] : k <= obeyed[n].count
    BY DEF TxInv
  <2>3. QED
    BY <2>1, <2>2
<1>2. QED
  BY <1>1, TxInvariant, PTL

-----------------------------------------------------------------------------
(* The sockets.                                                            *)

Own(f, n) == IsStatusFrame(f, n) \/ IsExtendedPositionFrame(f, n)

(* What a node takes for feedback is feedback of its own motor.            *)
LEMMA OwnIsOwn ==
  ASSUME NEW f \in Frame, Command(f) \/ Feedback(f), NEW n \in Ids, Own(f, n)
  PROVE  Feedback(f) /\ f.from = n
<1>1. f.from \in DriverId /\ n \in DriverId
  BY IdsAssumption DEF Frame
<1>2. PICK m1 \in Modes \cup FeedbackIds : f.id = BuildCanId(m1, f.from)
                                        /\ (m1 \in FeedbackIds => Feedback(f))
  BY DEF Command, Feedback, BuildCanId
<1>3. PICK m2 \in FeedbackIds : f.id = BuildCanId(m2, n)
  BY DEF Own, IsStatusFrame, IsExtendedPositionFrame, FeedbackIds
<1>4. /\ m1 \in Nat /\ m2 \in Nat /\ Modes \cap FeedbackIds = {}
  BY ModesAreSmall DEF FeedbackIds, FUNC_ID_STATUS, FUNC_ID_EXT_POSITION
<1>5. m1 = m2 /\ f.from = n
  <2>1. BuildCanId(m1, f.from) = BuildCanId(m2, n)
    BY <1>2, <1>3
  <2> DEFINE c == f.from
  <2> HIDE DEF c
  <2>2. m1 = m2 /\ c = n
    BY <1>1, <1>4, <2>1, IdInjective DEF c
  <2>3. QED
    BY <2>2 DEF c
<1>6. QED
  BY <1>2, <1>3, <1>5

(* A buffer of node n: the frames of its motor come in the order they were *)
(* sent, after the one decoded last.                                       *)
BufferOK(s, n, floor, top) ==
  /\ \A i \in DOMAIN s : Command(s[i]) \/ Feedback(s[i])
  /\ \A i \in DOMAIN s : Own(s[i], n) => floor < s[i].count /\ s[i].count <= top
  /\ \A i, j \in DOMAIN s :
       i < j /\ Own(s[i], n) /\ Own(s[j], n) => s[i].count < s[j].count

LEMMA BufferTail ==
  ASSUME NEW s \in Seq(Frame), s # <<>>, NEW n, NEW floor, NEW top,
         BufferOK(s, n, floor, top)
  PROVE  BufferOK(Tail(s), n, IF Own(Head(s), n) THEN Head(s).count ELSE floor, top)
<1>1. /\ Len(s) \in Nat \ {0} /\ Head(s) = s[1] /\ DOMAIN s = 1..Len(s)
      /\ DOMAIN Tail(s) = 1..(Len(s) - 1)
      /\ \A i \in 1..(Len(s) - 1) : /\ Tail(s)[i] = s[i + 1] /\ i + 1 \in 1..Len(s)
                                   /\ 1 < i + 1
  <2>1. Len(s) \in Nat \ {0} /\ Head(s) = s[1] /\ DOMAIN s = 1..Len(s)
    BY EmptySeq, LenProperties
  <2>2. /\ Tail(s) \in Seq(Frame) /\ Len(Tail(s)) = Len(s) - 1
        /\ \A i \in 1..(Len(s) - 1) : Tail(s)[i] = s[i + 1]
    BY HeadTailProperties
  <2>3. DOMAIN Tail(s) = 1..(Len(s) - 1)
    BY <2>2, LenProperties
  <2>4. QED
    BY <2>1, <2>2, <2>3
<1> DEFINE t == Tail(s)
           h == Head(s)
<1> HIDE DEF t, h
<1>2. /\ DOMAIN t = 1..(Len(s) - 1) /\ h = s[1]
      /\ \A i \in 1..(Len(s) - 1) : t[i] = s[i + 1] /\ i + 1 \in 1..Len(s) /\ 1 < i + 1
  BY <1>1 DEF t, h
<1>3. BufferOK(t, n, IF Own(h, n) THEN h.count ELSE floor, top)
  <2>1. \A i \in DOMAIN t : Command(t[i]) \/ Feedback(t[i])
    BY <1>1, <1>2 DEF BufferOK
  <2>2. \A i \in DOMAIN t :
          Own(t[i], n) => /\ (IF Own(h, n) THEN h.count ELSE floor) < t[i].count
                          /\ t[i].count <= top
    BY <1>1, <1>2 DEF BufferOK
  <2>3. \A i, j \in DOMAIN t :
          i < j /\ Own(t[i], n) /\ Own(t[j], n) => t[i].count < t[j].count
    BY <1>1, <1>2 DEF BufferOK
  <2>4. QED
    BY <2>1, <2>2, <2>3 DEF BufferOK
<1>4. QED
  BY <1>3 DEF t, h

LEMMA BufferAppend ==
  ASSUME NEW s \in Seq(Frame), NEW f \in Frame, NEW n,
         NEW floor \in Nat, NEW top \in Nat, NEW top2 \in Nat,
         BufferOK(s, n, floor, top), floor <= top, top <= top2,
         Command(f) \/ Feedback(f),
         Own(f, n) => top < f.count /\ f.count <= top2
  PROVE  BufferOK(Append(s, f), n, floor, top2)
<1> DEFINE t == Append(s, f)
           L == Len(s)
<1>1. /\ L \in Nat /\ DOMAIN s = 1..L /\ DOMAIN t = 1..(L + 1)
      /\ \A i \in 1..L : t[i] = s[i] /\ s[i].count \in Nat
      /\ t[L + 1] = f /\ f.count \in Nat
  <2>1. \A g \in Frame : g.count \in Nat
    BY DEF Frame
  <2>2. \A i \in 1..L : s[i] \in Frame
    BY ElementOfSeq
  <2>3. /\ L \in Nat /\ DOMAIN s = 1..L /\ DOMAIN t = 1..(L + 1)
        /\ \A i \in 1..L : t[i] = s[i]
        /\ t[L + 1] = f
    BY AppendProperties, LenProperties
  <2>4. QED
    BY <2>1, <2>2, <2>3
<1> HIDE DEF t, L
<1>2. \A i \in DOMAIN t : Command(t[i]) \/ Feedback(t[i])
  BY <1>1 DEF BufferOK
<1>3. \A i \in 1..L : Own(s[i], n) => floor < s[i].count /\ s[i].count <= top
  BY <1>1 DEF BufferOK
<1>4. \A i \in DOMAIN t : Own(t[i], n) => floor < t[i].count /\ t[i].count <= top2
  <2> SUFFICES ASSUME NEW i \in 1..(L + 1), Own(t[i], n)
               PROVE  floor < t[i].count /\ t[i].count <= top2
    BY <1>1
  <2>1. CASE i \in 1..L
    BY <1>1, <1>3, <2>1
  <2>2. CASE i = L + 1
    BY <1>1, <2>2
  <2>3. QED
    BY <1>1, <2>1, <2>2
<1>5. \A i, j \in DOMAIN t :
        i < j /\ Own(t[i], n) /\ Own(t[j], n) => t[i].count < t[j].count
  <2> SUFFICES ASSUME NEW i \in 1..(L + 1), NEW j \in 1..(L + 1), i < j,
                      Own(t[i], n), Own(t[j], n)
               PROVE  t[i].count < t[j].count
    BY <1>1
  <2>1. i \in 1..L
    BY <1>1
  <2>2. CASE j \in 1..L
    BY <1>1, <2>1, <2>2 DEF BufferOK
  <2>3. CASE j = L + 1
    BY <1>1, <1>3, <2>1, <2>3
  <2>4. QED
    BY <1>1, <2>2, <2>3
<1>6. QED
  BY <1>2, <1>4, <1>5 DEF BufferOK, t

SockInv ==
  \A n \in Ids : /\ heard[n].from = n /\ heard[n].count <= emitted[n]
                 /\ BufferOK(sockbuf[n], n, heard[n].count, emitted[n])

LEMMA InitSockInv == Init => SockInv
  BY DEF Init, SockInv, NoneOf, BufferOK

(* Counters are numbers.                                                   *)
LEMMA CountsTyped ==
  ASSUME TypeOK, NEW n \in Ids
  PROVE  /\ heard[n].count \in Nat /\ emitted[n] \in Nat
         /\ sockbuf[n] \in Seq(Frame)
<1>1. /\ heard[n] \in Frame \cup {NoneOf(m) : m \in Ids}
      /\ emitted[n] \in 0..MaxFrames /\ sockbuf[n] \in Seq(Frame)
  BY DEF TypeOK
<1>2. \A f \in Frame \cup {NoneOf(m) : m \in Ids} : f.count \in Nat
  BY DepthAssumption DEF Frame, NoneOf
<1>3. QED
  BY <1>1, <1>2, DepthAssumption

(* A frame reaches the sockets of some nodes.  It is a command of another  *)
(* node, or feedback newer than all its motor sent.                        *)
LEMMA ReachesKeeps ==
  ASSUME TypeOK, SockInv, NEW nodes, NEW f \in Frame, Reaches(nodes, f),
         Command(f) \/ Feedback(f), heard' = heard,
         \A n \in Ids : /\ emitted'[n] \in Nat /\ emitted[n] <= emitted'[n]
                        /\ Own(f, n) => /\ emitted[n] < f.count
                                        /\ f.count <= emitted'[n]
  PROVE  SockInv'
<1> SUFFICES ASSUME NEW n \in Ids
             PROVE  /\ heard'[n].from = n /\ heard'[n].count <= emitted'[n]
                    /\ BufferOK(sockbuf'[n], n, heard'[n].count, emitted'[n])
  BY DEF SockInv, BufferOK, Command, Feedback, Own, IsStatusFrame,
         IsExtendedPositionFrame
<1> DEFINE floor == heard[n].count
           top   == emitted[n]
           top2  == emitted'[n]
           s     == sockbuf[n]
<1>1. /\ floor \in Nat /\ top \in Nat /\ top2 \in Nat /\ s \in Seq(Frame)
      /\ floor <= top /\ top <= top2 /\ BufferOK(s, n, floor, top)
      /\ Own(f, n) => top < f.count /\ f.count <= top2
  BY CountsTyped DEF SockInv
<1>2. sockbuf'[n] = IF n \in nodes /\ Len(s) < RcvBuf THEN Append(s, f) ELSE s
  BY DEF Reaches
<1>3. heard'[n] = heard[n] /\ heard[n].from = n
  BY DEF SockInv
<1> HIDE DEF floor, top, top2, s
<1>4. BufferOK(Append(s, f), n, floor, top2)
  BY <1>1, BufferAppend
<1>5. BufferOK(s, n, floor, top2)
  <2>1. \A i \in DOMAIN s : s[i].count \in Nat
    <3>1. \A i \in DOMAIN s : s[i] \in Frame
      BY <1>1, ElementOfSeq
    <3>2. \A g \in Frame : g.count \in Nat
      BY DEF Frame
    <3>3. QED
      BY <3>1, <3>2
  <2>2. \A i \in DOMAIN s : Own(s[i], n) => floor < s[i].count /\ s[i].count <= top2
    BY <1>1, <2>1 DEF BufferOK
  <2>3. QED
    BY <1>1, <2>2 DEF BufferOK
<1>6. BufferOK(sockbuf'[n], n, floor, top2)
  BY <1>2, <1>4, <1>5
<1>7. floor <= top2
  BY <1>1
<1>8. QED
  BY <1>3, <1>6, <1>7 DEF floor, top2

LEMMA NextSockInv == TypeOK /\ TxInv /\ SockInv /\ [Next]_vars => SockInv'
<1> SUFFICES ASSUME TypeOK, TxInv, SockInv, [Next]_vars PROVE SockInv'
  OBVIOUS
<1>1. CASE UNCHANGED <<sockbuf, heard, emitted>>
  BY <1>1 DEF SockInv, BufferOK, Command, Feedback, Own, IsStatusFrame,
              IsExtendedPositionFrame
<1>2. CASE BusTransmits
  <2> DEFINE h == Head(tx)
  <2>1. h \in Frame /\ Command(h)
    <3>1. tx \in Seq(Frame) /\ tx # <<>>
      BY <1>2 DEF BusTransmits, TypeOK
    <3>2. h \in Frame /\ 1 \in DOMAIN tx /\ h = tx[1]
      BY <3>1, EmptySeq, LenProperties, HeadTailProperties
    <3>3. QED
      BY <3>2 DEF TxInv
  <2>2. Reaches(Ids \ {h.from}, h) /\ heard' = heard /\ emitted' = emitted
    BY <1>2 DEF BusTransmits
  <2> HIDE DEF h
  <2>3. \A n \in Ids : ~Own(h, n)
    <3>1. h.from \in DriverId
      BY <2>1, IdsAssumption DEF Frame
    <3>2. PICK mode \in Modes : h.id = mode * 256 + h.from
      BY <2>1 DEF Command
    <3>3. h.id \div 256 = mode
      <4> DEFINE c == h.from
      <4> HIDE DEF c
      <4>1. mode \in Nat /\ c \in DriverId /\ h.id = BuildCanId(mode, c)
        BY <3>1, <3>2, ModesAreSmall DEF BuildCanId, c
      <4>2. QED
        BY <4>1, IdSplits
    <3>4. ASSUME NEW n \in Ids, Own(h, n) PROVE FALSE
      <4>1. n \in DriverId
        BY IdsAssumption
      <4>2. PICK fn \in FeedbackIds : h.id = BuildCanId(fn, n)
        BY <3>4 DEF Own, IsStatusFrame, IsExtendedPositionFrame, FeedbackIds
      <4>3. fn \in Nat /\ fn \notin Modes
        BY ModesAreSmall DEF FeedbackIds, FUNC_ID_STATUS, FUNC_ID_EXT_POSITION
      <4>4. QED
        BY <3>3, <4>1, <4>2, <4>3, IdSplits
    <3>5. QED
      BY <3>4
  <2>4. \A n \in Ids : emitted'[n] \in Nat /\ emitted[n] <= emitted'[n]
    BY <2>2, CountsTyped
  <2>5. QED
    BY <2>1, <2>2, <2>3, <2>4, ReachesKeeps
<1>3. ASSUME NEW m \in Ids, NEW fn \in FeedbackIds, MotorSends(m, fn)
      PROVE  SockInv'
  <2> DEFINE f == [id |-> fn * 256 + m, dlc |-> 8, from |-> m,
                   count |-> emitted[m] + 1]
  <2>1. /\ f \in Frame /\ Feedback(f) /\ f.from = m /\ f.count = emitted[m] + 1
        /\ Reaches(Ids, f) /\ heard' = heard
    BY <1>3, FramesTyped DEF MotorSends, Feedback
  <2> HIDE DEF f
  <2>2. \A n \in Ids : Own(f, n) => n = m
    BY <2>1, OwnIsOwn
  <2>3. \A n \in Ids : /\ emitted[n] \in Nat
                       /\ emitted'[n] = IF n = m THEN emitted[n] + 1 ELSE emitted[n]
    BY <1>3, CountsTyped DEF MotorSends, TypeOK
  <2>4. \A n \in Ids : /\ emitted'[n] \in Nat /\ emitted[n] <= emitted'[n]
                       /\ Own(f, n) => /\ emitted[n] < f.count
                                       /\ f.count <= emitted'[n]
    BY <2>1, <2>2, <2>3
  <2>5. QED
    BY <2>1, <2>4, ReachesKeeps
<1>4. ASSUME NEW n \in Ids, Receive(n) PROVE SockInv'
  <2> DEFINE s == sockbuf[n]
             h == Head(s)
  <2>1. /\ s \in Seq(Frame) /\ s # <<>> /\ emitted' = emitted
        /\ sockbuf' = [sockbuf EXCEPT ![n] = Tail(s)]
        /\ heard' = IF Own(h, n) THEN [heard EXCEPT ![n] = h] ELSE heard
        /\ BufferOK(s, n, heard[n].count, emitted[n])
    BY <1>4 DEF Receive, TypeOK, Own, SockInv
  <2>2. h \in Frame /\ 1 \in DOMAIN s /\ h = s[1]
    BY <2>1, EmptySeq, LenProperties, HeadTailProperties
  <2> HIDE DEF h, s
  <2>3. Command(h) \/ Feedback(h)
    BY <2>1, <2>2 DEF BufferOK
  <2>4. Own(h, n) => h.from = n /\ h.count <= emitted[n]
    BY <2>1, <2>2, <2>3, OwnIsOwn DEF BufferOK
  <2>5. BufferOK(Tail(s), n, IF Own(h, n) THEN h.count ELSE heard[n].count, emitted[n])
    BY <2>1, BufferTail DEF h
  <2>6. /\ sockbuf'[n] = Tail(s)
        /\ heard'[n] = IF Own(h, n) THEN h ELSE heard[n]
        /\ \A k \in Ids : k # n => sockbuf'[k] = sockbuf[k] /\ heard'[k] = heard[k]
    BY <2>1 DEF TypeOK
  <2>7. /\ heard'[n].from = n /\ heard'[n].count <= emitted'[n]
        /\ BufferOK(sockbuf'[n], n, heard'[n].count, emitted'[n])
    <3>1. heard[n].from = n /\ heard[n].count <= emitted[n]
      BY DEF SockInv
    <3>2. emitted'[n] = emitted[n]
      BY <2>1
    <3>3. CASE Own(h, n)
      BY <2>4, <2>5, <2>6, <3>2, <3>3
    <3>4. CASE ~Own(h, n)
      BY <2>5, <2>6, <3>1, <3>2, <3>4
    <3>5. QED
      BY <3>3, <3>4
  <2>8. \A k \in Ids \ {n} :
          /\ heard'[k].from = k /\ heard'[k].count <= emitted'[k]
          /\ BufferOK(sockbuf'[k], k, heard'[k].count, emitted'[k])
    BY <2>1, <2>6 DEF SockInv
  <2>9. \A k \in Ids : /\ heard'[k].from = k /\ heard'[k].count <= emitted'[k]
                       /\ BufferOK(sockbuf'[k], k, heard'[k].count, emitted'[k])
    BY <2>7, <2>8
  <2>10. QED
    BY <2>9 DEF SockInv, BufferOK, Command, Feedback, Own, IsStatusFrame,
                IsExtendedPositionFrame
<1>5. QED
  BY <1>1, <1>2, <1>3, <1>4 DEF Next, Send, vars, FeedbackIds

LEMMA BusInvariant == Spec => [](TypeOK /\ TxInv /\ SockInv)
  BY InitTypeOK, NextTypeOK, InitTxInv, NextTxInv, InitSockInv, NextSockInv, PTL
     DEF Spec

(* What a node decodes is its own motor's, and newer than what it decoded  *)
(* before.                                                                 *)
THEOREM NodesHearTheirMotors == Spec => OwnMotorHeard
<1>1. TypeOK /\ TxInv /\ SockInv /\ [Next]_vars
        => [\A n \in Ids : /\ heard'[n].from = n
                           /\ heard'[n] # heard[n] =>
                                /\ heard[n].count < heard'[n].count
                                /\ heard'[n].count <= emitted[n]]_vars
  <2> SUFFICES ASSUME TypeOK, TxInv, SockInv, [Next]_vars, NEW n \in Ids
               PROVE  /\ heard'[n].from = n
                      /\ heard'[n] # heard[n] => /\ heard[n].count < heard'[n].count
                                                /\ heard'[n].count <= emitted[n]
    OBVIOUS
  <2>1. heard'[n].from = n
    BY NextSockInv DEF SockInv
  <2>2. ASSUME NEW k \in Ids, Receive(k), heard'[n] # heard[n]
        PROVE  heard[n].count < heard'[n].count /\ heard'[n].count <= emitted[n]
    <3>1. /\ k = n /\ Own(Head(sockbuf[n]), n) /\ heard'[n] = Head(sockbuf[n])
          /\ sockbuf[n] \in Seq(Frame) /\ sockbuf[n] # <<>>
      BY <2>2 DEF Receive, TypeOK, Own
    <3>2. 1 \in DOMAIN sockbuf[n] /\ Head(sockbuf[n]) = sockbuf[n][1]
      BY <3>1, EmptySeq, LenProperties
    <3>3. QED
      BY <3>1, <3>2 DEF SockInv, BufferOK
  <2>3. heard'[n] # heard[n] => \E k \in Ids : Receive(k)
    BY DEF Next, Send, BusTransmits, MotorSends, vars
  <2>4. QED
    BY <2>1, <2>2, <2>3
<1>2. QED
  BY <1>1, BusInvariant, PTL DEF Spec, OwnMotorHeard
=============================================================================
