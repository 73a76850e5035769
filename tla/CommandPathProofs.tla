------------------------- MODULE CommandPathProofs -------------------------
(***************************************************************************)
(* The actuation path, for every set of requests, depth of either queue    *)
(* and bound: its types, the order of what the motor hears, the writes of  *)
(* its flash memory, and the stale commands that can undo a disable.       *)
(***************************************************************************)
EXTENDS CommandPath, WireFormatProofs, SequenceTheorems, FiniteSetTheorems,
        FunctionTheorems, TLAPS

ModeOf(frame) == frame.id \div 256
RankOf(frame) ==
  GetInt32(frame.data[1], frame.data[2], frame.data[3], frame.data[4])

RequestModes == {MODE_SET_ORIGIN, MODE_DISABLE, MODE_FEEDBACK_CONFIG}

Entry == [frame : Frame, from : 0..MaxRequests]
Call  == [request : Requests, at : 0..MaxCommands,
          result : {"pending", "success", "failure", "lost"}]

-----------------------------------------------------------------------------
(* What the callbacks put on the bus.                                      *)

LEMMA ModesApart ==
  /\ MODE_CURRENT \in CommandModes /\ 7 \notin CommandModes
  /\ CommandModes \cap RequestModes = {}
  /\ MODE_DISABLE # MODE_SET_ORIGIN /\ MODE_FEEDBACK_CONFIG # MODE_DISABLE
  /\ MODE_FEEDBACK_CONFIG # MODE_SET_ORIGIN
  /\ MODE_CURRENT # MODE_DISABLE /\ MODE_CURRENT # MODE_SET_ORIGIN
  /\ MODE_CURRENT # MODE_FEEDBACK_CONFIG
  /\ MODE_CURRENT \in Nat /\ RequestModes \subseteq Nat
  BY DEF CommandModes, ServoModes, RequestModes, MODE_DUTY, MODE_CURRENT,
         MODE_CURRENT_BRAKE, MODE_VELOCITY, MODE_POSITION, MODE_SET_ORIGIN,
         MODE_POSITION_VELOCITY, MODE_MIT, MODE_DISABLE, MODE_FEEDBACK_CONFIG

LEMMA UpToEight ==
  ASSUME NEW n \in Nat, n <= 8
  PROVE  n \in 0..8
  OBVIOUS

(* Up to eight octets make a frame, its mode and its octets left alone.    *)
LEMMA FrameMade ==
  ASSUME NEW mode \in Nat, NEW data \in Seq(Byte), Len(data) <= 8
  PROVE  /\ MakeFrame(mode, CanId, data) \in Frame
         /\ ModeOf(MakeFrame(mode, CanId, data)) = mode
         /\ \A i \in 1..Len(data) : MakeFrame(mode, CanId, data).data[i] = data[i]
<1> DEFINE all == data \o Zeros(8 - Len(data))
<1>1. Len(data) \in Nat
  BY LenProperties
<1>2. all \in Payload /\ \A i \in 1..Len(data) : all[i] = data[i]
  BY PayloadMade
<1>3. all \in Payload
  BY <1>2
<1> HIDE DEF all
<1>4. MakeFrame(mode, CanId, data)
        = [id |-> mode * 256 + CanId, dlc |-> Len(data), data |-> all]
  BY DEF MakeFrame, BuildCanId, all
<1>5. CanId \in Int /\ 0 <= CanId /\ CanId <= 255
  BY CanIdAssumption DEF DriverId
<1>6. mode * 256 + CanId \in Nat /\ (mode * 256 + CanId) \div 256 = mode
  BY <1>5, SMT
<1>7. Len(data) \in 0..8
  BY <1>1, UpToEight
<1>8. QED
  <2> DEFINE id == mode * 256 + CanId
             len == Len(data)
  <2>1. id \in Nat /\ id \div 256 = mode /\ len \in 0..8
    BY <1>6, <1>7
  <2>2. MakeFrame(mode, CanId, data) = [id |-> id, dlc |-> len, data |-> all]
    BY <1>4
  <2> HIDE DEF id, len
  <2>3. [id |-> id, dlc |-> len, data |-> all] \in Frame
    BY <1>3, <2>1 DEF Frame
  <2>4. QED
    BY <1>2, <2>1, <2>2, <2>3 DEF ModeOf

(* The frame of a command says its rank.                                   *)
CommandFrame(rank) == MakeFrame(MODE_CURRENT, CanId, AppendInt32(rank))

LEMMA CommandSays ==
  ASSUME NEW rank \in Rank
  PROVE  /\ CommandFrame(rank) \in Frame
         /\ ModeOf(CommandFrame(rank)) = MODE_CURRENT
         /\ RankOf(CommandFrame(rank)) = rank
<1> DEFINE d == AppendInt32(rank)
<1>1. rank \in Int /\ 1 <= rank /\ rank <= 2147483647
  BY RanksFitAssumption, DepthAssumption, SMT DEF Rank
<1>2. /\ Octet(rank, 16777216) \in Byte /\ Octet(rank, 65536) \in Byte
      /\ Octet(rank, 256) \in Byte /\ Octet(rank, 1) \in Byte
  BY <1>1, OctetByte
<1>3. d \in Seq(Byte) /\ Len(d) = 4
  BY <1>2 DEF AppendInt32
<1>4. GetInt32(d[1], d[2], d[3], d[4]) = rank
  <2>1. -2147483648 <= rank
    BY <1>1
  <2>2. QED
    BY <1>1, <2>1, Int32RoundTrip
<1> HIDE DEF d
<1>5. /\ MakeFrame(MODE_CURRENT, CanId, d) \in Frame
      /\ ModeOf(MakeFrame(MODE_CURRENT, CanId, d)) = MODE_CURRENT
      /\ \A i \in 1..4 : MakeFrame(MODE_CURRENT, CanId, d).data[i] = d[i]
  <2>1. MODE_CURRENT \in Nat /\ Len(d) <= 8
    BY <1>3, ModesApart
  <2>2. QED
    BY <1>3, <2>1, FrameMade
<1>6. QED
  BY <1>4, <1>5 DEF CommandFrame, RankOf, d

(* The frames of the three services.                                       *)
LEMMA DisableSays ==
  /\ PackDisable(CanId) \in Frame
  /\ ModeOf(PackDisable(CanId)) = MODE_DISABLE
<1>1. <<>> \in Seq(Byte) /\ Len(<<>>) <= 8 /\ MODE_DISABLE \in Nat
  BY ModesApart DEF RequestModes
<1>2. QED
  BY <1>1, FrameMade DEF PackDisable

LEMMA OriginSays ==
  ASSUME NEW permanent
  PROVE  LET frame == PackSetOrigin(CanId, permanent)
         IN /\ frame \in Frame /\ ModeOf(frame) = MODE_SET_ORIGIN
            /\ frame.data[1] = IF permanent THEN 1 ELSE 0
<1> DEFINE d == <<IF permanent THEN 1 ELSE 0>>
<1>1. /\ d \in Seq(Byte) /\ Len(d) = 1 /\ Len(d) <= 8
      /\ d[1] = IF permanent THEN 1 ELSE 0
  BY DEF Byte
<1>2. MODE_SET_ORIGIN \in Nat
  BY ModesApart DEF RequestModes
<1>3. PackSetOrigin(CanId, permanent) = MakeFrame(MODE_SET_ORIGIN, CanId, d)
  BY DEF PackSetOrigin
<1> HIDE DEF d
<1>4. 1 \in 1..Len(d)
  BY <1>1
<1>5. QED
  BY <1>1, <1>2, <1>3, <1>4, FrameMade

LEMMA ConfigSays ==
  ASSUME NEW add \in BOOLEAN, NEW single \in BOOLEAN
  PROVE  /\ PackFeedbackConfig(CanId, add, single) \in Frame
         /\ ModeOf(PackFeedbackConfig(CanId, add, single)) = MODE_FEEDBACK_CONFIG
<1> DEFINE word == (IF add THEN 32768 ELSE 0) + (IF single THEN 16384 ELSE 0)
           d == Zeros(6) \o AppendUint16(word)
<1>1. word \in Int
  OBVIOUS
<1>2. PackFeedbackConfig(CanId, add, single)
        = MakeFrame(MODE_FEEDBACK_CONFIG, CanId, d)
  BY DEF PackFeedbackConfig
<1> HIDE DEF word
<1>3. AppendUint16(word) \in Seq(Byte) /\ Len(AppendUint16(word)) = 2
  <2>1. Octet(word, 256) \in Byte /\ Octet(word, 1) \in Byte
    BY <1>1, OctetByte
  <2>2. QED
    BY <2>1 DEF AppendUint16
<1>4. Zeros(6) \in Seq(Byte) /\ Len(Zeros(6)) = 6
  BY ZerosSeq
<1>5. d \in Seq(Byte) /\ Len(d) = Len(Zeros(6)) + Len(AppendUint16(word))
  BY <1>3, <1>4, ConcatProperties
<1> HIDE DEF d
<1>6. Len(d) <= 8
  <2>1. Len(d) = 6 + 2
    BY <1>3, <1>4, <1>5, Zenon
  <2>2. QED
    BY <2>1
<1>7. QED
  BY <1>2, <1>5, <1>6, FrameMade, ModesApart DEF RequestModes

-----------------------------------------------------------------------------
(* The inductive invariant.  Commands wait in the history, then in the     *)
(* transmit queue, in the order they were published; `handled` parts the   *)
(* two, and the command heard last is behind both.  No more of them can    *)
(* have been stale than have been heard.                                   *)

QueueInv ==
  /\ handled <= last
  /\ \A i \in DOMAIN cmd_queue : /\ handled < cmd_queue[i].rank
                                 /\ cmd_queue[i].rank <= last
  /\ \A i, j \in DOMAIN cmd_queue :
       i < j => cmd_queue[i].rank < cmd_queue[j].rank

Queued(e, heard, taken, made) ==
  \/ /\ ModeOf(e.frame) = MODE_CURRENT
     /\ RankOf(e.frame) \in Rank
     /\ heard < RankOf(e.frame) /\ RankOf(e.frame) <= taken
  \/ /\ ModeOf(e.frame) \in RequestModes
     /\ e.from \in 1..made

TxInv ==
  /\ \A k \in DOMAIN tx : Queued(tx[k], history.command, handled, Len(calls))
  /\ \A j, k \in DOMAIN tx :
       /\ j < k
       /\ ModeOf(tx[j].frame) = MODE_CURRENT /\ ModeOf(tx[k].frame) = MODE_CURRENT
       => RankOf(tx[j].frame) < RankOf(tx[k].frame)

HistoryInv ==
  /\ history.command <= handled
  /\ history.stale <= history.command
  /\ Len(calls) <= MaxRequests

PathInv == TypeOK /\ QueueInv /\ TxInv /\ HistoryInv

LEMMA TypedNow ==
  ASSUME TypeOK
  PROVE  /\ last \in Nat /\ handled \in Nat /\ history.command \in Nat
         /\ history.stale \in Nat /\ history.since \in Nat
         /\ tx \in Seq(Entry) /\ calls \in Seq(Call) /\ cmd_queue \in Seq(Message)
         /\ Len(tx) \in Nat /\ Len(calls) \in Nat /\ Len(cmd_queue) \in Nat
<1>1. tx \in Seq(Entry) /\ calls \in Seq(Call) /\ cmd_queue \in Seq(Message)
  BY DEF TypeOK, Entry, Call
<1>2. /\ last \in Nat /\ handled \in Nat /\ history.command \in Nat
      /\ history.stale \in Nat /\ history.since \in Nat
  BY DepthAssumption DEF TypeOK
<1>3. QED
  BY <1>1, <1>2, LenProperties

LEMMA InitPathInv == Init => PathInv
<1> SUFFICES ASSUME Init PROVE PathInv
  OBVIOUS
<1> USE DepthAssumption
<1>1. TypeOK
  <2>1. motor \in [drive : 0..MaxCommands, ext : BOOLEAN, flash : Nat]
    BY DEF Init
  <2>2. history \in [heard : SUBSET (1..MaxRequests), command : 0..MaxCommands,
                     since : 0..MaxCommands, stale : 0..MaxCommands]
    BY DEF Init
  <2>3. cmd_queue = <<>> /\ calls = <<>> /\ tx = <<>> /\ 0 <= CmdDepth /\ 0 <= TxDepth
    BY DEF Init
  <2>4. last \in 0..MaxCommands /\ handled \in 0..MaxCommands
    BY DEF Init
  <2>5. /\ cmd_queue \in Seq(Message) /\ Len(cmd_queue) = 0
        /\ calls \in Seq(Call) /\ tx \in Seq(Entry) /\ Len(tx) = 0
    <3>1. cmd_queue \in Seq(Message) /\ Len(cmd_queue) = 0
      BY <2>3, EmptySeq
    <3>2. calls \in Seq(Call)
      BY <2>3, EmptySeq
    <3>3. tx \in Seq(Entry) /\ Len(tx) = 0
      BY <2>3, EmptySeq
    <3>4. QED
      BY <3>1, <3>2, <3>3
  <2>6. reading \in BOOLEAN /\ cached \in BOOLEAN /\ restarts \in 0..MaxRestarts
    <3>1. restarts \in 0..MaxRestarts
      BY DEF Init
    <3>2. reading \in BOOLEAN /\ cached \in BOOLEAN
      BY Zenon DEF Init
    <3>3. QED
      BY <3>1, <3>2
  <2>7. QED
    BY <2>1, <2>2, <2>3, <2>4, <2>5, <2>6 DEF TypeOK, Call, Entry
<1>2. QueueInv /\ TxInv /\ HistoryInv
  BY DEF Init, QueueInv, TxInv, HistoryInv
<1>3. QED
  BY <1>1, <1>2 DEF PathInv

-----------------------------------------------------------------------------
(* The two ends of the history of ~/cmd.                                   *)

(* What the history keeps is the newest part of what it was given.         *)
LEMMA KeepLastKeeps ==
  ASSUME NEW q \in Seq(Message), Len(q) <= CmdDepth + 1
  PROVE  /\ KeepLast(q) \in Seq(Message) /\ Len(KeepLast(q)) <= CmdDepth
         /\ \E n \in {0, 1} :
              \A i \in 1..Len(KeepLast(q)) :
                KeepLast(q)[i] = q[i + n] /\ i + n \in 1..Len(q)
<1> USE DepthAssumption
<1>1. Len(q) \in Nat
  BY LenProperties
<1>2. \A i \in 1..Len(q) : q[i] \in Message
  BY ElementOfSeq
<1>3. CASE Len(q) <= CmdDepth
  <2>1. KeepLast(q) = q
    <3> DEFINE excess == IF Len(q) > CmdDepth THEN Len(q) - CmdDepth ELSE 0
    <3>1. excess = 0 /\ KeepLast(q) = SubSeq(q, 1 + excess, Len(q))
      BY <1>1, <1>3 DEF KeepLast
    <3> HIDE DEF excess
    <3>2. 1 + excess = 1
      BY <3>1
    <3>3. QED
      BY <3>1, <3>2, SubSeqFull
  <2>2. QED
    BY <1>1, <1>3, <2>1
<1>4. CASE Len(q) = CmdDepth + 1
  <2>1. KeepLast(q) = SubSeq(q, 2, Len(q))
    BY <1>1, <1>4 DEF KeepLast
  <2>2. \A i \in 2..Len(q) : q[i] \in Message
    BY <1>1, <1>2
  <2>3. /\ SubSeq(q, 2, Len(q)) \in Seq(Message)
        /\ Len(SubSeq(q, 2, Len(q))) = IF 2 <= Len(q) THEN Len(q) - 2 + 1 ELSE 0
        /\ \A i \in 1..(Len(q) - 2 + 1) : SubSeq(q, 2, Len(q))[i] = q[2 + i - 1]
    BY <1>1, <2>2, SubSeqProperties
  <2>4. QED
    BY <1>1, <1>4, <2>1, <2>3
<1>5. QED
  BY <1>1, <1>3, <1>4

LEMMA PublishKeeps ==
  ASSUME PathInv, NEW mode \in {MODE_CURRENT, 7}, PublishCommand(mode)
  PROVE  PathInv'
<1> DEFINE m == [mode |-> mode, rank |-> last + 1]
           q == Append(cmd_queue, m)
           L == Len(cmd_queue)
<1> USE DepthAssumption
<1>1. /\ TypeOK /\ QueueInv /\ TxInv /\ HistoryInv
      /\ last \in Nat /\ handled \in Nat /\ last' = last + 1 /\ last < MaxCommands
      /\ cmd_queue \in Seq(Message) /\ L \in Nat /\ L <= CmdDepth
      /\ cmd_queue' = KeepLast(q) \/ cmd_queue' = cmd_queue
      /\ UNCHANGED <<handled, calls, tx, motor, reading, cached, restarts, history>>
  BY TypedNow DEF PathInv, PublishCommand, TypeOK
<1>2. m \in Message /\ m.rank = last + 1
  BY <1>1 DEF Message, Rank
<1> HIDE DEF m
<1>3. /\ q \in Seq(Message) /\ Len(q) = L + 1
      /\ \A i \in 1..L : q[i] = cmd_queue[i]
      /\ q[L + 1] = m
  BY <1>1, <1>2, AppendProperties
<1> HIDE DEF q, L
<1>4. /\ \A i \in 1..(L + 1) : handled < q[i].rank /\ q[i].rank <= last'
      /\ \A i, j \in 1..(L + 1) : i < j => q[i].rank < q[j].rank
  <2>1. DOMAIN cmd_queue = 1..L
    BY <1>1, LenProperties DEF L
  <2>2. \A i \in 1..L : cmd_queue[i].rank \in Nat
    <3>1. \A i \in 1..L : cmd_queue[i] \in Message
      BY <1>1, ElementOfSeq DEF L
    <3>2. QED
      BY <3>1 DEF Message, Rank
  <2>3. \A i \in 1..L : /\ handled < q[i].rank /\ q[i].rank <= last
                        /\ q[i].rank \in Nat
    BY <1>1, <1>3, <2>1, <2>2 DEF QueueInv
  <2>4. \A i \in 1..(L + 1) : i \in 1..L \/ i = L + 1
    BY <1>1
  <2>5. \A i \in 1..(L + 1) : handled < q[i].rank /\ q[i].rank <= last'
    BY <1>1, <1>2, <1>3, <2>3, <2>4 DEF QueueInv
  <2>6. \A i, j \in 1..(L + 1) : i < j => q[i].rank < q[j].rank
    <3> SUFFICES ASSUME NEW i \in 1..(L + 1), NEW j \in 1..(L + 1), i < j
                 PROVE  q[i].rank < q[j].rank
      OBVIOUS
    <3>1. i \in 1..L
      BY <1>1
    <3>2. CASE j \in 1..L
      BY <1>1, <1>3, <2>1, <3>1, <3>2 DEF QueueInv
    <3>3. CASE j = L + 1
      BY <1>1, <1>2, <1>3, <2>3, <3>1, <3>3
    <3>4. QED
      BY <2>4, <3>2, <3>3
  <2>7. QED
    BY <2>5, <2>6
<1>5. QueueInv' /\ cmd_queue' \in Seq(Message) /\ Len(cmd_queue') <= CmdDepth
  <2>1. CASE cmd_queue' = cmd_queue
    <3>1. DOMAIN cmd_queue = 1..L /\ \A i \in 1..L : q[i] = cmd_queue[i]
      BY <1>1, <1>3, LenProperties DEF L
    <3>2. \A i \in 1..L : i \in 1..(L + 1)
      BY <1>1
    <3>3. QED
      BY <1>1, <1>4, <2>1, <3>1, <3>2 DEF QueueInv, L
  <2>2. CASE cmd_queue' = KeepLast(q)
    <3>1. /\ cmd_queue' \in Seq(Message) /\ Len(cmd_queue') <= CmdDepth
          /\ \E n \in {0, 1} : \A i \in 1..Len(cmd_queue') :
               cmd_queue'[i] = q[i + n] /\ i + n \in 1..(L + 1)
      BY <1>1, <1>3, <2>2, KeepLastKeeps
    <3>2. PICK n \in {0, 1} : \A i \in 1..Len(cmd_queue') :
            cmd_queue'[i] = q[i + n] /\ i + n \in 1..(L + 1)
      BY <3>1
    <3>3. DOMAIN cmd_queue' = 1..Len(cmd_queue') /\ Len(cmd_queue') \in Nat
      BY <3>1, LenProperties
    <3>4. handled' <= last'
      BY <1>1 DEF QueueInv
    <3>5. \A i \in DOMAIN cmd_queue' :
            handled' < cmd_queue'[i].rank /\ cmd_queue'[i].rank <= last'
      BY <1>1, <1>4, <3>2, <3>3
    <3>6. \A i, j \in DOMAIN cmd_queue' :
            i < j => cmd_queue'[i].rank < cmd_queue'[j].rank
      <4> SUFFICES ASSUME NEW i \in 1..Len(cmd_queue'),
                          NEW j \in 1..Len(cmd_queue'), i < j
                   PROVE  cmd_queue'[i].rank < cmd_queue'[j].rank
        BY <3>3
      <4>1. i + n < j + n
        BY <3>3
      <4>2. QED
        BY <1>4, <3>2, <4>1
    <3>7. QED
      BY <3>1, <3>4, <3>5, <3>6 DEF QueueInv
  <2>3. QED
    BY <1>1, <2>1, <2>2
<1>6. TxInv' /\ HistoryInv'
  BY <1>1 DEF TxInv, Queued, HistoryInv
<1>7. TypeOK'
  BY <1>1, <1>5 DEF TypeOK
<1>8. QED
  BY <1>5, <1>6, <1>7 DEF PathInv

-----------------------------------------------------------------------------
(* A write.                                                                *)

(* A frame joins the queue behind all others: a request whose call is      *)
(* known, or the command that has just been taken.                         *)
LEMMA SendKeeps ==
  ASSUME PathInv, NEW frame \in Frame, NEW from \in 0..MaxRequests,
         NEW ok \in BOOLEAN, Send(frame, from, ok),
         handled' \in Nat, handled <= handled', history' = history,
         Len(calls') = Len(calls),
         \/ /\ ModeOf(frame) = MODE_CURRENT /\ RankOf(frame) = handled'
            /\ handled' \in Rank /\ handled < handled'
         \/ ModeOf(frame) \in RequestModes /\ from \in 1..Len(calls)
  PROVE  tx' \in Seq(Entry) /\ Len(tx') <= TxDepth /\ TxInv'
<1> DEFINE e == [frame |-> frame, from |-> from]
           L == Len(tx)
<1>1. /\ TxInv /\ HistoryInv /\ tx \in Seq(Entry) /\ L \in Nat /\ L <= TxDepth
      /\ handled \in Nat /\ history.command \in Nat
  BY TypedNow DEF PathInv, TypeOK
<1>2. e \in Entry /\ e.frame = frame /\ e.from = from
  BY DEF Entry
<1>3. Queued(e, history.command, handled', Len(calls))
  BY <1>1, <1>2 DEF Queued, HistoryInv
<1>4. \A k \in DOMAIN tx : Queued(tx[k], history.command, handled', Len(calls))
  BY <1>1 DEF TxInv, Queued, Rank
<1>5. DOMAIN tx = 1..L
  BY <1>1, LenProperties
<1>6. CASE ~ok
  BY <1>1, <1>4, <1>6 DEF Send, TxInv
<1>7. CASE ok
  <2>1. L < TxDepth /\ tx' = Append(tx, e)
    BY <1>7 DEF Send
  <2> HIDE DEF e, L
  <2>2. /\ tx' \in Seq(Entry) /\ Len(tx') = L + 1
        /\ \A i \in 1..L : tx'[i] = tx[i]
        /\ tx'[L + 1] = e
    BY <1>1, <1>2, <2>1, AppendProperties DEF L
  <2>3. DOMAIN tx' = 1..(L + 1)
    BY <2>2, LenProperties
  <2>4. \A i \in 1..(L + 1) : i \in 1..L \/ i = L + 1
    BY <1>1
  <2>5. \A k \in DOMAIN tx' : Queued(tx'[k], history.command, handled', Len(calls))
    BY <1>3, <1>4, <1>5, <2>2, <2>3, <2>4 DEF Queued
  <2>6. ASSUME NEW j \in DOMAIN tx', NEW k \in DOMAIN tx', j < k,
               ModeOf(tx'[j].frame) = MODE_CURRENT,
               ModeOf(tx'[k].frame) = MODE_CURRENT
        PROVE  RankOf(tx'[j].frame) < RankOf(tx'[k].frame)
    <3>1. j \in 1..L /\ tx'[j] = tx[j]
      BY <1>1, <2>2, <2>3, <2>6
    <3>2. CASE k \in 1..L
      BY <1>1, <1>5, <2>2, <2>6, <3>1, <3>2 DEF TxInv
    <3>3. CASE k = L + 1
      <4>1. RankOf(tx[j].frame) \in Nat /\ RankOf(tx[j].frame) <= handled
        BY <1>1, <1>5, <2>6, <3>1, ModesApart, DepthAssumption
           DEF TxInv, Queued, Rank
      <4>2. RankOf(e.frame) = handled' /\ handled < handled'
        BY <1>2, <2>2, <2>6, <3>3, ModesApart
      <4>3. QED
        BY <1>1, <2>2, <3>1, <3>3, <4>1, <4>2
    <3>4. QED
      BY <2>3, <2>4, <3>2, <3>3
  <2>7. QED
    <3>1. L + 1 <= TxDepth
      BY <1>1, <2>1, DepthAssumption
    <3>2. QED
      BY <1>1, <2>2, <2>5, <2>6, <3>1 DEF TxInv
<1>8. QED
  BY <1>6, <1>7

(* Taking the oldest command of the history.                               *)
LEMMA OnCommandKeeps ==
  ASSUME PathInv, NEW ok \in BOOLEAN, OnCommand(ok)
  PROVE  PathInv'
<1> DEFINE m == Head(cmd_queue)
           L == Len(cmd_queue)
<1> USE DepthAssumption
<1>1. /\ TypeOK /\ QueueInv /\ TxInv /\ HistoryInv
      /\ last \in Nat /\ handled \in Nat /\ last <= MaxCommands
      /\ cmd_queue \in Seq(Message) /\ cmd_queue # <<>> /\ L <= CmdDepth
      /\ cmd_queue' = Tail(cmd_queue) /\ handled' = m.rank
      /\ tx \in Seq(Entry)
      /\ UNCHANGED <<last, calls, motor, reading, cached, restarts, history>>
  BY TypedNow DEF PathInv, OnCommand, TypeOK
<1>2. /\ L \in Nat \ {0} /\ m = cmd_queue[1] /\ m \in Message
      /\ cmd_queue' \in Seq(Message) /\ Len(cmd_queue') = L - 1
      /\ \A i \in 1..(L - 1) : cmd_queue'[i] = cmd_queue[i + 1]
      /\ DOMAIN cmd_queue = 1..L /\ DOMAIN cmd_queue' = 1..(L - 1)
  <2>1. /\ m \in Message /\ cmd_queue' \in Seq(Message) /\ Len(cmd_queue') = L - 1
        /\ \A i \in 1..Len(cmd_queue') : cmd_queue'[i] = cmd_queue[i + 1]
    BY <1>1, HeadTailProperties
  <2>2. L \in Nat \ {0} /\ m = cmd_queue[1]
    BY <1>1, EmptySeq
  <2>3. DOMAIN cmd_queue = 1..L /\ DOMAIN cmd_queue' = 1..Len(cmd_queue')
    BY <1>1, <2>1, LenProperties
  <2>4. QED
    BY <2>1, <2>2, <2>3
<1>3. m.mode \in {MODE_CURRENT, 7} /\ m.rank \in Rank
  BY <1>2 DEF Message
<1>4. \A i \in 1..L : cmd_queue[i].rank \in Nat
  <2>1. \A i \in 1..L : cmd_queue[i] \in Message
    BY <1>1, ElementOfSeq
  <2>2. QED
    BY <2>1 DEF Message, Rank
<1> HIDE DEF m, L
<1>5. handled < handled' /\ handled' <= last /\ handled' \in Rank
  BY <1>1, <1>2, <1>3 DEF QueueInv
<1>6. QueueInv'
  <2>1. \A i \in 1..(L - 1) : i + 1 \in 1..L /\ 1 < i + 1
    BY <1>2
  <2>2. 1 \in 1..L
    BY <1>2
  <2>3. \A i \in DOMAIN cmd_queue' : /\ handled' < cmd_queue'[i].rank
                                     /\ cmd_queue'[i].rank <= last'
    BY <1>1, <1>2, <2>1, <2>2 DEF QueueInv
  <2>4. \A i, j \in DOMAIN cmd_queue' :
          i < j => cmd_queue'[i].rank < cmd_queue'[j].rank
    BY <1>1, <1>2, <2>1 DEF QueueInv
  <2>5. QED
    BY <1>1, <1>5, <2>3, <2>4 DEF QueueInv
<1>7. handled' \in Nat /\ handled' <= MaxCommands
  BY <1>1, <1>5 DEF Rank
<1>8. tx' \in Seq(Entry) /\ Len(tx') <= TxDepth /\ TxInv'
  <2>1. CASE m.mode \in CommandModes
    <3>1. m.mode = MODE_CURRENT
      BY <1>3, <2>1, ModesApart
    <3>2. Send(CommandFrame(m.rank), 0, ok)
      BY <3>1, <2>1 DEF OnCommand, CommandFrame, m
    <3>3. /\ CommandFrame(m.rank) \in Frame
          /\ ModeOf(CommandFrame(m.rank)) = MODE_CURRENT
          /\ RankOf(CommandFrame(m.rank)) = m.rank
      BY <1>3, CommandSays
    <3>4. 0 \in 0..MaxRequests /\ handled <= handled' /\ Len(calls') = Len(calls)
      BY <1>1, <1>5, <1>7
    <3>5. QED
      BY <1>1, <1>5, <1>7, <3>2, <3>3, <3>4, SendKeeps
  <2>2. CASE m.mode \notin CommandModes
    <3>1. tx' = tx
      BY <2>2 DEF OnCommand, m
    <3>2. \A k \in DOMAIN tx : Queued(tx[k], history.command, handled', Len(calls))
      <4>1. \A k \in DOMAIN tx : Queued(tx[k], history.command, handled, Len(calls))
        BY <1>1 DEF TxInv
      <4>2. QED
        BY <1>1, <1>5, <1>7, <4>1 DEF Queued, Rank
    <3>3. QED
      BY <1>1, <3>1, <3>2 DEF TxInv, Queued, TypeOK
  <2>3. QED
    BY <2>1, <2>2
<1>9. HistoryInv'
  <2>1. history.command \in Nat /\ history.stale \in Nat
    BY <1>1, TypedNow
  <2>2. QED
    BY <1>1, <1>5, <1>7, <2>1 DEF HistoryInv
<1>10. TypeOK'
  <2>1. Len(cmd_queue') <= CmdDepth
    BY <1>1, <1>2 DEF L
  <2>2. QED
    BY <1>1, <1>2, <1>7, <1>8, <2>1 DEF TypeOK, Entry
<1>11. QED
  BY <1>6, <1>8, <1>9, <1>10 DEF PathInv

-----------------------------------------------------------------------------
(* Services.                                                               *)

LEMMA CallKeeps ==
  ASSUME PathInv, NEW request \in Requests, CallService(request)
  PROVE  PathInv'
<1> DEFINE c == [request |-> request, at |-> last, result |-> "pending"]
<1>1. /\ TypeOK /\ QueueInv /\ TxInv /\ HistoryInv
      /\ calls \in Seq(Call) /\ Len(calls) \in Nat /\ Len(calls) < MaxRequests
      /\ tx \in Seq(Entry) /\ calls' = Append(calls, c)
      /\ UNCHANGED <<last, cmd_queue, handled, tx, motor, reading, cached,
                     restarts, history>>
  BY TypedNow DEF PathInv, CallService
<1>2. c \in Call
  BY <1>1 DEF Call, TypeOK
<1> HIDE DEF c
<1>3. calls' \in Seq(Call) /\ Len(calls') = Len(calls) + 1
  BY <1>1, <1>2, AppendProperties
<1>4. TypeOK'
  BY <1>1, <1>3 DEF TypeOK, Call
<1>5. QueueInv'
  BY <1>1 DEF QueueInv
<1>6. HistoryInv'
  BY <1>1, <1>3, DepthAssumption DEF HistoryInv
<1>7. TxInv'
  <2>1. \A i \in 1..Len(calls) : i \in 1..Len(calls')
    BY <1>1, <1>3
  <2>2. \A k \in DOMAIN tx : Queued(tx[k], history.command, handled, Len(calls'))
    BY <1>1, <2>1 DEF TxInv, Queued
  <2>3. QED
    BY <1>1, <2>2 DEF TxInv
<1>8. QED
  BY <1>4, <1>5, <1>6, <1>7 DEF PathInv

(* A response changes nothing but the result of its call.                  *)
LEMMA RespondSays ==
  ASSUME TypeOK, NEW i \in DOMAIN calls, NEW frame, NEW ok \in BOOLEAN,
         Respond(i, frame, ok)
  PROVE  /\ calls' \in Seq(Call) /\ Len(calls') = Len(calls) /\ Send(frame, i, ok)
         /\ calls'[i].request = calls[i].request
         /\ calls'[i].result = IF ok THEN "success" ELSE "failure"
         /\ calls'[i].at = calls[i].at
         /\ \A j \in DOMAIN calls : j # i => calls'[j] = calls[j]
<1> DEFINE result == IF ok THEN "success" ELSE "failure"
           c == [calls[i] EXCEPT !.result = result]
<1>1. calls \in Seq(Call) /\ i \in 1..Len(calls)
  BY TypedNow, LenProperties
<1>2. calls[i] \in Call
  BY <1>1, ElementOfSeq
<1>3. result \in {"pending", "success", "failure", "lost"}
  OBVIOUS
<1>4. calls' = [calls EXCEPT ![i] = c] /\ Send(frame, i, ok)
  BY <1>1 DEF Respond
<1> HIDE DEF result
<1>5. /\ c \in Call /\ c.request = calls[i].request /\ c.result = result
      /\ c.at = calls[i].at
  BY <1>2, <1>3 DEF Call
<1> HIDE DEF c
<1>6. DOMAIN calls = 1..Len(calls)
  BY <1>1, LenProperties
<1>7. /\ calls' \in Seq(Call) /\ Len(calls') = Len(calls) /\ calls'[i] = c
      /\ \A j \in DOMAIN calls : j # i => calls'[j] = calls[j]
  BY <1>1, <1>4, <1>5, <1>6, ExceptSeq
<1>8. QED
  BY <1>4, <1>5, <1>7 DEF result

(* A service writes at most one frame, a request.                          *)
LEMMA ServeSays ==
  ASSUME PathInv, NEW i \in DOMAIN calls, NEW ok \in BOOLEAN, Serve(i, ok)
  PROVE  /\ UNCHANGED <<last, cmd_queue, handled, motor, reading, restarts, history>>
         /\ cached' \in BOOLEAN
         /\ \E frame \in Frame : ModeOf(frame) \in RequestModes /\ Respond(i, frame, ok)
<1>1. TypeOK /\ calls \in Seq(Call) /\ i \in 1..Len(calls)
  BY TypedNow, LenProperties DEF PathInv
<1>2. calls[i].request \in Requests
  <2>1. calls[i] \in Call
    BY <1>1, ElementOfSeq
  <2>2. QED
    BY <2>1 DEF Call
<1>3. CASE OnDisable(i, ok)
  <2>1. PackDisable(CanId) \in Frame /\ ModeOf(PackDisable(CanId)) \in RequestModes
    BY DisableSays DEF RequestModes
  <2>2. QED
    BY <1>1, <1>3, <2>1 DEF OnDisable, TypeOK
<1>4. CASE OnSetOrigin(i, ok)
  <2> DEFINE frame == PackSetOrigin(CanId, calls[i].request.permanent)
  <2>1. frame \in Frame /\ ModeOf(frame) \in RequestModes
    BY OriginSays DEF RequestModes
  <2>2. QED
    BY <1>1, <1>4, <2>1 DEF OnSetOrigin, TypeOK
<1>5. CASE OnSetFeedbackConfig(i, ok)
  <2>1. calls[i].request.service = "set_feedback_config"
    BY <1>5 DEF OnSetFeedbackConfig, NextOf
  <2>2. PICK add \in BOOLEAN, single \in BOOLEAN :
          calls[i].request = SetFeedbackConfig(add, single)
    BY <1>2, <2>1, RequestsAssumption
       DEF Disable, SetOrigin, SetFeedbackConfig
  <2>3. calls[i].request.add \in BOOLEAN /\ calls[i].request.single \in BOOLEAN
    BY <2>2 DEF SetFeedbackConfig
  <2> DEFINE frame == PackFeedbackConfig(CanId, calls[i].request.add,
                                         calls[i].request.single)
  <2>4. frame \in Frame /\ ModeOf(frame) \in RequestModes
    BY <2>3, ConfigSays DEF RequestModes
  <2>5. QED
    BY <1>1, <1>5, <2>4 DEF OnSetFeedbackConfig, TypeOK
<1>6. QED
  BY <1>3, <1>4, <1>5 DEF Serve

LEMMA ServeKeeps ==
  ASSUME PathInv, NEW i \in DOMAIN calls, NEW ok \in BOOLEAN, Serve(i, ok)
  PROVE  PathInv'
<1>1. /\ TypeOK /\ QueueInv /\ TxInv /\ HistoryInv
      /\ calls \in Seq(Call) /\ Len(calls) \in Nat /\ tx \in Seq(Entry)
      /\ handled \in Nat /\ i \in 1..Len(calls) /\ Len(calls) <= MaxRequests
  BY TypedNow, LenProperties DEF PathInv, HistoryInv
<1>2. i \in 0..MaxRequests
  BY <1>1, DepthAssumption
<1>3. /\ UNCHANGED <<last, cmd_queue, handled, motor, reading, restarts, history>>
      /\ cached' \in BOOLEAN
      /\ \E frame \in Frame : ModeOf(frame) \in RequestModes /\ Respond(i, frame, ok)
  BY ServeSays
<1>4. PICK frame \in Frame : ModeOf(frame) \in RequestModes /\ Respond(i, frame, ok)
  BY <1>3
<1>5. calls' \in Seq(Call) /\ Len(calls') = Len(calls) /\ Send(frame, i, ok)
  BY <1>1, <1>4, RespondSays
<1>6. tx' \in Seq(Entry) /\ Len(tx') <= TxDepth /\ TxInv'
  <2>1. handled' \in Nat /\ handled <= handled' /\ history' = history
    BY <1>1, <1>3
  <2>2. QED
    BY <1>1, <1>2, <1>4, <1>5, <2>1, SendKeeps
<1>7. TypeOK'
  BY <1>1, <1>3, <1>5, <1>6 DEF TypeOK, Call, Entry
<1>8. QueueInv' /\ HistoryInv'
  BY <1>1, <1>3, <1>5 DEF QueueInv, HistoryInv
<1>9. QED
  BY <1>6, <1>7, <1>8 DEF PathInv

-----------------------------------------------------------------------------
(* The bus, the drain timer and a restart.                                 *)

LEMMA RestartKeeps ==
  ASSUME PathInv, NodeRestarts
  PROVE  PathInv'
<1> DEFINE lost(c) == IF c.result = "pending" THEN [c EXCEPT !.result = "lost"]
                                              ELSE c
<1>1. /\ TypeOK /\ QueueInv /\ TxInv /\ HistoryInv
      /\ calls \in Seq(Call) /\ Len(calls) \in Nat /\ DOMAIN calls = 1..Len(calls)
      /\ cmd_queue' = <<>> /\ restarts' = restarts + 1 /\ restarts < MaxRestarts
      /\ reading' = FALSE /\ cached' = FALSE
      /\ UNCHANGED <<last, handled, tx, motor, history>>
  BY TypedNow, LenProperties DEF PathInv, NodeRestarts
<1>2. \A i \in 1..Len(calls) : lost(calls[i]) \in Call
  <2>1. \A c \in Call : lost(c) \in Call
    BY DEF Call
  <2>2. QED
    BY <1>1, <2>1, ElementOfSeq
<1>3. calls' \in [1..Len(calls) -> Call]
  BY <1>1, <1>2 DEF NodeRestarts
<1>4. calls' \in Seq(Call) /\ Len(calls') = Len(calls)
  BY <1>1, <1>3
<1>5. TypeOK'
  <2>1. cmd_queue' \in Seq(Message) /\ Len(cmd_queue') <= CmdDepth
    BY <1>1, EmptySeq, DepthAssumption
  <2>2. restarts' \in 0..MaxRestarts
    BY <1>1, DepthAssumption DEF TypeOK
  <2>3. QED
    BY <1>1, <1>4, <2>1, <2>2 DEF TypeOK, Call
<1>6. QueueInv'
  BY <1>1 DEF QueueInv
<1>7. TxInv' /\ HistoryInv'
  BY <1>1, <1>4 DEF TxInv, HistoryInv
<1>8. QED
  BY <1>5, <1>6, <1>7 DEF PathInv

LEMMA Reconfigured ==
  ASSUME NEW D, NEW B, NEW F, NEW m \in [drive : D, ext : B, flash : F],
         NEW b \in B, NEW f \in F
  PROVE  [m EXCEPT !.ext = b, !.flash = f] \in [drive : D, ext : B, flash : F]
  OBVIOUS

(* What remains of the queue is still in order.                            *)
LEMMA TailAscends ==
  ASSUME PathInv, BusTransmits,
         \A k \in DOMAIN tx' : Queued(tx'[k], history'.command, handled', Len(calls'))
  PROVE  TxInv'
<1>1. /\ tx \in Seq(Entry) /\ tx # <<>> /\ tx' = Tail(tx) /\ Len(tx) \in Nat
      /\ DOMAIN tx = 1..Len(tx)
  BY TypedNow, LenProperties DEF PathInv, BusTransmits
<1>2. /\ DOMAIN tx' = 1..(Len(tx) - 1)
      /\ \A i \in 1..(Len(tx) - 1) : tx'[i] = tx[i + 1] /\ i + 1 \in 1..Len(tx)
  <2>1. /\ tx' \in Seq(Entry) /\ Len(tx') = Len(tx) - 1
        /\ \A i \in 1..Len(tx') : tx'[i] = tx[i + 1]
    BY <1>1, HeadTailProperties
  <2>2. DOMAIN tx' = 1..Len(tx')
    BY <2>1, LenProperties
  <2>3. QED
    BY <1>1, <2>1, <2>2
<1>3. ASSUME NEW j \in DOMAIN tx', NEW k \in DOMAIN tx', j < k,
             ModeOf(tx'[j].frame) = MODE_CURRENT,
             ModeOf(tx'[k].frame) = MODE_CURRENT
      PROVE  RankOf(tx'[j].frame) < RankOf(tx'[k].frame)
  <2>1. j + 1 \in DOMAIN tx /\ k + 1 \in DOMAIN tx /\ j + 1 < k + 1
    BY <1>1, <1>2, <1>3
  <2>2. tx'[j] = tx[j + 1] /\ tx'[k] = tx[k + 1]
    BY <1>2, <1>3
  <2>3. QED
    BY <1>3, <2>1, <2>2 DEF PathInv, TxInv
<1>4. QED
  BY <1>3 DEF TxInv

(* The frame at the head leaves, and is heard.                             *)
LEMMA TransmitKeeps ==
  ASSUME PathInv, BusTransmits
  PROVE  /\ PathInv'
         /\ HearsCommand => history'.command > history.command
<1> DEFINE h == Head(tx)
           L == Len(tx)
<1> USE DepthAssumption
<1>1. /\ TypeOK /\ QueueInv /\ TxInv /\ HistoryInv
      /\ tx \in Seq(Entry) /\ tx # <<>> /\ tx' = Tail(tx) /\ Len(tx) <= TxDepth
      /\ handled \in 0..MaxCommands /\ Len(calls) \in Nat /\ calls \in Seq(Call)
      /\ Len(calls) <= MaxRequests
      /\ UNCHANGED <<last, cmd_queue, handled, calls, reading, cached, restarts>>
  BY TypedNow DEF PathInv, BusTransmits, TypeOK, HistoryInv
<1>2. /\ L \in Nat \ {0} /\ h = tx[1] /\ h \in Entry
      /\ tx' \in Seq(Entry) /\ Len(tx') = L - 1
      /\ \A i \in 1..(L - 1) : tx'[i] = tx[i + 1] /\ i + 1 \in 1..L /\ 1 < i + 1
      /\ DOMAIN tx = 1..L /\ DOMAIN tx' = 1..(L - 1)
  <2>1. /\ h \in Entry /\ tx' \in Seq(Entry) /\ Len(tx') = L - 1
        /\ \A i \in 1..Len(tx') : tx'[i] = tx[i + 1]
    BY <1>1, HeadTailProperties
  <2>2. L \in Nat \ {0} /\ h = tx[1]
    BY <1>1, EmptySeq
  <2>3. DOMAIN tx = 1..L /\ DOMAIN tx' = 1..Len(tx')
    BY <1>1, <2>1, LenProperties
  <2>4. QED
    BY <2>1, <2>2, <2>3
<1>3. /\ h.frame \in Frame /\ h.from \in 0..MaxRequests
      /\ Queued(h, history.command, handled, Len(calls))
  BY <1>1, <1>2 DEF Entry, TxInv
<1>4. /\ history.command \in 0..MaxCommands /\ history.stale \in 0..MaxCommands
      /\ history.since \in 0..MaxCommands
      /\ history.heard \in SUBSET (1..MaxRequests)
      /\ history \in [heard : SUBSET (1..MaxRequests), command : 0..MaxCommands,
                      since : 0..MaxCommands, stale : 0..MaxCommands]
      /\ motor \in [drive : 0..MaxCommands, ext : BOOLEAN, flash : Nat]
  BY <1>1 DEF TypeOK
<1> DEFINE mode == ModeOf(h.frame)
<1>5. /\ motor' = Obeys(h.frame.data, mode)
      /\ \/ /\ mode \in CommandModes
            /\ history' = [history EXCEPT
                             !.command = motor'.drive,
                             !.stale = IF motor'.drive <= history.since
                                       THEN @ + 1 ELSE @]
         \/ /\ mode \notin CommandModes
            /\ history' = [history EXCEPT
                             !.heard = @ \cup {h.from},
                             !.since = IF mode = MODE_DISABLE
                                       THEN calls[h.from].at ELSE @,
                             !.stale = IF mode = MODE_DISABLE THEN 0 ELSE @]
  BY DEF BusTransmits, ModeOf
<1>9. Len(tx') <= TxDepth
  BY <1>1, <1>2
<1> HIDE DEF h, L, mode
<1> DEFINE Typed == [heard : SUBSET (1..MaxRequests), command : 0..MaxCommands,
                     since : 0..MaxCommands, stale : 0..MaxCommands]
           Motor == [drive : 0..MaxCommands, ext : BOOLEAN, flash : Nat]
<1>6. CASE mode = MODE_CURRENT
  <2> DEFINE rank == RankOf(h.frame)
  <2>1. rank \in Rank /\ history.command < rank /\ rank <= handled
    BY <1>3, <1>6, ModesApart DEF Queued, mode
  <2>2. motor' = [motor EXCEPT !.drive = rank]
    BY <1>5, <1>6, ModesApart DEF Obeys, RankOf
  <2> HIDE DEF rank
  <2>3. motor'.drive = rank /\ motor' \in Motor
    <3>1. rank \in 0..MaxCommands
      BY <2>1 DEF Rank
    <3>2. QED
      BY <1>4, <2>2, <3>1
  <2>4. history' = [history EXCEPT
                      !.command = rank,
                      !.stale = IF rank <= history.since THEN @ + 1 ELSE @]
    BY <1>5, <1>6, <2>3, ModesApart
  <2>5. /\ history'.command = rank
        /\ history'.stale \in {history.stale, history.stale + 1}
        /\ history'.since = history.since /\ history'.heard = history.heard
        /\ DOMAIN history' = {"heard", "command", "since", "stale"}
    BY <1>4, <2>4
  <2>6. /\ history'.stale <= history'.command /\ history'.stale \in 0..MaxCommands
        /\ history'.command \in 0..MaxCommands
    BY <1>1, <1>4, <2>1, <2>5 DEF HistoryInv, Rank
  <2>7. history' \in Typed
    BY <1>4, <2>4, <2>5, <2>6
  <2>8. TxInv'
    <3>1. \A i \in 1..(L - 1) :
            ModeOf(tx[i + 1].frame) = MODE_CURRENT => rank < RankOf(tx[i + 1].frame)
      BY <1>1, <1>2, <1>6 DEF TxInv, mode, rank
    <3>2. \A i \in 1..(L - 1) :
            Queued(tx[i + 1], history.command, handled, Len(calls))
      BY <1>1, <1>2 DEF TxInv
    <3>3. \A i \in 1..(L - 1) : Queued(tx[i + 1], rank, handled, Len(calls))
      BY <3>1, <3>2, ModesApart DEF Queued
    <3>4. \A k \in DOMAIN tx' : Queued(tx'[k], history'.command, handled', Len(calls'))
      BY <1>1, <1>2, <2>5, <3>3
    <3>5. QED
      BY <3>4, TailAscends
  <2>9. HistoryInv'
    <3>1. history'.command <= handled'
      BY <1>1, <2>1, <2>5
    <3>2. Len(calls') <= MaxRequests
      BY <1>1
    <3>3. QED
      BY <2>6, <3>1, <3>2 DEF HistoryInv
  <2>10. TypeOK'
    BY <1>1, <1>2, <1>9, <2>3, <2>7 DEF TypeOK, Entry
  <2>11. QueueInv'
    BY <1>1 DEF QueueInv
  <2>12. history'.command > history.command
    BY <1>4, <2>1, <2>5 DEF Rank
  <2>13. QED
    BY <2>8, <2>9, <2>10, <2>11, <2>12 DEF PathInv
<1>7. CASE mode \in RequestModes
  <2>1. mode \notin CommandModes /\ h.from \in 1..Len(calls)
    BY <1>3, <1>7, ModesApart DEF Queued, mode, RequestModes
  <2>2. motor' \in Motor
    <3>1. h.frame.data[1] \in Nat
      <4>1. h.frame.data[1] \in Byte
        BY <1>3 DEF Frame, Payload
      <4>2. QED
        BY <4>1 DEF Byte
    <3>2. CASE mode = MODE_DISABLE
      <4>1. motor' = [motor EXCEPT !.drive = 0]
        BY <1>5, <3>2, ModesApart DEF Obeys
      <4>2. QED
        BY <1>4, <4>1
    <3>3. CASE mode = MODE_SET_ORIGIN
      <4>1. motor' = [motor EXCEPT !.flash = @ + h.frame.data[1]]
        BY <1>5, <3>3, ModesApart DEF Obeys
      <4>2. QED
        BY <1>4, <3>1, <4>1
    <3>4. CASE mode = MODE_FEEDBACK_CONFIG
      <4> DEFINE ext == h.frame.data[7] >= 128
      <4>1. motor' = [motor EXCEPT !.ext = ext, !.flash = @ + 1]
        BY <1>5, <3>4, ModesApart DEF Obeys
      <4>2. ext \in BOOLEAN
        OBVIOUS
      <4> DEFINE flash == motor.flash + 1
      <4>3. flash \in Nat
        BY <1>4
      <4>4. motor' = [motor EXCEPT !.ext = ext, !.flash = flash]
        BY <4>1
      <4> HIDE DEF ext, flash
      <4>5. QED
        BY <1>4, <4>2, <4>3, <4>4, Reconfigured
    <3>5. QED
      BY <1>7, <3>2, <3>3, <3>4 DEF RequestModes
  <2>3. calls[h.from].at \in 0..MaxCommands /\ h.from \in 1..MaxRequests
    <3>1. calls[h.from] \in Call
      BY <1>1, <2>1, ElementOfSeq
    <3>2. h.from \in 1..MaxRequests
      BY <1>1, <2>1
    <3>3. QED
      BY <3>1, <3>2 DEF Call
  <2>4. history' = [history EXCEPT
                      !.heard = @ \cup {h.from},
                      !.since = IF mode = MODE_DISABLE
                                THEN calls[h.from].at ELSE @,
                      !.stale = IF mode = MODE_DISABLE THEN 0 ELSE @]
    BY <1>5, <2>1
  <2> DEFINE since == IF mode = MODE_DISABLE THEN calls[h.from].at ELSE history.since
             stale == IF mode = MODE_DISABLE THEN 0 ELSE history.stale
             heard == history.heard \cup {h.from}
  <2>12. /\ since \in 0..MaxCommands /\ stale \in {0, history.stale}
        /\ stale \in 0..MaxCommands /\ heard \in SUBSET (1..MaxRequests)
        /\ history' = [history EXCEPT !.heard = heard, !.since = since,
                                      !.stale = stale]
    BY <1>4, <2>3, <2>4
  <2> HIDE DEF since, stale, heard
  <2>5. history' \in Typed
    BY <1>4, <2>12
  <2>6. history'.command = history.command /\ history'.stale \in {0, history.stale}
    BY <1>4, <2>12
  <2>7. TxInv'
    <3>1. \A k \in DOMAIN tx' : Queued(tx'[k], history'.command, handled', Len(calls'))
      BY <1>1, <1>2, <2>6 DEF TxInv
    <3>2. QED
      BY <3>1, TailAscends
  <2>8. HistoryInv'
    <3>1. history'.command <= handled' /\ Len(calls') <= MaxRequests
      BY <1>1, <2>6 DEF HistoryInv
    <3>2. history'.stale <= history'.command
      BY <1>1, <1>4, <2>6 DEF HistoryInv
    <3>3. QED
      BY <3>1, <3>2 DEF HistoryInv
  <2>9. TypeOK'
    BY <1>1, <1>2, <1>9, <2>2, <2>5 DEF TypeOK, Entry
  <2>10. QueueInv'
    BY <1>1 DEF QueueInv
  <2>11. ~HearsCommand
    BY <2>1 DEF HearsCommand, ModeOf, mode, h
  <2>13. QED
    BY <2>7, <2>8, <2>9, <2>10, <2>11 DEF PathInv
<1>8. QED
  BY <1>3, <1>6, <1>7 DEF Queued, mode

LEMMA NextPathInv == PathInv /\ [Next]_vars => PathInv'
<1> SUFFICES ASSUME PathInv, [Next]_vars PROVE PathInv'
  OBVIOUS
<1>1. CASE DrainCaches
  BY <1>1 DEF DrainCaches, PathInv, TypeOK, QueueInv, TxInv, HistoryInv
<1>2. CASE MotorSendsExt
  BY <1>2 DEF MotorSendsExt, PathInv, TypeOK, QueueInv, TxInv, HistoryInv
<1>3. CASE UNCHANGED vars
  BY <1>3 DEF vars, PathInv, TypeOK, QueueInv, TxInv, HistoryInv
<1>4. QED
  BY <1>1, <1>2, <1>3, PublishKeeps, CallKeeps, OnCommandKeeps, ServeKeeps,
     RestartKeeps, TransmitKeeps DEF Next

(* Each queue keeps within its depth, every frame in it is a frame of the  *)
(* protocol, and what the motor reads out of one is a rank that was        *)
(* published.                                                              *)
THEOREM PathTyped == Spec => []TypeOK
<1>1. PathInv => TypeOK
  BY DEF PathInv
<1>2. QED
  BY <1>1, InitPathInv, NextPathInv, PTL DEF Spec

(* Whatever is lost in transit, pushed out of the history, refused by the  *)
(* transmit queue or dropped by a restart, the motor hears commands in the *)
(* order they were published and none of them twice.                       *)
THEOREM HeardInOrder == Spec => CommandsInOrder
<1> DEFINE Forward == HearsCommand => history'.command > history.command
<1>1. PathInv /\ [Next]_vars => [Forward]_vars
  <2> SUFFICES ASSUME PathInv, HearsCommand
               PROVE  history'.command > history.command
    OBVIOUS
  <2>1. BusTransmits
    BY DEF HearsCommand
  <2>2. QED
    BY <2>1, TransmitKeeps
<1>2. QED
  BY <1>1, InitPathInv, NextPathInv, PTL DEF Spec, CommandsInOrder

-----------------------------------------------------------------------------
(* The account of the flash memory.                                        *)

IsFlash(frame) ==
  \/ ModeOf(frame) = MODE_FEEDBACK_CONFIG
  \/ ModeOf(frame) = MODE_SET_ORIGIN /\ frame.data[1] = 1

FlashIn(q) == {k \in DOMAIN q : IsFlash(q[k].frame)}

Written(c) ==
  {i \in DOMAIN c : WritesFlash(c[i].request) /\ c[i].result = "success"}

(* A request to move the origin says how, in one octet.                    *)
OriginInv ==
  \A k \in DOMAIN tx :
    ModeOf(tx[k].frame) = MODE_SET_ORIGIN => tx[k].frame.data[1] \in {0, 1}

FlashInv ==
  /\ OriginInv
  /\ motor.flash + Cardinality(FlashIn(tx)) = Cardinality(Written(calls))

LEMMA FlashInTyped ==
  ASSUME NEW q \in Seq(Entry)
  PROVE  /\ IsFiniteSet(FlashIn(q)) /\ Cardinality(FlashIn(q)) \in Nat
         /\ FlashIn(q) \subseteq 1..Len(q)
<1>1. Len(q) \in Nat /\ DOMAIN q = 1..Len(q)
  BY LenProperties
<1>2. IsFiniteSet(1..Len(q))
  BY <1>1, FS_Interval
<1>3. FlashIn(q) \subseteq 1..Len(q)
  BY <1>1 DEF FlashIn
<1>4. QED
  BY <1>2, <1>3, FS_Subset, FS_CardinalityType

LEMMA FlashAppended ==
  ASSUME NEW q \in Seq(Entry), NEW e \in Entry
  PROVE  Cardinality(FlashIn(Append(q, e)))
           = Cardinality(FlashIn(q)) + (IF IsFlash(e.frame) THEN 1 ELSE 0)
<1> DEFINE L == Len(q)
           r == Append(q, e)
<1>1. /\ L \in Nat /\ DOMAIN q = 1..L /\ DOMAIN r = 1..(L + 1)
      /\ \A k \in 1..L : r[k] = q[k]
      /\ r[L + 1] = e
  <2>1. /\ r \in Seq(Entry) /\ Len(r) = L + 1
        /\ \A k \in 1..L : r[k] = q[k]
        /\ r[L + 1] = e
    BY AppendProperties
  <2>2. DOMAIN r = 1..Len(r) /\ L \in Nat /\ DOMAIN q = 1..L
    BY <2>1, LenProperties
  <2>3. QED
    BY <2>1, <2>2
<1> HIDE DEF L, r
<1>2. L + 1 \notin FlashIn(q)
  BY <1>1 DEF FlashIn
<1>3. 1..(L + 1) = (1..L) \cup {L + 1}
  BY <1>1
<1>4. FlashIn(r) = IF IsFlash(e.frame) THEN FlashIn(q) \cup {L + 1} ELSE FlashIn(q)
  BY <1>1, <1>3 DEF FlashIn
<1>5. IsFiniteSet(FlashIn(q)) /\ Cardinality(FlashIn(q)) \in Nat
  BY FlashInTyped
<1>6. CASE IsFlash(e.frame)
  <2>1. Cardinality(FlashIn(q) \cup {L + 1}) = Cardinality(FlashIn(q)) + 1
    BY <1>2, <1>5, FS_AddElement
  <2>2. QED
    BY <1>4, <1>6, <2>1 DEF r
<1>7. CASE ~IsFlash(e.frame)
  BY <1>4, <1>5, <1>7 DEF r
<1>8. QED
  BY <1>6, <1>7

LEMMA FlashTaken ==
  ASSUME NEW q \in Seq(Entry), q # <<>>
  PROVE  Cardinality(FlashIn(q))
           = Cardinality(FlashIn(Tail(q))) + (IF IsFlash(q[1].frame) THEN 1 ELSE 0)
<1> DEFINE L == Len(q)
           r == Tail(q)
           A == FlashIn(q) \ {1}
           f == [k \in A |-> k - 1]
<1>1. /\ L \in Nat \ {0} /\ DOMAIN q = 1..L /\ DOMAIN r = 1..(L - 1)
      /\ \A k \in 1..(L - 1) : r[k] = q[k + 1]
  <2>1. /\ r \in Seq(Entry) /\ Len(r) = L - 1
        /\ \A k \in 1..Len(r) : r[k] = q[k + 1]
    BY HeadTailProperties
  <2>2. DOMAIN r = 1..Len(r) /\ L \in Nat \ {0} /\ DOMAIN q = 1..L
    BY <2>1, LenProperties, EmptySeq
  <2>3. QED
    BY <2>1, <2>2
<1> HIDE DEF L, r
<1>2. A \subseteq 2..L
  BY <1>1 DEF FlashIn
<1>3. \A k \in 2..L : k \in A <=> k - 1 \in FlashIn(r)
  <2>1. \A k \in 2..L : k - 1 \in 1..(L - 1) /\ (k - 1) + 1 = k /\ k # 1
    BY <1>1
  <2>2. QED
    BY <1>1, <2>1 DEF FlashIn
<1>4. f \in Bijection(A, FlashIn(r))
  <2>1. f \in [A -> FlashIn(r)]
    BY <1>2, <1>3
  <2>2. ASSUME NEW a \in A, NEW b \in A, f[a] = f[b] PROVE a = b
    BY <1>2, <2>2
  <2>3. ASSUME NEW t \in FlashIn(r) PROVE \E s \in A : f[s] = t
    <3>1. t \in 1..(L - 1)
      BY <1>1 DEF FlashIn
    <3>2. t + 1 \in 2..L /\ (t + 1) - 1 = t
      BY <1>1, <3>1
    <3>3. t + 1 \in A
      BY <1>3, <3>2
    <3>4. QED
      BY <3>2, <3>3
  <2>4. QED
    BY <2>1, <2>2, <2>3, Fun_IsBij
<1> HIDE DEF f, A
<1>5. IsFiniteSet(A)
  BY FlashInTyped, FS_RemoveElement DEF A
<1>6. Cardinality(FlashIn(r)) = Cardinality(A)
  BY <1>4, <1>5, FS_Bijection DEF ExistsBijection
<1>7. Cardinality(A) = IF 1 \in FlashIn(q) THEN Cardinality(FlashIn(q)) - 1
                                           ELSE Cardinality(FlashIn(q))
  BY FlashInTyped, FS_RemoveElement DEF A
<1>8. 1 \in FlashIn(q) <=> IsFlash(q[1].frame)
  BY <1>1 DEF FlashIn
<1>9. Cardinality(FlashIn(q)) \in Nat
  BY FlashInTyped
<1>10. QED
  BY <1>6, <1>7, <1>8, <1>9 DEF r

LEMMA WrittenTyped ==
  ASSUME NEW c \in Seq(Call)
  PROVE  IsFiniteSet(Written(c)) /\ Cardinality(Written(c)) \in Nat
<1>1. Len(c) \in Nat /\ DOMAIN c = 1..Len(c)
  BY LenProperties
<1>2. IsFiniteSet(1..Len(c)) /\ Written(c) \subseteq 1..Len(c)
  BY <1>1, FS_Interval DEF Written
<1>3. QED
  BY <1>2, FS_Subset, FS_CardinalityType

(* A flash write is booked with the frame: in the result if it was made,   *)
(* nowhere if it was not.                                                  *)
LEMMA ServeBooks ==
  ASSUME PathInv, FlashInv, NEW i \in DOMAIN calls, NEW ok \in BOOLEAN,
         NEW frame \in Frame, Respond(i, frame, ok),
         calls[i].result = "pending", motor' = motor,
         IsFlash(frame) <=> WritesFlash(calls[i].request),
         ModeOf(frame) = MODE_SET_ORIGIN => frame.data[1] \in {0, 1}
  PROVE  FlashInv'
<1> DEFINE e == [frame |-> frame, from |-> i]
<1>1. /\ TypeOK /\ calls \in Seq(Call) /\ tx \in Seq(Entry) /\ Len(tx) \in Nat
      /\ DOMAIN calls = 1..Len(calls) /\ DOMAIN tx = 1..Len(tx)
      /\ Len(calls) \in Nat /\ Len(calls) <= MaxRequests
  BY TypedNow, LenProperties DEF PathInv, HistoryInv
<1>2. /\ calls' \in Seq(Call) /\ Len(calls') = Len(calls) /\ Send(frame, i, ok)
      /\ calls'[i].request = calls[i].request
      /\ calls'[i].result = IF ok THEN "success" ELSE "failure"
      /\ \A j \in DOMAIN calls : j # i => calls'[j] = calls[j]
  BY <1>1, RespondSays
<1>3. DOMAIN calls' = DOMAIN calls
  BY <1>1, <1>2, LenProperties
<1>4. e \in Entry /\ e.frame = frame
  BY <1>1, DepthAssumption DEF Entry
<1>5. motor.flash \in Nat
  BY <1>1 DEF TypeOK
<1>6. /\ Cardinality(FlashIn(tx)) \in Nat /\ Cardinality(Written(calls)) \in Nat
      /\ IsFiniteSet(Written(calls))
      /\ motor.flash + Cardinality(FlashIn(tx)) = Cardinality(Written(calls))
  BY <1>1, FlashInTyped, WrittenTyped DEF FlashInv
<1>7. i \notin Written(calls)
  BY DEF Written
<1> HIDE DEF e
<1>8. CASE ~ok
  <2>1. tx' = tx
    BY <1>2, <1>8 DEF Send
  <2>2. Written(calls') = Written(calls)
    BY <1>2, <1>3, <1>7, <1>8 DEF Written
  <2>3. QED
    BY <2>1, <2>2 DEF FlashInv, OriginInv
<1>9. CASE ok
  <2>1. tx' = Append(tx, e)
    BY <1>2, <1>9 DEF Send, e
  <2>2. OriginInv'
    <3>1. /\ tx' \in Seq(Entry) /\ Len(tx') = Len(tx) + 1
          /\ \A k \in 1..Len(tx) : tx'[k] = tx[k]
          /\ tx'[Len(tx) + 1] = e
      BY <1>1, <1>4, <2>1, AppendProperties
    <3>2. \A k \in DOMAIN tx' : k \in DOMAIN tx \/ k = Len(tx) + 1
      BY <1>1, <3>1, LenProperties
    <3>3. QED
      BY <1>1, <1>4, <3>1, <3>2 DEF FlashInv, OriginInv
  <2>3. CASE IsFlash(frame)
    <3>1. Written(calls') = Written(calls) \cup {i}
      BY <1>2, <1>3, <1>9, <2>3 DEF Written
    <3>2. Cardinality(Written(calls')) = Cardinality(Written(calls)) + 1
      BY <1>6, <1>7, <3>1, FS_AddElement
    <3>3. Cardinality(FlashIn(tx')) = Cardinality(FlashIn(tx)) + 1
      BY <1>1, <1>4, <2>1, <2>3, FlashAppended
    <3>4. QED
      BY <1>5, <1>6, <2>2, <3>2, <3>3 DEF FlashInv
  <2>4. CASE ~IsFlash(frame)
    <3>1. Written(calls') = Written(calls)
      BY <1>2, <1>3, <1>7, <2>4 DEF Written
    <3>2. Cardinality(FlashIn(tx')) = Cardinality(FlashIn(tx)) + 0
      BY <1>1, <1>4, <2>1, <2>4, FlashAppended
    <3>3. QED
      BY <1>5, <1>6, <2>2, <3>1, <3>2 DEF FlashInv
  <2>5. QED
    BY <2>3, <2>4
<1>10. QED
  BY <1>8, <1>9

LEMMA ServeFlash ==
  ASSUME PathInv, FlashInv, NEW i \in DOMAIN calls, NEW ok \in BOOLEAN,
         Serve(i, ok)
  PROVE  FlashInv'
<1>1. /\ TypeOK /\ calls[i] \in Call /\ calls[i].request \in Requests
  <2>1. TypeOK /\ calls \in Seq(Call) /\ i \in 1..Len(calls)
    BY TypedNow, LenProperties DEF PathInv
  <2>2. calls[i] \in Call
    BY <2>1, ElementOfSeq
  <2>3. QED
    BY <2>1, <2>2 DEF Call
<1>2. CASE OnDisable(i, ok)
  <2> DEFINE frame == PackDisable(CanId)
  <2>1. frame \in Frame /\ ModeOf(frame) = MODE_DISABLE
    BY DisableSays
  <2>2. /\ Respond(i, frame, ok) /\ motor' = motor
        /\ calls[i].result = "pending" /\ calls[i].request.service = "disable"
    BY <1>2 DEF OnDisable, NextOf
  <2> HIDE DEF frame
  <2>3. ~IsFlash(frame) /\ ~WritesFlash(calls[i].request)
    BY <2>1, <2>2, ModesApart DEF IsFlash, WritesFlash
  <2>4. QED
    BY <2>1, <2>2, <2>3, ModesApart, ServeBooks
<1>3. CASE OnSetOrigin(i, ok)
  <2> DEFINE permanent == calls[i].request.permanent
             frame == PackSetOrigin(CanId, permanent)
  <2>1. /\ Respond(i, frame, ok) /\ motor' = motor
        /\ calls[i].result = "pending" /\ calls[i].request.service = "set_origin"
    BY <1>3 DEF OnSetOrigin, NextOf
  <2>2. /\ frame \in Frame /\ ModeOf(frame) = MODE_SET_ORIGIN
        /\ frame.data[1] = IF permanent THEN 1 ELSE 0
    BY OriginSays
  <2> HIDE DEF frame, permanent
  <2>3. WritesFlash(calls[i].request) <=> permanent
    BY <2>1, Zenon DEF WritesFlash, permanent
  <2>4. IsFlash(frame) <=> permanent
    BY <2>2, ModesApart DEF IsFlash
  <2>5. IsFlash(frame) <=> WritesFlash(calls[i].request)
    BY <2>3, <2>4
  <2>6. frame.data[1] \in {0, 1}
    BY <2>2
  <2>7. QED
    BY <2>1, <2>2, <2>5, <2>6, ServeBooks DEF frame
<1>4. CASE OnSetFeedbackConfig(i, ok)
  <2> DEFINE frame == PackFeedbackConfig(CanId, calls[i].request.add,
                                         calls[i].request.single)
  <2>1. /\ Respond(i, frame, ok) /\ motor' = motor
        /\ calls[i].result = "pending"
        /\ calls[i].request.service = "set_feedback_config"
    BY <1>4 DEF OnSetFeedbackConfig, NextOf
  <2>2. PICK add \in BOOLEAN, single \in BOOLEAN :
          calls[i].request = SetFeedbackConfig(add, single)
    BY <1>1, <2>1, RequestsAssumption
       DEF Disable, SetOrigin, SetFeedbackConfig
  <2>3. calls[i].request.add \in BOOLEAN /\ calls[i].request.single \in BOOLEAN
    BY <2>2 DEF SetFeedbackConfig
  <2>4. frame \in Frame /\ ModeOf(frame) = MODE_FEEDBACK_CONFIG
    BY <2>3, ConfigSays
  <2> HIDE DEF frame
  <2>5. IsFlash(frame) /\ WritesFlash(calls[i].request)
    BY <2>1, <2>4 DEF IsFlash, WritesFlash
  <2>6. QED
    BY <2>1, <2>4, <2>5, ModesApart, ServeBooks
<1>5. QED
  BY <1>2, <1>3, <1>4 DEF Serve

LEMMA OnCommandFlash ==
  ASSUME PathInv, FlashInv, NEW ok \in BOOLEAN, OnCommand(ok)
  PROVE  FlashInv'
<1> DEFINE m == Head(cmd_queue)
           e == [frame |-> CommandFrame(m.rank), from |-> 0]
<1>1. /\ tx \in Seq(Entry) /\ Len(tx) \in Nat /\ DOMAIN tx = 1..Len(tx)
      /\ calls' = calls /\ motor' = motor
  BY TypedNow, LenProperties DEF PathInv, OnCommand
<1>2. m.mode \in {MODE_CURRENT, 7} /\ m.rank \in Rank
  <2>1. m \in Message
    BY TypedNow, HeadTailProperties DEF PathInv, OnCommand
  <2>2. QED
    BY <2>1 DEF Message
<1>3. /\ e \in Entry /\ ModeOf(e.frame) = MODE_CURRENT
  <2>1. 0 \in 0..MaxRequests
    BY DepthAssumption
  <2>2. QED
    BY <1>2, <2>1, CommandSays DEF Entry
<1>4. tx' = tx \/ tx' = Append(tx, e)
  BY <1>2, ModesApart DEF OnCommand, Send, CommandFrame
<1> HIDE DEF m, e
<1>5. ~IsFlash(e.frame)
  BY <1>3, ModesApart DEF IsFlash
<1>6. CASE tx' = tx
  BY <1>1, <1>6 DEF FlashInv, OriginInv
<1>7. CASE tx' = Append(tx, e)
  <2>1. Cardinality(FlashIn(tx')) = Cardinality(FlashIn(tx)) + 0
    BY <1>1, <1>3, <1>5, <1>7, FlashAppended
  <2>2. Cardinality(FlashIn(tx)) \in Nat
    BY <1>1, FlashInTyped
  <2>3. OriginInv'
    <3>1. /\ tx' \in Seq(Entry) /\ Len(tx') = Len(tx) + 1
          /\ \A k \in 1..Len(tx) : tx'[k] = tx[k]
          /\ tx'[Len(tx) + 1] = e
      BY <1>1, <1>3, <1>7, AppendProperties
    <3>2. \A k \in DOMAIN tx' : k \in DOMAIN tx \/ k = Len(tx) + 1
      BY <1>1, <3>1, LenProperties
    <3>3. QED
      BY <1>1, <1>3, <3>1, <3>2, ModesApart DEF FlashInv, OriginInv
  <2>4. QED
    BY <1>1, <2>1, <2>2, <2>3 DEF FlashInv
<1>8. QED
  BY <1>4, <1>6, <1>7

(* The motor writes its flash for exactly the frames that were counted.    *)
LEMMA TransmitFlash ==
  ASSUME PathInv, FlashInv, BusTransmits
  PROVE  FlashInv'
<1> DEFINE h == tx[1].frame
           mode == ModeOf(h)
<1>1. /\ TypeOK /\ TxInv /\ tx \in Seq(Entry) /\ tx # <<>> /\ tx' = Tail(tx)
      /\ calls' = calls /\ Head(tx) = tx[1]
      /\ Len(tx) \in Nat \ {0} /\ DOMAIN tx = 1..Len(tx)
  BY TypedNow, LenProperties, EmptySeq DEF PathInv, BusTransmits
<1>2. motor' = Obeys(h.data, mode)
  BY <1>1 DEF BusTransmits, ModeOf
<1>3. motor \in [drive : 0..MaxCommands, ext : BOOLEAN, flash : Nat]
  BY <1>1 DEF TypeOK
<1>4. /\ mode \in RequestModes \cup {MODE_CURRENT}
      /\ mode = MODE_SET_ORIGIN => h.data[1] \in {0, 1}
  BY <1>1 DEF TxInv, Queued, FlashInv, OriginInv
<1>5. /\ Cardinality(FlashIn(tx))
           = Cardinality(FlashIn(tx')) + (IF IsFlash(h) THEN 1 ELSE 0)
      /\ Cardinality(FlashIn(tx')) \in Nat
  <2>1. tx' \in Seq(Entry)
    BY <1>1, HeadTailProperties
  <2>2. QED
    BY <1>1, <2>1, FlashTaken, FlashInTyped
<1> HIDE DEF h, mode
<1>6. motor'.flash = motor.flash + (IF IsFlash(h) THEN 1 ELSE 0)
  <2>1. IsFlash(h) <=> \/ mode = MODE_FEEDBACK_CONFIG
                       \/ mode = MODE_SET_ORIGIN /\ h.data[1] = 1
    BY DEF IsFlash, mode
  <2>2. CASE mode = MODE_DISABLE
    <3>1. motor' = [motor EXCEPT !.drive = 0]
      BY <1>2, <2>2, ModesApart DEF Obeys
    <3>2. motor'.flash = motor.flash /\ ~IsFlash(h)
      BY <1>3, <2>1, <2>2, <3>1, ModesApart
    <3>3. QED
      BY <1>3, <3>2
  <2>3. CASE mode = MODE_SET_ORIGIN
    <3>1. motor' = [motor EXCEPT !.flash = @ + h.data[1]]
      BY <1>2, <2>3, ModesApart DEF Obeys
    <3>2. motor'.flash = motor.flash + h.data[1] /\ (IsFlash(h) <=> h.data[1] = 1)
      BY <1>3, <2>1, <2>3, <3>1, ModesApart
    <3>3. QED
      BY <1>3, <1>4, <2>3, <3>2
  <2>4. CASE mode = MODE_FEEDBACK_CONFIG
    <3> DEFINE ext == h.data[7] >= 128
    <3>1. motor' = [motor EXCEPT !.ext = ext, !.flash = @ + 1]
      BY <1>2, <2>4, ModesApart DEF Obeys
    <3> HIDE DEF ext
    <3>2. motor'.flash = motor.flash + 1 /\ IsFlash(h)
      BY <1>3, <2>1, <2>4, <3>1
    <3>3. QED
      BY <1>3, <3>2
  <2>5. CASE mode = MODE_CURRENT
    <3> DEFINE drive == GetInt32(h.data[1], h.data[2], h.data[3], h.data[4])
    <3>1. motor' = [motor EXCEPT !.drive = drive]
      BY <1>2, <2>5, ModesApart DEF Obeys
    <3> HIDE DEF drive
    <3>2. motor'.flash = motor.flash /\ ~IsFlash(h)
      BY <1>3, <2>1, <2>5, <3>1, ModesApart
    <3>3. QED
      BY <1>3, <3>2
  <2>6. QED
    BY <1>4, <2>2, <2>3, <2>4, <2>5 DEF RequestModes
<1>7. OriginInv'
  <2>1. /\ tx' \in Seq(Entry) /\ Len(tx') = Len(tx) - 1
        /\ \A k \in 1..Len(tx') : tx'[k] = tx[k + 1]
    BY <1>1, HeadTailProperties
  <2>2. DOMAIN tx' = 1..(Len(tx) - 1)
    BY <2>1, LenProperties
  <2>3. \A k \in 1..(Len(tx) - 1) : k + 1 \in 1..Len(tx)
    BY <1>1
  <2>4. QED
    BY <1>1, <2>1, <2>2, <2>3 DEF FlashInv, OriginInv
<1>8. motor.flash + Cardinality(FlashIn(tx)) = Cardinality(Written(calls))
  BY DEF FlashInv
<1>9. motor.flash \in Nat
  BY <1>3
<1>10. motor'.flash + Cardinality(FlashIn(tx')) = Cardinality(Written(calls))
  BY <1>5, <1>6, <1>8, <1>9
<1>11. QED
  BY <1>1, <1>7, <1>10 DEF FlashInv

LEMMA NextFlashInv == PathInv /\ FlashInv /\ [Next]_vars => FlashInv'
<1> SUFFICES ASSUME PathInv, FlashInv, [Next]_vars PROVE FlashInv'
  OBVIOUS
<1>1. calls \in Seq(Call) /\ Len(calls) \in Nat /\ DOMAIN calls = 1..Len(calls)
  BY TypedNow, LenProperties DEF PathInv
<1>2. ASSUME NEW request \in Requests, CallService(request) PROVE FlashInv'
  <2> DEFINE c == [request |-> request, at |-> last, result |-> "pending"]
  <2>1. /\ calls' = Append(calls, c) /\ tx' = tx /\ motor' = motor
        /\ c.result = "pending" /\ c \in Call
    BY <1>2, TypedNow DEF CallService, PathInv, TypeOK, Call
  <2> HIDE DEF c
  <2>2. /\ calls' \in Seq(Call) /\ Len(calls') = Len(calls) + 1
        /\ \A i \in 1..Len(calls) : calls'[i] = calls[i]
        /\ calls'[Len(calls) + 1] = c
    BY <1>1, <2>1, AppendProperties
  <2>3. DOMAIN calls' = DOMAIN calls \cup {Len(calls) + 1}
    BY <1>1, <2>2, LenProperties
  <2>4. Written(calls') = Written(calls)
    BY <1>1, <2>1, <2>2, <2>3 DEF Written
  <2>5. QED
    BY <2>1, <2>4 DEF FlashInv, OriginInv
<1>3. CASE NodeRestarts
  <2>1. Written(calls') = Written(calls)
    <3>1. /\ DOMAIN calls' = DOMAIN calls
          /\ \A i \in DOMAIN calls :
               calls'[i] = IF calls[i].result = "pending"
                           THEN [calls[i] EXCEPT !.result = "lost"] ELSE calls[i]
      BY <1>3 DEF NodeRestarts
    <3>2. ASSUME NEW i \in DOMAIN calls
          PROVE  i \in Written(calls') <=> i \in Written(calls)
      <4>1. calls[i] \in Call
        BY <1>1, ElementOfSeq
      <4>2. CASE calls[i].result = "pending"
        <5>1. calls'[i].result = "lost"
          BY <3>1, <4>1, <4>2 DEF Call
        <5>2. QED
          BY <4>2, <5>1 DEF Written
      <4>3. CASE calls[i].result # "pending"
        BY <3>1, <4>3 DEF Written
      <4>4. QED
        BY <4>2, <4>3
    <3>3. QED
      BY <3>1, <3>2 DEF Written
  <2>2. tx' = tx /\ motor' = motor
    BY <1>3 DEF NodeRestarts
  <2>3. QED
    BY <2>1, <2>2 DEF FlashInv, OriginInv
<1>4. CASE UNCHANGED <<calls, tx, motor>>
  BY <1>4 DEF FlashInv, OriginInv
<1>5. QED
  BY <1>2, <1>3, <1>4, OnCommandFlash, ServeFlash, TransmitFlash
     DEF Next, vars, PublishCommand, DrainCaches, MotorSendsExt

(* The motor's flash memory is written once for each call that asked for   *)
(* it and was told it succeeded, and for nothing else: no failed, lost or  *)
(* ordinary request wears it out, and no such success is without a write.  *)
THEOREM FlashIsAccounted == Spec => []FlashAccounted
<1>1. Init => FlashInv
  <2> SUFFICES ASSUME Init PROVE FlashInv
    OBVIOUS
  <2>1. FlashIn(tx) = {} /\ Written(calls) = {} /\ motor.flash = 0
    BY DEF Init, FlashIn, Written
  <2>2. OriginInv
    BY DEF Init, OriginInv
  <2>3. QED
    BY <2>1, <2>2, FS_EmptySet DEF FlashInv
<1>2. FlashInv => FlashAccounted
  BY DEF FlashInv, FlashIn, IsFlash, ModeOf, Written, FlashAccounted, FlashFrames
<1>3. QED
  BY <1>1, <1>2, InitPathInv, NextPathInv, NextFlashInv, PTL DEF Spec

-----------------------------------------------------------------------------
(* Stale commands.  Those that can still reach the motor after a request   *)
(* to coast are the ones behind it in the transmit queue and the ones in   *)
(* the history; when the request is written, the latter are all there is.  *)

Behind(q, k) ==
  {r \in Rank : \E j \in DOMAIN q : /\ j > k /\ ModeOf(q[j].frame) = MODE_CURRENT
                                    /\ RankOf(q[j].frame) = r}

InHistory(q) == {r \in Rank : \E j \in DOMAIN q : q[j].rank = r}

Old(q, h, k, at) == {r \in Behind(q, k) \cup InHistory(h) : r <= at}

StaleInv ==
  /\ history.since <= last
  /\ \A i \in DOMAIN calls : calls[i].at <= last
  /\ history.stale + Cardinality(Old(tx, cmd_queue, 0, history.since)) <= CmdDepth
  /\ \A k \in DOMAIN tx :
       ModeOf(tx[k].frame) = MODE_DISABLE =>
         Cardinality(Old(tx, cmd_queue, k, calls[tx[k].from].at)) <= CmdDepth

LEMMA OldFinite ==
  ASSUME NEW S, S \subseteq Rank
  PROVE  IsFiniteSet(S) /\ Cardinality(S) \in Nat
<1>1. IsFiniteSet(Rank)
  BY DepthAssumption, FS_Interval DEF Rank
<1>2. QED
  BY <1>1, FS_Subset, FS_CardinalityType

LEMMA Fewer ==
  ASSUME NEW S, NEW T, S \subseteq T, T \subseteq Rank
  PROVE  Cardinality(S) <= Cardinality(T) /\ Cardinality(S) \in Nat
                                          /\ Cardinality(T) \in Nat
  BY OldFinite, FS_Subset

LEMMA OldIsRanks == \A q, h, k, at : Old(q, h, k, at) \subseteq Rank
  BY DEF Old, Behind, InHistory

(* The history never holds more than it has room for.                      *)
LEMMA HistoryBound ==
  ASSUME PathInv
  PROVE  Cardinality(InHistory(cmd_queue)) <= CmdDepth
<1> DEFINE L == Len(cmd_queue)
           f == [j \in 1..L |-> cmd_queue[j].rank]
<1>1. /\ cmd_queue \in Seq(Message) /\ L \in Nat /\ DOMAIN cmd_queue = 1..L
      /\ L <= CmdDepth
  BY TypedNow, LenProperties DEF PathInv, TypeOK
<1>2. \A j \in 1..L : cmd_queue[j].rank \in Rank
  <2>1. \A j \in 1..L : cmd_queue[j] \in Message
    BY <1>1, ElementOfSeq
  <2>2. QED
    BY <2>1 DEF Message
<1> HIDE DEF L
<1>3. f \in Surjection(1..L, InHistory(cmd_queue))
  <2>1. f \in [1..L -> InHistory(cmd_queue)]
    BY <1>1, <1>2 DEF InHistory
  <2>2. \A r \in InHistory(cmd_queue) : \E j \in 1..L : f[j] = r
    BY <1>1 DEF InHistory
  <2>3. QED
    BY <2>1, <2>2, Fun_IsSurj
<1> HIDE DEF f
<1>4. IsFiniteSet(1..L) /\ Cardinality(1..L) = L
  BY <1>1, FS_Interval
<1>5. Cardinality(InHistory(cmd_queue)) <= L
  BY <1>3, <1>4, FS_Surjection
<1>6. Cardinality(InHistory(cmd_queue)) \in Nat
  BY OldFinite DEF InHistory
<1>7. QED
  BY <1>1, <1>5, <1>6, DepthAssumption

(* A step that moves no frame and adds no command that was published       *)
(* before keeps the bound.                                                 *)
LEMMA StaleKept ==
  ASSUME PathInv, StaleInv,
         history' = history, last' \in Nat, last <= last',
         DOMAIN calls \subseteq DOMAIN calls',
         \A i \in DOMAIN calls' :
           calls'[i].at <= last'
             /\ (i \in DOMAIN calls => calls'[i].at = calls[i].at),
         DOMAIN tx \subseteq DOMAIN tx',
         \A k \in DOMAIN tx : tx'[k] = tx[k],
         \A k \in DOMAIN tx' :
           k \notin DOMAIN tx /\ ModeOf(tx'[k].frame) = MODE_DISABLE =>
             Cardinality(Old(tx', cmd_queue', k, calls'[tx'[k].from].at)) <= CmdDepth,
         \A k \in Nat, at \in Nat :
           (k = 0 \/ k \in DOMAIN tx) /\ at <= last
             => Old(tx', cmd_queue', k, at) \subseteq Old(tx, cmd_queue, k, at)
  PROVE  StaleInv'
<1>1. /\ history.since \in Nat /\ history.stale \in Nat /\ last \in Nat
      /\ tx \in Seq(Entry) /\ calls \in Seq(Call) /\ DOMAIN tx = 1..Len(tx)
      /\ DOMAIN calls = 1..Len(calls) /\ Len(tx) \in Nat
  BY TypedNow, LenProperties DEF PathInv
<1>2. history.since <= last'
  BY <1>1 DEF StaleInv
<1>3. history.stale + Cardinality(Old(tx', cmd_queue', 0, history.since)) <= CmdDepth
  <2>1. Old(tx', cmd_queue', 0, history.since)
          \subseteq Old(tx, cmd_queue, 0, history.since)
    BY <1>1 DEF StaleInv
  <2>2. Cardinality(Old(tx', cmd_queue', 0, history.since))
          <= Cardinality(Old(tx, cmd_queue, 0, history.since))
        /\ Cardinality(Old(tx', cmd_queue', 0, history.since)) \in Nat
        /\ Cardinality(Old(tx, cmd_queue, 0, history.since)) \in Nat
    BY <2>1, OldIsRanks, Fewer
  <2>3. history.stale + Cardinality(Old(tx, cmd_queue, 0, history.since)) <= CmdDepth
    BY DEF StaleInv
  <2>4. QED
    BY <1>1, <2>2, <2>3, DepthAssumption
<1>4. ASSUME NEW k \in DOMAIN tx', ModeOf(tx'[k].frame) = MODE_DISABLE,
             k \in DOMAIN tx
      PROVE  Cardinality(Old(tx', cmd_queue', k, calls'[tx'[k].from].at)) <= CmdDepth
  <2>1. k \in DOMAIN tx /\ tx'[k] = tx[k] /\ k \in Nat
    BY <1>1, <1>4
  <2> DEFINE i == tx[k].from
             at == calls[i].at
  <2>2. i \in DOMAIN calls
    BY <1>1, <1>4, <2>1, ModesApart DEF PathInv, TxInv, Queued
  <2>3. calls[i] \in Call
    BY <1>1, <2>2, ElementOfSeq
  <2>4. at \in Nat /\ at <= last
    BY <2>2, <2>3, DepthAssumption DEF StaleInv, Call
  <2>5. calls'[i].at = at
    BY <2>2
  <2>6. Cardinality(Old(tx, cmd_queue, k, at)) <= CmdDepth
    BY <1>4, <2>1 DEF StaleInv
  <2> HIDE DEF i, at
  <2>7. Old(tx', cmd_queue', k, at) \subseteq Old(tx, cmd_queue, k, at)
    BY <2>1, <2>4
  <2>8. Cardinality(Old(tx', cmd_queue', k, at)) <= Cardinality(Old(tx, cmd_queue, k, at))
        /\ Cardinality(Old(tx', cmd_queue', k, at)) \in Nat
        /\ Cardinality(Old(tx, cmd_queue, k, at)) \in Nat
    BY <2>7, OldIsRanks, Fewer
  <2>9. Cardinality(Old(tx', cmd_queue', k, at)) <= CmdDepth
    BY <2>6, <2>8, DepthAssumption
  <2>10. QED
    BY <2>1, <2>5, <2>9 DEF i
<1>5. QED
  BY <1>2, <1>3, <1>4 DEF StaleInv

LEMMA PublishStale ==
  ASSUME PathInv, StaleInv, NEW mode \in {MODE_CURRENT, 7}, PublishCommand(mode)
  PROVE  StaleInv'
<1> DEFINE m == [mode |-> mode, rank |-> last + 1]
           q == Append(cmd_queue, m)
           L == Len(cmd_queue)
<1>1. /\ last \in Nat /\ last' = last + 1 /\ last < MaxCommands
      /\ cmd_queue \in Seq(Message) /\ L \in Nat /\ L <= CmdDepth
      /\ DOMAIN cmd_queue = 1..L
      /\ cmd_queue' = KeepLast(q) \/ cmd_queue' = cmd_queue
      /\ UNCHANGED <<calls, tx, history>>
  BY TypedNow, LenProperties DEF PathInv, PublishCommand, TypeOK
<1>2. m \in Message /\ m.rank = last + 1
  BY <1>1, DepthAssumption DEF Message, Rank
<1> HIDE DEF m
<1>3. /\ q \in Seq(Message) /\ Len(q) = L + 1
      /\ \A i \in 1..L : q[i] = cmd_queue[i]
      /\ q[L + 1] = m
  BY <1>1, <1>2, AppendProperties
<1> HIDE DEF q, L
<1>4. \A r \in InHistory(cmd_queue') : r \in InHistory(cmd_queue) \/ r = last + 1
  <2>1. CASE cmd_queue' = cmd_queue
    BY <2>1
  <2>2. CASE cmd_queue' = KeepLast(q)
    <3>1. Len(q) <= CmdDepth + 1
      BY <1>1, <1>3, DepthAssumption
    <3>2. PICK n \in {0, 1} : \A i \in 1..Len(cmd_queue') :
            cmd_queue'[i] = q[i + n] /\ i + n \in 1..Len(q)
      BY <1>3, <2>2, <3>1, KeepLastKeeps
    <3>3. DOMAIN cmd_queue' = 1..Len(cmd_queue')
      BY <1>3, <2>2, <3>1, KeepLastKeeps, LenProperties
    <3>4. \A i \in 1..Len(q) : i \in 1..L \/ i = L + 1
      BY <1>1, <1>3
    <3>5. ASSUME NEW i \in DOMAIN cmd_queue'
          PROVE  cmd_queue'[i].rank = last + 1
                   \/ \E j \in DOMAIN cmd_queue : cmd_queue'[i] = cmd_queue[j]
      <4>1. i \in 1..Len(cmd_queue')
        BY <3>3
      <4>2. cmd_queue'[i] = q[i + n] /\ i + n \in 1..Len(q)
        BY <3>2, <4>1
      <4>3. CASE i + n \in 1..L
        BY <1>1, <1>3, <4>2, <4>3
      <4>4. CASE i + n = L + 1
        BY <1>2, <1>3, <4>2, <4>4
      <4>5. QED
        BY <3>4, <4>2, <4>3, <4>4
    <3>6. QED
      BY <3>5 DEF InHistory
  <2>3. QED
    BY <1>1, <2>1, <2>2
<1>5. ASSUME NEW k \in Nat, NEW at \in Nat, at <= last
      PROVE  Old(tx', cmd_queue', k, at) \subseteq Old(tx, cmd_queue, k, at)
  <2>1. ~(last + 1 <= at)
    BY <1>1, <1>5
  <2>2. QED
    BY <1>1, <1>4, <2>1 DEF Old
<1>6. /\ last' \in Nat /\ last <= last'
      /\ \A i \in DOMAIN calls : calls[i].at <= last'
  <2>1. \A i \in DOMAIN calls : calls[i].at \in Nat
    <3>1. calls \in Seq(Call) /\ DOMAIN calls = 1..Len(calls)
      BY TypedNow, LenProperties DEF PathInv
    <3>2. \A i \in DOMAIN calls : calls[i] \in Call
      BY <3>1, ElementOfSeq
    <3>3. QED
      BY <3>2, DepthAssumption DEF Call
  <2>2. QED
    BY <1>1, <2>1 DEF StaleInv
<1>7. QED
  BY <1>1, <1>5, <1>6, StaleKept

LEMMA CallStale ==
  ASSUME PathInv, StaleInv, NEW request \in Requests, CallService(request)
  PROVE  StaleInv'
<1> DEFINE c == [request |-> request, at |-> last, result |-> "pending"]
<1>1. /\ calls \in Seq(Call) /\ Len(calls) \in Nat /\ DOMAIN calls = 1..Len(calls)
      /\ last \in Nat /\ calls' = Append(calls, c) /\ c \in Call /\ c.at = last
      /\ UNCHANGED <<last, cmd_queue, tx, history>>
  BY TypedNow, LenProperties DEF PathInv, CallService, TypeOK, Call
<1> HIDE DEF c
<1>2. /\ calls' \in Seq(Call) /\ Len(calls') = Len(calls) + 1
      /\ \A i \in 1..Len(calls) : calls'[i] = calls[i]
      /\ calls'[Len(calls) + 1] = c
  BY <1>1, AppendProperties
<1>3. DOMAIN calls' = DOMAIN calls \cup {Len(calls) + 1}
  BY <1>1, <1>2, LenProperties
<1>4. \A i \in DOMAIN calls' :
        calls'[i].at <= last' /\ (i \in DOMAIN calls => calls'[i].at = calls[i].at)
  BY <1>1, <1>2, <1>3 DEF StaleInv
<1>5. QED
  BY <1>1, <1>3, <1>4, StaleKept

LEMMA RestartStale ==
  ASSUME PathInv, StaleInv, NodeRestarts
  PROVE  StaleInv'
<1>1. /\ last \in Nat /\ cmd_queue' = <<>> /\ DOMAIN calls' = DOMAIN calls
      /\ UNCHANGED <<last, tx, history>>
  BY TypedNow DEF PathInv, NodeRestarts
<1>2. \A i \in DOMAIN calls : calls'[i].at = calls[i].at
  <2>1. calls \in Seq(Call) /\ DOMAIN calls = 1..Len(calls)
    BY TypedNow, LenProperties DEF PathInv
  <2>2. \A i \in DOMAIN calls : calls[i] \in Call
    BY <2>1, ElementOfSeq
  <2>3. \A c \in Call : [c EXCEPT !.result = "lost"].at = c.at
    BY DEF Call
  <2>4. QED
    BY <2>2, <2>3 DEF NodeRestarts
<1>3. InHistory(cmd_queue') = {}
  BY <1>1 DEF InHistory
<1>4. \A k \in Nat, at \in Nat :
        Old(tx', cmd_queue', k, at) \subseteq Old(tx, cmd_queue, k, at)
  BY <1>1, <1>3 DEF Old
<1>5. \A i \in DOMAIN calls' : calls'[i].at <= last'
  BY <1>1, <1>2 DEF StaleInv
<1>6. QED
  BY <1>1, <1>2, <1>4, <1>5, StaleKept

LEMMA OnCommandStale ==
  ASSUME PathInv, StaleInv, NEW ok \in BOOLEAN, OnCommand(ok)
  PROVE  StaleInv'
<1> DEFINE m == Head(cmd_queue)
           e == [frame |-> CommandFrame(m.rank), from |-> 0]
           L == Len(cmd_queue)
           T == Len(tx)
<1>1. /\ tx \in Seq(Entry) /\ T \in Nat /\ DOMAIN tx = 1..T
      /\ cmd_queue \in Seq(Message) /\ cmd_queue # <<>> /\ cmd_queue' = Tail(cmd_queue)
      /\ last \in Nat /\ UNCHANGED <<last, calls, history>>
  BY TypedNow, LenProperties DEF PathInv, OnCommand
<1>2. /\ L \in Nat \ {0} /\ m = cmd_queue[1] /\ m \in Message
      /\ DOMAIN cmd_queue = 1..L /\ DOMAIN cmd_queue' = 1..(L - 1)
      /\ \A i \in 1..(L - 1) : cmd_queue'[i] = cmd_queue[i + 1]
  <2>1. /\ m \in Message /\ cmd_queue' \in Seq(Message) /\ Len(cmd_queue') = L - 1
        /\ \A i \in 1..Len(cmd_queue') : cmd_queue'[i] = cmd_queue[i + 1]
    BY <1>1, HeadTailProperties
  <2>2. L \in Nat \ {0} /\ m = cmd_queue[1]
    BY <1>1, EmptySeq
  <2>3. DOMAIN cmd_queue = 1..L /\ DOMAIN cmd_queue' = 1..Len(cmd_queue')
    BY <1>1, <2>1, LenProperties
  <2>4. QED
    BY <2>1, <2>2, <2>3
<1>3. /\ m.mode \in {MODE_CURRENT, 7} /\ m.rank \in Rank
      /\ m.rank \in InHistory(cmd_queue)
  BY <1>2 DEF Message, InHistory
<1>4. InHistory(cmd_queue') \subseteq InHistory(cmd_queue)
  <2>1. \A i \in 1..(L - 1) : i + 1 \in 1..L
    BY <1>2
  <2>2. QED
    BY <1>2, <2>1 DEF InHistory
<1>5. /\ e \in Entry /\ ModeOf(e.frame) = MODE_CURRENT /\ RankOf(e.frame) = m.rank
  BY <1>3, DepthAssumption, CommandSays DEF Entry
<1>6. tx' = tx \/ tx' = Append(tx, e)
  BY <1>3, ModesApart DEF OnCommand, Send, CommandFrame
<1> HIDE DEF m, e, L, T
<1>7. /\ DOMAIN tx \subseteq DOMAIN tx' /\ \A k \in DOMAIN tx : tx'[k] = tx[k]
      /\ \A k \in DOMAIN tx' : k \in DOMAIN tx \/ tx'[k] = e
  <2>1. CASE tx' = Append(tx, e)
    <3>1. /\ tx' \in Seq(Entry) /\ Len(tx') = T + 1
          /\ \A k \in 1..T : tx'[k] = tx[k]
          /\ tx'[T + 1] = e
      BY <1>1, <1>5, <2>1, AppendProperties DEF T
    <3>2. DOMAIN tx' = (1..T) \cup {T + 1}
      BY <1>1, <3>1, LenProperties
    <3>3. QED
      BY <1>1, <3>1, <3>2
  <2>2. QED
    BY <1>6, <2>1
<1>8. \A k \in Nat, at \in Nat :
        Old(tx', cmd_queue', k, at) \subseteq Old(tx, cmd_queue, k, at)
  BY <1>3, <1>4, <1>5, <1>7 DEF Old, Behind
<1>9. \A k \in DOMAIN tx' : k \notin DOMAIN tx => ModeOf(tx'[k].frame) # MODE_DISABLE
  BY <1>5, <1>7, ModesApart
<1>10. \A i \in DOMAIN calls' : calls'[i].at <= last'
  BY <1>1 DEF StaleInv
<1>11. QED
  BY <1>1, <1>7, <1>8, <1>9, <1>10, StaleKept

LEMMA ServeStale ==
  ASSUME PathInv, StaleInv, NEW i \in DOMAIN calls, NEW ok \in BOOLEAN, Serve(i, ok)
  PROVE  StaleInv'
<1> DEFINE T == Len(tx)
<1>1. /\ TypeOK /\ tx \in Seq(Entry) /\ T \in Nat /\ DOMAIN tx = 1..T
      /\ calls \in Seq(Call) /\ DOMAIN calls = 1..Len(calls) /\ i \in 0..MaxRequests
      /\ last \in Nat /\ UNCHANGED <<last, cmd_queue, history>>
  <2>1. Len(calls) <= MaxRequests /\ Len(calls) \in Nat
    BY TypedNow DEF PathInv, HistoryInv
  <2>2. DOMAIN calls = 1..Len(calls)
    BY TypedNow, LenProperties DEF PathInv
  <2>3. i \in 0..MaxRequests
    BY <2>1, <2>2, DepthAssumption
  <2>4. QED
    BY <2>2, <2>3, TypedNow, LenProperties, ServeSays DEF PathInv
<1>2. PICK frame \in Frame : ModeOf(frame) \in RequestModes /\ Respond(i, frame, ok)
  BY ServeSays
<1>3. /\ DOMAIN calls' = DOMAIN calls /\ Send(frame, i, ok)
      /\ \A j \in DOMAIN calls : calls'[j].at = calls[j].at
  <2>1. /\ calls' \in Seq(Call) /\ Len(calls') = Len(calls) /\ Send(frame, i, ok)
        /\ calls'[i].at = calls[i].at
        /\ \A j \in DOMAIN calls : j # i => calls'[j] = calls[j]
    BY <1>1, <1>2, RespondSays
  <2>2. QED
    BY <1>1, <2>1, LenProperties
<1> DEFINE e == [frame |-> frame, from |-> i]
<1>4. e \in Entry /\ ModeOf(e.frame) # MODE_CURRENT
  BY <1>1, <1>2, ModesApart DEF Entry, RequestModes
<1>5. tx' = tx \/ tx' = Append(tx, e)
  BY <1>3 DEF Send
<1> HIDE DEF e, T
<1>6. /\ DOMAIN tx \subseteq DOMAIN tx' /\ \A k \in DOMAIN tx : tx'[k] = tx[k]
      /\ \A k \in DOMAIN tx' : k \in DOMAIN tx \/ (k = T + 1 /\ tx'[k] = e)
      /\ \A k \in DOMAIN tx' : ~(k > T + 1)
  <2>1. CASE tx' = Append(tx, e)
    <3>1. /\ tx' \in Seq(Entry) /\ Len(tx') = T + 1
          /\ \A k \in 1..T : tx'[k] = tx[k]
          /\ tx'[T + 1] = e
      BY <1>1, <1>4, <2>1, AppendProperties DEF T
    <3>2. DOMAIN tx' = 1..(T + 1)
      BY <1>1, <3>1, LenProperties
    <3>3. QED
      BY <1>1, <3>1, <3>2
  <2>2. QED
    BY <1>1, <1>5, <2>1
<1>7. \A k \in Nat, at \in Nat :
        Old(tx', cmd_queue', k, at) \subseteq Old(tx, cmd_queue, k, at)
  BY <1>1, <1>4, <1>6 DEF Old, Behind
<1>8. ASSUME NEW k \in DOMAIN tx', k \notin DOMAIN tx
      PROVE  Cardinality(Old(tx', cmd_queue', k, calls'[tx'[k].from].at)) <= CmdDepth
  <2> DEFINE at == calls'[tx'[k].from].at
  <2>1. Behind(tx', k) = {}
    BY <1>1, <1>6, <1>8 DEF Behind
  <2> HIDE DEF at
  <2>2. Old(tx', cmd_queue', k, at) \subseteq InHistory(cmd_queue)
    BY <1>1, <2>1 DEF Old
  <2>3. InHistory(cmd_queue) \subseteq Rank
    BY DEF InHistory
  <2>4. /\ Cardinality(Old(tx', cmd_queue', k, at)) \in Nat
        /\ Cardinality(InHistory(cmd_queue)) \in Nat
        /\ Cardinality(Old(tx', cmd_queue', k, at)) <= Cardinality(InHistory(cmd_queue))
    BY <2>2, <2>3, Fewer
  <2>5. Cardinality(Old(tx', cmd_queue', k, at)) <= CmdDepth
    BY <2>4, HistoryBound, DepthAssumption
  <2>6. QED
    BY <2>5 DEF at
<1>9. \A j \in DOMAIN calls' : calls'[j].at <= last'
  BY <1>1, <1>3 DEF StaleInv
<1>10. QED
  BY <1>1, <1>3, <1>6, <1>7, <1>8, <1>9, StaleKept

(* A command that the motor hears is behind nothing any more; a request to *)
(* coast starts the count again, with what was behind it.                  *)
LEMMA TransmitStale ==
  ASSUME PathInv, StaleInv, BusTransmits
  PROVE  StaleInv'
<1> DEFINE h == tx[1]
           mode == ModeOf(h.frame)
           rank == RankOf(h.frame)
           L == Len(tx)
<1>1. /\ TypeOK /\ QueueInv /\ TxInv /\ tx \in Seq(Entry) /\ tx # <<>> /\ tx' = Tail(tx)
      /\ Head(tx) = h /\ L \in Nat \ {0} /\ DOMAIN tx = 1..L
      /\ UNCHANGED <<last, cmd_queue, calls>>
  BY TypedNow, LenProperties, EmptySeq DEF PathInv, BusTransmits
<1>2. /\ history.since \in Nat /\ history.stale \in Nat /\ last \in Nat
      /\ handled \in Nat
      /\ history \in [heard : SUBSET (1..MaxRequests), command : 0..MaxCommands,
                      since : 0..MaxCommands, stale : 0..MaxCommands]
  BY <1>1, TypedNow DEF TypeOK
<1>3. DOMAIN tx' = 1..(L - 1) /\ \A k \in 1..(L - 1) : tx'[k] = tx[k + 1]
  <2>1. /\ tx' \in Seq(Entry) /\ Len(tx') = L - 1
        /\ \A k \in 1..Len(tx') : tx'[k] = tx[k + 1]
    BY <1>1, HeadTailProperties
  <2>2. DOMAIN tx' = 1..Len(tx')
    BY <2>1, LenProperties
  <2>3. QED
    BY <2>1, <2>2
<1>4. /\ mode \in RequestModes \cup {MODE_CURRENT}
      /\ mode = MODE_CURRENT => rank \in Rank /\ rank <= handled
      /\ mode \in RequestModes => h.from \in DOMAIN calls
  <2>1. Queued(h, history.command, handled, Len(calls))
    BY <1>1 DEF TxInv
  <2>2. DOMAIN calls = 1..Len(calls)
    BY TypedNow, LenProperties DEF PathInv
  <2>3. QED
    BY <2>1, <2>2, ModesApart DEF Queued
<1>5. motor' = Obeys(h.frame.data, mode)
  BY <1>1 DEF BusTransmits, ModeOf
<1>6. \/ /\ mode \in CommandModes
         /\ history' = [history EXCEPT
                          !.command = motor'.drive,
                          !.stale = IF motor'.drive <= history.since
                                    THEN @ + 1 ELSE @]
      \/ /\ mode \notin CommandModes
         /\ history' = [history EXCEPT
                          !.heard = @ \cup {h.from},
                          !.since = IF mode = MODE_DISABLE
                                    THEN calls[h.from].at ELSE @,
                          !.stale = IF mode = MODE_DISABLE THEN 0 ELSE @]
  BY <1>1 DEF BusTransmits, ModeOf
<1> HIDE DEF L
<1>7. \A k \in Nat : Behind(tx', k) \subseteq Behind(tx, k + 1)
  <2> SUFFICES ASSUME NEW k \in Nat, NEW r \in Behind(tx', k)
               PROVE  r \in Behind(tx, k + 1)
    OBVIOUS
  <2>1. PICK j \in DOMAIN tx' : /\ j > k /\ ModeOf(tx'[j].frame) = MODE_CURRENT
                                /\ RankOf(tx'[j].frame) = r
    BY DEF Behind
  <2>2. j + 1 \in DOMAIN tx /\ tx'[j] = tx[j + 1] /\ j + 1 > k + 1
    BY <1>1, <1>3, <2>1
  <2>3. QED
    BY <2>1, <2>2 DEF Behind
<1>8. \A k \in Nat : \A at :
        Old(tx', cmd_queue', k, at) \subseteq Old(tx, cmd_queue, k + 1, at)
  BY <1>1, <1>7 DEF Old
<1>9. \A at : Old(tx, cmd_queue, 1, at) \subseteq Old(tx, cmd_queue, 0, at)
  BY <1>1 DEF Old, Behind
<1>10. ASSUME NEW k \in DOMAIN tx', ModeOf(tx'[k].frame) = MODE_DISABLE
       PROVE  Cardinality(Old(tx', cmd_queue', k, calls'[tx'[k].from].at)) <= CmdDepth
  <2> DEFINE at == calls[tx[k + 1].from].at
  <2>1. k \in Nat /\ k + 1 \in DOMAIN tx /\ tx'[k] = tx[k + 1]
    BY <1>1, <1>3
  <2>2. Cardinality(Old(tx, cmd_queue, k + 1, at)) <= CmdDepth
    BY <1>10, <2>1 DEF StaleInv
  <2>3. calls'[tx'[k].from].at = at
    BY <1>1, <2>1
  <2> HIDE DEF at
  <2>4. /\ Cardinality(Old(tx', cmd_queue', k, at))
             <= Cardinality(Old(tx, cmd_queue, k + 1, at))
        /\ Cardinality(Old(tx', cmd_queue', k, at)) \in Nat
        /\ Cardinality(Old(tx, cmd_queue, k + 1, at)) \in Nat
    BY <1>8, <2>1, OldIsRanks, Fewer
  <2>5. QED
    BY <2>2, <2>3, <2>4, DepthAssumption
<1> DEFINE rest(at) == Old(tx', cmd_queue', 0, at)
<1>11. \A at : rest(at) \subseteq Old(tx, cmd_queue, 1, at)
  <2>1. \A at : rest(at) \subseteq Old(tx, cmd_queue, 0 + 1, at)
    BY <1>8
  <2>2. 0 + 1 = 1
    OBVIOUS
  <2>3. QED
    BY <2>1, <2>2
<1> HIDE DEF h, mode, rank, rest
<1>12. /\ history'.since <= last
       /\ history'.stale + Cardinality(rest(history'.since)) <= CmdDepth
  <2>1. CASE mode = MODE_CURRENT
    <3> DEFINE since == history.since
               old == Old(tx, cmd_queue, 0, since)
    <3>1. motor'.drive = rank
      <4>1. motor' = [motor EXCEPT !.drive = rank]
        BY <1>5, <2>1, ModesApart DEF Obeys, RankOf, rank
      <4>2. motor \in [drive : 0..MaxCommands, ext : BOOLEAN, flash : Nat]
        BY <1>1 DEF TypeOK
      <4>3. QED
        BY <4>1, <4>2
    <3>2. /\ history'.since = since
          /\ history'.stale = IF rank <= since THEN history.stale + 1 ELSE history.stale
      BY <1>2, <1>6, <2>1, <3>1, ModesApart
    <3>3. rank \notin Behind(tx, 1)
      <4>1. ASSUME NEW j \in DOMAIN tx, j > 1, ModeOf(tx[j].frame) = MODE_CURRENT
            PROVE  RankOf(tx[j].frame) > rank
        <5>1. 1 \in DOMAIN tx /\ 1 < j
          BY <1>1, <4>1
        <5>2. rank < RankOf(tx[j].frame)
          BY <1>1, <2>1, <4>1, <5>1 DEF TxInv, mode, rank, h
        <5>3. QED
          BY <5>2
      <4>2. rank \in Int
        BY <1>4, <2>1 DEF Rank
      <4>3. QED
        BY <4>1, <4>2 DEF Behind
    <3>4. rank \notin InHistory(cmd_queue)
      <4>1. \A i \in DOMAIN cmd_queue : handled < cmd_queue[i].rank
        BY <1>1 DEF QueueInv
      <4>2. rank \in Int /\ rank <= handled
        BY <1>4, <2>1 DEF Rank
      <4>3. QED
        BY <1>2, <4>1, <4>2 DEF InHistory
    <3>5. rest(since) \subseteq old \ {rank}
      <4>1. rank \notin Old(tx, cmd_queue, 1, since)
        BY <3>3, <3>4 DEF Old
      <4>2. QED
        BY <1>9, <1>11, <4>1
    <3>6. old \subseteq Rank
      BY OldIsRanks
    <3>7. history.stale + Cardinality(old) <= CmdDepth /\ since <= last
      BY DEF StaleInv
    <3> HIDE DEF old, since
    <3>8. CASE rank <= since
      <4>1. rank \in old
        <5>1. rank \in Behind(tx, 0)
          BY <1>1, <1>4, <2>1 DEF Behind, mode, rank, h
        <5>2. QED
          BY <3>8, <5>1 DEF Old, old
      <4>2. /\ Cardinality(old \ {rank}) = Cardinality(old) - 1
            /\ Cardinality(old) \in Nat
        BY <3>6, <4>1, OldFinite, FS_RemoveElement
      <4>3. /\ Cardinality(rest(since)) <= Cardinality(old \ {rank})
            /\ Cardinality(rest(since)) \in Nat
            /\ Cardinality(old \ {rank}) \in Nat
        <5>1. old \ {rank} \subseteq Rank
          BY <3>6
        <5>2. QED
          BY <3>5, <5>1, Fewer
      <4>4. history'.stale = history.stale + 1
        BY <3>2, <3>8
      <4>5. history.stale + 1 + Cardinality(rest(since)) <= CmdDepth
        BY <1>2, <3>7, <4>2, <4>3, DepthAssumption
      <4>6. QED
        BY <3>2, <3>7, <4>4, <4>5
    <3>9. CASE ~(rank <= since)
      <4>1. rest(since) \subseteq old
        BY <3>5
      <4>2. /\ Cardinality(rest(since)) <= Cardinality(old)
            /\ Cardinality(rest(since)) \in Nat /\ Cardinality(old) \in Nat
        BY <3>6, <4>1, Fewer
      <4>3. history'.stale = history.stale
        BY <3>2, <3>9
      <4>4. history.stale + Cardinality(rest(since)) <= CmdDepth
        BY <1>2, <3>7, <4>2, DepthAssumption
      <4>5. QED
        BY <3>2, <3>7, <4>3, <4>4
    <3>10. QED
      BY <3>8, <3>9
  <2>2. CASE mode = MODE_DISABLE
    <3> DEFINE at == calls[h.from].at
               old == Old(tx, cmd_queue, 1, at)
    <3>1. mode \notin CommandModes /\ h.from \in DOMAIN calls
      BY <1>4, <2>2, ModesApart DEF RequestModes
    <3>2. history'.since = at /\ history'.stale = 0
      BY <1>2, <1>6, <2>2, <3>1
    <3>3. at <= last
      BY <3>1 DEF StaleInv
    <3>4. Cardinality(old) <= CmdDepth
      <4>1. 1 \in DOMAIN tx
        BY <1>1
      <4>2. QED
        BY <2>2, <4>1 DEF StaleInv, mode, h
    <3>5. rest(at) \subseteq old
      BY <1>11
    <3>6. old \subseteq Rank
      BY OldIsRanks
    <3> HIDE DEF at, old
    <3>7. /\ Cardinality(rest(at)) <= Cardinality(old)
          /\ Cardinality(rest(at)) \in Nat /\ Cardinality(old) \in Nat
      BY <3>5, <3>6, Fewer
    <3>8. 0 + Cardinality(rest(at)) <= CmdDepth
      BY <3>4, <3>7, DepthAssumption
    <3>9. QED
      BY <3>2, <3>3, <3>8
  <2>3. CASE mode \in RequestModes /\ mode # MODE_DISABLE
    <3> DEFINE since == history.since
               old == Old(tx, cmd_queue, 0, since)
    <3>1. mode \notin CommandModes
      BY <2>3, ModesApart DEF RequestModes
    <3>2. history'.since = since /\ history'.stale = history.stale
      BY <1>2, <1>6, <2>3, <3>1
    <3>3. history.stale + Cardinality(old) <= CmdDepth /\ since <= last
      BY DEF StaleInv
    <3>4. rest(since) \subseteq old
      BY <1>9, <1>11
    <3>5. old \subseteq Rank
      BY OldIsRanks
    <3> HIDE DEF since, old
    <3>6. /\ Cardinality(rest(since)) <= Cardinality(old)
          /\ Cardinality(rest(since)) \in Nat /\ Cardinality(old) \in Nat
      BY <3>4, <3>5, Fewer
    <3>7. history.stale + Cardinality(rest(since)) <= CmdDepth
      BY <1>2, <3>3, <3>6, DepthAssumption
    <3>8. QED
      BY <3>2, <3>3, <3>7
  <2>4. QED
    BY <1>4, <2>1, <2>2, <2>3
<1>13. \A i \in DOMAIN calls' : calls'[i].at <= last'
  BY <1>1 DEF StaleInv
<1>14. history'.since <= last'
  BY <1>1, <1>12
<1>15. QED
  BY <1>10, <1>12, <1>13, <1>14 DEF StaleInv, rest

LEMMA NextStaleInv == PathInv /\ StaleInv /\ [Next]_vars => StaleInv'
<1> SUFFICES ASSUME PathInv, StaleInv, [Next]_vars PROVE StaleInv'
  OBVIOUS
<1>1. CASE DrainCaches
  BY <1>1 DEF DrainCaches, StaleInv
<1>2. CASE MotorSendsExt
  BY <1>2 DEF MotorSendsExt, StaleInv
<1>3. CASE UNCHANGED vars
  BY <1>3 DEF vars, StaleInv
<1>4. QED
  BY <1>1, <1>2, <1>3, PublishStale, CallStale, OnCommandStale, ServeStale,
     RestartStale, TransmitStale DEF Next

LEMMA InitStaleInv == Init => StaleInv
<1> SUFFICES ASSUME Init PROVE StaleInv
  OBVIOUS
<1>1. /\ last = 0 /\ cmd_queue = <<>> /\ calls = <<>> /\ tx = <<>>
      /\ history.since = 0 /\ history.stale = 0
  BY DEF Init
<1>2. DOMAIN calls = {} /\ DOMAIN tx = {} /\ DOMAIN cmd_queue = {}
  BY <1>1
<1>3. Old(tx, cmd_queue, 0, history.since) = {}
  BY <1>2 DEF Old, Behind, InHistory
<1>4. history.stale + Cardinality(Old(tx, cmd_queue, 0, history.since)) <= CmdDepth
  <2>1. Cardinality(Old(tx, cmd_queue, 0, history.since)) = 0
    BY <1>3, FS_EmptySet
  <2>2. QED
    BY <1>1, <2>1, DepthAssumption
<1>5. QED
  BY <1>1, <1>2, <1>4 DEF StaleInv

LEMMA StaleFromInv == PathInv /\ StaleInv => StaleBounded
<1> SUFFICES ASSUME PathInv, StaleInv PROVE StaleBounded
  OBVIOUS
<1>1. Cardinality(Old(tx, cmd_queue, 0, history.since)) \in Nat
  BY OldIsRanks, OldFinite
<1>2. history.stale + Cardinality(Old(tx, cmd_queue, 0, history.since)) <= CmdDepth
  BY DEF StaleInv
<1>3. history.stale \in Nat
  BY TypedNow DEF PathInv
<1>4. QED
  BY <1>1, <1>2, <1>3, DepthAssumption DEF StaleBounded

(* "a stale queued command is worse than a dropped one" (README, ~/cmd):   *)
(* whatever overtakes whatever, a motor that a request made to coast is    *)
(* set moving again by at most a history's worth of the commands that were *)
(* published before the request was made (onCommand, onDisable).           *)
THEOREM StaleIsBounded == Spec => []StaleBounded
<1>1. Init => PathInv /\ StaleInv
  BY InitPathInv, InitStaleInv
<1>2. (PathInv /\ StaleInv) /\ [Next]_vars => (PathInv /\ StaleInv)'
  BY NextPathInv, NextStaleInv
<1>3. QED
  BY <1>1, <1>2, StaleFromInv, PTL DEF Spec

-----------------------------------------------------------------------------
(* What the clients are promised (Actuator).                               *)

(* The frame that carries a request.                                       *)
FrameFor(request) ==
  CASE request.service = "disable" -> PackDisable(CanId)
    [] request.service = "set_origin" -> PackSetOrigin(CanId, request.permanent)
    [] request.service = "set_feedback_config" ->
         PackFeedbackConfig(CanId, request.add, request.single)

IsRequest(e) == ModeOf(e.frame) \in RequestModes

SameService(i, j) == calls[i].request.service = calls[j].request.service

(* What is on its way to the motor was answered with success, has not been *)
(* heard, says what was asked for, and follows the earlier calls of its    *)
(* service.                                                                *)
SentInv ==
  /\ \A k \in DOMAIN tx :
       IsRequest(tx[k]) =>
         /\ tx[k].from \in DOMAIN calls
         /\ calls[tx[k].from].result = "success"
         /\ tx[k].from \notin history.heard
         /\ tx[k].frame = FrameFor(calls[tx[k].from].request)
  /\ \A j, k \in DOMAIN tx :
       /\ j < k /\ IsRequest(tx[j]) /\ IsRequest(tx[k])
       /\ SameService(tx[j].from, tx[k].from)
       => tx[j].from < tx[k].from

(* Nothing else was answered with success, and each service answers in     *)
(* order.                                                                  *)
AnswerInv ==
  /\ \A i \in DOMAIN calls :
       calls[i].result = "success" =>
         \/ i \in history.heard
         \/ \E k \in DOMAIN tx : IsRequest(tx[k]) /\ tx[k].from = i
  /\ \A i \in history.heard : i \in DOMAIN calls /\ calls[i].result = "success"
  /\ \A i, j \in DOMAIN calls :
       i < j /\ SameService(i, j) /\ calls[i].result = "pending"
         => calls[j].result = "pending"

PromiseInv == SentInv /\ AnswerInv

-----------------------------------------------------------------------------
(* The word in octets 7 and 8 says whether the extended frame is wanted.   *)
LEMMA ConfigAdds ==
  ASSUME NEW add \in BOOLEAN, NEW single \in BOOLEAN
  PROVE  (PackFeedbackConfig(CanId, add, single).data[7] >= 128) <=> add
<1> DEFINE word == (IF add THEN 32768 ELSE 0) + (IF single THEN 16384 ELSE 0)
           w == AppendUint16(word)
           z == Zeros(6)
           d == z \o w
<1>1. word \in {0, 16384, 32768, 49152} /\ (add <=> word >= 32768)
  OBVIOUS
<1>2. PackFeedbackConfig(CanId, add, single)
        = MakeFrame(MODE_FEEDBACK_CONFIG, CanId, d)
  BY DEF PackFeedbackConfig
<1> HIDE DEF word
<1>3. w \in Seq(Byte) /\ Len(w) = 2 /\ w[1] = Octet(word, 256)
  <2>1. Octet(word, 256) \in Byte /\ Octet(word, 1) \in Byte
    BY <1>1, OctetByte
  <2>2. QED
    BY <2>1 DEF AppendUint16
<1>4. z \in Seq(Byte) /\ Len(z) = 6
  BY ZerosSeq
<1>5. w[1] >= 128 <=> add
  <2>1. Octet(word, 256) = (word \div 256) % 256
    BY DEF Octet
  <2>2. (word \div 256) % 256 >= 128 <=> word >= 32768
    BY <1>1, SMT
  <2>3. QED
    BY <1>1, <1>3, <2>1, <2>2
<1> HIDE DEF w, z
<1>6. d \in Seq(Byte) /\ Len(d) = 8 /\ d[7] = w[1]
  <2>1. d \in Seq(Byte) /\ Len(d) = Len(z) + Len(w)
    BY <1>3, <1>4, ConcatProperties
  <2>2. \A i \in 1..(Len(z) + Len(w)) :
          d[i] = IF i <= Len(z) THEN z[i] ELSE w[i - Len(z)]
    BY <1>3, <1>4, ConcatProperties
  <2>3. Len(z) + Len(w) = 8 /\ 7 \in 1..8 /\ ~(7 <= Len(z)) /\ 7 - Len(z) = 1
    BY <1>3, <1>4
  <2>4. QED
    BY <2>1, <2>2, <2>3
<1> HIDE DEF d
<1>7. MakeFrame(MODE_FEEDBACK_CONFIG, CanId, d).data[7] = d[7]
  <2>1. Len(d) <= 8 /\ 7 \in 1..Len(d) /\ MODE_FEEDBACK_CONFIG \in Nat
    BY <1>6, ModesApart DEF RequestModes
  <2>2. QED
    BY <1>6, <2>1, FrameMade
<1>8. QED
  BY <1>2, <1>5, <1>6, <1>7

(* A service answers the oldest of its calls with the result of the write  *)
(* of the frame for it.                                                    *)
LEMMA ServeAsks ==
  ASSUME PathInv, NEW i \in DOMAIN calls, NEW ok \in BOOLEAN, Serve(i, ok)
  PROVE  LET frame == FrameFor(calls[i].request)
         IN /\ frame \in Frame /\ ModeOf(frame) \in RequestModes
            /\ Respond(i, frame, ok)
            /\ calls[i].result = "pending"
            /\ \A j \in 1..(i - 1) : SameService(i, j) => calls[j].result # "pending"
            /\ UNCHANGED <<last, motor, history>>
<1> DEFINE frame == FrameFor(calls[i].request)
<1>1. calls[i].request \in Requests
  <2>1. calls \in Seq(Call) /\ i \in 1..Len(calls)
    BY TypedNow, LenProperties DEF PathInv
  <2>2. calls[i] \in Call
    BY <2>1, ElementOfSeq
  <2>3. QED
    BY <2>2 DEF Call
<1>2. CASE OnDisable(i, ok)
  <2>1. frame = PackDisable(CanId)
    BY <1>2 DEF OnDisable, NextOf, FrameFor
  <2>2. QED
    BY <1>2, <2>1, DisableSays DEF OnDisable, NextOf, SameService, RequestModes
<1>3. CASE OnSetOrigin(i, ok)
  <2> DEFINE permanent == calls[i].request.permanent
  <2>1. frame = PackSetOrigin(CanId, permanent)
    BY <1>3 DEF OnSetOrigin, NextOf, FrameFor
  <2>2. /\ PackSetOrigin(CanId, permanent) \in Frame
        /\ ModeOf(PackSetOrigin(CanId, permanent)) = MODE_SET_ORIGIN
    BY OriginSays
  <2>3. QED
    BY <1>3, <2>1, <2>2 DEF OnSetOrigin, NextOf, SameService, RequestModes
<1>4. CASE OnSetFeedbackConfig(i, ok)
  <2> DEFINE pack == PackFeedbackConfig(CanId, calls[i].request.add,
                                        calls[i].request.single)
  <2>1. frame = pack
    BY <1>4 DEF OnSetFeedbackConfig, NextOf, FrameFor
  <2>2. PICK add \in BOOLEAN, single \in BOOLEAN :
          calls[i].request = SetFeedbackConfig(add, single)
    <3>1. calls[i].request.service = "set_feedback_config"
      BY <1>4 DEF OnSetFeedbackConfig, NextOf
    <3>2. QED
      BY <1>1, <3>1, RequestsAssumption DEF Disable, SetOrigin, SetFeedbackConfig
  <2>3. calls[i].request.add \in BOOLEAN /\ calls[i].request.single \in BOOLEAN
    BY <2>2 DEF SetFeedbackConfig
  <2>4. pack \in Frame /\ ModeOf(pack) = MODE_FEEDBACK_CONFIG
    BY <2>3, ConfigSays
  <2>5. QED
    BY <1>4, <2>1, <2>4 DEF OnSetFeedbackConfig, NextOf, SameService, RequestModes
<1>5. QED
  BY <1>2, <1>3, <1>4 DEF Serve

(* Where an entry stands once it is written.                               *)
LEMMA EntryAppended ==
  ASSUME NEW q \in Seq(Entry), NEW e \in Entry
  PROVE  LET r == Append(q, e)
         IN /\ DOMAIN q \subseteq DOMAIN r /\ \A k \in DOMAIN q : r[k] = q[k]
            /\ \A k \in DOMAIN r : k \in DOMAIN q \/ r[k] = e
<1> DEFINE r == Append(q, e)
<1>1. /\ r \in Seq(Entry) /\ Len(r) = Len(q) + 1
      /\ \A k \in 1..Len(q) : r[k] = q[k]
      /\ r[Len(q) + 1] = e
  BY AppendProperties
<1>2. DOMAIN r = 1..Len(r) /\ DOMAIN q = 1..Len(q) /\ Len(q) \in Nat
  BY <1>1, LenProperties
<1>3. QED
  BY <1>1, <1>2

(* Everything that writes no request and lets the motor hear none leaves   *)
(* the promise as it is: calls may be added or given up.                   *)
LEMMA PromiseKept ==
  ASSUME PathInv, PromiseInv, PathInv',
         history'.heard = history.heard,
         tx' = tx \/ \E e \in Entry : tx' = Append(tx, e) /\ ~IsRequest(e),
         Len(calls) <= Len(calls'),
         \A i \in DOMAIN calls :
           /\ calls'[i].request = calls[i].request
           /\ calls'[i].result = "success" <=> calls[i].result = "success",
         \A i, j \in DOMAIN calls' :
           i < j /\ calls'[i].result = "pending" =>
             \/ j \notin DOMAIN calls /\ calls'[j].result = "pending"
             \/ /\ i \in DOMAIN calls /\ calls[i].result = "pending"
                /\ calls[j].result = "pending" => calls'[j].result = "pending",
         \A i \in DOMAIN calls' : i \in DOMAIN calls \/ calls'[i].result = "pending"
  PROVE  PromiseInv'
<1>1. /\ calls \in Seq(Call) /\ calls' \in Seq(Call) /\ tx \in Seq(Entry)
      /\ Len(calls) \in Nat /\ Len(calls') \in Nat /\ Len(tx) \in Nat
      /\ DOMAIN calls = 1..Len(calls) /\ DOMAIN calls' = 1..Len(calls')
      /\ DOMAIN tx = 1..Len(tx)
  <2>1. calls' \in Seq(Call)
    BY DEF PathInv, TypeOK, Call
  <2>2. QED
    BY <2>1, TypedNow, LenProperties DEF PathInv
<1>2. DOMAIN calls \subseteq DOMAIN calls'
  BY <1>1
<1>3. /\ DOMAIN tx \subseteq DOMAIN tx' /\ \A k \in DOMAIN tx : tx'[k] = tx[k]
      /\ \A k \in DOMAIN tx' : IsRequest(tx'[k]) => k \in DOMAIN tx
  <2>1. CASE tx' = tx
    BY <2>1
  <2>2. CASE tx' # tx
    <3>1. PICK e \in Entry : tx' = Append(tx, e) /\ ~IsRequest(e)
      BY <2>2
    <3>2. /\ DOMAIN tx \subseteq DOMAIN Append(tx, e)
          /\ \A k \in DOMAIN tx : Append(tx, e)[k] = tx[k]
          /\ \A k \in DOMAIN Append(tx, e) :
               k \in DOMAIN tx \/ Append(tx, e)[k] = e
      BY <1>1, <3>1, EntryAppended
    <3>3. QED
      BY <3>1, <3>2, Zenon
  <2>3. QED
    BY <2>1, <2>2
<1>4. ASSUME NEW k \in DOMAIN tx', IsRequest(tx'[k])
      PROVE  /\ tx'[k].from \in DOMAIN calls'
             /\ calls'[tx'[k].from].result = "success"
             /\ tx'[k].from \notin history'.heard
             /\ tx'[k].frame = FrameFor(calls'[tx'[k].from].request)
  <2>1. k \in DOMAIN tx /\ tx'[k] = tx[k]
    BY <1>3, <1>4
  <2>2. /\ tx[k].from \in DOMAIN calls /\ calls[tx[k].from].result = "success"
        /\ tx[k].from \notin history.heard
        /\ tx[k].frame = FrameFor(calls[tx[k].from].request)
    BY <1>4, <2>1 DEF PromiseInv, SentInv
  <2>3. QED
    BY <1>2, <2>1, <2>2
<1>5. \A i, j \in DOMAIN calls : (SameService(i, j))' <=> SameService(i, j)
  BY DEF SameService
<1>6. ASSUME NEW j \in DOMAIN tx', NEW k \in DOMAIN tx',
             j < k, IsRequest(tx'[j]), IsRequest(tx'[k]),
             SameService(tx[j].from, tx[k].from)'
      PROVE  tx'[j].from < tx'[k].from
  <2>1. j \in DOMAIN tx /\ tx'[j] = tx[j] /\ k \in DOMAIN tx /\ tx'[k] = tx[k]
    BY <1>3, <1>6
  <2>2. tx[j].from \in DOMAIN calls /\ tx[k].from \in DOMAIN calls
    BY <1>6, <2>1 DEF PromiseInv, SentInv
  <2>3. SameService(tx[j].from, tx[k].from)
    BY <1>6, <2>1, <2>2 DEF SameService
  <2>4. QED
    BY <1>6, <2>1, <2>3 DEF PromiseInv, SentInv
<1>7. SentInv'
  BY <1>4, <1>6 DEF SentInv, IsRequest
<1>8. \A i \in DOMAIN calls' :
        calls'[i].result = "success" =>
          \/ i \in history'.heard
          \/ \E k \in DOMAIN tx' : IsRequest(tx'[k]) /\ tx'[k].from = i
  <2> SUFFICES ASSUME NEW i \in DOMAIN calls', calls'[i].result = "success",
                      i \notin history'.heard
               PROVE  \E k \in DOMAIN tx' : IsRequest(tx'[k]) /\ tx'[k].from = i
    OBVIOUS
  <2>1. i \in DOMAIN calls /\ calls[i].result = "success"
    BY DEF Call
  <2>2. PICK k \in DOMAIN tx : IsRequest(tx[k]) /\ tx[k].from = i
    BY <2>1 DEF PromiseInv, AnswerInv
  <2>3. k \in DOMAIN tx' /\ tx'[k] = tx[k]
    BY <1>3
  <2>4. QED
    BY <2>2, <2>3
<1>9. \A i \in history'.heard : i \in DOMAIN calls' /\ calls'[i].result = "success"
  BY <1>2 DEF PromiseInv, AnswerInv
<1>10. ASSUME NEW i \in DOMAIN calls', NEW j \in DOMAIN calls', i < j,
              SameService(i, j)', calls'[i].result = "pending"
       PROVE  calls'[j].result = "pending"
  <2>1. CASE j \notin DOMAIN calls
    BY <2>1
  <2>2. CASE j \in DOMAIN calls
    <3>1. /\ i \in DOMAIN calls /\ calls[i].result = "pending"
          /\ calls[j].result = "pending" => calls'[j].result = "pending"
      BY <1>10, <2>2
    <3>2. SameService(i, j)
      BY <1>5, <1>10, <2>2, <3>1
    <3>3. QED
      BY <1>10, <2>2, <3>1, <3>2 DEF PromiseInv, AnswerInv
  <2>3. QED
    BY <2>1, <2>2
<1>11. AnswerInv'
  BY <1>8, <1>9, <1>10 DEF AnswerInv, IsRequest
<1>12. QED
  BY <1>7, <1>11 DEF PromiseInv

(* A request that is written follows the others of its service.            *)
LEMMA ServePromise ==
  ASSUME PathInv, PromiseInv, NEW i \in DOMAIN calls, NEW ok \in BOOLEAN,
         Serve(i, ok)
  PROVE  PromiseInv'
<1> DEFINE frame == FrameFor(calls[i].request)
           e == [frame |-> frame, from |-> i]
           T == Len(tx)
<1>1. /\ calls \in Seq(Call) /\ Len(calls) \in Nat /\ DOMAIN calls = 1..Len(calls)
      /\ tx \in Seq(Entry) /\ T \in Nat /\ DOMAIN tx = 1..T /\ TypeOK
      /\ Len(calls) <= MaxRequests
  BY TypedNow, LenProperties DEF PathInv, HistoryInv
<1>2. /\ frame \in Frame /\ ModeOf(frame) \in RequestModes /\ Respond(i, frame, ok)
      /\ calls[i].result = "pending" /\ history' = history
      /\ \A j \in 1..(i - 1) : SameService(i, j) => calls[j].result # "pending"
  BY ServeAsks
<1>3. /\ calls' \in Seq(Call) /\ Len(calls') = Len(calls) /\ Send(frame, i, ok)
      /\ calls'[i].request = calls[i].request
      /\ calls'[i].result = IF ok THEN "success" ELSE "failure"
      /\ \A j \in DOMAIN calls : j # i => calls'[j] = calls[j]
  BY <1>1, <1>2, RespondSays
<1>4. /\ DOMAIN calls' = DOMAIN calls
      /\ \A j \in DOMAIN calls : calls'[j].request = calls[j].request
  BY <1>1, <1>3, LenProperties
<1>5. \A j, k \in DOMAIN calls : SameService(j, k)' <=> SameService(j, k)
  BY <1>4 DEF SameService
<1>6. /\ \A j \in DOMAIN tx : IsRequest(tx[j]) =>
           /\ tx[j].from \in DOMAIN calls /\ tx[j].from # i
           /\ calls[tx[j].from].result = "success"
           /\ tx[j].from \notin history.heard
           /\ tx[j].frame = FrameFor(calls[tx[j].from].request)
      /\ i \notin history.heard
  BY <1>2 DEF PromiseInv, SentInv, AnswerInv
<1>7. \A j \in DOMAIN tx :
        IsRequest(tx[j]) /\ SameService(tx[j].from, i) => tx[j].from < i
  <2> SUFFICES ASSUME NEW j \in DOMAIN tx, IsRequest(tx[j]),
                      SameService(tx[j].from, i), ~(tx[j].from < i)
               PROVE  FALSE
    OBVIOUS
  <2>1. i < tx[j].from
    BY <1>1, <1>6
  <2>2. SameService(i, tx[j].from)
    BY DEF SameService
  <2>3. calls[tx[j].from].result = "pending"
    BY <1>2, <1>6, <2>1, <2>2 DEF PromiseInv, AnswerInv
  <2>4. QED
    BY <1>6, <2>3
<1> HIDE DEF frame, e, T
<1>8. /\ DOMAIN tx \subseteq DOMAIN tx' /\ \A k \in DOMAIN tx : tx'[k] = tx[k]
      /\ \A k \in DOMAIN tx' : k \in DOMAIN tx \/ (ok /\ k = T + 1 /\ tx'[k] = e)
      /\ ok => T + 1 \in DOMAIN tx' /\ tx'[T + 1] = e
  <2>1. CASE ~ok
    BY <1>3, <2>1 DEF Send
  <2>2. CASE ok
    <3>1. tx' = Append(tx, e)
      BY <1>3, <2>2 DEF Send, e
    <3>2. i \in 0..MaxRequests
      BY <1>1, DepthAssumption
    <3>3. e \in Entry
      BY <1>2, <3>2 DEF Entry, e
    <3>4. /\ tx' \in Seq(Entry) /\ Len(tx') = T + 1
          /\ \A k \in 1..T : tx'[k] = tx[k]
          /\ tx'[T + 1] = e
      BY <1>1, <3>1, <3>3, AppendProperties DEF T
    <3>5. DOMAIN tx' = 1..(T + 1)
      BY <3>4, LenProperties
    <3>6. \A k \in 1..(T + 1) : k \in 1..T \/ k = T + 1
      BY <1>1
    <3>7. T + 1 \in 1..(T + 1) /\ 1..T \subseteq 1..(T + 1)
      BY <1>1
    <3>8. QED
      BY <1>1, <2>2, <3>4, <3>5, <3>6, <3>7
  <2>3. QED
    BY <2>1, <2>2
<1>9. e.from = i /\ e.frame = frame /\ IsRequest(e)
  BY <1>2 DEF e, IsRequest
<1>10. ASSUME NEW k \in DOMAIN tx', IsRequest(tx'[k])
       PROVE  /\ tx'[k].from \in DOMAIN calls'
              /\ calls'[tx'[k].from].result = "success"
              /\ tx'[k].from \notin history'.heard
              /\ tx'[k].frame = FrameFor(calls'[tx'[k].from].request)
  <2>1. CASE k \in DOMAIN tx
    <3>1. tx'[k] = tx[k] /\ IsRequest(tx[k])
      BY <1>8, <1>10, <2>1
    <3>2. calls'[tx[k].from] = calls[tx[k].from]
      BY <1>3, <1>6, <2>1, <3>1
    <3>3. QED
      BY <1>2, <1>4, <1>6, <2>1, <3>1, <3>2
  <2>2. CASE ok /\ tx'[k] = e
    BY <1>2, <1>3, <1>4, <1>6, <1>9, <2>2 DEF frame
  <2>3. QED
    BY <1>8, <2>1, <2>2
<1>11. ASSUME NEW j \in DOMAIN tx', NEW k \in DOMAIN tx', j < k,
              IsRequest(tx'[j]), IsRequest(tx'[k]),
              SameService(tx[j].from, tx[k].from)'
       PROVE  tx'[j].from < tx'[k].from
  <2>1. j \in DOMAIN tx
    BY <1>1, <1>8, <1>11
  <2>2. tx'[j] = tx[j] /\ IsRequest(tx[j]) /\ tx[j].from \in DOMAIN calls
    BY <1>6, <1>8, <1>11, <2>1
  <2>3. CASE k \in DOMAIN tx
    <3>1. tx'[k] = tx[k] /\ IsRequest(tx[k]) /\ tx[k].from \in DOMAIN calls
      BY <1>6, <1>8, <1>11, <2>3
    <3>2. SameService(tx[j].from, tx[k].from)
      BY <1>4, <1>11, <2>2, <3>1 DEF SameService
    <3>3. QED
      BY <1>11, <2>1, <2>2, <2>3, <3>1, <3>2 DEF PromiseInv, SentInv
  <2>4. CASE tx'[k] = e
    <3>1. SameService(tx[j].from, i)
      BY <1>4, <1>9, <1>11, <2>2, <2>4 DEF SameService
    <3>2. QED
      BY <1>7, <1>9, <2>1, <2>2, <2>4, <3>1
  <2>5. QED
    BY <1>8, <2>3, <2>4
<1>12. SentInv'
  BY <1>10, <1>11 DEF SentInv, IsRequest
<1>13. ASSUME NEW j \in DOMAIN calls', calls'[j].result = "success",
              j \notin history'.heard
       PROVE  \E k \in DOMAIN tx' : IsRequest(tx'[k]) /\ tx'[k].from = j
  <2>1. CASE j = i
    <3>1. ok
      BY <1>3, <1>13, <2>1
    <3>2. QED
      BY <1>8, <1>9, <2>1, <3>1
  <2>2. CASE j # i
    <3>1. j \in DOMAIN calls /\ calls[j].result = "success" /\ j \notin history.heard
      BY <1>2, <1>3, <1>4, <1>13, <2>2
    <3>2. PICK k \in DOMAIN tx : IsRequest(tx[k]) /\ tx[k].from = j
      BY <3>1 DEF PromiseInv, AnswerInv
    <3>3. QED
      BY <1>8, <3>2
  <2>3. QED
    BY <2>1, <2>2
<1>14. \A j \in history'.heard : j \in DOMAIN calls' /\ calls'[j].result = "success"
  <2>1. \A j \in history.heard : j \in DOMAIN calls /\ calls[j].result = "success"
    BY DEF PromiseInv, AnswerInv
  <2>2. QED
    BY <1>2, <1>3, <1>4, <2>1
<1>15. ASSUME NEW j \in DOMAIN calls', NEW k \in DOMAIN calls', j < k,
              SameService(j, k)', calls'[j].result = "pending"
       PROVE  calls'[k].result = "pending"
  <2>1. j # i
    BY <1>3, <1>15
  <2>2. calls[j].result = "pending" /\ SameService(j, k)
    BY <1>3, <1>4, <1>5, <1>15, <2>1
  <2>3. k # i
    <3>1. SUFFICES ASSUME k = i PROVE FALSE
      OBVIOUS
    <3>2. j \in 1..(i - 1) /\ SameService(i, j)
      BY <1>1, <1>4, <1>15, <2>2, <3>1 DEF SameService
    <3>3. QED
      BY <1>2, <2>2, <3>2
  <2>4. QED
    BY <1>3, <1>4, <1>15, <2>2, <2>3 DEF PromiseInv, AnswerInv
<1>16. AnswerInv'
  BY <1>13, <1>14, <1>15 DEF AnswerInv, IsRequest
<1>17. QED
  BY <1>12, <1>16 DEF PromiseInv

(* A request at the head is heard, and none behind it is the same.         *)
LEMMA TransmitPromise ==
  ASSUME PathInv, PromiseInv, BusTransmits
  PROVE  PromiseInv'
<1> DEFINE L == Len(tx)
           i == tx[1].from
<1>1. /\ TypeOK /\ TxInv /\ tx \in Seq(Entry) /\ tx # <<>> /\ tx' = Tail(tx)
      /\ Head(tx) = tx[1] /\ L \in Nat \ {0} /\ DOMAIN tx = 1..L /\ 1 \in DOMAIN tx
      /\ calls' = calls
  <2>1. tx \in Seq(Entry) /\ tx # <<>>
    BY TypedNow DEF PathInv, BusTransmits
  <2>2. L \in Nat \ {0} /\ DOMAIN tx = 1..L
    BY <2>1, LenProperties, EmptySeq
  <2>3. QED
    BY <2>1, <2>2 DEF PathInv, BusTransmits
<1>2. /\ DOMAIN tx' = 1..(L - 1)
      /\ \A k \in 1..(L - 1) : tx'[k] = tx[k + 1] /\ k + 1 \in DOMAIN tx /\ 1 < k + 1
  <2>1. /\ tx' \in Seq(Entry) /\ Len(tx') = L - 1
        /\ \A k \in 1..Len(tx') : tx'[k] = tx[k + 1]
    BY <1>1, HeadTailProperties
  <2>2. DOMAIN tx' = 1..Len(tx')
    BY <2>1, LenProperties
  <2>3. QED
    BY <1>1, <2>1, <2>2
<1>3. history'.heard = IF IsRequest(tx[1]) THEN history.heard \cup {i}
                                           ELSE history.heard
  <2>1. \/ ModeOf(tx[1].frame) = MODE_CURRENT
        \/ ModeOf(tx[1].frame) \in RequestModes
    BY <1>1 DEF TxInv, Queued
  <2>2. IsRequest(tx[1]) <=> ModeOf(tx[1].frame) \notin CommandModes
    BY <2>1, ModesApart DEF IsRequest, RequestModes
  <2>3. history \in [heard : SUBSET (1..MaxRequests), command : 0..MaxCommands,
                     since : 0..MaxCommands, stale : 0..MaxCommands]
    BY <1>1 DEF TypeOK
  <2>4. QED
    BY <1>1, <2>2, <2>3 DEF BusTransmits, ModeOf
<1>4. \A k \in DOMAIN tx : IsRequest(tx[k]) =>
        /\ tx[k].from \in DOMAIN calls
        /\ calls[tx[k].from].result = "success"
        /\ tx[k].from \notin history.heard
        /\ tx[k].frame = FrameFor(calls[tx[k].from].request)
        /\ tx[k].from \in Nat
  <2>1. DOMAIN calls \subseteq Nat
    BY TypedNow, LenProperties DEF PathInv
  <2>2. QED
    BY <2>1 DEF PromiseInv, SentInv
<1>5. \A k \in DOMAIN tx :
        1 < k /\ IsRequest(tx[1]) /\ IsRequest(tx[k]) => tx[k].from # i
  <2> SUFFICES ASSUME NEW k \in DOMAIN tx, 1 < k, IsRequest(tx[1]),
                      IsRequest(tx[k]), tx[k].from = i
               PROVE  FALSE
    OBVIOUS
  <2>1. SameService(i, tx[k].from)
    BY DEF SameService
  <2>2. i < tx[k].from
    BY <1>1, <2>1 DEF PromiseInv, SentInv
  <2>3. QED
    BY <1>1, <1>4, <2>2
<1> HIDE DEF L, i
<1>6. ASSUME NEW k \in DOMAIN tx', IsRequest(tx'[k])
      PROVE  /\ tx'[k].from \in DOMAIN calls'
             /\ calls'[tx'[k].from].result = "success"
             /\ tx'[k].from \notin history'.heard
             /\ tx'[k].frame = FrameFor(calls'[tx'[k].from].request)
  <2>1. tx'[k] = tx[k + 1] /\ k + 1 \in DOMAIN tx /\ 1 < k + 1
    BY <1>2, <1>6
  <2>2. QED
    BY <1>1, <1>3, <1>4, <1>5, <1>6, <2>1
<1>7. ASSUME NEW j \in DOMAIN tx', NEW k \in DOMAIN tx', j < k,
             IsRequest(tx'[j]), IsRequest(tx'[k]),
             SameService(tx[j].from, tx[k].from)'
      PROVE  tx'[j].from < tx'[k].from
  <2>1. /\ tx'[j] = tx[j + 1] /\ tx'[k] = tx[k + 1]
        /\ j + 1 \in DOMAIN tx /\ k + 1 \in DOMAIN tx
    BY <1>2, <1>7
  <2>2. j + 1 < k + 1
    BY <1>1, <1>2, <1>7
  <2>3. SameService(tx[j + 1].from, tx[k + 1].from)
    BY <1>1, <1>7, <2>1 DEF SameService
  <2>4. QED
    BY <1>7, <2>1, <2>2, <2>3 DEF PromiseInv, SentInv
<1>8. SentInv'
  BY <1>6, <1>7 DEF SentInv, IsRequest
<1>9. ASSUME NEW c \in DOMAIN calls', calls'[c].result = "success",
             c \notin history'.heard
      PROVE  \E k \in DOMAIN tx' : IsRequest(tx'[k]) /\ tx'[k].from = c
  <2>1. c \in DOMAIN calls /\ calls[c].result = "success" /\ c \notin history.heard
    BY <1>1, <1>3, <1>9
  <2>2. PICK k \in DOMAIN tx : IsRequest(tx[k]) /\ tx[k].from = c
    BY <2>1 DEF PromiseInv, AnswerInv
  <2>3. k # 1
    BY <1>3, <1>9, <2>2 DEF i
  <2>4. k - 1 \in DOMAIN tx' /\ (k - 1) + 1 = k
    BY <1>1, <1>2, <2>3
  <2>5. QED
    BY <1>2, <2>2, <2>4
<1>10. \A c \in history'.heard : c \in DOMAIN calls' /\ calls'[c].result = "success"
  BY <1>1, <1>3, <1>4 DEF PromiseInv, AnswerInv, i
<1>11. \A c, d \in DOMAIN calls' :
         c < d /\ SameService(c, d)' /\ calls'[c].result = "pending"
           => calls'[d].result = "pending"
  BY <1>1 DEF PromiseInv, AnswerInv, SameService
<1>12. AnswerInv'
  BY <1>9, <1>10, <1>11 DEF AnswerInv, IsRequest
<1>13. QED
  BY <1>8, <1>12 DEF PromiseInv

LEMMA InitPromiseInv == Init => PromiseInv
<1> SUFFICES ASSUME Init PROVE PromiseInv
  OBVIOUS
<1>1. DOMAIN tx = {} /\ DOMAIN calls = {} /\ history.heard = {}
  BY DEF Init
<1>2. QED
  BY <1>1 DEF PromiseInv, SentInv, AnswerInv

(* What leaves the calls alone and writes no request.                      *)
LEMMA PromiseUntouched ==
  ASSUME PathInv, PromiseInv, PathInv', calls' = calls, history' = history,
         tx' = tx \/ \E e \in Entry : tx' = Append(tx, e) /\ ~IsRequest(e)
  PROVE  PromiseInv'
<1>1. Len(calls) <= Len(calls')
  BY TypedNow DEF PathInv
<1>2. QED
  BY <1>1, PromiseKept

LEMMA NextPromiseInv == PathInv /\ PromiseInv /\ [Next]_vars => PromiseInv'
<1> SUFFICES ASSUME PathInv, PromiseInv, [Next]_vars PROVE PromiseInv'
  OBVIOUS
<1>1. PathInv'
  BY NextPathInv
<1>2. /\ calls \in Seq(Call) /\ Len(calls) \in Nat /\ DOMAIN calls = 1..Len(calls)
      /\ \A i \in DOMAIN calls : calls[i] \in Call
  BY TypedNow, LenProperties, ElementOfSeq DEF PathInv
<1>3. ASSUME NEW mode \in {MODE_CURRENT, 7}, PublishCommand(mode)
      PROVE  PromiseInv'
  BY <1>1, <1>3, PromiseUntouched DEF PublishCommand
<1>4. ASSUME NEW request \in Requests, CallService(request)
      PROVE  PromiseInv'
  <2> DEFINE c == [request |-> request, at |-> last, result |-> "pending"]
             n == Len(calls) + 1
  <2>1. /\ calls' = Append(calls, c) /\ tx' = tx /\ history' = history
        /\ c \in Call /\ c.result = "pending"
    BY <1>4 DEF CallService, Call, PathInv, TypeOK
  <2> HIDE DEF c
  <2>2. /\ Len(calls') = n /\ calls'[n] = c
        /\ \A i \in 1..Len(calls) : calls'[i] = calls[i]
        /\ calls' \in Seq(Call)
    BY <1>2, <2>1, AppendProperties
  <2>3. DOMAIN calls' = 1..n
    BY <2>2, LenProperties
  <2>4. \A i \in DOMAIN calls' : i \in DOMAIN calls \/ i = n
    BY <1>2, <2>3
  <2>5. /\ Len(calls) <= Len(calls')
        /\ \A i \in DOMAIN calls' : i \in DOMAIN calls \/ calls'[i].result = "pending"
        /\ \A i \in DOMAIN calls : calls'[i] = calls[i]
        /\ \A i, j \in DOMAIN calls' : i < j => i \in DOMAIN calls
    BY <1>2, <2>1, <2>2, <2>3, <2>4
  <2>6. \A i, j \in DOMAIN calls' :
          i < j /\ calls'[i].result = "pending" =>
            \/ j \notin DOMAIN calls /\ calls'[j].result = "pending"
            \/ /\ i \in DOMAIN calls /\ calls[i].result = "pending"
               /\ calls[j].result = "pending" => calls'[j].result = "pending"
    BY <2>5
  <2>7. QED
    BY <1>1, <2>1, <2>5, <2>6, PromiseKept
<1>5. ASSUME NEW ok \in BOOLEAN, OnCommand(ok)
      PROVE  PromiseInv'
  <2> DEFINE m == Head(cmd_queue)
             e == [frame |-> CommandFrame(m.rank), from |-> 0]
  <2>1. m.mode \in {MODE_CURRENT, 7} /\ m.rank \in Rank
    <3>1. m \in Message
      BY <1>5, TypedNow, HeadTailProperties DEF PathInv, OnCommand
    <3>2. QED
      BY <3>1 DEF Message
  <2>2. e \in Entry /\ ~IsRequest(e)
    <3>1. 0 \in 0..MaxRequests
      BY DepthAssumption
    <3>2. QED
      BY <2>1, <3>1, CommandSays, ModesApart DEF Entry, IsRequest, RequestModes
  <2>3. tx' = tx \/ tx' = Append(tx, e)
    BY <1>5, <2>1, ModesApart DEF OnCommand, Send, CommandFrame
  <2>4. calls' = calls /\ history' = history
    BY <1>5 DEF OnCommand
  <2> HIDE DEF e
  <2>5. QED
    BY <1>1, <2>2, <2>3, <2>4, PromiseUntouched
<1>6. ASSUME NodeRestarts PROVE PromiseInv'
  <2>1. /\ DOMAIN calls' = DOMAIN calls /\ tx' = tx /\ history' = history
        /\ \A i \in DOMAIN calls :
             calls'[i] = IF calls[i].result = "pending"
                         THEN [calls[i] EXCEPT !.result = "lost"] ELSE calls[i]
    BY <1>6 DEF NodeRestarts
  <2>2. \A i \in DOMAIN calls :
          /\ calls'[i].request = calls[i].request
          /\ calls'[i].result = "success" <=> calls[i].result = "success"
          /\ calls'[i].result # "pending"
    BY <1>2, <2>1 DEF Call
  <2>3. Len(calls) <= Len(calls')
    <3>1. calls' \in Seq(Call)
      BY <1>1 DEF PathInv, TypeOK, Call
    <3>2. Len(calls') \in Nat /\ DOMAIN calls' = 1..Len(calls')
      BY <3>1, LenProperties
    <3>3. QED
      BY <1>2, <2>1, <3>2
  <2>4. QED
    BY <1>1, <2>1, <2>2, <2>3, PromiseKept
<1>7. CASE DrainCaches
  BY <1>1, <1>7, PromiseUntouched DEF DrainCaches
<1>8. CASE MotorSendsExt
  BY <1>1, <1>8, PromiseUntouched DEF MotorSendsExt
<1>9. CASE UNCHANGED vars
  BY <1>1, <1>9, PromiseUntouched DEF vars
<1>10. QED
  BY <1>3, <1>4, <1>5, <1>6, <1>7, <1>8, <1>9, ServePromise, TransmitPromise
     DEF Next

-----------------------------------------------------------------------------
(* The refinement, action by action.                                       *)

LEMMA InitPromises == Init => Service!Init
<1> SUFFICES ASSUME Init PROVE Service!Init
  OBVIOUS
<1>1. motor.drive = 0 /\ motor.ext \in BOOLEAN /\ motor.flash = 0
  BY DEF Init
<1>2. /\ history.command = 0 /\ history.heard = {} /\ history.since = 0
      /\ CmdDepth - history.stale = CmdDepth
  BY DepthAssumption DEF Init
<1>3. QED
  BY <1>1, <1>2 DEF Init, Service!Init

(* The write of a frame is the answer.                                     *)
LEMMA ServeAnswers ==
  ASSUME PathInv, NEW i \in DOMAIN calls, NEW ok \in BOOLEAN, Serve(i, ok)
  PROVE  Service!Next
<1> DEFINE result == IF ok THEN "success" ELSE "failure"
<1>1. /\ calls' = [calls EXCEPT ![i].result = result]
      /\ calls[i].result = "pending"
      /\ \A j \in 1..(i - 1) : SameService(i, j) => calls[j].result # "pending"
      /\ UNCHANGED <<last, motor, history>>
  BY ServeAsks DEF Respond
<1>2. \A j : SameService(i, j) <=> Service!SameService(i, j)
  BY DEF SameService, Service!SameService
<1>3. Service!Answer(i, result)
  BY <1>1, <1>2 DEF Service!Answer
<1>4. result \in {"success", "failure"}
  OBVIOUS
<1> HIDE DEF result
<1>5. QED
  BY <1>3, <1>4 DEF Service!Next

(* A command that is heard is a newer one; if it is stale, the history had *)
(* room for it when the motor was made to coast.                           *)
LEMMA CommandDrives ==
  ASSUME PathInv, StaleBounded', BusTransmits, ModeOf(tx[1].frame) = MODE_CURRENT
  PROVE  Service!Next
<1> DEFINE h == tx[1]
           rank == RankOf(h.frame)
<1>1. /\ TypeOK /\ TxInv /\ QueueInv /\ tx \in Seq(Entry) /\ tx # <<>>
      /\ 1 \in DOMAIN tx /\ Head(tx) = h
      /\ UNCHANGED <<last, calls>>
  <2>1. tx \in Seq(Entry) /\ tx # <<>>
    BY TypedNow DEF PathInv, BusTransmits
  <2>2. 1 \in DOMAIN tx
    BY <2>1, LenProperties, EmptySeq
  <2>3. QED
    BY <2>1, <2>2 DEF PathInv, BusTransmits
<1>2. /\ history.since \in Nat /\ history.stale \in Nat /\ last \in Nat
      /\ history.command \in Nat /\ handled \in Nat
      /\ history \in [heard : SUBSET (1..MaxRequests), command : 0..MaxCommands,
                      since : 0..MaxCommands, stale : 0..MaxCommands]
      /\ motor \in [drive : 0..MaxCommands, ext : BOOLEAN, flash : Nat]
  BY <1>1, TypedNow DEF TypeOK
<1>3. /\ rank \in Rank /\ history.command < rank /\ rank <= last
  <2>1. Queued(h, history.command, handled, Len(calls))
    BY <1>1 DEF TxInv
  <2>2. rank \in Rank /\ history.command < rank /\ rank <= handled
    BY <2>1, ModesApart DEF Queued
  <2>3. rank \in Nat /\ handled <= last
    BY <1>1, <2>2 DEF Rank, QueueInv
  <2>4. QED
    BY <1>2, <2>2, <2>3
<1>4. /\ motor' = Obeys(h.frame.data, MODE_CURRENT)
      /\ history' = [history EXCEPT
                       !.command = motor'.drive,
                       !.stale = IF motor'.drive <= history.since THEN @ + 1
                                                                  ELSE @]
  BY <1>1, ModesApart DEF BusTransmits, ModeOf
<1>5. motor' = [motor EXCEPT !.drive = rank]
  BY <1>4, ModesApart DEF Obeys, RankOf
<1> HIDE DEF rank, h
<1>6. motor'.drive = rank /\ motor'.ext = motor.ext /\ motor'.flash = motor.flash
  BY <1>2, <1>5
<1>7. /\ history'.command = rank /\ history'.heard = history.heard
      /\ history'.since = history.since
      /\ history'.stale = IF rank <= history.since THEN history.stale + 1
                                                   ELSE history.stale
  BY <1>2, <1>4, <1>6
<1>8. /\ \/ rank > history.since /\ UNCHANGED (CmdDepth - history.stale)
         \/ /\ rank <= history.since /\ CmdDepth - history.stale > 0
            /\ CmdDepth - history'.stale = CmdDepth - history.stale - 1
  <2>1. rank \in Nat /\ CmdDepth \in Nat
    BY <1>3, DepthAssumption DEF Rank
  <2>2. CASE rank <= history.since
    <3>1. history'.stale = history.stale + 1 /\ history'.stale <= CmdDepth
      BY <1>7, <2>2 DEF StaleBounded
    <3>2. QED
      BY <1>2, <2>1, <2>2, <3>1
  <2>3. CASE rank > history.since
    BY <1>2, <1>7, <2>1, <2>3
  <2>4. QED
    BY <1>2, <2>1, <2>2, <2>3
<1>9. Service!Drive(rank)
  BY <1>1, <1>3, <1>6, <1>7, <1>8 DEF Service!Drive
<1>10. rank \in (history.command + 1)..last
  BY <1>2, <1>3 DEF Rank
<1>11. QED
  BY <1>9, <1>10 DEF Service!Next

(* A request that is heard is the next of its service, and the motor does  *)
(* what it asks for.                                                       *)
LEMMA RequestHeard ==
  ASSUME PathInv, PromiseInv, BusTransmits, IsRequest(tx[1])
  PROVE  Service!Next
<1> DEFINE h == tx[1]
           i == h.from
           mode == ModeOf(h.frame)
           request == calls[i].request
<1>1. /\ TypeOK /\ tx \in Seq(Entry) /\ tx # <<>> /\ 1 \in DOMAIN tx
      /\ DOMAIN tx = 1..Len(tx) /\ Head(tx) = h
      /\ UNCHANGED <<last, calls>>
  <2>1. tx \in Seq(Entry) /\ tx # <<>>
    BY TypedNow DEF PathInv, BusTransmits
  <2>2. 1 \in DOMAIN tx /\ DOMAIN tx = 1..Len(tx)
    BY <2>1, LenProperties, EmptySeq
  <2>3. QED
    BY <2>1, <2>2 DEF PathInv, BusTransmits
<1>2. /\ history \in [heard : SUBSET (1..MaxRequests), command : 0..MaxCommands,
                      since : 0..MaxCommands, stale : 0..MaxCommands]
      /\ motor \in [drive : 0..MaxCommands, ext : BOOLEAN, flash : Nat]
      /\ history.stale \in Nat /\ motor.flash \in Nat /\ CmdDepth \in Nat
  BY <1>1, TypedNow, DepthAssumption DEF TypeOK
<1>3. /\ i \in DOMAIN calls /\ calls[i].result = "success"
      /\ i \notin history.heard /\ h.frame = FrameFor(request)
  BY <1>1 DEF PromiseInv, SentInv
<1>4. request \in Requests
  <2>1. calls \in Seq(Call) /\ i \in 1..Len(calls)
    BY <1>3, TypedNow, LenProperties DEF PathInv
  <2>2. calls[i] \in Call
    BY <2>1, ElementOfSeq
  <2>3. QED
    BY <2>2 DEF Call
<1>5. mode \in RequestModes /\ mode \notin CommandModes
  BY ModesApart DEF IsRequest
<1>6. /\ motor' = Obeys(h.frame.data, mode)
      /\ history' = [history EXCEPT
                       !.heard = @ \cup {i},
                       !.since = IF mode = MODE_DISABLE THEN calls[i].at ELSE @,
                       !.stale = IF mode = MODE_DISABLE THEN 0 ELSE @]
  BY <1>1, <1>5 DEF BusTransmits, ModeOf
<1>7. ASSUME NEW j \in 1..(i - 1), Service!SameService(i, j),
             calls[j].result = "success", j \notin history.heard
      PROVE  FALSE
  <2>1. j \in DOMAIN calls /\ j < i /\ ~(i < j)
    <3>1. DOMAIN calls = 1..Len(calls) /\ Len(calls) \in Nat
      BY TypedNow, LenProperties DEF PathInv
    <3>2. QED
      BY <1>3, <1>7, <3>1
  <2>2. PICK k \in DOMAIN tx : IsRequest(tx[k]) /\ tx[k].from = j
    BY <1>7, <2>1 DEF PromiseInv, AnswerInv
  <2>3. 1 < k
    <3>1. k # 1
      BY <2>1, <2>2
    <3>2. QED
      BY <1>1, <3>1
  <2>4. SameService(i, j)
    BY <1>7 DEF SameService, Service!SameService
  <2>5. i < j
    BY <1>1, <2>2, <2>3, <2>4 DEF PromiseInv, SentInv
  <2>6. QED
    BY <2>1, <2>5
<1> HIDE DEF h, i, mode, request
<1>8. /\ history'.heard = history.heard \cup {i} /\ history'.command = history.command
      /\ history'.since = IF mode = MODE_DISABLE THEN calls[i].at ELSE history.since
      /\ history'.stale = IF mode = MODE_DISABLE THEN 0 ELSE history.stale
  BY <1>2, <1>6
<1>9. Service!Coast(i) \/ Service!MoveOrigin(i) \/ Service!Configure(i)
  <2>1. CASE request = Disable
    <3>1. mode = MODE_DISABLE /\ request.service = "disable"
      BY <1>3, <2>1, DisableSays DEF FrameFor, Disable, mode
    <3>2. motor' = [motor EXCEPT !.drive = 0]
      BY <1>6, <3>1, ModesApart DEF Obeys
    <3>3. motor'.drive = 0 /\ motor'.ext = motor.ext /\ motor'.flash = motor.flash
      BY <1>2, <3>2
    <3>4. history'.since = calls[i].at /\ CmdDepth - history'.stale = CmdDepth
      BY <1>2, <1>8, <3>1
    <3>5. QED
      BY <3>1, <3>3, <3>4 DEF Service!Coast, request
  <2>2. ASSUME NEW permanent \in BOOLEAN, request = SetOrigin(permanent)
        PROVE  Service!MoveOrigin(i)
    <3>1. request.service = "set_origin" /\ request.permanent = permanent
      BY <2>2 DEF SetOrigin
    <3>2. h.frame = PackSetOrigin(CanId, permanent)
      BY <1>3, <3>1 DEF FrameFor
    <3>3. mode = MODE_SET_ORIGIN /\ h.frame.data[1] = IF permanent THEN 1 ELSE 0
      BY <3>2, OriginSays DEF mode
    <3>4. motor' = [motor EXCEPT !.flash = @ + h.frame.data[1]]
      BY <1>6, <3>3, ModesApart DEF Obeys
    <3>5. /\ motor'.drive = motor.drive /\ motor'.ext = motor.ext
          /\ motor'.flash = IF permanent THEN motor.flash + 1 ELSE motor.flash
      BY <1>2, <3>3, <3>4
    <3>6. history'.since = history.since /\ history'.stale = history.stale
      BY <1>8, <3>3, ModesApart
    <3>7. QED
      BY <3>1, <3>5, <3>6 DEF Service!MoveOrigin, request
  <2>3. ASSUME NEW add \in BOOLEAN, NEW single \in BOOLEAN,
               request = SetFeedbackConfig(add, single)
        PROVE  Service!Configure(i)
    <3>1. /\ request.service = "set_feedback_config" /\ request.add = add
          /\ request.single = single
      BY <2>3 DEF SetFeedbackConfig
    <3>2. h.frame = PackFeedbackConfig(CanId, add, single)
      BY <1>3, <3>1 DEF FrameFor
    <3>3. mode = MODE_FEEDBACK_CONFIG /\ (h.frame.data[7] >= 128 <=> add)
      BY <3>2, ConfigSays, ConfigAdds DEF mode
    <3> DEFINE ext == h.frame.data[7] >= 128
    <3>4. motor' = [motor EXCEPT !.ext = ext, !.flash = @ + 1]
      BY <1>6, <3>3, ModesApart DEF Obeys
    <3>5. ext = add
      BY <3>3
    <3> HIDE DEF ext
    <3>6. /\ motor'.drive = motor.drive /\ motor'.ext = add
          /\ motor'.flash = motor.flash + 1
      BY <1>2, <3>4, <3>5
    <3>7. history'.since = history.since /\ history'.stale = history.stale
      BY <1>8, <3>3, ModesApart
    <3>8. QED
      BY <3>1, <3>6, <3>7 DEF Service!Configure, request
  <2>4. QED
    BY <1>4, <2>1, <2>2, <2>3, RequestsAssumption
<1>10. Service!Hear(i)
  BY <1>1, <1>3, <1>7, <1>8, <1>9 DEF Service!Hear
<1>11. QED
  BY <1>3, <1>10 DEF Service!Next

LEMMA NextPromises ==
  PathInv /\ PromiseInv /\ StaleBounded' /\ [Next]_vars
    => [Service!Next]_(Service!vars)
<1> SUFFICES ASSUME PathInv, PromiseInv, StaleBounded', [Next]_vars
             PROVE  Service!Next \/ UNCHANGED Service!vars
  OBVIOUS
<1>1. ASSUME NEW mode \in {MODE_CURRENT, 7}, PublishCommand(mode)
      PROVE  Service!Next
  BY <1>1 DEF PublishCommand, Service!Publish, Service!Next
<1>2. ASSUME NEW request \in Requests, CallService(request)
      PROVE  Service!Next
  <2>1. Service!Call(request)
    BY <1>2 DEF CallService, Service!Call
  <2>2. QED
    BY <2>1 DEF Service!Next
<1>3. ASSUME NEW ok \in BOOLEAN, OnCommand(ok)
      PROVE  UNCHANGED Service!vars
  BY <1>3 DEF OnCommand, Service!vars
<1>4. CASE NodeRestarts
  BY <1>4 DEF NodeRestarts, Service!Lose, Service!Next
<1>5. CASE BusTransmits
  <2>1. ModeOf(tx[1].frame) = MODE_CURRENT \/ IsRequest(tx[1])
    <3>1. tx \in Seq(Entry) /\ tx # <<>>
      BY <1>5, TypedNow DEF PathInv, BusTransmits
    <3>2. 1 \in DOMAIN tx
      BY <3>1, LenProperties, EmptySeq
    <3>3. QED
      BY <3>2 DEF PathInv, TxInv, Queued, IsRequest
  <2>2. QED
    BY <1>5, <2>1, CommandDrives, RequestHeard
<1>6. CASE DrainCaches \/ MotorSendsExt \/ UNCHANGED vars
  BY <1>6 DEF DrainCaches, MotorSendsExt, vars, Service!vars
<1>7. QED
  BY <1>1, <1>2, <1>3, <1>4, <1>5, <1>6, ServeAnswers DEF Next

(* ImplementsActuator: whatever is lost, refused, overtaken or cut short   *)
(* by a restart on the way from ~/cmd and the services to the bus, the     *)
(* motor does what Actuator allows.                                        *)
THEOREM PathImplementsActuator == Spec => ImplementsActuator
<1>1. PathInv /\ StaleInv => StaleBounded
  BY StaleFromInv
<1>2. Init => PathInv /\ StaleInv /\ PromiseInv
  BY InitPathInv, InitStaleInv, InitPromiseInv
<1>3. (PathInv /\ StaleInv /\ PromiseInv) /\ [Next]_vars
        => (PathInv /\ StaleInv /\ PromiseInv)'
  BY NextPathInv, NextStaleInv, NextPromiseInv
<1>4. QED
  BY <1>1, <1>2, <1>3, InitPromises, NextPromises, PTL
     DEF Spec, ImplementsActuator, Service!Spec
=============================================================================
