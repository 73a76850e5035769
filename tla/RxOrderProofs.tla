--------------------------- MODULE RxOrderProofs ---------------------------
(***************************************************************************)
(* Order along the feedback path, for every traffic, capacity and bound:   *)
(* a drain takes a clean cut of the traffic, and the cached extended       *)
(* position is neither behind a published status nor one that was dropped. *)
(*                                                                         *)
(* The inductive invariant has two layers.  FlowInv: the stages of the     *)
(* path, from the kernel's buffer to the publishers, hold frames of        *)
(* falling age.  CacheInv: an extended position that was decoded has       *)
(* either reached the cache, perhaps through a newer one, or is pending.   *)
(***************************************************************************)
EXTENDS RxPipelineProofs

(* Stamps in each stage, from the kernel's buffer to the publishers.       *)
Waiting == Stamps(sockbuf)
Hand == IF frame.kind = "status" THEN {frame.status.stamp}
        ELSE IF frame.kind = "ext" THEN {frame.position} ELSE {}
ExtHand == IF frame.kind = "ext" THEN {frame.position} ELSE {}
Queued == Stamps(status_queue) \cup Values(ext_position_queue)
Held   == Stamps(statuses) \cup Values(ext_positions)
Gone   == {published[i].status.stamp : i \in DOMAIN published}

(* The newest extended position the cache holds or has dropped.            *)
Floor == IF last_extended_position_deg # NoExt
         THEN last_extended_position_deg ELSE cleared

Done == Gone \cup Held \cup Queued \cup {Floor}

(* What has been read from the socket is older than what is in the RX      *)
(* thread's hand, and that than what waits.                                *)
Flow(done, hand, waiting, top) ==
  /\ \A x \in done : \A h \in hand \cup waiting : x < h
  /\ \A h \in hand : \A w \in waiting : h < w
  /\ \A x \in done \cup hand \cup waiting : x <= top

Ascending(q) == \A i, j \in DOMAIN q : i < j => q[i] < q[j]

FlowInv ==
  /\ Flow(Done, Hand, Waiting, lastStamp)
  /\ \A i, j \in DOMAIN sockbuf : i < j => sockbuf[i].stamp < sockbuf[j].stamp
  /\ exec = "swap_ext" => status_queue = <<>>
  /\ CleanCut

(* Extended positions that have not reached the cache.                     *)
Pending ==
  Values(ext_position_queue)
    \cup (IF exec = "apply" THEN Values(ext_positions) ELSE {})

CacheInv ==
  /\ Ascending(ext_position_queue) /\ Ascending(ext_positions)
  /\ \A x \in Pending : Floor < x
  /\ last_extended_position_deg # NoExt => cleared < last_extended_position_deg
  /\ \A e \in extSeen : e <= Floor \/ e \in ExtHand \/ e \in Pending
  /\ NoClobber
  /\ ClearedNotReused

OrderInv == FlowInv /\ CacheInv

-----------------------------------------------------------------------------
(* The flow from stage to stage.                                           *)

LEMMA FlowShrinks ==
  ASSUME NEW done, NEW hand, NEW waiting, NEW top,
         NEW done2 \in SUBSET done, NEW hand2 \in SUBSET hand,
         NEW waiting2 \in SUBSET waiting,
         Flow(done, hand, waiting, top)
  PROVE  Flow(done2, hand2, waiting2, top)
  BY DEF Flow

(* The frame h is taken from the waiting ones; it may be kept or not.      *)
LEMMA FlowReads ==
  ASSUME NEW done, NEW waiting, NEW top, NEW h \in waiting,
         NEW hand2 \in SUBSET {h}, NEW waiting2 \in SUBSET waiting,
         \A w \in waiting2 : h < w,
         Flow(done, {}, waiting, top)
  PROVE  Flow(done, hand2, waiting2, top)
  BY DEF Flow

LEMMA FlowPushes ==
  ASSUME NEW done, NEW hand, NEW waiting, NEW top,
         NEW done2 \in SUBSET (done \cup hand),
         Flow(done, hand, waiting, top)
  PROVE  Flow(done2, {}, waiting, top)
  BY DEF Flow

LEMMA FlowGrows ==
  ASSUME NEW done \in SUBSET Int, NEW hand \in SUBSET Int,
         NEW waiting \in SUBSET Int, NEW top \in Int,
         NEW waiting2 \in SUBSET (waiting \cup {top + 1}),
         Flow(done, hand, waiting, top)
  PROVE  Flow(done, hand, waiting2, top + 1)
  BY DEF Flow

-----------------------------------------------------------------------------
(* Stamps in a sequence.                                                   *)

LEMMA StampsOfTail ==
  ASSUME NEW T, NEW s \in Seq(T), s # <<>>
  PROVE  /\ Stamps(Tail(s)) \subseteq Stamps(s)
         /\ Head(s).stamp \in Stamps(s)
<1>1. /\ Len(s) \in Nat \ {0} /\ Head(s) = s[1] /\ DOMAIN s = 1..Len(s)
  BY EmptySeq, LenProperties
<1>2. /\ Tail(s) \in Seq(T) /\ Len(Tail(s)) = Len(s) - 1
      /\ \A i \in 1..Len(Tail(s)) : Tail(s)[i] = s[i + 1]
  BY HeadTailProperties
<1>3. DOMAIN Tail(s) = 1..(Len(s) - 1)
  BY <1>2, LenProperties
<1>4. QED
  BY <1>1, <1>2, <1>3 DEF Stamps

LEMMA StampsOfAppend ==
  ASSUME NEW T, NEW s \in Seq(T), NEW x \in T
  PROVE  Stamps(Append(s, x)) = Stamps(s) \cup {x.stamp}
<1>1. /\ Len(s) \in Nat /\ DOMAIN s = 1..Len(s)
      /\ DOMAIN Append(s, x) = 1..(Len(s) + 1)
      /\ \A i \in 1..Len(s) : Append(s, x)[i] = s[i]
      /\ Append(s, x)[Len(s) + 1] = x
  BY AppendProperties, LenProperties
<1>2. QED
  BY <1>1 DEF Stamps

LEMMA ValuesOfAppend ==
  ASSUME NEW T, NEW s \in Seq(T), NEW x \in T
  PROVE  Values(Append(s, x)) = Values(s) \cup {x}
<1>1. /\ Len(s) \in Nat /\ DOMAIN s = 1..Len(s)
      /\ DOMAIN Append(s, x) = 1..(Len(s) + 1)
      /\ \A i \in 1..Len(s) : Append(s, x)[i] = s[i]
      /\ Append(s, x)[Len(s) + 1] = x
  BY AppendProperties, LenProperties
<1>2. QED
  BY <1>1 DEF Values

LEMMA AscendingAppend ==
  ASSUME NEW q \in Seq(Stamp), NEW x \in Stamp, Ascending(q),
         \A v \in Values(q) : v < x
  PROVE  Ascending(Append(q, x))
<1>1. /\ Len(q) \in Nat /\ DOMAIN q = 1..Len(q)
      /\ DOMAIN Append(q, x) = 1..(Len(q) + 1)
      /\ \A i \in 1..Len(q) : Append(q, x)[i] = q[i]
      /\ Append(q, x)[Len(q) + 1] = x
  BY AppendProperties, LenProperties
<1>2. \A i \in 1..Len(q) : q[i] < x
  BY <1>1 DEF Values
<1>3. QED
  BY <1>1, <1>2 DEF Ascending

LEMMA LastOfAscending ==
  ASSUME NEW q \in Seq(Stamp), q # <<>>, Ascending(q)
  PROVE  /\ q[Len(q)] \in Values(q)
         /\ \A v \in Values(q) : v <= q[Len(q)]
<1>1. /\ Len(q) \in Nat \ {0} /\ DOMAIN q = 1..Len(q)
  BY EmptySeq, LenProperties
<1>2. \A i \in 1..Len(q) : q[i] \in Stamp
  BY ElementOfSeq
<1>3. \A i \in 1..Len(q) : q[i] \in Nat
  BY <1>2 DEF Stamp
<1>4. QED
  BY <1>1, <1>3 DEF Values, Ascending

LEMMA ValuesTyped ==
  ASSUME NEW T, NEW s \in Seq(T)
  PROVE  Values(s) \subseteq T
  BY ElementOfSeq DEF Values

LEMMA StampsTyped ==
  ASSUME NEW T, NEW s \in Seq(T), \A x \in T : x.stamp \in Nat
  PROVE  Stamps(s) \subseteq Nat
  BY ElementOfSeq DEF Stamps

(* The stages hold natural numbers.                                        *)
LEMMA StagesAreStamps ==
  ASSUME TypeOK
  PROVE  /\ Waiting \subseteq Nat /\ Hand \subseteq Stamp
         /\ Queued \subseteq Nat /\ Held \subseteq Nat /\ Gone \subseteq Nat
         /\ Floor \in Nat /\ lastStamp \in Nat /\ extSeen \subseteq Nat
<1>1. Waiting \subseteq Nat
  <2> DEFINE Entry == [raw : BusFrames, stamp : Stamp]
  <2>1. sockbuf \in Seq(Entry)
    BY DEF TypeOK
  <2>2. \A x \in Entry : x.stamp \in Nat
    BY DEF Stamp
  <2> HIDE DEF Entry
  <2>3. QED
    BY <2>1, <2>2, StampsTyped DEF Waiting
<1>2. Hand \subseteq Stamp
  BY DEF TypeOK, Hand, PendingFrame, NoFrame, Status
<1>3. Stamps(status_queue) \subseteq Nat /\ Stamps(statuses) \subseteq Nat
  <2>1. \A x \in Status : x.stamp \in Nat
    BY DEF Status, Stamp
  <2>2. QED
    BY <2>1, StampsTyped DEF TypeOK
<1>4. Values(ext_position_queue) \subseteq Nat /\ Values(ext_positions) \subseteq Nat
  <2>1. Stamp \subseteq Nat
    BY DEF Stamp
  <2>2. QED
    BY <2>1, ValuesTyped DEF TypeOK
<1>5. Gone \subseteq Nat
  <2>1. \A i \in DOMAIN published : published[i] \in Published
    BY ElementOfSeq DEF TypeOK
  <2>2. QED
    BY <2>1 DEF Gone, Published, Status, Stamp
<1>6. Floor \in Nat /\ lastStamp \in Nat /\ extSeen \subseteq Nat
  BY DEF TypeOK, Floor, NoExt, Stamp
<1>7. QED
  BY <1>1, <1>2, <1>3, <1>4, <1>5, <1>6 DEF Queued, Held

-----------------------------------------------------------------------------
(* Steps that touch no stage.                                              *)

orderVars == <<sockbuf, lastStamp, frame, status_queue, ext_position_queue,
               statuses, ext_positions, last_extended_position_deg, cleared,
               extSeen, published>>

Outside == {"spin", "drain_lock", "swap_status", "join", "destroyed"}

LEMMA QuietStep ==
  ASSUME OrderInv, UNCHANGED orderVars,
         exec' = exec \/ (exec \in Outside /\ exec' \in Outside)
  PROVE  OrderInv'
<1> USE DEF orderVars, Outside
<1>1. /\ Waiting' = Waiting /\ Hand' = Hand /\ ExtHand' = ExtHand
      /\ Done' = Done /\ Floor' = Floor /\ Pending' = Pending
  <2>1. Waiting' = Waiting
    BY DEF Waiting, Stamps
  <2>2. Hand' = Hand /\ ExtHand' = ExtHand
    BY DEF Hand, ExtHand
  <2>3. Floor' = Floor
    BY DEF Floor
  <2>4. Pending' = Pending
    BY DEF Pending, Values
  <2>5. Gone' = Gone /\ Held' = Held /\ Queued' = Queued
    BY DEF Gone, Held, Queued, Stamps, Values
  <2>6. QED
    BY <2>1, <2>2, <2>3, <2>4, <2>5 DEF Done
<1>2. CleanCut'
  <2>1. /\ statuses' = statuses /\ ext_positions' = ext_positions
        /\ status_queue' = status_queue
        /\ ext_position_queue' = ext_position_queue
        /\ exec' \in {"apply", "publish"} => exec \in {"apply", "publish"}
    OBVIOUS
  <2>2. CleanCut
    BY DEF OrderInv, FlowInv
  <2>3. QED
    BY <2>1, <2>2 DEF CleanCut, Stamps, Values
<1>3. FlowInv'
  BY <1>1, <1>2 DEF OrderInv, FlowInv
<1>4. NoClobber' /\ ClearedNotReused'
  BY DEF OrderInv, CacheInv, NoClobber, ClearedNotReused
<1>5. CacheInv'
  BY <1>1, <1>4 DEF OrderInv, CacheInv, Ascending
<1>6. QED
  BY <1>3, <1>5 DEF OrderInv

LEMMA InitOrderInv == Init => OrderInv
<1> SUFFICES ASSUME Init PROVE OrderInv
  OBVIOUS
<1>1. /\ sockbuf = <<>> /\ frame = NoFrame /\ status_queue = <<>>
      /\ ext_position_queue = <<>> /\ statuses = <<>> /\ ext_positions = <<>>
      /\ published = <<>> /\ lastStamp = 0 /\ exec = "spin"
      /\ last_extended_position_deg = NoExt /\ cleared = NoExt /\ extSeen = {}
  BY DEF Init
<1>2. /\ Waiting = {} /\ Hand = {} /\ ExtHand = {} /\ Done = {0} /\ Pending = {}
  BY <1>1 DEF Waiting, Hand, ExtHand, Done, Gone, Held, Queued, Floor, Pending, Stamps,
              Values, NoFrame, NoExt
<1>3. FlowInv
  BY <1>1, <1>2 DEF FlowInv, Flow, CleanCut
<1>4. CacheInv
  BY <1>1, <1>2 DEF CacheInv, Ascending, NoClobber, ClearedNotReused
<1>5. QED
  BY <1>3, <1>4 DEF OrderInv

-----------------------------------------------------------------------------
(* A frame reaches the socket.                                             *)
LEMMA BusOrder ==
  ASSUME StreamInv, OrderInv, NEW raw \in BusFrames, BusDelivers(raw)
  PROVE  OrderInv'
<1> DEFINE Entry == [raw : BusFrames, stamp : Stamp]
           new   == [raw |-> raw, stamp |-> lastStamp + 1]
<1>1. /\ lastStamp' = lastStamp + 1 /\ new \in Entry /\ sockbuf \in Seq(Entry)
      /\ sockbuf' = IF Len(sockbuf) < RcvBuf THEN Append(sockbuf, new) ELSE sockbuf
  <2>1. lastStamp + 1 \in Stamp /\ lastStamp' = lastStamp + 1
    BY BoundsAssumption DEF BusDelivers, StreamInv, TypeOK, Stamp
  <2>2. sockbuf \in Seq(Entry)
    BY DEF StreamInv, TypeOK
  <2>3. new \in Entry
    BY <2>1
  <2>4. sockbuf' = IF Len(sockbuf) < RcvBuf
                   THEN Append(sockbuf, [raw |-> raw, stamp |-> lastStamp'])
                   ELSE sockbuf
    BY DEF BusDelivers
  <2>5. QED
    BY <2>1, <2>2, <2>3, <2>4
<1>2. /\ Waiting \subseteq Nat /\ Hand \subseteq Nat /\ Done \subseteq Nat
      /\ lastStamp \in Nat
  BY StagesAreStamps DEF StreamInv, Done, Stamp
<1>3. \A w \in Waiting : w < lastStamp + 1
  BY <1>2 DEF OrderInv, FlowInv, Flow
<1>4. Waiting' \subseteq Waiting \cup {lastStamp + 1}
  <2>1. new.stamp = lastStamp + 1
    OBVIOUS
  <2> HIDE DEF Entry, new
  <2>2. Stamps(Append(sockbuf, new)) = Stamps(sockbuf) \cup {new.stamp}
    BY <1>1, StampsOfAppend
  <2>3. QED
    BY <1>1, <2>1, <2>2 DEF Waiting, Stamps
<1>5. /\ Hand' = Hand /\ ExtHand' = ExtHand /\ Done' = Done
      /\ Floor' = Floor /\ Pending' = Pending
  <2> USE DEF BusDelivers, rxVars, queueVars, execVars, historyVars
  <2>1. /\ Hand' = Hand /\ ExtHand' = ExtHand
        /\ Floor' = Floor /\ Pending' = Pending
    BY DEF Hand, ExtHand, Floor, Pending, Values
  <2>2. Gone' = Gone /\ Held' = Held /\ Queued' = Queued
    BY DEF Gone, Held, Queued, Stamps, Values
  <2>3. QED
    BY <2>1, <2>2 DEF Done
<1>6. Flow(Done', Hand', Waiting', lastStamp')
  <2>1. Flow(Done, Hand, Waiting', lastStamp + 1)
    <3>1. Flow(Done, Hand, Waiting, lastStamp)
      BY DEF OrderInv, FlowInv
    <3>2. QED
      BY <1>2, <1>4, <3>1, FlowGrows
  <2>2. QED
    BY <1>1, <1>5, <2>1
<1>7. \A i, j \in DOMAIN sockbuf' : i < j => sockbuf'[i].stamp < sockbuf'[j].stamp
  <2>1. new.stamp = lastStamp + 1
    OBVIOUS
  <2> HIDE DEF Entry, new
  <2>2. /\ Len(sockbuf) \in Nat /\ DOMAIN sockbuf = 1..Len(sockbuf)
        /\ DOMAIN Append(sockbuf, new) = 1..(Len(sockbuf) + 1)
        /\ \A i \in 1..Len(sockbuf) : Append(sockbuf, new)[i] = sockbuf[i]
        /\ Append(sockbuf, new)[Len(sockbuf) + 1] = new
    BY <1>1, AppendProperties, LenProperties
  <2>3. \A i \in 1..Len(sockbuf) : sockbuf[i].stamp < new.stamp
    BY <1>3, <2>1, <2>2 DEF Waiting, Stamps
  <2>4. \A i, j \in DOMAIN sockbuf : i < j => sockbuf[i].stamp < sockbuf[j].stamp
    BY DEF OrderInv, FlowInv
  <2>5. CASE sockbuf' = sockbuf
    BY <2>4, <2>5
  <2>6. CASE sockbuf' = Append(sockbuf, new)
    BY <2>2, <2>3, <2>4, <2>6
  <2>7. QED
    BY <1>1, <2>5, <2>6
<1>8. exec' = exec /\ UNCHANGED <<status_queue, ext_position_queue, statuses,
        ext_positions, last_extended_position_deg, cleared, extSeen, published>>
  BY DEF BusDelivers, queueVars, execVars, historyVars
<1>9. CleanCut' /\ NoClobber' /\ ClearedNotReused'
  BY <1>8 DEF OrderInv, FlowInv, CacheInv, CleanCut, Stamps, Values, NoClobber,
              ClearedNotReused
<1>10. FlowInv'
  BY <1>6, <1>7, <1>8, <1>9 DEF OrderInv, FlowInv
<1>11. CacheInv'
  BY <1>5, <1>8, <1>9 DEF OrderInv, CacheInv, Ascending
<1>12. QED
  BY <1>10, <1>11 DEF OrderInv

-----------------------------------------------------------------------------
(* The RX thread.                                                          *)

Sorted(s) == \A i, j \in DOMAIN s : i < j => s[i].stamp < s[j].stamp

LEMMA SortedTail ==
  ASSUME NEW T, NEW s \in Seq(T), s # <<>>, Sorted(s)
  PROVE  /\ Sorted(Tail(s))
         /\ \A w \in Stamps(Tail(s)) : Head(s).stamp < w
<1>1. /\ Len(s) \in Nat \ {0} /\ Head(s) = s[1] /\ DOMAIN s = 1..Len(s)
  BY EmptySeq, LenProperties
<1>2. /\ Tail(s) \in Seq(T) /\ Len(Tail(s)) = Len(s) - 1
      /\ \A i \in 1..Len(Tail(s)) : Tail(s)[i] = s[i + 1]
  BY HeadTailProperties
<1>3. DOMAIN Tail(s) = 1..(Len(s) - 1)
  BY <1>2, LenProperties
<1>4. \A i \in 1..(Len(s) - 1) :
        /\ Tail(s)[i] = s[i + 1] /\ i + 1 \in 1..Len(s) /\ 1 \in 1..Len(s)
        /\ 1 < i + 1
  BY <1>1, <1>2
<1>5. Sorted(Tail(s))
  BY <1>1, <1>3, <1>4 DEF Sorted
<1>6. \A w \in Stamps(Tail(s)) : Head(s).stamp < w
  BY <1>1, <1>3, <1>4 DEF Sorted, Stamps
<1>7. QED
  BY <1>5, <1>6

(* The oldest frame waiting comes into the hand of the thread, or is       *)
(* ignored.  An extended position that is decoded now is newer than        *)
(* everything published.                                                   *)
LEMMA ReadOrder ==
  ASSUME StreamInv, OrderInv, RxRead
  PROVE  OrderInv'
<1> DEFINE h == Head(sockbuf).stamp
<1>1. /\ h \in Waiting /\ Waiting' \subseteq Waiting
      /\ \A w \in Waiting' : h < w
      /\ Sorted(sockbuf')
  <2> DEFINE Entry == [raw : BusFrames, stamp : Stamp]
  <2>1. sockbuf \in Seq(Entry) /\ sockbuf # <<>> /\ Sorted(sockbuf)
        /\ sockbuf' = Tail(sockbuf)
    BY DEF StreamInv, TypeOK, OrderInv, FlowInv, RxRead, Sorted
  <2> HIDE DEF Entry
  <2>2. Stamps(Tail(sockbuf)) \subseteq Stamps(sockbuf) /\ h \in Stamps(sockbuf)
    BY <2>1, StampsOfTail
  <2>3. Sorted(Tail(sockbuf)) /\ \A w \in Stamps(Tail(sockbuf)) : h < w
    BY <2>1, SortedTail
  <2>4. Waiting' = Stamps(Tail(sockbuf))
    BY <2>1 DEF Waiting, Stamps
  <2>5. QED
    BY <2>1, <2>2, <2>3, <2>4 DEF Waiting
<1>2. Hand = {} /\ ExtHand = {}
  BY DEF RxRead, StreamInv, TypeOK, Hand, ExtHand, NoFrame
<1>3. /\ Hand' \subseteq {h}
      /\ \/ UNCHANGED extSeen
         \/ ExtHand' = {h} /\ extSeen' = extSeen \cup {h}
  <2>1. CASE /\ frame' = [kind |-> "status",
                          status |-> [stamp |-> h, fault |-> Head(sockbuf).raw.fault]]
             /\ UNCHANGED extSeen
    BY <2>1 DEF Hand
  <2>2. CASE frame' = [kind |-> "ext", position |-> h] /\ extSeen' = extSeen \cup {h}
    BY <2>2 DEF Hand, ExtHand
  <2>3. CASE UNCHANGED <<frame, extSeen>>
    BY <1>2, <2>3 DEF Hand
  <2>4. QED
    BY <2>1, <2>2, <2>3 DEF RxRead
<1>4. UNCHANGED <<lastStamp, status_queue, ext_position_queue, exec, statuses,
                  ext_positions, last_extended_position_deg, cleared, published>>
  BY DEF RxRead, queueVars, execVars
<1>5. Done' = Done /\ Floor' = Floor /\ Pending' = Pending /\ Gone' = Gone
  BY <1>4 DEF Done, Gone, Held, Queued, Floor, Pending, Stamps, Values
<1>6. Flow(Done', Hand', Waiting', lastStamp')
  <2>1. Flow(Done, {}, Waiting, lastStamp)
    BY <1>2 DEF OrderInv, FlowInv
  <2>2. Hand' \in SUBSET {h} /\ Waiting' \in SUBSET Waiting
    BY <1>1, <1>3
  <2> HIDE DEF h
  <2>3. Flow(Done, Hand', Waiting', lastStamp)
    BY <1>1, <2>1, <2>2, FlowReads
  <2>4. QED
    BY <1>4, <1>5, <2>3
<1>7. CleanCut' /\ ClearedNotReused'
  BY <1>4 DEF OrderInv, FlowInv, CacheInv, CleanCut, Stamps, Values,
              ClearedNotReused
<1>8. NoClobber'
  <2>1. \A g \in Gone : g < h
    BY <1>1 DEF OrderInv, FlowInv, Flow, Done
  <2>2. Gone \subseteq Nat /\ h \in Nat
    BY <1>1, StagesAreStamps DEF StreamInv
  <2>3. SUFFICES ASSUME NEW i \in DOMAIN published, NEW e \in extSeen',
                        e < published[i].status.stamp
                 PROVE  e \in extSeen
    BY <1>4 DEF OrderInv, CacheInv, NoClobber
  <2>4. published[i].status.stamp \in Gone
    BY DEF Gone
  <2> DEFINE g == published[i].status.stamp
  <2>5. g \in Nat /\ h \in Nat /\ g < h /\ e < g
    BY <2>1, <2>2, <2>3, <2>4
  <2> HIDE DEF h, g
  <2>6. e # h
    BY <2>5
  <2>7. QED
    BY <1>3, <2>3, <2>6
<1>9. FlowInv'
  BY <1>1, <1>4, <1>6, <1>7 DEF OrderInv, FlowInv, Sorted
<1>10. \A e \in extSeen' : e <= Floor' \/ e \in ExtHand' \/ e \in Pending'
  BY <1>2, <1>3, <1>5 DEF OrderInv, CacheInv
<1>11. CacheInv'
  BY <1>4, <1>5, <1>7, <1>8, <1>10 DEF OrderInv, CacheInv, Ascending
<1>12. QED
  BY <1>9, <1>11 DEF OrderInv

(* push_back moves the frame from the hand to the end of its queue.        *)
LEMMA PushOrder ==
  ASSUME StreamInv, OrderInv, RxPush
  PROVE  OrderInv'
<1>1. /\ UNCHANGED <<sockbuf, lastStamp, exec, statuses, ext_positions,
                      last_extended_position_deg, cleared, published, extSeen>>
      /\ frame' = NoFrame
  BY DEF RxPush, busVars, execVars, historyVars
<1>2. /\ Waiting' = Waiting /\ Hand' = {} /\ ExtHand' = {}
      /\ Gone' = Gone /\ Held' = Held /\ Floor' = Floor
  BY <1>1 DEF Waiting, Hand, ExtHand, NoFrame, Gone, Held, Floor, Stamps, Values
<1>3. PICK h \in Stamp :
        /\ Hand = {h}
        /\ \/ /\ Stamps(status_queue)' = Stamps(status_queue) \cup {h}
              /\ UNCHANGED ext_position_queue
              /\ frame.kind = "status"
           \/ /\ ext_position_queue' = Append(ext_position_queue, h)
              /\ Values(ext_position_queue)' = Values(ext_position_queue) \cup {h}
              /\ UNCHANGED status_queue
              /\ frame.kind = "ext"
  <2>1. frame \in PendingFrame
    BY DEF StreamInv, TypeOK, RxPush
  <2>2. status_queue \in Seq(Status) /\ ext_position_queue \in Seq(Stamp)
    BY DEF StreamInv, TypeOK
  <2>3. CASE frame.kind = "status"
    <3>1. /\ frame.status \in Status /\ frame.status.stamp \in Stamp
          /\ Hand = {frame.status.stamp}
      BY <2>1, <2>3 DEF PendingFrame, Status, Hand
    <3>2. /\ status_queue' = Append(status_queue, frame.status)
          /\ ext_position_queue' = ext_position_queue
      BY <2>3 DEF RxPush
    <3>3. Stamps(Append(status_queue, frame.status))
            = Stamps(status_queue) \cup {frame.status.stamp}
      BY <2>2, <3>1, StampsOfAppend
    <3>4. Stamps(status_queue)' = Stamps(Append(status_queue, frame.status))
      BY <3>2 DEF Stamps
    <3>5. QED
      BY <2>3, <3>1, <3>2, <3>3, <3>4
  <2>4. CASE frame.kind = "ext"
    <3>1. frame.position \in Stamp /\ Hand = {frame.position}
      BY <2>1, <2>4 DEF PendingFrame, Hand
    <3>2. /\ ext_position_queue' = Append(ext_position_queue, frame.position)
          /\ status_queue' = status_queue
      BY <2>4 DEF RxPush
    <3>3. Values(Append(ext_position_queue, frame.position))
            = Values(ext_position_queue) \cup {frame.position}
      BY <2>2, <3>1, ValuesOfAppend
    <3>4. Values(ext_position_queue)' = Values(Append(ext_position_queue, frame.position))
      BY <3>2 DEF Values
    <3>5. QED
      BY <2>4, <3>1, <3>2, <3>3, <3>4
  <2>5. QED
    BY <2>3, <2>4 DEF RxPush
<1>4. Queued' = Queued \cup Hand
  BY <1>3 DEF Queued, Stamps, Values
<1>5. Flow(Done', Hand', Waiting', lastStamp')
  <2>1. Done' \in SUBSET (Done \cup Hand)
    BY <1>2, <1>4 DEF Done
  <2>2. Flow(Done, Hand, Waiting, lastStamp)
    BY DEF OrderInv, FlowInv
  <2>3. Flow(Done', {}, Waiting, lastStamp)
    BY <2>1, <2>2, FlowPushes
  <2>4. QED
    BY <1>1, <1>2, <2>3
<1>6. \A x \in Done : x < h
  BY <1>3 DEF OrderInv, FlowInv, Flow
<1>7. CleanCut'
  <2>1. exec' = exec /\ Held' = Held /\ Queued' = Queued \cup {h}
    BY <1>1, <1>2, <1>3, <1>4
  <2>2. \A d \in Held : d < h
    BY <1>6 DEF Done
  <2>3. exec \in {"apply", "publish"} => \A d \in Held, q \in Queued : d < q
    BY DEF OrderInv, FlowInv, CleanCut, Held, Queued
  <2>4. exec' \in {"apply", "publish"} => \A d \in Held', q \in Queued' : d < q
    BY <2>1, <2>2, <2>3
  <2>5. QED
    BY <2>4 DEF CleanCut, Held, Queued
<1>8. exec' = "swap_ext" => status_queue' = <<>>
  <2>1. exec # "swap_ext"
    BY DEF RxPush, StreamInv, TypeOK
  <2>2. QED
    BY <1>1, <2>1
<1>9. FlowInv'
  BY <1>1, <1>5, <1>7, <1>8 DEF OrderInv, FlowInv
<1>10. Ascending(ext_position_queue)'
  <2>1. Ascending(ext_position_queue) /\ ext_position_queue \in Seq(Stamp)
    BY DEF OrderInv, CacheInv, StreamInv, TypeOK
  <2>2. \A v \in Values(ext_position_queue) : v < h
    BY <1>6 DEF Done, Queued
  <2>3. Ascending(Append(ext_position_queue, h))
    BY <2>1, <2>2, AscendingAppend
  <2>4. QED
    BY <1>3, <2>1, <2>3 DEF Ascending
<1>11. (\A x \in Pending' : Floor' < x)
       /\ \A e \in extSeen' : e <= Floor' \/ e \in ExtHand' \/ e \in Pending'
  <2>1. Floor < h
    BY <1>6 DEF Done
  <2>2. \/ ExtHand = {h} /\ Pending' = Pending \cup {h}
        \/ ExtHand = {} /\ Pending' = Pending
    <3>1. CASE frame.kind = "ext"
      <4>1. ExtHand = {h}
        BY <1>3, <3>1 DEF Hand, ExtHand
      <4>2. QED
        BY <1>1, <1>3, <3>1, <4>1 DEF Pending, Values
    <3>2. CASE frame.kind = "status"
      BY <1>1, <1>3, <3>2 DEF Pending, Values, ExtHand
    <3>3. QED
      BY <1>3, <3>1, <3>2
  <2>3. QED
    BY <1>1, <1>2, <2>1, <2>2 DEF OrderInv, CacheInv
<1>12. NoClobber' /\ ClearedNotReused' /\ Ascending(ext_positions)'
  BY <1>1 DEF OrderInv, CacheInv, NoClobber, ClearedNotReused, Ascending
<1>13. CacheInv'
  BY <1>1, <1>2, <1>10, <1>11, <1>12 DEF OrderInv, CacheInv
<1>14. QED
  BY <1>9, <1>13 DEF OrderInv

-----------------------------------------------------------------------------
(* The drain.                                                              *)

(* Both swaps hand the RX thread an empty deque back.                      *)
LEMMA SwapStatusOrder ==
  ASSUME StreamInv, OrderInv, SwapStatus
  PROVE  OrderInv'
<1>1. /\ UNCHANGED <<sockbuf, lastStamp, frame, ext_position_queue, ext_positions,
                      last_extended_position_deg, cleared, published, extSeen>>
      /\ statuses = <<>> /\ statuses' = status_queue /\ status_queue' = <<>>
      /\ exec = "swap_status" /\ exec' = "swap_ext"
  BY DEF SwapStatus, busVars, rxVars, historyVars, StreamInv, LocalsFresh
<1>2. /\ Waiting' = Waiting /\ Hand' = Hand /\ ExtHand' = ExtHand
      /\ Gone' = Gone /\ Floor' = Floor /\ Pending' = Pending
  BY <1>1 DEF Waiting, Hand, ExtHand, Gone, Floor, Pending, Stamps, Values
<1>3. Done' = Done
  <2>1. Stamps(statuses)' = Stamps(status_queue) /\ Stamps(statuses) = {}
        /\ Stamps(status_queue)' = {}
    BY <1>1 DEF Stamps
  <2>2. Values(ext_positions)' = Values(ext_positions)
        /\ Values(ext_position_queue)' = Values(ext_position_queue)
    BY <1>1 DEF Values
  <2>3. QED
    BY <1>2, <2>1, <2>2 DEF Done, Held, Queued
<1>4. FlowInv'
  BY <1>1, <1>2, <1>3 DEF OrderInv, FlowInv, CleanCut
<1>5. NoClobber' /\ ClearedNotReused'
  BY <1>1 DEF OrderInv, CacheInv, NoClobber, ClearedNotReused
<1>6. CacheInv'
  BY <1>1, <1>2, <1>5 DEF OrderInv, CacheInv, Ascending
<1>7. QED
  BY <1>4, <1>6 DEF OrderInv

LEMMA SwapExtOrder ==
  ASSUME StreamInv, OrderInv, SwapExt
  PROVE  OrderInv'
<1>1. /\ UNCHANGED <<sockbuf, lastStamp, frame, status_queue, statuses,
                      last_extended_position_deg, cleared, published, extSeen>>
      /\ ext_positions = <<>> /\ ext_positions' = ext_position_queue
      /\ ext_position_queue' = <<>> /\ status_queue = <<>>
      /\ exec = "swap_ext" /\ exec' = "apply"
  BY DEF SwapExt, busVars, rxVars, historyVars, StreamInv, LocalsFresh,
         OrderInv, FlowInv
<1>2. /\ Waiting' = Waiting /\ Hand' = Hand /\ ExtHand' = ExtHand
      /\ Gone' = Gone /\ Floor' = Floor
  BY <1>1 DEF Waiting, Hand, ExtHand, Gone, Floor, Stamps
<1>3. /\ Values(ext_positions)' = Values(ext_position_queue)
      /\ Values(ext_positions) = {} /\ Values(ext_position_queue)' = {}
  BY <1>1 DEF Values
<1>4. /\ Stamps(statuses)' = Stamps(statuses)
      /\ Stamps(status_queue)' = {} /\ Stamps(status_queue) = {}
  BY <1>1 DEF Stamps
<1>5. Done' = Done /\ Pending' = Pending
  BY <1>1, <1>2, <1>3, <1>4 DEF Done, Held, Queued, Pending
<1>6. CleanCut'
  BY <1>3, <1>4 DEF CleanCut
<1>7. FlowInv'
  BY <1>1, <1>2, <1>5, <1>6 DEF OrderInv, FlowInv
<1>8. NoClobber' /\ ClearedNotReused'
  BY <1>1 DEF OrderInv, CacheInv, NoClobber, ClearedNotReused
<1>9. CacheInv'
  BY <1>1, <1>2, <1>5, <1>8 DEF OrderInv, CacheInv, Ascending
<1>10. QED
  BY <1>7, <1>9 DEF OrderInv

(* The cache takes the newest reading of the batch, which is newer than    *)
(* what it held or had dropped.                                            *)
LEMMA ApplyOrder ==
  ASSUME StreamInv, OrderInv, ApplyExt
  PROVE  OrderInv'
<1>1. /\ UNCHANGED <<sockbuf, lastStamp, frame, status_queue, statuses,
                      ext_position_queue, ext_positions, cleared, published, extSeen>>
      /\ exec = "apply" /\ exec' = "publish"
      /\ last_extended_position_deg' =
           IF ext_positions = <<>> THEN last_extended_position_deg
                                   ELSE ext_positions[Len(ext_positions)]
  BY DEF ApplyExt, busVars, rxVars, queueVars, historyVars
<1>2. /\ Waiting' = Waiting /\ Hand' = Hand /\ ExtHand' = ExtHand
      /\ Gone' = Gone /\ Held' = Held /\ Queued' = Queued
      /\ Values(ext_position_queue)' = Values(ext_position_queue)
  BY <1>1 DEF Waiting, Hand, ExtHand, Gone, Held, Queued, Stamps, Values
<1>3. Pending' = Values(ext_position_queue)
  BY <1>1, <1>2 DEF Pending
<1>4. Pending = Values(ext_position_queue) \cup Values(ext_positions)
  BY <1>1 DEF Pending
<1>5. /\ Floor' \in Held \cup {Floor}
      /\ \A x \in Pending' : Floor' < x
      /\ last_extended_position_deg' # NoExt => cleared' < last_extended_position_deg'
      /\ \A e \in extSeen : e <= Floor' \/ e \in ExtHand \/ e \in Pending'
  <2>1. CASE ext_positions = <<>>
    <3>1. Floor' = Floor /\ Values(ext_positions) = {}
          /\ last_extended_position_deg' = last_extended_position_deg
      BY <1>1, <2>1 DEF Floor, Values
    <3>2. QED
      BY <1>1, <1>3, <1>4, <3>1 DEF OrderInv, CacheInv
  <2>2. CASE ext_positions # <<>>
    <3> DEFINE last == ext_positions[Len(ext_positions)]
    <3>1. last \in Values(ext_positions) /\ \A v \in Values(ext_positions) : v <= last
      BY <2>2, LastOfAscending DEF StreamInv, TypeOK, OrderInv, CacheInv
    <3>2. Values(ext_positions) \subseteq Stamp
      BY ValuesTyped DEF StreamInv, TypeOK
    <3>3. last \in Nat /\ last # NoExt /\ Floor \in Nat /\ cleared \in Nat
          /\ extSeen \subseteq Nat
      <4>1. last \in Nat /\ last # NoExt
        <5>1. last \in Stamp
          BY <3>1, <3>2
        <5> HIDE DEF last
        <5>2. QED
          BY <5>1 DEF Stamp, NoExt
      <4>2. cleared \in Nat
        BY DEF StreamInv, TypeOK, Stamp, NoExt
      <4>3. Floor \in Nat /\ extSeen \subseteq Nat
        BY StagesAreStamps DEF StreamInv
      <4>4. QED
        BY <4>1, <4>2, <4>3
    <3>4. last_extended_position_deg' = last
      BY <1>1, <2>2
    <3> HIDE DEF last
    <3>5. Floor' = last
      BY <3>3, <3>4 DEF Floor
    <3>6. Floor < last
      BY <1>4, <3>1 DEF OrderInv, CacheInv
    <3>7. cleared <= Floor
      BY <3>3 DEF OrderInv, CacheInv, Floor
    <3>8. \A x \in Values(ext_position_queue) : last < x
      BY <1>1, <3>1 DEF OrderInv, FlowInv, CleanCut
    <3>9. \A e \in extSeen : e <= last \/ e \in ExtHand \/ e \in Pending'
      <4>1. SUFFICES ASSUME NEW e \in extSeen, e <= Floor
                     PROVE  e <= last
        BY <1>3, <1>4, <3>1 DEF OrderInv, CacheInv
      <4>2. QED
        BY <3>3, <3>6, <4>1
    <3>10. Floor' \in Held
      BY <3>1, <3>5 DEF Held
    <3>11. cleared' < last_extended_position_deg'
      <4>1. cleared < last
        BY <3>3, <3>6, <3>7
      <4>2. QED
        BY <1>1, <3>4, <4>1
    <3>12. \A x \in Pending' : Floor' < x
      BY <1>3, <3>5, <3>8
    <3>13. QED
      BY <3>5, <3>9, <3>10, <3>11, <3>12
  <2>3. QED
    BY <2>1, <2>2
<1>6. CleanCut'
  <2>1. \A d \in Held, q \in Queued : d < q
    BY <1>1 DEF OrderInv, FlowInv, CleanCut, Held, Queued
  <2>2. QED
    BY <1>2, <2>1 DEF CleanCut, Held, Queued
<1>7. Flow(Done', Hand', Waiting', lastStamp')
  <2>1. Done' \in SUBSET Done
    BY <1>2, <1>5 DEF Done
  <2>2. Hand' \in SUBSET Hand /\ Waiting' \in SUBSET Waiting
    BY <1>2
  <2>3. Flow(Done, Hand, Waiting, lastStamp)
    BY DEF OrderInv, FlowInv
  <2>4. QED
    BY <1>1, <2>1, <2>2, <2>3, FlowShrinks
<1>8. FlowInv'
  BY <1>1, <1>6, <1>7 DEF OrderInv, FlowInv
<1>9. NoClobber' /\ ClearedNotReused'
  BY <1>1 DEF OrderInv, CacheInv, NoClobber, ClearedNotReused
<1>10. CacheInv'
  BY <1>1, <1>2, <1>5, <1>9 DEF OrderInv, CacheInv, Ascending
<1>11. QED
  BY <1>8, <1>10 DEF OrderInv

(* A published state carries the cache's reading or none: what the cache   *)
(* has not seen yet is younger than the status.                            *)
LEMMA PublishOrder ==
  ASSUME StreamInv, OrderInv, PublishOne
  PROVE  OrderInv'
<1> DEFINE s == Head(statuses)
           g == s.stamp
<1>1. /\ UNCHANGED <<sockbuf, lastStamp, frame, status_queue, ext_position_queue,
                      ext_positions, last_extended_position_deg, cleared, extSeen, exec>>
      /\ exec = "publish" /\ statuses # <<>> /\ statuses' = Tail(statuses)
      /\ published' = Append(published, MakeState(s))
  BY DEF PublishOne, busVars, rxVars, queueVars
<1>2. /\ Waiting' = Waiting /\ Hand' = Hand /\ ExtHand' = ExtHand
      /\ Queued' = Queued /\ Floor' = Floor /\ Pending' = Pending
  BY <1>1 DEF Waiting, Hand, ExtHand, Queued, Floor, Pending, Stamps, Values
<1>3. g \in Stamps(statuses) /\ Stamps(statuses)' \subseteq Stamps(statuses)
  <2>1. statuses \in Seq(Status) /\ Stamps(statuses)' = Stamps(Tail(statuses))
    BY <1>1 DEF StreamInv, TypeOK, Stamps
  <2>2. QED
    BY <1>1, <2>1, StampsOfTail
<1>4. g \in Held /\ Held' \subseteq Held
  <2>1. Values(ext_positions)' = Values(ext_positions)
    BY <1>1 DEF Values
  <2>2. QED
    BY <1>3, <2>1 DEF Held
<1>5. /\ s \in Status /\ MakeState(s) \in Published
      /\ MakeState(s).status = s
  <2>1. s \in Status
    BY <1>1, HeadTailProperties DEF StreamInv, TypeOK
  <2>2. QED
    BY <2>1 DEF MakeState, Published, StreamInv, TypeOK, Status, NoExt
<1>6. /\ DOMAIN published \subseteq DOMAIN published'
      /\ \A i \in DOMAIN published : published'[i] = published[i]
      /\ \A i \in DOMAIN published' :
           i \in DOMAIN published \/ published'[i] = MakeState(s)
  <2> HIDE DEF s
  <2>1. published \in Seq(Published)
    BY DEF StreamInv, TypeOK
  <2>2. /\ Len(published) \in Nat /\ DOMAIN published = 1..Len(published)
        /\ DOMAIN published' = 1..(Len(published) + 1)
        /\ \A i \in 1..Len(published) : published'[i] = published[i]
        /\ published'[Len(published) + 1] = MakeState(s)
    BY <1>1, <1>5, <2>1, AppendProperties, LenProperties
  <2>3. QED
    BY <2>2
<1>7. Gone' \subseteq Gone \cup {g}
  BY <1>5, <1>6 DEF Gone
<1>8. Flow(Done', Hand', Waiting', lastStamp')
  <2>1. Done' \in SUBSET Done
    BY <1>2, <1>4, <1>7 DEF Done
  <2>2. Hand' \in SUBSET Hand /\ Waiting' \in SUBSET Waiting
    BY <1>2
  <2>3. Flow(Done, Hand, Waiting, lastStamp)
    BY DEF OrderInv, FlowInv
  <2>4. QED
    BY <1>1, <2>1, <2>2, <2>3, FlowShrinks
<1>9. \A d \in Held, q \in Queued : d < q
  BY <1>1 DEF OrderInv, FlowInv, CleanCut, Held, Queued
<1>10. CleanCut'
  BY <1>2, <1>4, <1>9 DEF CleanCut, Held, Queued
<1>11. FlowInv'
  BY <1>1, <1>8, <1>10 DEF OrderInv, FlowInv
<1>12. \A e \in extSeen : e < g => e <= Floor
  <2>1. SUFFICES ASSUME NEW e \in extSeen, e < g, e \in ExtHand \/ e \in Pending
                 PROVE  FALSE
    BY DEF OrderInv, CacheInv
  <2>2. g < e
    <3>1. CASE e \in ExtHand
      <4>1. e \in Hand
        BY <3>1 DEF Hand, ExtHand
      <4>2. QED
        BY <1>4, <4>1 DEF OrderInv, FlowInv, Flow, Done
    <3>2. CASE e \in Pending
      <4>1. e \in Queued
        BY <1>1, <3>2 DEF Pending, Queued
      <4>2. QED
        BY <1>4, <1>9, <4>1
    <3>3. QED
      BY <2>1, <3>1, <3>2
  <2>3. e \in Nat /\ g \in Nat
    BY <1>4, StagesAreStamps DEF StreamInv
  <2> HIDE DEF g
  <2>4. QED
    BY <2>1, <2>2, <2>3
<1>13. NoClobber'
  <2>1. (IF MakeState(s).valid THEN MakeState(s).position ELSE MakeState(s).cleared)
          = Floor
    BY DEF MakeState, Floor
  <2>2. MakeState(s).status.stamp = g
    BY <1>5
  <2> HIDE DEF s, g
  <2>3. NoClobber
    BY DEF OrderInv, CacheInv
  <2>4. QED
    BY <1>1, <1>6, <1>12, <2>1, <2>2, <2>3 DEF NoClobber
<1>14. ClearedNotReused'
  <2>1. MakeState(s).valid => MakeState(s).cleared < MakeState(s).position
    BY DEF MakeState, OrderInv, CacheInv
  <2>2. MakeState(s).valid => MakeState(s).position > MakeState(s).cleared
    BY <2>1
  <2> HIDE DEF s, g
  <2>3. ClearedNotReused
    BY DEF OrderInv, CacheInv
  <2>4. QED
    BY <1>6, <2>2, <2>3 DEF ClearedNotReused
<1>15. CacheInv'
  BY <1>1, <1>2, <1>13, <1>14 DEF OrderInv, CacheInv, Ascending
<1>16. QED
  BY <1>11, <1>15 DEF OrderInv

LEMMA DoneOrder ==
  ASSUME StreamInv, OrderInv, DrainDone
  PROVE  OrderInv'
<1>1. /\ UNCHANGED <<sockbuf, lastStamp, frame, status_queue, ext_position_queue,
                      statuses, last_extended_position_deg, cleared, extSeen, published>>
      /\ exec = "publish" /\ exec' = "spin" /\ ext_positions' = <<>>
  BY DEF DrainDone, busVars, rxVars, queueVars, historyVars
<1>2. /\ Waiting' = Waiting /\ Hand' = Hand /\ ExtHand' = ExtHand /\ Gone' = Gone
      /\ Queued' = Queued /\ Floor' = Floor /\ Pending' = Pending
      /\ Stamps(statuses)' = Stamps(statuses) /\ Values(ext_positions)' = {}
  BY <1>1 DEF Waiting, Hand, ExtHand, Gone, Queued, Floor, Pending, Stamps, Values
<1>3. Done' \in SUBSET Done
  BY <1>2 DEF Done, Held
<1>4. Flow(Done', Hand', Waiting', lastStamp')
  <2>1. Hand' \in SUBSET Hand /\ Waiting' \in SUBSET Waiting
    BY <1>2
  <2>2. Flow(Done, Hand, Waiting, lastStamp)
    BY DEF OrderInv, FlowInv
  <2>3. QED
    BY <1>1, <1>3, <2>1, <2>2, FlowShrinks
<1>5. FlowInv'
  BY <1>1, <1>4 DEF OrderInv, FlowInv, CleanCut
<1>6. NoClobber' /\ ClearedNotReused' /\ Ascending(ext_positions)'
  BY <1>1 DEF OrderInv, CacheInv, NoClobber, ClearedNotReused, Ascending
<1>7. CacheInv'
  BY <1>1, <1>2, <1>6 DEF OrderInv, CacheInv, Ascending
<1>8. QED
  BY <1>5, <1>7 DEF OrderInv

-----------------------------------------------------------------------------
(* The other steps, and the theorems.                                      *)

(* Dropping the cache keeps what it held as the floor.                     *)
LEMMA ConfigOrder ==
  ASSUME StreamInv, OrderInv, NEW add \in BOOLEAN, NEW success \in BOOLEAN,
         OnSetFeedbackConfig(add, success)
  PROVE  OrderInv'
<1>1. /\ UNCHANGED <<sockbuf, lastStamp, frame, status_queue, ext_position_queue,
                      statuses, ext_positions, extSeen, published, exec>>
      /\ exec = "spin"
  BY DEF OnSetFeedbackConfig, rxVars, queueVars
<1>2. /\ Floor' = Floor
      /\ last_extended_position_deg' # NoExt => cleared' < last_extended_position_deg'
  BY DEF OnSetFeedbackConfig, Floor, OrderInv, CacheInv
<1>3. /\ Waiting' = Waiting /\ Hand' = Hand /\ ExtHand' = ExtHand
      /\ Gone' = Gone /\ Held' = Held /\ Queued' = Queued /\ Pending' = Pending
  BY <1>1 DEF Waiting, Hand, ExtHand, Gone, Held, Queued, Pending, Stamps, Values
<1>4. FlowInv'
  BY <1>1, <1>2, <1>3 DEF OrderInv, FlowInv, Done, CleanCut
<1>5. NoClobber' /\ ClearedNotReused'
  BY <1>1 DEF OrderInv, CacheInv, NoClobber, ClearedNotReused
<1>6. CacheInv'
  BY <1>1, <1>2, <1>3, <1>5 DEF OrderInv, CacheInv, Ascending
<1>7. QED
  BY <1>4, <1>6 DEF OrderInv

LEMMA NextOrderInv == StreamInv /\ OrderInv /\ [Next]_vars => OrderInv'
<1> SUFFICES ASSUME StreamInv, OrderInv, [Next]_vars PROVE OrderInv'
  OBVIOUS
<1>1. ASSUME NEW raw \in BusFrames, BusDelivers(raw) PROVE OrderInv'
  BY <1>1, BusOrder
<1>2. CASE RxRead \/ RxPush
  BY <1>2, ReadOrder, PushOrder
<1>3. CASE RxCheck \/ RxTimeout \/ RxLock
  <2>1. UNCHANGED orderVars /\ exec' = exec
    BY <1>3 DEF RxCheck, RxTimeout, RxLock, orderVars, busVars, queueVars,
                execVars, historyVars
  <2>2. QED
    BY <2>1, QuietStep
<1>4. CASE SwapStatus \/ SwapExt \/ ApplyExt \/ PublishOne \/ DrainDone
  BY <1>4, SwapStatusOrder, SwapExtOrder, ApplyOrder, PublishOrder, DoneOrder
<1>5. CASE DrainStart \/ DrainLock \/ DestructorStop \/ DestructorJoin
  <2>1. UNCHANGED orderVars /\ exec \in Outside /\ exec' \in Outside
    BY <1>5 DEF DrainStart, DrainLock, DestructorStop, DestructorJoin, orderVars,
                busVars, rxVars, queueVars, historyVars, Outside
  <2>2. QED
    BY <2>1, QuietStep
<1>6. ASSUME NEW add \in BOOLEAN, NEW success \in BOOLEAN,
             OnSetFeedbackConfig(add, success)
      PROVE  OrderInv'
  BY <1>6, ConfigOrder
<1>7. CASE Ended \/ UNCHANGED vars
  <2>1. UNCHANGED orderVars /\ exec' = exec
    BY <1>7 DEF Ended, vars, orderVars, busVars, rxVars, queueVars, execVars,
                historyVars
  <2>2. QED
    BY <2>1, QuietStep
<1>8. QED
  BY <1>1, <1>2, <1>3, <1>4, <1>5, <1>6, <1>7 DEF Next, RxThread, Drain

LEMMA OrderInvariant == Spec => []OrderInv
  BY InitOrderInv, NextOrderInv, StreamInvariant, PTL DEF Spec

(* Everything a drain has swapped out is older than everything it left     *)
(* behind, in both queues.                                                 *)
THEOREM CutIsClean == Spec => []CleanCut
<1>1. OrderInv => CleanCut
  BY DEF OrderInv, FlowInv
<1>2. QED
  BY <1>1, OrderInvariant, PTL

(* A published status is never behind an extended position that preceded   *)
(* it, unless a request has dropped that one.                              *)
THEOREM CacheNotBehind == Spec => []NoClobber
<1>1. OrderInv => NoClobber
  BY DEF OrderInv, CacheInv
<1>2. QED
  BY <1>1, OrderInvariant, PTL

(* What ~/set_feedback_config dropped is never published again.            *)
THEOREM DroppedStaysDropped == Spec => []ClearedNotReused
<1>1. OrderInv => ClearedNotReused
  BY DEF OrderInv, CacheInv
<1>2. QED
  BY <1>1, OrderInvariant, PTL
=============================================================================
