-------------------------- MODULE RxPipelineProofs --------------------------
(***************************************************************************)
(* Proofs about the feedback path, for every bus traffic, every capacity   *)
(* and every bound: types and lock discipline, conservation of the status  *)
(* stream, and refinement of FeedbackStream.                               *)
(***************************************************************************)
EXTENDS RxPipeline, SequenceTheorems, TLAPS

USE BusFramesAssumption, BoundsAssumption

-----------------------------------------------------------------------------
(* Types.                                                                  *)

(* A stamp taken from the socket and the frame it belongs to are typed.    *)
LEMMA HeadOfSocket ==
  ASSUME TypeOK, sockbuf # <<>>
  PROVE  /\ Head(sockbuf).raw \in BusFrames
         /\ Head(sockbuf).stamp \in Stamp
         /\ Head(sockbuf).raw.fault \in Fault
         /\ Tail(sockbuf) \in Seq([raw : BusFrames, stamp : Stamp])
         /\ Len(Tail(sockbuf)) <= RcvBuf
<1> DEFINE Entry == [raw : BusFrames, stamp : Stamp]
<1>1. sockbuf \in Seq(Entry) /\ Len(sockbuf) <= RcvBuf
  BY DEF TypeOK
<1> HIDE DEF Entry
<1>2. /\ Head(sockbuf) \in Entry
      /\ Tail(sockbuf) \in Seq(Entry)
      /\ Len(Tail(sockbuf)) = Len(sockbuf) - 1
  BY <1>1, HeadTailProperties
<1>3. Len(sockbuf) \in Nat
  BY <1>1, LenProperties
<1>4. QED
  BY <1>1, <1>2, <1>3 DEF Entry, Fault

LEMMA InitTypeOK == Init => TypeOK
  BY DEF Init, TypeOK, NoExt, Stamp

LEMMA BusTypeOK ==
  ASSUME TypeOK, NEW raw \in BusFrames, BusDelivers(raw)
  PROVE  TypeOK'
<1>1. lastStamp' \in Stamp
  BY DEF TypeOK, BusDelivers, Stamp
<1>2. sockbuf' \in Seq([raw : BusFrames, stamp : Stamp]) /\ Len(sockbuf') <= RcvBuf
  <2> DEFINE Entry == [raw : BusFrames, stamp : Stamp]
             new   == [raw |-> raw, stamp |-> lastStamp']
  <2>1. new \in Entry
    BY <1>1
  <2>2. sockbuf \in Seq(Entry) /\ Len(sockbuf) <= RcvBuf
    BY DEF TypeOK
  <2>3. sockbuf' = IF Len(sockbuf) < RcvBuf THEN Append(sockbuf, new) ELSE sockbuf
    BY DEF BusDelivers
  <2> HIDE DEF Entry, new
  <2>4. Len(sockbuf) \in Nat /\ Append(sockbuf, new) \in Seq(Entry)
        /\ Len(Append(sockbuf, new)) = Len(sockbuf) + 1
    BY <2>1, <2>2, AppendProperties, LenProperties
  <2>5. sockbuf' \in Seq(Entry) /\ Len(sockbuf') <= RcvBuf
    <3>1. CASE Len(sockbuf) < RcvBuf
      BY <2>3, <2>4, <3>1
    <3>2. CASE ~(Len(sockbuf) < RcvBuf)
      BY <2>2, <2>3, <3>2
    <3>3. QED
      BY <3>1, <3>2
  <2>6. QED
    BY <2>5, Zenon DEF Entry
<1>3. QED
  BY <1>1, <1>2 DEF TypeOK, BusDelivers, rxVars, queueVars, execVars,
                    historyVars, Stamp

LEMMA RxTypeOK ==
  ASSUME TypeOK, RxThread
  PROVE  TypeOK'
<1>1. CASE RxCheck
  BY <1>1 DEF RxCheck, TypeOK, busVars, queueVars, execVars, historyVars
<1>2. CASE RxTimeout
  BY <1>2 DEF RxTimeout, TypeOK, busVars, queueVars, execVars, historyVars
<1>3. CASE RxRead
  <2> DEFINE raw   == Head(sockbuf).raw
             stamp == Head(sockbuf).stamp
  <2>1. CASE /\ frame' = [kind |-> "status",
                          status |-> [stamp |-> stamp, fault |-> raw.fault]]
             /\ accepted' = Append(accepted, frame'.status)
             /\ rx' = "lock"
             /\ UNCHANGED extSeen
    <3>1. [stamp |-> stamp, fault |-> raw.fault] \in Status
      BY <1>3, HeadOfSocket DEF RxRead, Status
    <3>2. frame' \in PendingFrame /\ accepted' \in Seq(Status)
      BY <2>1, <3>1 DEF PendingFrame, TypeOK
    <3>3. QED
      BY <1>3, <2>1, <3>2, HeadOfSocket
         DEF RxRead, TypeOK, queueVars, execVars
  <2>2. CASE /\ frame' = [kind |-> "ext", position |-> stamp]
             /\ extSeen' = extSeen \cup {stamp}
             /\ rx' = "lock"
             /\ UNCHANGED accepted
    <3>1. stamp \in Stamp
      BY <1>3, HeadOfSocket DEF RxRead
    <3>2. frame' \in PendingFrame /\ extSeen' \subseteq Stamp
      BY <2>2, <3>1 DEF PendingFrame, TypeOK
    <3>3. QED
      BY <1>3, <2>2, <3>2, HeadOfSocket
         DEF RxRead, TypeOK, queueVars, execVars
  <2>3. CASE rx' = "loop" /\ UNCHANGED <<frame, accepted, extSeen>>
    BY <1>3, <2>3, HeadOfSocket DEF RxRead, TypeOK, queueVars, execVars
  <2>4. QED
    BY <1>3, <2>1, <2>2, <2>3 DEF RxRead
<1>4. CASE RxLock
  BY <1>4 DEF RxLock, TypeOK, busVars, execVars, historyVars
<1>5. CASE RxPush
  <2>1. frame \in PendingFrame
    BY <1>5 DEF RxPush, TypeOK
  <2>2. CASE frame.kind = "status"
    <3>1. frame.status \in Status
      BY <2>1, <2>2 DEF PendingFrame
    <3>2. /\ status_queue' = Append(status_queue, frame.status)
          /\ ext_position_queue' = ext_position_queue
      BY <1>5, <2>2 DEF RxPush
    <3>3. status_queue \in Seq(Status) /\ ext_position_queue \in Seq(Stamp)
      BY DEF TypeOK
    <3>4. status_queue' \in Seq(Status) /\ ext_position_queue' \in Seq(Stamp)
      BY <3>1, <3>2, <3>3, AppendProperties
    <3>5. QED
      BY <1>5, <3>4 DEF RxPush, TypeOK, busVars, execVars, historyVars
  <2>3. CASE frame.kind = "ext"
    <3>1. frame.position \in Stamp
      BY <2>1, <2>3 DEF PendingFrame
    <3>2. /\ status_queue' = status_queue
          /\ ext_position_queue' = Append(ext_position_queue, frame.position)
      BY <1>5, <2>3 DEF RxPush
    <3>3. status_queue \in Seq(Status) /\ ext_position_queue \in Seq(Stamp)
      BY DEF TypeOK
    <3>4. status_queue' \in Seq(Status) /\ ext_position_queue' \in Seq(Stamp)
      BY <3>1, <3>2, <3>3, AppendProperties
    <3>5. QED
      BY <1>5, <3>4 DEF RxPush, TypeOK, busVars, execVars, historyVars
  <2>4. QED
    BY <1>5, <2>2, <2>3 DEF RxPush
<1>6. QED
  BY <1>1, <1>2, <1>3, <1>4, <1>5 DEF RxThread

LEMMA DrainTypeOK ==
  ASSUME TypeOK, Drain
  PROVE  TypeOK'
<1>1. CASE DrainStart
  BY <1>1 DEF DrainStart, TypeOK, busVars, rxVars, queueVars, historyVars
<1>2. CASE DrainLock
  BY <1>2 DEF DrainLock, TypeOK, busVars, rxVars, historyVars
<1>3. CASE SwapStatus
  BY <1>3 DEF SwapStatus, TypeOK, busVars, rxVars, historyVars
<1>4. CASE SwapExt
  BY <1>4 DEF SwapExt, TypeOK, busVars, rxVars, historyVars
<1>5. CASE ApplyExt
  <2>1. last_extended_position_deg' \in {NoExt} \cup Stamp
    BY <1>5 DEF ApplyExt, TypeOK
  <2>2. QED
    BY <1>5, <2>1 DEF ApplyExt, TypeOK, busVars, rxVars, queueVars,
                      historyVars
<1>6. CASE PublishOne
  <2>1. Head(statuses) \in Status /\ Tail(statuses) \in Seq(Status)
    BY <1>6 DEF PublishOne, TypeOK
  <2>2. MakeState(Head(statuses)) \in Published
    BY <2>1 DEF MakeState, Published, TypeOK, Status, NoExt
  <2>3. published' \in Seq(Published)
    BY <1>6, <2>2 DEF PublishOne, TypeOK
  <2>4. QED
    BY <1>6, <2>1, <2>3 DEF PublishOne, TypeOK, busVars, rxVars, queueVars
<1>7. CASE DrainDone
  BY <1>7 DEF DrainDone, TypeOK, busVars, rxVars, queueVars, historyVars
<1>8. QED
  BY <1>1, <1>2, <1>3, <1>4, <1>5, <1>6, <1>7 DEF Drain

LEMMA OtherTypeOK ==
  ASSUME TypeOK,
         \/ \E add, success \in BOOLEAN : OnSetFeedbackConfig(add, success)
         \/ DestructorStop \/ DestructorJoin \/ Ended \/ UNCHANGED vars
  PROVE  TypeOK'
<1>1. ASSUME NEW add \in BOOLEAN, NEW success \in BOOLEAN,
             OnSetFeedbackConfig(add, success)
      PROVE  TypeOK'
  BY <1>1 DEF OnSetFeedbackConfig, TypeOK, rxVars, queueVars, NoExt
<1>2. CASE DestructorStop
  BY <1>2 DEF DestructorStop, TypeOK, busVars, queueVars, historyVars
<1>3. CASE DestructorJoin
  BY <1>3 DEF DestructorJoin, TypeOK, busVars, rxVars, queueVars, historyVars
<1>4. CASE Ended \/ UNCHANGED vars
  BY <1>4 DEF Ended, TypeOK, vars, busVars, rxVars, queueVars, execVars,
              historyVars
<1>5. QED
  BY <1>1, <1>2, <1>3, <1>4

LEMMA NextTypeOK == TypeOK /\ [Next]_vars => TypeOK'
  BY BusTypeOK, RxTypeOK, DrainTypeOK, OtherTypeOK DEF Next

(* Every reachable state is typed, and each thread touches the shared      *)
(* queues only while it holds rx_queue_mutex_.                             *)
THEOREM TypeCorrect == Spec => []TypeOK
<1>1. QED
  BY InitTypeOK, NextTypeOK, PTL DEF Spec

-----------------------------------------------------------------------------
(* The end of the two threads.                                             *)

(* The members are destroyed only once the RX thread has returned.         *)
Joined == exec = "destroyed" => rx = "exit"

LEMMA JoinedStep ==
  ASSUME Joined, [Next]_vars
  PROVE  Joined' /\ (exec = "destroyed" => UNCHANGED <<rxVars, queueVars>>)
<1> USE DEF Joined, busVars, rxVars, queueVars, execVars, historyVars
<1>1. CASE \E raw \in BusFrames : BusDelivers(raw)
  BY <1>1 DEF BusDelivers
<1>2. CASE RxThread
  BY <1>2 DEF RxThread, RxCheck, RxTimeout, RxRead, RxLock, RxPush
<1>3. CASE Drain
  BY <1>3 DEF Drain, DrainStart, DrainLock, SwapStatus, SwapExt, ApplyExt,
              PublishOne, DrainDone
<1>4. CASE \E add, success \in BOOLEAN : OnSetFeedbackConfig(add, success)
  BY <1>4 DEF OnSetFeedbackConfig
<1>5. CASE DestructorStop \/ DestructorJoin
  BY <1>5 DEF DestructorStop, DestructorJoin
<1>6. CASE Ended \/ UNCHANGED vars
  BY <1>6 DEF Ended, vars
<1>7. QED
  BY <1>1, <1>2, <1>3, <1>4, <1>5, <1>6 DEF Next

(* No thread touches a queue, the mutex or the flag of a node whose        *)
(* members are gone (~MotorDriverNode() joins first).                      *)
THEOREM JoinedBeforeDestroyed == Spec => UntouchedAfterJoin
<1>1. Init => Joined
  BY DEF Init, Joined
<1>2. Joined /\ [Next]_vars => Joined'
  BY JoinedStep
<1>3. Joined /\ [Next]_vars
        => [exec = "destroyed" => UNCHANGED <<rxVars, queueVars>>]_vars
  BY JoinedStep
<1>4. QED
  BY <1>1, <1>2, <1>3, PTL DEF Spec, UntouchedAfterJoin

-----------------------------------------------------------------------------
(***************************************************************************)
(* Conservation of the stream of status frames.  The inductive invariant   *)
(* adds to StreamConserved the types and LocalsFresh: the two swaps        *)
(* conserve the stream only if the local deque is empty.                   *)
(***************************************************************************)
StreamInv == TypeOK /\ LocalsFresh /\ StreamConserved

-----------------------------------------------------------------------------
(* Facts about sequences.                                                  *)

(* Moving the head of the second stage to the end of the first.            *)
LEMMA MoveHead ==
  ASSUME NEW S, NEW d \in Seq(S), NEW h \in Seq(S), NEW r \in Seq(S),
         h # <<>>
  PROVE  d \o (h \o r) = Append(d, Head(h)) \o (Tail(h) \o r)
<1> DEFINE x == Head(h)
           t == Tail(h)
<1>1. x \in S /\ t \in Seq(S) /\ <<x>> \in Seq(S)
  BY HeadTailProperties
<1>2. h = <<x>> \o t
  OBVIOUS
<1> HIDE DEF x, t
<1>3. h \o r = <<x>> \o (t \o r)
  BY <1>1, <1>2, ConcatAssociative
<1>4. t \o r \in Seq(S)
  BY <1>1, ConcatProperties
<1>5. (d \o <<x>>) \o (t \o r) = d \o (<<x>> \o (t \o r))
  <2>1. \A s \in Seq(S) : (d \o <<x>>) \o s = d \o (<<x>> \o s)
    BY <1>1, ConcatAssociative
  <2>2. QED
    BY <1>4, <2>1
<1>6. Append(d, x) = d \o <<x>>
  BY <1>1, AppendIsConcat
<1>7. QED
  BY <1>3, <1>5, <1>6 DEF x, t

(* The first element of the second stage follows the first stage.          *)
LEMMA HeadOfSecond ==
  ASSUME NEW S, NEW d \in Seq(S), NEW h \in Seq(S), NEW r \in Seq(S),
         h # <<>>
  PROVE  /\ Len(d) < Len(d \o (h \o r))
         /\ (d \o (h \o r))[Len(d) + 1] = Head(h)
<1>1. /\ Len(h) \in Nat \ {0} /\ Len(d) \in Nat /\ Len(r) \in Nat
      /\ Head(h) = h[1]
  BY EmptySeq, LenProperties
<1>2. /\ h \o r \in Seq(S)
      /\ Len(h \o r) = Len(h) + Len(r)
      /\ (h \o r)[1] = h[1]
  BY <1>1, ConcatProperties
<1>3. /\ Len(d \o (h \o r)) = Len(d) + Len(h \o r)
      /\ \A i \in 1..(Len(d) + Len(h \o r)) :
           (d \o (h \o r))[i] = IF i <= Len(d) THEN d[i]
                                               ELSE (h \o r)[i - Len(d)]
  BY <1>2, ConcatProperties
<1>4. Len(d) + 1 \in 1..(Len(d) + Len(h \o r)) /\ ~(Len(d) + 1 <= Len(d))
      /\ (Len(d) + 1) - Len(d) = 1
  BY <1>1, <1>2
<1>5. QED
  BY <1>1, <1>2, <1>3, <1>4

(* The stages are sequences of status frames.                              *)
LEMMA StagesTyped ==
  ASSUME TypeOK
  PROVE  /\ Delivered \in Seq(Status) /\ InHand \in Seq(Status)
         /\ statuses \in Seq(Status) /\ status_queue \in Seq(Status)
         /\ status_queue \o InHand \in Seq(Status)
<1>1. statuses \in Seq(Status) /\ status_queue \in Seq(Status)
  BY DEF TypeOK
<1>2. InHand \in Seq(Status)
  <2>1. CASE frame = NoFrame
    BY <2>1, EmptySeq DEF InHand, NoFrame
  <2>2. CASE frame \in PendingFrame
    BY <2>2, EmptySeq DEF InHand, PendingFrame
  <2>3. QED
    BY <2>1, <2>2 DEF TypeOK
<1>3. Delivered \in Seq(Status)
  <2>1. published \in Seq(Published)
    BY DEF TypeOK
  <2>2. Len(published) \in Nat
    BY <2>1, LenProperties
  <2>3. \A i \in 1..Len(published) : published[i] \in Published
    BY <2>1, ElementOfSeq
  <2>4. \A i \in 1..Len(published) : published[i].status \in Status
    BY <2>3 DEF Published
  <2>5. QED
    BY <2>2, <2>4 DEF Delivered
<1>4. QED
  BY <1>1, <1>2, <1>3, ConcatProperties

(* Publishing one state appends one status to the delivered stream.        *)
LEMMA DeliveredAppends ==
  ASSUME TypeOK, NEW p \in Published, published' = Append(published, p)
  PROVE  Delivered' = Append(Delivered, p.status)
<1>1. published \in Seq(Published)
  BY DEF TypeOK
<1>2. /\ published' \in Seq(Published)
      /\ Len(published) \in Nat /\ Len(published') = Len(published) + 1
      /\ \A i \in 1..Len(published) : published'[i] = published[i]
      /\ published'[Len(published) + 1] = p
  BY <1>1, AppendProperties, LenProperties
<1>3. /\ Delivered \in Seq(Status) /\ Len(Delivered) = Len(published)
      /\ \A i \in 1..Len(published) : Delivered[i] = published[i].status
  BY <1>2, StagesTyped DEF Delivered
<1>4. p.status \in Status
  BY DEF Published
<1>5. Delivered' = [i \in 1..(Len(published) + 1) |-> published'[i].status]
  BY <1>2 DEF Delivered
<1>6. \A i \in 1..(Len(published) + 1) :
        /\ published'[i].status \in Status
        /\ published'[i].status = Append(Delivered, p.status)[i]
  <2> TAKE i \in 1..(Len(published) + 1)
  <2>1. CASE i \in 1..Len(published)
    BY <1>2, <1>3, <1>4, <2>1, AppendProperties, ElementOfSeq
  <2>2. CASE i = Len(published) + 1
    BY <1>2, <1>3, <1>4, <2>2, AppendProperties
  <2>3. Len(published) \in Nat
    BY <1>2
  <2>4. i \in 1..Len(published) \/ i = Len(published) + 1
    BY <2>3
  <2>5. QED
    BY <2>1, <2>2, <2>4
<1>7. /\ Delivered' \in Seq(Status) /\ Len(Delivered') = Len(published) + 1
      /\ \A i \in 1..(Len(published) + 1) :
           Delivered'[i] = Append(Delivered, p.status)[i]
  <2>1. Len(published) + 1 \in Nat
    BY <1>2
  <2>2. \A i \in 1..(Len(published) + 1) : published'[i].status \in Status
    BY <1>6
  <2>3. Delivered' \in Seq(Status) /\ Len(Delivered') = Len(published) + 1
    BY <1>5, <2>1, <2>2
  <2>4. \A i \in 1..(Len(published) + 1) : Delivered'[i] = published'[i].status
    BY <1>5
  <2>5. QED
    BY <1>6, <2>3, <2>4
<1>8. /\ Append(Delivered, p.status) \in Seq(Status)
      /\ Len(Append(Delivered, p.status)) = Len(published) + 1
  BY <1>3, <1>4, AppendProperties
<1>9. QED
  BY <1>7, <1>8, SeqEqual

-----------------------------------------------------------------------------
(* Conservation of the stream.                                             *)

streamVars == <<accepted, published, statuses, status_queue, frame>>

LEMMA StreamUntouched ==
  ASSUME StreamConserved, UNCHANGED streamVars
  PROVE  StreamConserved'
  BY DEF StreamConserved, streamVars, Delivered, InHand

LEMMA InitStreamInv == Init => StreamInv
<1> SUFFICES ASSUME Init PROVE StreamInv
  OBVIOUS
<1>1. TypeOK
  BY InitTypeOK
<1>2. LocalsFresh
  BY DEF Init, LocalsFresh
<1>3. StreamConserved
  <2>1. /\ published = <<>> /\ statuses = <<>> /\ status_queue = <<>>
        /\ accepted = <<>> /\ frame = NoFrame
    BY DEF Init
  <2>2. Delivered = <<>>
    BY <2>1 DEF Delivered
  <2>3. InHand = <<>>
    BY <2>1 DEF InHand, NoFrame
  <2>4. QED
    BY <2>1, <2>2, <2>3 DEF StreamConserved
<1>4. QED
  BY <1>1, <1>2, <1>3 DEF StreamInv

(* The deques handed back by the swaps are empty.                          *)
LEMMA NextLocalsFresh == StreamInv /\ [Next]_vars => LocalsFresh'
<1> SUFFICES ASSUME StreamInv, [Next]_vars PROVE LocalsFresh'
  OBVIOUS
<1> USE DEF StreamInv, LocalsFresh
<1>1. ASSUME NEW raw \in BusFrames, BusDelivers(raw) PROVE LocalsFresh'
  BY <1>1 DEF BusDelivers, execVars
<1>2. CASE RxThread
  BY <1>2 DEF RxThread, RxCheck, RxTimeout, RxRead, RxLock, RxPush, execVars
<1>3. CASE DrainStart \/ DrainLock \/ SwapStatus \/ SwapExt \/ ApplyExt
  BY <1>3 DEF DrainStart, DrainLock, SwapStatus, SwapExt, ApplyExt
<1>4. CASE PublishOne \/ DrainDone
  BY <1>4 DEF PublishOne, DrainDone
<1>5. ASSUME NEW add \in BOOLEAN, NEW success \in BOOLEAN,
             OnSetFeedbackConfig(add, success)
      PROVE  LocalsFresh'
  BY <1>5 DEF OnSetFeedbackConfig
<1>6. CASE DestructorStop \/ DestructorJoin \/ Ended \/ UNCHANGED vars
  BY <1>6 DEF DestructorStop, DestructorJoin, Ended, vars, execVars
<1>7. QED
  BY <1>1, <1>2, <1>3, <1>4, <1>5, <1>6 DEF Next, Drain

(* Reading a status frame puts it at the end of the stream.                *)
LEMMA ReadConserves ==
  ASSUME StreamInv, RxRead
  PROVE  StreamConserved'
<1> DEFINE raw   == Head(sockbuf).raw
           stamp == Head(sockbuf).stamp
<1>1. /\ UNCHANGED <<published, statuses, status_queue>>
      /\ frame = NoFrame
  BY DEF RxRead, queueVars, execVars, StreamInv, TypeOK
<1>2. InHand = <<>>
  BY <1>1 DEF InHand, NoFrame
<1>3. Delivered' = Delivered
  BY <1>1 DEF Delivered
<1>4. CASE /\ frame' = [kind |-> "status",
                         status |-> [stamp |-> stamp, fault |-> raw.fault]]
           /\ accepted' = Append(accepted, frame'.status)
  <2>1. PICK s \in Status : /\ frame' = [kind |-> "status", status |-> s]
                           /\ accepted' = Append(accepted, s)
    BY <1>4, HeadOfSocket DEF StreamInv, RxRead, Status
  <2>2. InHand' = <<s>> /\ <<s>> \in Seq(Status)
    BY <2>1 DEF InHand
  <2>3. Delivered \in Seq(Status)
    BY StagesTyped DEF StreamInv
  <2>4. statuses \in Seq(Status) /\ status_queue \in Seq(Status)
    BY StagesTyped DEF StreamInv
  <2>5. accepted = Delivered \o (statuses \o status_queue)
    <3>1. status_queue \o InHand = status_queue
      BY <1>2, <2>4, ConcatEmptySeq
    <3>2. QED
      BY <3>1 DEF StreamInv, StreamConserved
  <2>6. accepted' = accepted \o InHand'
    <3>1. accepted \in Seq(Status)
      BY DEF StreamInv, TypeOK
    <3>2. Append(accepted, s) = accepted \o <<s>>
      BY <3>1, AppendIsConcat
    <3>3. QED
      BY <2>1, <2>2, <3>2
  <2>7. accepted' = Delivered \o (statuses \o (status_queue \o InHand'))
    <3>1. InHand' \in Seq(Status)
      BY <2>2
    <3>2. \A t \in Seq(Status) :
            (Delivered \o t) \o InHand' = Delivered \o (t \o InHand')
      BY <2>3, <3>1, ConcatAssociative
    <3>3. (statuses \o status_queue) \o InHand'
            = statuses \o (status_queue \o InHand')
      BY <2>4, <3>1, ConcatAssociative
    <3>4. statuses \o status_queue \in Seq(Status)
      BY <2>4, ConcatProperties
    <3>5. QED
      BY <2>5, <2>6, <3>2, <3>3, <3>4
  <2>8. QED
    BY <1>1, <1>3, <2>7 DEF StreamConserved
<1>5. CASE frame' = [kind |-> "ext", position |-> stamp] /\ UNCHANGED accepted
  <2>1. InHand' = <<>>
    BY <1>5 DEF InHand
  <2>2. QED
    BY <1>1, <1>2, <1>3, <1>5, <2>1 DEF StreamInv, StreamConserved
<1>6. CASE UNCHANGED <<frame, accepted>>
  BY <1>1, <1>6, StreamUntouched DEF StreamInv, streamVars
<1>7. QED
  BY <1>4, <1>5, <1>6 DEF RxRead

(* push_back moves the frame from the thread's hand to the queue.          *)
LEMMA PushConserves ==
  ASSUME StreamInv, RxPush
  PROVE  StreamConserved'
<1>1. UNCHANGED <<accepted, published, statuses>> /\ frame' = NoFrame
  BY DEF RxPush, execVars, historyVars
<1>2. Delivered' = Delivered /\ InHand' = <<>>
  BY <1>1 DEF Delivered, InHand, NoFrame
<1>3. CASE frame.kind = "status" /\ status_queue' = Append(status_queue, frame.status)
  <2>1. InHand = <<frame.status>> /\ frame.status \in Status
    BY <1>3 DEF InHand, StreamInv, TypeOK, NoFrame, PendingFrame
  <2>2. status_queue' = status_queue \o InHand
    BY <1>3, <2>1, StagesTyped, AppendIsConcat DEF StreamInv
  <2>3. status_queue' \o InHand' = status_queue \o InHand
    BY <1>2, <2>2, StagesTyped, ConcatEmptySeq DEF StreamInv
  <2>4. QED
    BY <1>1, <1>2, <2>3 DEF StreamInv, StreamConserved
<1>4. CASE frame.kind = "ext" /\ UNCHANGED status_queue
  <2>1. InHand = <<>>
    BY <1>4 DEF InHand
  <2>2. QED
    BY <1>1, <1>2, <1>4, <2>1 DEF StreamInv, StreamConserved
<1>5. QED
  BY <1>3, <1>4 DEF RxPush

(* The swap moves the whole queue to the drain, whose deque was empty.     *)
LEMMA SwapConserves ==
  ASSUME StreamInv, SwapStatus
  PROVE  StreamConserved'
<1>1. /\ UNCHANGED <<accepted, published, frame>>
      /\ statuses = <<>> /\ statuses' = status_queue /\ status_queue' = <<>>
  BY DEF SwapStatus, rxVars, historyVars, StreamInv, LocalsFresh
<1>2. Delivered' = Delivered /\ InHand' = InHand
  BY <1>1 DEF Delivered, InHand
<1>3. statuses \o (status_queue \o InHand) = status_queue \o InHand
  BY <1>1, StagesTyped, ConcatEmptySeq DEF StreamInv
<1>4. status_queue' \o InHand = InHand
  BY <1>1, StagesTyped, ConcatEmptySeq DEF StreamInv
<1>5. QED
  BY <1>1, <1>2, <1>3, <1>4 DEF StreamInv, StreamConserved

(* A round of the publishing loop moves the head of the drain's deque to   *)
(* the published stream.                                                   *)
LEMMA PublishMovesHead ==
  ASSUME StreamInv, PublishOne
  PROVE  /\ Delivered' = Append(Delivered, Head(statuses))
         /\ UNCHANGED <<accepted, status_queue, frame>>
         /\ statuses # <<>> /\ statuses' = Tail(statuses)
<1>1. Head(statuses) \in Status
  BY StagesTyped, HeadTailProperties DEF StreamInv, PublishOne
<1>2. /\ MakeState(Head(statuses)) \in Published
      /\ MakeState(Head(statuses)).status = Head(statuses)
  BY <1>1 DEF MakeState, Published, StreamInv, TypeOK, Status, NoExt
<1>3. published' = Append(published, MakeState(Head(statuses)))
  BY DEF PublishOne
<1>4. Delivered' = Append(Delivered, Head(statuses))
  BY <1>2, <1>3, DeliveredAppends DEF StreamInv
<1>5. QED
  BY <1>4 DEF PublishOne, rxVars, queueVars

LEMMA PublishConserves ==
  ASSUME StreamInv, PublishOne
  PROVE  StreamConserved'
<1> DEFINE rest == status_queue \o InHand
<1>1. InHand' = InHand
  BY PublishMovesHead DEF InHand
<1>2. rest \in Seq(Status) /\ statuses \in Seq(Status) /\ Delivered \in Seq(Status)
  BY StagesTyped DEF StreamInv
<1>3. accepted = Delivered \o (statuses \o rest)
  BY DEF StreamInv, StreamConserved
<1>7. statuses # <<>>
  BY PublishMovesHead
<1> HIDE DEF rest
<1>4. accepted = Append(Delivered, Head(statuses)) \o (Tail(statuses) \o rest)
  BY <1>7, <1>2, <1>3, MoveHead
<1>5. accepted' = Delivered' \o (statuses' \o rest)
  BY <1>4, PublishMovesHead
<1>6. QED
  BY <1>1, <1>5, PublishMovesHead DEF StreamConserved, rest

(* Every other step leaves the five stages alone.                          *)
LEMMA OtherStepsUntouched ==
  ASSUME StreamInv, [Next]_vars
  PROVE  \/ RxRead \/ RxPush \/ SwapStatus \/ PublishOne
         \/ UNCHANGED streamVars
<1>1. ASSUME NEW raw \in BusFrames, BusDelivers(raw) PROVE UNCHANGED streamVars
  BY <1>1 DEF BusDelivers, streamVars, rxVars, queueVars, execVars, historyVars
<1>2. CASE RxCheck \/ RxTimeout \/ RxLock
  BY <1>2 DEF RxCheck, RxTimeout, RxLock, streamVars, queueVars, execVars,
              historyVars
<1>3. CASE DrainStart \/ DrainLock \/ SwapExt \/ ApplyExt \/ DrainDone
  BY <1>3 DEF DrainStart, DrainLock, SwapExt, ApplyExt, DrainDone, streamVars,
              rxVars, queueVars, historyVars
<1>4. ASSUME NEW add \in BOOLEAN, NEW success \in BOOLEAN,
             OnSetFeedbackConfig(add, success)
      PROVE  UNCHANGED streamVars
  BY <1>4 DEF OnSetFeedbackConfig, streamVars, rxVars, queueVars
<1>5. CASE DestructorStop \/ DestructorJoin \/ Ended \/ UNCHANGED vars
  BY <1>5 DEF DestructorStop, DestructorJoin, Ended, vars, streamVars, rxVars,
              queueVars, execVars, historyVars
<1>6. QED
  BY <1>1, <1>2, <1>3, <1>4, <1>5 DEF Next, RxThread, Drain

LEMMA NextStreamInv == StreamInv /\ [Next]_vars => StreamInv'
<1> SUFFICES ASSUME StreamInv, [Next]_vars PROVE StreamInv'
  OBVIOUS
<1>1. StreamConserved'
  BY ReadConserves, PushConserves, SwapConserves, PublishConserves,
     OtherStepsUntouched, StreamUntouched DEF StreamInv
<1>2. QED
  BY <1>1, NextTypeOK, NextLocalsFresh DEF StreamInv

LEMMA StreamInvariant == Spec => []StreamInv
  BY InitStreamInv, NextStreamInv, PTL DEF Spec

(* The drain's local deques hold nothing outside the drain, so no frame    *)
(* comes round again.                                                      *)
THEOREM LocalsAreFresh == Spec => []LocalsFresh
<1>1. StreamInv => LocalsFresh
  BY DEF StreamInv
<1>2. QED
  BY <1>1, StreamInvariant, PTL

(* No status frame is lost, duplicated or reordered between the decoder    *)
(* and the publishers.                                                     *)
THEOREM StreamIsConserved == Spec => []StreamConserved
<1>1. StreamInv => StreamConserved
  BY DEF StreamInv
<1>2. QED
  BY <1>1, StreamInvariant, PTL

-----------------------------------------------------------------------------
(* Refinement of FeedbackStream.                                           *)

LEMMA InitImplements == Init => Stream!Init
  BY DEF Init, Stream!Init, Delivered

LEMMA ReadImplements ==
  ASSUME StreamInv, RxRead
  PROVE  [Stream!Next]_(Stream!vars)
<1> DEFINE raw   == Head(sockbuf).raw
           stamp == Head(sockbuf).stamp
           s     == [stamp |-> stamp, fault |-> raw.fault]
<1>1. Delivered' = Delivered
  BY DEF RxRead, Delivered
<1>2. s \in Status
  BY HeadOfSocket DEF StreamInv, RxRead, Status
<1>3. CASE frame' = [kind |-> "status", status |-> s]
           /\ accepted' = Append(accepted, frame'.status)
  <2>1. accepted' = Append(accepted, s)
    BY <1>3
  <2> HIDE DEF s
  <2>2. Stream!Accept(s)
    BY <1>1, <2>1 DEF Stream!Accept
  <2>3. QED
    BY <1>2, <2>2 DEF Stream!Next
<1>4. CASE UNCHANGED accepted
  BY <1>1, <1>4 DEF Stream!vars
<1>5. QED
  BY <1>3, <1>4 DEF RxRead

LEMMA PublishImplements ==
  ASSUME StreamInv, PublishOne
  PROVE  Stream!Deliver
<1> DEFINE rest == status_queue \o InHand
<1>1. rest \in Seq(Status) /\ statuses \in Seq(Status) /\ Delivered \in Seq(Status)
  BY StagesTyped DEF StreamInv
<1>2. accepted = Delivered \o (statuses \o rest)
  BY DEF StreamInv, StreamConserved
<1> HIDE DEF rest
<1>3. /\ Len(Delivered) < Len(accepted)
      /\ accepted[Len(Delivered) + 1] = Head(statuses)
  BY <1>1, <1>2, PublishMovesHead, HeadOfSecond
<1>4. QED
  BY <1>3, PublishMovesHead DEF Stream!Deliver

LEMMA NextImplements ==
  StreamInv /\ [Next]_vars => [Stream!Next]_(Stream!vars)
<1> SUFFICES ASSUME StreamInv, [Next]_vars
             PROVE  [Stream!Next]_(Stream!vars)
  OBVIOUS
<1>1. CASE RxRead
  BY <1>1, ReadImplements
<1>2. CASE PublishOne
  BY <1>2, PublishImplements DEF Stream!Next
<1>3. CASE RxPush \/ SwapStatus
  BY <1>3 DEF RxPush, SwapStatus, historyVars, Stream!vars, Delivered
<1>4. CASE UNCHANGED streamVars
  BY <1>4 DEF streamVars, Stream!vars, Delivered
<1>5. QED
  BY <1>1, <1>2, <1>3, <1>4, OtherStepsUntouched

(* The threads, queues, swaps and locks of the feedback path implement the *)
(* abstract stream: frames are delivered one for one, in order.            *)
THEOREM Implementation == Spec => ImplementsStream
<1>1. QED
  BY InitImplements, NextImplements, StreamInvariant, PTL
     DEF Spec, ImplementsStream, Stream!Spec
=============================================================================
