------------------------- MODULE DriverSystemProofs -------------------------
(***************************************************************************)
(* Proofs about the closed system of node and motor, for every model of    *)
(* the traffic: the types, that a position measured from an old origin     *)
(* never returns, that the system implements the actuation path, and what  *)
(* the path's theorems say of the system.                                  *)
(*                                                                         *)
(* What a drain makes of a batch is defined by recursion along it.  The    *)
(* lemmas about it go by induction: a set of numbers with a least element  *)
(* stands for the statement, as the library's rule takes an operator.      *)
(***************************************************************************)
EXTENDS DriverSystem, SequenceTheorems, WellFoundedInduction, TLAPS

USE FaultsAssumption

-----------------------------------------------------------------------------
(* Induction over the natural numbers, for sets.                           *)

LEMMA LeastElement ==
  ASSUME NEW S, S \subseteq Nat, S # {}
  PROVE  \E x \in S : \A y \in S : x <= y
<1> DEFINE R == OpToRel(<, Nat)
<1>1. R = {ss \in Nat \X Nat : ss[1] < ss[2]}
  BY DEF OpToRel
<1>2. IsWellFoundedOn(R, Nat)
  BY NatLessThanWellFounded, Zenon
<1> HIDE DEF R
<1>3. PICK x \in S : \A y \in S : ~ (<<y, x>> \in R)
  BY <1>2, WFMin
<1>4. ASSUME NEW y \in S PROVE x <= y
  <2>1. <<y, x>> \notin R
    BY <1>3
  <2>2. x \in Nat /\ y \in Nat /\ <<y, x>> \in Nat \X Nat
    OBVIOUS
  <2>3. ~(y < x)
    BY <1>1, <2>1, <2>2
  <2>4. QED
    BY <2>2, <2>3
<1>5. QED
  BY <1>4

LEMMA Induction ==
  ASSUME NEW S, 0 \in S, \A n \in Nat : n \in S => n + 1 \in S
  PROVE  \A n \in Nat : n \in S
<1> SUFFICES ASSUME Nat \ S # {} PROVE FALSE
  OBVIOUS
<1>1. PICK n \in Nat \ S : \A m \in Nat \ S : n <= m
  <2>1. Nat \ S \subseteq Nat
    OBVIOUS
  <2>2. QED
    BY <2>1, LeastElement
<1>2. n - 1 \in Nat /\ n - 1 \notin Nat \ S
  BY <1>1
<1>3. QED
  BY <1>2

-----------------------------------------------------------------------------
(* The frames of a kind in a batch.                                        *)

(* One step of the recursion of OfKind.                                    *)
Found(kind, frames, f, n) ==
  IF n = 0 THEN <<>>
  ELSE IF frames[n].kind = kind THEN Append(f[n - 1], frames[n])
  ELSE f[n - 1]

(* A function that satisfies the recursion exists on every prefix.         *)
LEMMA FoundExists ==
  ASSUME NEW kind, NEW frames
  PROVE  \A n \in Nat : \E f : f = [k \in 0..n |-> Found(kind, frames, f, k)]
<1> DEFINE Solves(f, n) == f = [k \in 0..n |-> Found(kind, frames, f, k)]
           S == {n \in Nat : \E f : Solves(f, n)}
<1>1. 0 \in S
  <2> DEFINE f == [k \in 0..0 |-> <<>>]
  <2>1. f = [k \in 0..0 |-> Found(kind, frames, f, k)]
    BY DEF Found
  <2>2. QED
    BY <2>1
<1>2. ASSUME NEW n \in Nat, n \in S PROVE n + 1 \in S
  <2>1. PICK f : Solves(f, n)
    BY <1>2
  <2> DEFINE g == [k \in 0..(n + 1) |->
                     IF k <= n THEN f[k] ELSE Found(kind, frames, f, k)]
  <2>2. ASSUME NEW k \in 0..(n + 1) PROVE g[k] = Found(kind, frames, g, k)
    <3>1. k # 0 => k - 1 \in 0..n /\ g[k - 1] = f[k - 1]
      OBVIOUS
    <3>2. Found(kind, frames, g, k) = Found(kind, frames, f, k)
      BY <3>1 DEF Found
    <3>3. k <= n => f[k] = Found(kind, frames, f, k)
      BY <2>1
    <3>4. QED
      BY <3>2, <3>3
  <2>3. g = [k \in 0..(n + 1) |-> g[k]]
    OBVIOUS
  <2> HIDE DEF g
  <2>4. Solves(g, n + 1)
    BY <2>2, <2>3
  <2> HIDE DEF Solves
  <2>5. n + 1 \in Nat
    OBVIOUS
  <2>6. QED
    BY <2>4, <2>5
<1> HIDE DEF S
<1>3. \A n \in Nat : n \in S
  BY <1>1, <1>2, Induction
<1>4. QED
  BY <1>3 DEF S

LEMMA OfKindUnfolds ==
  ASSUME NEW kind, NEW frames, Len(frames) \in Nat
  PROVE  \E f : /\ \A k \in 0..Len(frames) : f[k] = Found(kind, frames, f, k)
                /\ OfKind(kind, frames) = f[Len(frames)]
<1> DEFINE L == Len(frames)
           found[n \in 0..L] ==
             IF n = 0 THEN <<>>
             ELSE IF frames[n].kind = kind THEN Append(found[n - 1], frames[n])
             ELSE found[n - 1]
<1>1. OfKind(kind, frames) = found[L]
  BY DEF OfKind
<1>2. found = CHOOSE f : f = [k \in 0..L |-> Found(kind, frames, f, k)]
  BY DEF Found
<1>3. \E f : f = [k \in 0..L |-> Found(kind, frames, f, k)]
  BY FoundExists
<1> HIDE DEF found
<1>4. found = [k \in 0..L |-> Found(kind, frames, found, k)]
  BY <1>2, <1>3, Zenon
<1>5. QED
  BY <1>1, <1>4

(* r holds the frames of a kind among the first n of a sequence, in their  *)
(* order: at[i] is where its frame i was.                                  *)
Sifts(kind, frames, n, r, at) ==
  /\ at \in [1..Len(r) -> 1..n]
  /\ \A i \in 1..Len(r) : r[i] = frames[at[i]] /\ r[i].kind = kind
  /\ \A i, j \in 1..Len(r) : i < j => at[i] < at[j]
  /\ \A k \in 1..n : frames[k].kind = kind => \E i \in 1..Len(r) : at[i] = k

LEMMA OfKindSifts ==
  ASSUME NEW kind, NEW S, NEW frames \in Seq(S)
  PROVE  /\ OfKind(kind, frames) \in Seq(S)
         /\ \E at : Sifts(kind, frames, Len(frames), OfKind(kind, frames), at)
<1> DEFINE L == Len(frames)
<1>1. L \in Nat /\ \A k \in 1..L : frames[k] \in S
  OBVIOUS
<1>2. PICK f : /\ \A k \in 0..L : f[k] = Found(kind, frames, f, k)
               /\ OfKind(kind, frames) = f[L]
  BY <1>1, OfKindUnfolds
<1> DEFINE T == {n \in Nat : n <= L =>
                   f[n] \in Seq(S) /\ \E at : Sifts(kind, frames, n, f[n], at)}
<1>3. 0 \in T
  <2>1. f[0] = <<>>
    BY <1>1, <1>2 DEF Found
  <2>2. \E at : Sifts(kind, frames, 0, <<>>, at)
    <3>1. Sifts(kind, frames, 0, <<>>, [i \in 1..0 |-> i])
      BY DEF Sifts
    <3>2. QED
      BY <3>1
  <2>3. <<>> \in Seq(S)
    OBVIOUS
  <2>4. f[0] \in Seq(S) /\ \E at : Sifts(kind, frames, 0, f[0], at)
    BY <2>1, <2>2, <2>3
  <2>5. QED
    BY <2>4
<1>4. ASSUME NEW n \in Nat, n \in T PROVE n + 1 \in T
  <2> SUFFICES ASSUME n + 1 <= L
               PROVE  /\ f[n + 1] \in Seq(S)
                      /\ \E at : Sifts(kind, frames, n + 1, f[n + 1], at)
    OBVIOUS
  <2> DEFINE q == f[n]
             x == frames[n + 1]
             r == f[n + 1]
  <2>1. q \in Seq(S) /\ \E at : Sifts(kind, frames, n, q, at)
    BY <1>1, <1>4
  <2>2. PICK at : Sifts(kind, frames, n, q, at)
    BY <2>1
  <2>3. x \in S
    BY <1>1
  <2>4. r = IF x.kind = kind THEN Append(q, x) ELSE q
    BY <1>1, <1>2 DEF Found
  <2>5. Len(q) \in Nat
    BY <2>1
  <2> HIDE DEF q, x, r
  <2>6. CASE x.kind # kind
    <3>1. r = q
      BY <2>4, <2>6
    <3>2. Sifts(kind, frames, n + 1, q, at)
      BY <2>2, <2>5, <2>6 DEF Sifts, x
    <3>3. QED
      BY <2>1, <3>1, <3>2 DEF r
  <2>7. CASE x.kind = kind
    <3>1. /\ r = Append(q, x) /\ r \in Seq(S) /\ Len(r) = Len(q) + 1
          /\ r[Len(q) + 1] = x /\ \A i \in 1..Len(q) : r[i] = q[i]
      BY <2>1, <2>3, <2>4, <2>7
    <3> DEFINE new == [i \in 1..Len(r) |-> IF i <= Len(q) THEN at[i] ELSE n + 1]
    <3>2. /\ at \in [1..Len(q) -> 1..n]
          /\ \A i \in 1..Len(q) : q[i] = frames[at[i]] /\ q[i].kind = kind
          /\ \A i, j \in 1..Len(q) : i < j => at[i] < at[j]
          /\ \A k \in 1..n : frames[k].kind = kind
                => \E i \in 1..Len(q) : at[i] = k
      BY <2>2 DEF Sifts
    <3>3. /\ \A i \in 1..Len(q) : new[i] = at[i] /\ new[i] \in 1..n
          /\ new[Len(q) + 1] = n + 1
          /\ DOMAIN new = 1..Len(r)
      <4>1. 1..Len(q) \subseteq 1..Len(r) /\ Len(q) + 1 \in 1..Len(r)
        BY <2>5, <3>1
      <4>2. \A i \in 1..Len(q) : i <= Len(q) /\ at[i] \in 1..n
        BY <2>5, <3>2
      <4>3. ~(Len(q) + 1 <= Len(q))
        BY <2>5
      <4>4. QED
        BY <4>1, <4>2, <4>3
    <3>4. new \in [1..Len(r) -> 1..(n + 1)]
      BY <2>5, <3>1, <3>2
    <3> HIDE DEF new
    <3>5. \A i \in 1..Len(r) : i \in 1..Len(q) \/ i = Len(q) + 1
      BY <2>5, <3>1
    <3>6. \A i \in 1..Len(r) : r[i] = frames[new[i]] /\ r[i].kind = kind
      BY <2>7, <3>1, <3>2, <3>3, <3>5 DEF x
    <3>7. \A i, j \in 1..Len(r) : i < j => new[i] < new[j]
      <4> SUFFICES ASSUME NEW i \in 1..Len(r), NEW j \in 1..Len(r), i < j
                   PROVE  new[i] < new[j]
        OBVIOUS
      <4>1. i \in 1..Len(q)
        BY <2>5, <3>1
      <4>2. CASE j \in 1..Len(q)
        BY <3>2, <3>3, <4>1, <4>2
      <4>3. CASE j = Len(q) + 1
        BY <3>3, <4>1, <4>3
      <4>4. QED
        BY <3>5, <4>2, <4>3
    <3>8. \A k \in 1..(n + 1) : frames[k].kind = kind
             => \E i \in 1..Len(r) : new[i] = k
      <4> SUFFICES ASSUME NEW k \in 1..(n + 1), frames[k].kind = kind
                   PROVE  \E i \in 1..Len(r) : new[i] = k
        OBVIOUS
      <4>1. CASE k \in 1..n
        <5>1. PICK i \in 1..Len(q) : at[i] = k
          BY <3>2, <4>1
        <5>2. i \in 1..Len(r) /\ new[i] = k
          BY <2>5, <3>1, <3>3, <5>1
        <5>3. QED
          BY <5>2
      <4>2. CASE k = n + 1
        <5>1. Len(q) + 1 \in 1..Len(r) /\ new[Len(q) + 1] = k
          BY <2>5, <3>1, <3>3, <4>2
        <5>2. QED
          BY <5>1
      <4>3. QED
        BY <4>1, <4>2
    <3>9. Sifts(kind, frames, n + 1, r, new)
      BY <3>4, <3>6, <3>7, <3>8 DEF Sifts
    <3>10. QED
      BY <3>1, <3>9 DEF r
  <2>8. QED
    BY <2>6, <2>7
<1> HIDE DEF T
<1>5. \A n \in Nat : n \in T
  BY <1>3, <1>4, Induction
<1>6. L \in T
  BY <1>1, <1>5
<1>7. f[L] \in Seq(S) /\ \E at : Sifts(kind, frames, L, f[L], at)
  BY <1>1, <1>6 DEF T
<1>8. QED
  BY <1>2, <1>7

-----------------------------------------------------------------------------
(* Order of the readings.                                                  *)

(* The origin of a later frame is no older.                                *)
Ascends(frames) ==
  \A i, j \in DOMAIN frames : i <= j => frames[i].zero <= frames[j].zero

(* What was published is measured from no newer an origin than anything    *)
(* that can still be published: the cache if it holds a value, the batch   *)
(* if it does not, and whatever waits; and what waits is no older than the *)
(* batch and the cache.                                                    *)
OrderInv ==
  /\ TypeOK
  /\ zero \in Nat
  /\ Ascends(incoming) /\ Ascends(statuses)
  /\ \A i \in DOMAIN statuses : statuses[i].zero <= zero
  /\ \A k \in DOMAIN incoming :
       /\ state.position <= incoming[k].zero
       /\ last_extended_position_deg <= incoming[k].zero
       /\ \A i \in DOMAIN statuses : statuses[i].zero <= incoming[k].zero
  /\ IF last_extended_position_deg # NoExt
     THEN state.position <= last_extended_position_deg
     ELSE \A i \in DOMAIN statuses : state.position <= statuses[i].zero

LEMMA InitOrderInv == Init => OrderInv
<1> SUFFICES ASSUME Init PROVE OrderInv
  OBVIOUS
<1>1. /\ incoming = <<>> /\ statuses = <<>> /\ state = Nothing
      /\ last_extended_position_deg = NoExt
      /\ zero = 0 /\ fault = 0 /\ ack = FALSE
  BY DEF Init
<1>2. DOMAIN incoming = {} /\ DOMAIN statuses = {} /\ state.position = 0
  <2>1. state.position = 0
    BY <1>1 DEF Nothing
  <2>2. DOMAIN <<>> = {}
    OBVIOUS
  <2>3. QED
    BY <1>1, <2>1, <2>2, Zenon
<1>3. /\ <<>> \in Seq(Reading \cup StatusFrame) /\ Len(<<>>) <= RcvBuf
      /\ <<>> \in Seq(StatusFrame) /\ 0 \in 0..0
  OBVIOUS
<1>4. TypeOK
  <2>1. incoming \in Seq(Reading \cup StatusFrame) /\ Len(incoming) <= RcvBuf
    BY <1>1, <1>3, Zenon
  <2>2. statuses \in Seq(StatusFrame)
    BY <1>1, <1>3, Zenon
  <2>3. state.position \in 0..zero /\ last_extended_position_deg \in {NoExt} \cup 0..zero
    BY <1>1, <1>2
  <2>4. fault \in Faults \cup {0} /\ ack \in BOOLEAN
    BY <1>1
  <2>5. \A k \in DOMAIN incoming : incoming[k].zero <= zero
    BY <1>2
  <2>6. QED
    BY <2>1, <2>2, <2>3, <2>4, <2>5 DEF TypeOK
<1>5. QED
  BY <1>1, <1>2, <1>4 DEF OrderInv, Ascends, NoExt

(* Steps that leave the feedback alone, but may zero the motor.            *)
LEMMA OrderInvKept ==
  ASSUME OrderInv, UNCHANGED feedbackVars,
         zero' = zero \/ zero' = zero + 1,
         fault' \in Faults \cup {0}, ack' \in BOOLEAN
  PROVE  OrderInv'
<1>1. /\ UNCHANGED <<incoming, statuses, last_extended_position_deg, state>>
      /\ zero \in Nat /\ zero' \in Nat /\ zero <= zero'
      /\ 0..zero \subseteq 0..zero'
  BY DEF OrderInv, feedbackVars
<1>2. incoming \in Seq(Reading \cup StatusFrame) /\ statuses \in Seq(StatusFrame)
  BY DEF OrderInv, TypeOK
<1>3. /\ \A k \in DOMAIN incoming : /\ incoming[k].zero \in Nat
                                    /\ incoming[k].zero <= zero
      /\ \A i \in DOMAIN statuses : /\ statuses[i].zero \in Nat
                                    /\ statuses[i].zero <= zero
  <2>1. /\ \A k \in DOMAIN incoming : incoming[k] \in Reading \cup StatusFrame
        /\ \A i \in DOMAIN statuses : statuses[i] \in StatusFrame
    BY <1>2
  <2>2. /\ \A k \in DOMAIN incoming : incoming[k].zero \in Nat
        /\ \A i \in DOMAIN statuses : statuses[i].zero \in Nat
    BY <2>1 DEF Reading, StatusFrame
  <2>3. QED
    BY <2>2 DEF OrderInv, TypeOK
<1>4. /\ \A k \in DOMAIN incoming : incoming[k].zero <= zero'
      /\ \A i \in DOMAIN statuses : statuses[i].zero <= zero'
  BY <1>1, <1>3
<1>5. TypeOK'
  BY <1>1, <1>4 DEF OrderInv, TypeOK
<1>6. QED
  BY <1>1, <1>4, <1>5 DEF OrderInv, Ascends

LEMMA ArrivesKeeps ==
  ASSUME OrderInv, NEW frame \in Reading \cup StatusFrame, frame.zero = zero,
         Arrives(frame), ack' \in BOOLEAN,
         UNCHANGED <<zero, fault, statuses, last_extended_position_deg, state>>
  PROVE  OrderInv'
<1> DEFINE S == Reading \cup StatusFrame
<1>1. incoming \in Seq(S) /\ Len(incoming) <= RcvBuf /\ Len(incoming) \in Nat
  BY DEF OrderInv, TypeOK
<1> HIDE DEF S
<1>2. /\ incoming' \in Seq(S) /\ Len(incoming') <= RcvBuf
      /\ \A k \in DOMAIN incoming' :
           \/ k \in DOMAIN incoming /\ incoming'[k] = incoming[k]
           \/ k = Len(incoming) + 1 /\ incoming'[k] = frame
  <2>1. CASE Len(incoming) < RcvBuf
    <3>1. incoming' = Append(incoming, frame) /\ frame \in S
      BY <2>1 DEF Arrives, S
    <3>2. QED
      BY <1>1, <2>1, <3>1
  <2>2. CASE ~(Len(incoming) < RcvBuf)
    BY <1>1, <2>2 DEF Arrives
  <2>3. QED
    BY <2>1, <2>2
<1>3. /\ zero \in Nat
      /\ \A k \in DOMAIN incoming : incoming[k].zero <= zero
      /\ state.position \in 0..zero
      /\ last_extended_position_deg \in {NoExt} \cup 0..zero
      /\ \A i \in DOMAIN statuses : statuses[i].zero <= zero
  BY DEF OrderInv, TypeOK
<1>4. Ascends(incoming')
  <2> SUFFICES ASSUME NEW i \in DOMAIN incoming', NEW j \in DOMAIN incoming',
                      i <= j
               PROVE  incoming'[i].zero <= incoming'[j].zero
    BY DEF Ascends
  <2>1. CASE j \in DOMAIN incoming /\ incoming'[j] = incoming[j]
    <3>1. i \in DOMAIN incoming /\ incoming'[i] = incoming[i]
      BY <1>1, <1>2, <2>1
    <3>2. QED
      BY <2>1, <3>1 DEF OrderInv, Ascends
  <2>2. CASE incoming'[j] = frame
    BY <1>2, <1>3, <2>2
  <2>3. QED
    BY <1>2, <2>1, <2>2
<1>5. \A k \in DOMAIN incoming' :
        /\ incoming'[k].zero <= zero
        /\ state.position <= incoming'[k].zero
        /\ last_extended_position_deg <= incoming'[k].zero
        /\ \A i \in DOMAIN statuses : statuses[i].zero <= incoming'[k].zero
  <2>1. state.position <= zero /\ last_extended_position_deg <= zero
    BY <1>3 DEF NoExt
  <2>2. QED
    BY <1>2, <1>3, <2>1 DEF OrderInv
<1>6. TypeOK'
  BY <1>2, <1>5 DEF OrderInv, TypeOK, S
<1>7. QED
  BY <1>4, <1>5, <1>6 DEF OrderInv, Ascends
(* The frames of a kind in the first n frames of incoming.                 *)
LEMMA BatchSays ==
  ASSUME OrderInv, NEW kind, NEW n \in 1..Len(incoming)
  PROVE  LET r == OfKind(kind, SubSeq(incoming, 1, n))
         IN /\ r \in Seq(Reading \cup StatusFrame)
            /\ \E at : Sifts(kind, incoming, n, r, at)
<1> DEFINE S == Reading \cup StatusFrame
           batch == SubSeq(incoming, 1, n)
<1>1. incoming \in Seq(S) /\ Len(incoming) \in Nat
  BY DEF OrderInv, TypeOK
<1> HIDE DEF S
<1>2. /\ batch \in Seq(S) /\ Len(batch) = n
      /\ \A k \in 1..n : batch[k] = incoming[k]
  BY <1>1
<1> HIDE DEF batch
<1>3. /\ OfKind(kind, batch) \in Seq(S)
      /\ \E at : Sifts(kind, batch, n, OfKind(kind, batch), at)
  BY <1>2, OfKindSifts, Zenon
<1>4. \A r, at : Len(r) \in Nat /\ Sifts(kind, batch, n, r, at)
                   => Sifts(kind, incoming, n, r, at)
  BY <1>2 DEF Sifts
<1>5. QED
  BY <1>3, <1>4, LenProperties DEF S, batch

LEMMA SiftsAscend ==
  ASSUME OrderInv, NEW kind, NEW n \in 1..Len(incoming),
         NEW r \in Seq(Reading \cup StatusFrame),
         NEW at, Sifts(kind, incoming, n, r, at)
  PROVE  /\ Ascends(r)
         /\ \A i \in DOMAIN r : \E k \in 1..n : r[i] = incoming[k]
<1>1. DOMAIN r = 1..Len(r) /\ Len(r) \in Nat /\ Len(incoming) \in Nat
  BY DEF OrderInv, TypeOK
<1>2. \A i \in DOMAIN r : at[i] \in DOMAIN incoming /\ at[i] \in 1..n
                             /\ r[i] = incoming[at[i]]
  BY <1>1 DEF Sifts, OrderInv, TypeOK
<1>3. \A i, j \in DOMAIN r : i <= j => at[i] <= at[j]
  BY <1>1, <1>2 DEF Sifts
<1>4. QED
  BY <1>2, <1>3 DEF OrderInv, Ascends

(* What Newest caches: the cache as it was if the batch has no reading,    *)
(* and a reading of the batch otherwise.                                   *)
LEMMA NewestSays ==
  ASSUME OrderInv, NEW n \in 1..Len(incoming)
  PROVE  LET new == Newest(SubSeq(incoming, 1, n))
         IN \/ /\ \A k \in 1..n : incoming[k].kind # "ext"
               /\ new = last_extended_position_deg
            \/ /\ \E k \in 1..n : /\ incoming[k].kind = "ext"
                                  /\ new = incoming[k].zero
               /\ new # NoExt
<1> DEFINE r == OfKind("ext", SubSeq(incoming, 1, n))
<1>1. r \in Seq(Reading \cup StatusFrame) /\ \E at : Sifts("ext", incoming, n, r, at)
  BY BatchSays
<1>2. Newest(SubSeq(incoming, 1, n)) =
        IF r = <<>> THEN last_extended_position_deg ELSE r[Len(r)].zero
  BY DEF Newest
<1> HIDE DEF r
<1>3. PICK at : Sifts("ext", incoming, n, r, at)
  BY <1>1
<1>4. CASE r = <<>>
  <2>1. 1..Len(r) = {}
    BY <1>4
  <2>2. \A k \in 1..n : incoming[k].kind # "ext"
    BY <1>3, <2>1 DEF Sifts
  <2>3. QED
    BY <1>2, <1>4, <2>2
<1>5. CASE r # <<>>
  <2>1. Len(r) \in 1..Len(r)
    BY <1>1, <1>5, EmptySeq, LenProperties
  <2>2. PICK k \in 1..n : r[Len(r)] = incoming[k] /\ incoming[k].kind = "ext"
    BY <1>3, <2>1 DEF Sifts
  <2>3. k \in DOMAIN incoming /\ incoming[k] \in Reading \cup StatusFrame
    BY DEF OrderInv, TypeOK
  <2>4. incoming[k].zero # NoExt
    BY <2>3 DEF Reading, StatusFrame, NoExt
  <2>5. QED
    BY <1>2, <1>5, <2>2, <2>4
<1>6. QED
  BY <1>4, <1>5

LEMMA DrainKeeps ==
  ASSUME OrderInv, NEW n, Drain(n)
  PROVE  OrderInv'
<1> DEFINE S == Reading \cup StatusFrame
<1>1. /\ n \in 1..Len(incoming)
      /\ statuses' = OfKind("status", SubSeq(incoming, 1, n))
      /\ last_extended_position_deg' = Newest(SubSeq(incoming, 1, n))
      /\ incoming' = SubSeq(incoming, n + 1, Len(incoming))
      /\ UNCHANGED <<state, zero, fault, ack>>
  BY DEF Drain, motorVars
<1>2. /\ incoming \in Seq(S) /\ Len(incoming) \in Nat
      /\ Len(incoming) <= RcvBuf /\ RcvBuf \in Nat
      /\ zero \in Nat /\ state.position \in 0..zero
      /\ \A k \in DOMAIN incoming :
           /\ incoming[k].zero <= zero /\ incoming[k].zero \in Nat
           /\ state.position <= incoming[k].zero
           /\ last_extended_position_deg <= incoming[k].zero
      /\ last_extended_position_deg \in {NoExt} \cup 0..zero
  BY DEF OrderInv, TypeOK, Reading, StatusFrame
<1>3. statuses' \in Seq(S) /\ \E at : Sifts("status", incoming, n, statuses', at)
  BY <1>1, BatchSays
<1>4. PICK at : Sifts("status", incoming, n, statuses', at)
  BY <1>3
<1>5. /\ Ascends(statuses')
      /\ \A i \in DOMAIN statuses' : \E k \in 1..n : statuses'[i] = incoming[k]
  BY <1>1, <1>3, <1>4, SiftsAscend
<1>6. statuses' \in Seq(StatusFrame)
  <2>1. DOMAIN statuses' = 1..Len(statuses')
    BY <1>3
  <2>2. \A i \in DOMAIN statuses' : statuses'[i] \in S /\ statuses'[i].kind = "status"
    BY <1>3, <1>4, <2>1, ElementOfSeq DEF Sifts
  <2>3. \A i \in DOMAIN statuses' : statuses'[i] \in StatusFrame
    BY <2>2 DEF Reading, StatusFrame
  <2>4. QED
    BY <1>3, <2>3, SeqDef
<1>7. /\ incoming' \in Seq(S) /\ Len(incoming') <= RcvBuf
      /\ \A k \in DOMAIN incoming' :
           /\ n + k \in DOMAIN incoming /\ k \in Nat
           /\ incoming'[k] = incoming[n + k]
  BY <1>1, <1>2
<1> HIDE DEF S
<1>8. Ascends(incoming')
  <2>1. n \in Nat
    BY <1>1
  <2>2. \A i, j \in DOMAIN incoming' : i <= j => n + i <= n + j
    BY <1>7, <2>1
  <2>3. QED
    BY <1>7, <2>2 DEF OrderInv, Ascends
<1>9. \A j \in 1..n : \A k \in DOMAIN incoming' :
        j \in DOMAIN incoming /\ incoming[j].zero <= incoming'[k].zero
  <2> SUFFICES ASSUME NEW j \in 1..n, NEW k \in DOMAIN incoming'
               PROVE  j \in DOMAIN incoming /\ incoming[j].zero <= incoming'[k].zero
    OBVIOUS
  <2>1. j \in DOMAIN incoming /\ j <= n + k
    BY <1>1, <1>2, <1>7
  <2>2. QED
    BY <1>7, <2>1 DEF OrderInv, Ascends
<1>10. /\ last_extended_position_deg' \in {NoExt} \cup 0..zero
       /\ last_extended_position_deg' # NoExt
            => state.position <= last_extended_position_deg'
       /\ \A k \in DOMAIN incoming' :
            last_extended_position_deg' <= incoming'[k].zero
  <2> DEFINE new == last_extended_position_deg'
  <2>1. CASE new = last_extended_position_deg
    BY <1>2, <1>7, <2>1 DEF OrderInv
  <2>2. CASE \E k \in 1..n : new = incoming[k].zero
    <3>1. PICK k \in 1..n : new = incoming[k].zero
      BY <2>2
    <3>2. k \in DOMAIN incoming
      BY <1>1, <1>2
    <3>3. QED
      BY <1>2, <1>9, <3>1, <3>2
  <2>3. QED
    BY <1>1, <2>1, <2>2, NewestSays
<1>11. \A i \in DOMAIN statuses' :
         /\ statuses'[i].zero <= zero
         /\ state.position <= statuses'[i].zero
         /\ \A k \in DOMAIN incoming' : statuses'[i].zero <= incoming'[k].zero
  <2> SUFFICES ASSUME NEW i \in DOMAIN statuses'
               PROVE  /\ statuses'[i].zero <= zero
                      /\ state.position <= statuses'[i].zero
                      /\ \A k \in DOMAIN incoming' :
                           statuses'[i].zero <= incoming'[k].zero
    OBVIOUS
  <2>1. PICK j \in 1..n : statuses'[i] = incoming[j]
    BY <1>5
  <2>2. j \in DOMAIN incoming
    BY <1>1, <1>2
  <2>3. QED
    BY <1>2, <1>9, <2>1, <2>2
<1>12. TypeOK'
  <2>1. \A k \in DOMAIN incoming' : incoming'[k].zero <= zero
    BY <1>2, <1>7
  <2>2. QED
    BY <1>1, <1>6, <1>7, <1>10, <2>1 DEF OrderInv, TypeOK, S
<1>13. \A k \in DOMAIN incoming' : state.position <= incoming'[k].zero
  BY <1>2, <1>7
<1>14. QED
  BY <1>1, <1>2, <1>5, <1>8, <1>10, <1>11, <1>12, <1>13 DEF OrderInv, Ascends
(* Dropping the batch, or a part of what waits, keeps the order; the cache *)
(* may be cleared when no batch is being published.                        *)
LEMMA ClearKeeps ==
  ASSUME OrderInv, statuses = <<>>,
         incoming' = incoming \/ incoming' = <<>>,
         \/ last_extended_position_deg' = last_extended_position_deg
         \/ last_extended_position_deg' = NoExt,
         UNCHANGED <<motorVars, statuses, state>>
  PROVE  OrderInv'
<1>1. /\ UNCHANGED <<zero, fault, ack, statuses, state>>
      /\ DOMAIN statuses = {}
      /\ \A k \in DOMAIN incoming' : /\ k \in DOMAIN incoming
                                     /\ incoming'[k] = incoming[k]
  BY DEF motorVars
<1>2. incoming' \in Seq(Reading \cup StatusFrame) /\ Len(incoming') <= RcvBuf
  <2>1. /\ <<>> \in Seq(Reading \cup StatusFrame) /\ Len(<<>>) <= RcvBuf
        /\ incoming \in Seq(Reading \cup StatusFrame) /\ Len(incoming) <= RcvBuf
    BY DEF OrderInv, TypeOK
  <2>2. QED
    BY <2>1
<1>3. \A k \in DOMAIN incoming' : last_extended_position_deg' <= incoming'[k].zero
  <2>1. \A k \in DOMAIN incoming : NoExt <= incoming[k].zero
    BY DEF OrderInv, TypeOK, Reading, StatusFrame, NoExt
  <2>2. QED
    BY <1>1, <2>1 DEF OrderInv
<1>4. TypeOK'
  BY <1>1, <1>2 DEF OrderInv, TypeOK
<1>5. QED
  BY <1>1, <1>3, <1>4 DEF OrderInv, Ascends

LEMMA PublishOneKeeps ==
  ASSUME OrderInv, PublishOne
  PROVE  OrderInv' /\ state.position <= state'.position
<1>1. /\ statuses # <<>> /\ statuses' = Tail(statuses)
      /\ UNCHANGED <<incoming, last_extended_position_deg, zero, fault, ack>>
      /\ state'.position = IF last_extended_position_deg # NoExt
                           THEN last_extended_position_deg
                           ELSE statuses[1].zero
  <2>1. \A status : MakeState(status).position =
                      IF last_extended_position_deg # NoExt
                      THEN last_extended_position_deg ELSE status.zero
    BY DEF MakeState
  <2>2. statuses # <<>> => Head(statuses) = statuses[1]
    OBVIOUS
  <2>3. QED
    BY <2>1, <2>2 DEF PublishOne, motorVars
<1>2. /\ statuses \in Seq(StatusFrame) /\ Len(statuses) \in Nat
      /\ zero \in Nat
      /\ \A i \in DOMAIN statuses : statuses[i].zero \in 0..zero
  <2>1. /\ statuses \in Seq(StatusFrame) /\ zero \in Nat
        /\ \A i \in DOMAIN statuses : statuses[i].zero <= zero
    BY DEF OrderInv, TypeOK
  <2>2. \A i \in DOMAIN statuses : statuses[i] \in StatusFrame
    BY <2>1
  <2>3. \A i \in DOMAIN statuses : statuses[i].zero \in Nat
    BY <2>2 DEF StatusFrame
  <2>4. QED
    BY <2>1, <2>3
<1>3. 1 \in DOMAIN statuses
  BY <1>1, <1>2
<1>4. /\ statuses' \in Seq(StatusFrame)
      /\ \A i \in DOMAIN statuses' : /\ i + 1 \in DOMAIN statuses
                                     /\ i \in Nat
                                     /\ statuses'[i] = statuses[i + 1]
  BY <1>1, <1>2
<1>5. \A i \in DOMAIN statuses : statuses[1].zero <= statuses[i].zero
  <2>1. \A i \in DOMAIN statuses : 1 <= i
    BY <1>2
  <2>2. QED
    BY <1>3, <2>1 DEF OrderInv, Ascends
<1>6. /\ state.position <= state'.position
      /\ state'.position \in 0..zero
      /\ \A k \in DOMAIN incoming : state'.position <= incoming[k].zero
  BY <1>1, <1>2, <1>3 DEF OrderInv, TypeOK
<1>7. IF last_extended_position_deg # NoExt
      THEN state'.position <= last_extended_position_deg
      ELSE \A i \in DOMAIN statuses' : state'.position <= statuses'[i].zero
  <2>1. CASE last_extended_position_deg # NoExt
    <3>1. last_extended_position_deg \in Nat
      BY <2>1 DEF OrderInv, TypeOK
    <3>2. QED
      BY <1>1, <2>1, <3>1
  <2>2. CASE last_extended_position_deg = NoExt
    BY <1>1, <1>4, <1>5, <2>2
  <2>3. QED
    BY <2>1, <2>2
<1>8. Ascends(statuses')
  <2>1. \A i, j \in DOMAIN statuses' : i <= j => i + 1 <= j + 1
    BY <1>4
  <2>2. QED
    BY <1>4, <2>1 DEF OrderInv, Ascends
<1>9. TypeOK'
  BY <1>1, <1>4, <1>6 DEF OrderInv, TypeOK
<1>10. QED
  BY <1>1, <1>4, <1>6, <1>7, <1>8, <1>9 DEF OrderInv, Ascends

LEMMA NextOrderInv ==
  OrderInv /\ [Next]_vars => OrderInv' /\ state'.position >= state.position
<1> SUFFICES ASSUME OrderInv, [Next]_vars
             PROVE  OrderInv' /\ state'.position >= state.position
  OBVIOUS
<1>1. /\ fault \in Faults \cup {0} /\ ack \in BOOLEAN
      /\ state.position \in Nat /\ zero \in Nat
  BY DEF OrderInv, TypeOK
<1>2. CASE UNCHANGED <<motorVars, feedbackVars>>
  BY <1>1, <1>2, OrderInvKept DEF motorVars, feedbackVars
<1>3. CASE Client
  BY <1>2, <1>3 DEF Client
<1>4. CASE \E ok \in BOOLEAN : OnCommand(ok)
  BY <1>2, <1>4 DEF OnCommand
<1>5. ASSUME NEW i \in DOMAIN calls, NEW ok \in BOOLEAN, Serve(i, ok)
      PROVE  OrderInv' /\ state'.position >= state.position
  BY <1>2, <1>5 DEF Serve
<1>6. ASSUME NEW i \in DOMAIN calls, NEW ok \in BOOLEAN,
             OnSetFeedbackConfig(i, ok)
      PROVE  OrderInv' /\ state'.position >= state.position
  <2>1. OrderInv'
    BY <1>6, ClearKeeps DEF OnSetFeedbackConfig
  <2>2. QED
    BY <1>1, <1>6, <2>1 DEF OnSetFeedbackConfig
<1>7. CASE NodeRestarts
  <2>1. OrderInv'
    BY <1>7, ClearKeeps DEF NodeRestarts
  <2>2. QED
    BY <1>1, <1>7, <2>1 DEF NodeRestarts
<1>8. CASE BusTransmits
  <2>1. /\ UNCHANGED <<fault, feedbackVars>>
        /\ zero' = zero \/ zero' = zero + 1
        /\ ack' \in BOOLEAN
    BY <1>1, <1>8 DEF BusTransmits
  <2>2. OrderInv'
    BY <1>1, <2>1, OrderInvKept
  <2>3. QED
    BY <1>1, <2>1, <2>2 DEF feedbackVars
<1>9. CASE MotorSendsStatus
  <2> DEFINE new == [kind |-> "status", zero |-> zero,
                     error_code |-> IF ack THEN DISABLED ELSE fault]
  <2>1. new \in StatusFrame /\ new.zero = zero
    BY <1>1 DEF StatusFrame
  <2>2. OrderInv'
    BY <1>9, <2>1, ArrivesKeeps DEF MotorSendsStatus
  <2>3. QED
    BY <1>1, <1>9, <2>2 DEF MotorSendsStatus
<1>10. CASE MotorSendsExt
  <2> DEFINE new == [kind |-> "ext", zero |-> zero]
  <2>1. new \in Reading /\ new.zero = zero
    BY <1>1 DEF Reading
  <2>2. OrderInv'
    BY <1>1, <1>10, <2>1, ArrivesKeeps DEF MotorSendsExt, motorVars
  <2>3. QED
    BY <1>1, <1>10, <2>2 DEF MotorSendsExt
<1>11. ASSUME NEW code \in Faults \cup {0}, MotorFaults(code)
       PROVE  OrderInv' /\ state'.position >= state.position
  <2>1. OrderInv'
    BY <1>1, <1>11, OrderInvKept DEF MotorFaults
  <2>2. QED
    BY <1>1, <1>11, <2>1 DEF MotorFaults, feedbackVars
<1>12. ASSUME NEW n, Drain(n)
       PROVE  OrderInv' /\ state'.position >= state.position
  <2>1. OrderInv'
    BY <1>12, DrainKeeps
  <2>2. state' = state
    BY <1>12 DEF Drain
  <2>3. QED
    BY <1>1, <2>1, <2>2
<1>13. CASE PublishOne
  <2>1. OrderInv' /\ state.position <= state'.position
    BY <1>13, PublishOneKeeps
  <2>2. state'.position \in Nat
    BY <2>1 DEF OrderInv, TypeOK
  <2>3. QED
    BY <1>1, <2>1, <2>2
<1>14. CASE UNCHANGED vars
  BY <1>2, <1>14 DEF vars
<1>15. QED
  BY <1>3, <1>4, <1>5, <1>6, <1>7, <1>8, <1>9, <1>10, <1>11, <1>12, <1>13,
     <1>14 DEF Next

(* TypeOK, for every size of the buffers and every number of calls: no     *)
(* reading, queued, cached or published, is measured from an origin that   *)
(* has not been set yet.                                                   *)
THEOREM SystemTyped == Spec => []TypeOK
<1>1. OrderInv => TypeOK
  BY DEF OrderInv
<1>2. QED
  BY <1>1, InitOrderInv, NextOrderInv, PTL DEF Spec

(* ZeroNeverReturns: after ~/set_origin the published position may jump to *)
(* the new origin, and never back to an old one, for every traffic and     *)
(* however the driver switches between its two sources.                    *)
THEOREM ZeroStays == Spec => ZeroNeverReturns
<1>1. OrderInv /\ [Next]_vars => [state'.position >= state.position]_vars
  BY NextOrderInv
<1>2. QED
  BY <1>1, InitOrderInv, NextOrderInv, PTL DEF Spec, ZeroNeverReturns

-----------------------------------------------------------------------------
(* The system implements the actuation path.                               *)

(* The feedback as the path knows it.                                      *)
Reads  == \E k \in DOMAIN incoming : incoming[k].kind = "ext"
Caches == last_extended_position_deg # NoExt

LEMMA PathStutters ==
  ASSUME UNCHANGED pathVars, Reads' = Reads, Caches' = Caches
  PROVE  UNCHANGED Path!vars
  BY DEF pathVars, Path!vars, Reads, Caches

(* A status frame changes nothing that the path knows of; a reading is one *)
(* that is under way, unless the buffer is full or one is already.         *)
LEMMA ArrivesReads ==
  ASSUME OrderInv, NEW frame \in Reading \cup StatusFrame, Arrives(frame)
  PROVE  /\ frame.kind # "ext" => Reads' = Reads
         /\ frame.kind = "ext" => Reads' = Reads \/ Reads'
         /\ Reads => Reads'
<1> DEFINE S == Reading \cup StatusFrame
<1>1. incoming \in Seq(S) /\ Len(incoming) \in Nat /\ frame \in S
  BY DEF OrderInv, TypeOK
<1> HIDE DEF S
<1>2. CASE Len(incoming) < RcvBuf
  <2>1. incoming' = Append(incoming, frame)
    BY <1>2 DEF Arrives
  <2>2. /\ \A k \in DOMAIN incoming : k \in DOMAIN incoming'
                                      /\ incoming'[k] = incoming[k]
        /\ \A k \in DOMAIN incoming' : k \in DOMAIN incoming
                                       \/ k = Len(incoming) + 1
        /\ Len(incoming) + 1 \in DOMAIN incoming'
        /\ incoming'[Len(incoming) + 1] = frame
    BY <1>1, <2>1
  <2>3. QED
    BY <2>2, Zenon DEF Reads
<1>3. CASE ~(Len(incoming) < RcvBuf)
  BY <1>3 DEF Arrives, Reads
<1>4. QED
  BY <1>2, <1>3

LEMMA DrainImplements ==
  ASSUME OrderInv, NEW n, Drain(n)
  PROVE  Path!DrainCaches \/ UNCHANGED Path!vars
<1>1. /\ n \in 1..Len(incoming) /\ UNCHANGED pathVars
      /\ last_extended_position_deg' = Newest(SubSeq(incoming, 1, n))
      /\ incoming' = SubSeq(incoming, n + 1, Len(incoming))
  BY DEF Drain
<1>2. incoming \in Seq(Reading \cup StatusFrame) /\ Len(incoming) \in Nat
  BY DEF OrderInv, TypeOK
<1>3. Reads' \in BOOLEAN
  BY DEF Reads
<1>4. CASE \E k \in 1..n : /\ incoming[k].kind = "ext"
                           /\ last_extended_position_deg' # NoExt
  <2>1. Reads /\ Caches'
    BY <1>1, <1>2, <1>4 DEF Reads, Caches
  <2>2. Path!DrainCaches
    BY <1>1, <1>3, <2>1 DEF Path!DrainCaches, pathVars, Reads, Caches
  <2>3. QED
    BY <2>2
<1>5. CASE /\ \A k \in 1..n : incoming[k].kind # "ext"
           /\ last_extended_position_deg' = last_extended_position_deg
  <2>1. Caches' = Caches
    BY <1>5 DEF Caches
  <2>2. \A k \in DOMAIN incoming' : /\ n + k \in DOMAIN incoming
                                    /\ incoming'[k] = incoming[n + k]
    BY <1>1, <1>2
  <2>3. \A k \in DOMAIN incoming :
          \/ k \in 1..n
          \/ k - n \in DOMAIN incoming' /\ incoming'[k - n] = incoming[k]
    BY <1>1, <1>2
  <2>4. Reads' = Reads
    BY <1>5, <2>2, <2>3 DEF Reads
  <2>5. QED
    BY <1>1, <2>1, <2>4, PathStutters
<1>6. QED
  BY <1>1, <1>4, <1>5, NewestSays

LEMMA StepImplements ==
  OrderInv /\ [Next]_vars => [Path!Next]_(Path!vars)
<1> SUFFICES ASSUME OrderInv, [Next]_vars
             PROVE  Path!Next \/ UNCHANGED Path!vars
  OBVIOUS
<1>1. CASE Client
  BY <1>1 DEF Client, Path!Next, MODE_CURRENT, Path!MODE_CURRENT
<1>2. CASE \E ok \in BOOLEAN : OnCommand(ok)
  BY <1>2 DEF OnCommand, Path!Next
<1>3. ASSUME NEW i \in DOMAIN calls, NEW ok \in BOOLEAN,
             Serve(i, ok) \/ OnSetFeedbackConfig(i, ok)
      PROVE  Path!Next
  <2>1. Path!Serve(i, ok)
    BY <1>3 DEF Serve, OnSetFeedbackConfig, Path!Serve
  <2>2. QED
    BY <2>1 DEF Path!Next
<1>4. CASE NodeRestarts
  BY <1>4 DEF NodeRestarts, Path!Next
<1>5. CASE BusTransmits
  BY <1>5 DEF BusTransmits, Path!Next
<1>6. CASE MotorSendsStatus
  <2> DEFINE new == [kind |-> "status", zero |-> zero,
                     error_code |-> IF ack THEN DISABLED ELSE fault]
  <2>1. new \in StatusFrame /\ new.kind # "ext"
    BY DEF OrderInv, TypeOK, StatusFrame
  <2>2. Arrives(new) /\ UNCHANGED <<last_extended_position_deg, pathVars>>
    BY <1>6 DEF MotorSendsStatus
  <2> HIDE DEF new
  <2>3. Reads' = Reads
    BY <2>1, <2>2, ArrivesReads
  <2>4. QED
    BY <2>2, <2>3, PathStutters DEF Caches
<1>7. CASE MotorSendsExt
  <2> DEFINE new == [kind |-> "ext", zero |-> zero]
  <2>1. new \in Reading
    BY DEF OrderInv, Reading
  <2>2. /\ Arrives(new) /\ motor.ext
        /\ UNCHANGED <<last_extended_position_deg, pathVars>>
    BY <1>7 DEF MotorSendsExt
  <2> HIDE DEF new
  <2>3. (Reads => Reads') /\ Caches' = Caches
    BY <2>1, <2>2, ArrivesReads DEF Caches
  <2>4. CASE ~Reads /\ Reads'
    <3>1. Path!MotorSendsExt
      BY <2>2, <2>3, <2>4 DEF Path!MotorSendsExt, pathVars, Reads, Caches
    <3>2. QED
      BY <3>1 DEF Path!Next
  <2>5. CASE Reads' = Reads
    BY <2>2, <2>3, <2>5, PathStutters
  <2>6. Reads \in BOOLEAN /\ Reads' \in BOOLEAN
    BY DEF Reads
  <2>7. QED
    BY <2>3, <2>4, <2>5, <2>6
<1>8. ASSUME NEW code, MotorFaults(code)
      PROVE  UNCHANGED Path!vars
  BY <1>8, PathStutters DEF MotorFaults, feedbackVars, Reads, Caches
<1>9. ASSUME NEW n, Drain(n)
      PROVE  Path!Next \/ UNCHANGED Path!vars
  BY <1>9, DrainImplements DEF Path!Next
<1>10. CASE PublishOne
  BY <1>10, PathStutters DEF PublishOne, Reads, Caches
<1>11. CASE UNCHANGED vars
  BY <1>11, PathStutters DEF vars, feedbackVars, Reads, Caches
<1>12. QED
  BY <1>1, <1>2, <1>3, <1>4, <1>5, <1>6, <1>7, <1>8, <1>9, <1>10, <1>11
     DEF Next

(* ImplementsPath: with the reading under way and the cached one for what  *)
(* CommandPath knows of the feedback, a step of the system is a step of    *)
(* the path or leaves it alone.                                            *)
THEOREM SystemImplementsPath == Spec => ImplementsPath
<1>1. Init => Path!Init
  BY DEF Init
<1>2. QED
  BY <1>1, InitOrderInv, NextOrderInv, StepImplements, PTL
     DEF Spec, ImplementsPath, Path!Spec

-----------------------------------------------------------------------------
(* What the path's theorems say of the system.                             *)

PathProofs == INSTANCE CommandPathProofs WITH
                reading <- \E k \in DOMAIN incoming : incoming[k].kind = "ext",
                cached  <- last_extended_position_deg # NoExt

(* The constants are as CommandPath assumes.                               *)
LEMMA PathAssumed ==
  /\ CanId \in PathProofs!DriverId
  /\ CmdDepth \in Nat \ {0} /\ TxDepth \in Nat \ {0} /\ Lossy \in BOOLEAN
  /\ MaxCommands \in Nat /\ MaxCommands <= 2147483647
  /\ MaxRequests \in Nat /\ MaxRestarts \in Nat
  /\ \A request \in Requests :
       \/ request = PathProofs!Disable
       \/ \E permanent \in BOOLEAN : request = PathProofs!SetOrigin(permanent)
       \/ \E add, single \in BOOLEAN :
            request = PathProofs!SetFeedbackConfig(add, single)
<1>1. /\ PathProofs!DriverId = DriverId /\ PathProofs!Disable = Disable
      /\ \A p : PathProofs!SetOrigin(p) = SetOrigin(p)
      /\ \A p, q : PathProofs!SetFeedbackConfig(p, q) = SetFeedbackConfig(p, q)
  BY DEF PathProofs!DriverId, DriverId, PathProofs!Disable, Disable,
         PathProofs!SetOrigin, SetOrigin,
         PathProofs!SetFeedbackConfig, SetFeedbackConfig
<1>2. QED
  BY <1>1, PathAssumption
(* The instance of the proofs speaks of the same path as the system's.     *)
LEMMA SameFrames ==
  /\ PathProofs!CommandModes = Path!CommandModes
  /\ PathProofs!MODE_CURRENT = Path!MODE_CURRENT
  /\ PathProofs!MODE_DISABLE = Path!MODE_DISABLE
  /\ PathProofs!MODE_SET_ORIGIN = Path!MODE_SET_ORIGIN
  /\ PathProofs!MODE_FEEDBACK_CONFIG = Path!MODE_FEEDBACK_CONFIG
  /\ \A v : PathProofs!AppendInt32(v) = Path!AppendInt32(v)
  /\ \A a, b, c, d : PathProofs!GetInt32(a, b, c, d) = Path!GetInt32(a, b, c, d)
  /\ \A m, c, d : PathProofs!MakeFrame(m, c, d) = Path!MakeFrame(m, c, d)
  /\ \A c : PathProofs!PackDisable(c) = Path!PackDisable(c)
  /\ \A c, p : PathProofs!PackSetOrigin(c, p) = Path!PackSetOrigin(c, p)
  /\ \A c, p, q : PathProofs!PackFeedbackConfig(c, p, q)
                    = Path!PackFeedbackConfig(c, p, q)
<1>1. /\ PathProofs!MODE_CURRENT = Path!MODE_CURRENT
      /\ PathProofs!MODE_DISABLE = Path!MODE_DISABLE
      /\ PathProofs!MODE_SET_ORIGIN = Path!MODE_SET_ORIGIN
      /\ PathProofs!MODE_FEEDBACK_CONFIG = Path!MODE_FEEDBACK_CONFIG
  BY DEF PathProofs!MODE_CURRENT, Path!MODE_CURRENT,
         PathProofs!MODE_DISABLE, Path!MODE_DISABLE,
         PathProofs!MODE_SET_ORIGIN, Path!MODE_SET_ORIGIN,
         PathProofs!MODE_FEEDBACK_CONFIG, Path!MODE_FEEDBACK_CONFIG
<1>2. PathProofs!CommandModes = Path!CommandModes
  BY DEF PathProofs!CommandModes, PathProofs!ServoModes, PathProofs!MODE_DUTY,
         PathProofs!MODE_CURRENT, PathProofs!MODE_CURRENT_BRAKE,
         PathProofs!MODE_VELOCITY, PathProofs!MODE_POSITION,
         PathProofs!MODE_POSITION_VELOCITY, PathProofs!MODE_MIT,
         Path!CommandModes, Path!ServoModes, Path!MODE_DUTY,
         Path!MODE_CURRENT, Path!MODE_CURRENT_BRAKE,
         Path!MODE_VELOCITY, Path!MODE_POSITION,
         Path!MODE_POSITION_VELOCITY, Path!MODE_MIT
<1>3. \A v, u : PathProofs!Octet(v, u) = Path!Octet(v, u)
  BY DEF PathProofs!Octet, Path!Octet
<1>4. /\ \A v : PathProofs!AppendInt32(v) = Path!AppendInt32(v)
      /\ \A v : PathProofs!AppendUint16(v) = Path!AppendUint16(v)
  BY <1>3 DEF PathProofs!AppendInt32, Path!AppendInt32,
              PathProofs!AppendUint16, Path!AppendUint16
<1>5. \A a, b, c, d : PathProofs!GetInt32(a, b, c, d) = Path!GetInt32(a, b, c, d)
  <2>1. \A b : PathProofs!Signed(b) = Path!Signed(b)
    BY DEF PathProofs!Signed, Path!Signed
  <2>2. QED
    BY <2>1 DEF PathProofs!GetInt32, Path!GetInt32
<1>6. \A n : PathProofs!Zeros(n) = Path!Zeros(n)
  BY DEF PathProofs!Zeros, Path!Zeros
<1>7. \A m, c, d : PathProofs!MakeFrame(m, c, d) = Path!MakeFrame(m, c, d)
  <2>1. \A m, c : PathProofs!BuildCanId(m, c) = Path!BuildCanId(m, c)
    BY DEF PathProofs!BuildCanId, Path!BuildCanId
  <2>2. QED
    BY <1>6, <2>1 DEF PathProofs!MakeFrame, Path!MakeFrame
<1>8. /\ \A c : PathProofs!PackDisable(c) = Path!PackDisable(c)
      /\ \A c, p : PathProofs!PackSetOrigin(c, p) = Path!PackSetOrigin(c, p)
  BY <1>1, <1>7 DEF PathProofs!PackDisable, Path!PackDisable,
                    PathProofs!PackSetOrigin, Path!PackSetOrigin
<1>9. \A c, p, q : PathProofs!PackFeedbackConfig(c, p, q)
                     = Path!PackFeedbackConfig(c, p, q)
  BY <1>1, <1>4, <1>6, <1>7
     DEF PathProofs!PackFeedbackConfig, Path!PackFeedbackConfig
<1>10. QED
  BY <1>1, <1>2, <1>4, <1>5, <1>7, <1>8, <1>9, Zenon

LEMMA SameInit == Path!Init => PathProofs!Init
  BY DEF Path!Init, PathProofs!Init

LEMMA SameVars ==
  /\ UNCHANGED Path!vars => UNCHANGED PathProofs!vars
  /\ UNCHANGED PathProofs!vars => UNCHANGED Path!vars
  BY DEF PathProofs!vars, Path!vars

LEMMA SameTransmits == Path!BusTransmits => PathProofs!BusTransmits
<1>1. \A data, mode : PathProofs!Obeys(data, mode) = Path!Obeys(data, mode)
  BY SameFrames DEF Path!Obeys, PathProofs!Obeys
<1>2. QED
  BY <1>1, SameFrames DEF Path!BusTransmits, PathProofs!BusTransmits

LEMMA SameNext == Path!Next => PathProofs!Next
<1>1. \A q : PathProofs!KeepLast(q) = Path!KeepLast(q)
  BY DEF PathProofs!KeepLast, Path!KeepLast
<1>2. \A mode : Path!PublishCommand(mode) => PathProofs!PublishCommand(mode)
  BY <1>1 DEF Path!PublishCommand, PathProofs!PublishCommand
<1>3. \A request : Path!CallService(request) => PathProofs!CallService(request)
  BY DEF Path!CallService, PathProofs!CallService
<1>4. \A frame, from, ok : Path!Send(frame, from, ok)
                             => PathProofs!Send(frame, from, ok)
  BY DEF Path!Send, PathProofs!Send
<1>5. \A ok : Path!OnCommand(ok) => PathProofs!OnCommand(ok)
  BY <1>4, SameFrames DEF Path!OnCommand, PathProofs!OnCommand
<1>6. \A service, i : Path!NextOf(service, i) => PathProofs!NextOf(service, i)
  BY DEF Path!NextOf, PathProofs!NextOf
<1>7. \A i, frame, ok : Path!Respond(i, frame, ok)
                          => PathProofs!Respond(i, frame, ok)
  BY <1>4 DEF Path!Respond, PathProofs!Respond
<1>8. \A i, ok : Path!OnDisable(i, ok) => PathProofs!OnDisable(i, ok)
  BY <1>6, <1>7, SameFrames DEF Path!OnDisable, PathProofs!OnDisable
<1>9. \A i, ok : Path!OnSetOrigin(i, ok) => PathProofs!OnSetOrigin(i, ok)
  BY <1>6, <1>7, SameFrames DEF Path!OnSetOrigin, PathProofs!OnSetOrigin
<1>10. \A i, ok : Path!OnSetFeedbackConfig(i, ok)
                    => PathProofs!OnSetFeedbackConfig(i, ok)
  BY <1>6, <1>7, SameFrames
     DEF Path!OnSetFeedbackConfig, PathProofs!OnSetFeedbackConfig
<1>11. \A i, ok : Path!Serve(i, ok) => PathProofs!Serve(i, ok)
  BY <1>8, <1>9, <1>10 DEF Path!Serve, PathProofs!Serve
<1>12. /\ Path!DrainCaches => PathProofs!DrainCaches
       /\ Path!NodeRestarts => PathProofs!NodeRestarts
       /\ Path!MotorSendsExt => PathProofs!MotorSendsExt
  BY DEF Path!DrainCaches, PathProofs!DrainCaches,
         Path!NodeRestarts, PathProofs!NodeRestarts,
         Path!MotorSendsExt, PathProofs!MotorSendsExt
<1>13. QED
  BY <1>2, <1>3, <1>5, <1>11, <1>12, SameTransmits, SameFrames
     DEF Path!Next, PathProofs!Next
LEMMA SystemFollowsPath == Spec => PathProofs!Spec
<1>1. [Path!Next]_(Path!vars) => [PathProofs!Next]_(PathProofs!vars)
  BY SameNext, SameVars
<1>2. Path!Spec => PathProofs!Spec
  BY <1>1, SameInit, PTL DEF Path!Spec, PathProofs!Spec
<1>3. QED
  BY <1>2, SystemImplementsPath DEF ImplementsPath

(* StaleBounded of the path, in the system: after a request to coast at    *)
(* most CmdDepth older commands set the motor moving, whatever it reports. *)
THEOREM SystemStaleBounded == Spec => []Path!StaleBounded
<1>1. PathProofs!Spec => []PathProofs!StaleBounded
  BY PathAssumed, PathProofs!StaleIsBounded
<1>2. PathProofs!StaleBounded => Path!StaleBounded
  BY DEF PathProofs!StaleBounded, Path!StaleBounded
<1>3. QED
  BY <1>1, <1>2, SystemFollowsPath, PTL

(* FlashAccounted of the path, in the system: one write to flash for each  *)
(* call that asked for it and answered success, and no other.              *)
THEOREM SystemFlashAccounted == Spec => []Path!FlashAccounted
<1>1. PathProofs!Spec => []PathProofs!FlashAccounted
  BY PathAssumed, PathProofs!FlashIsAccounted
<1>2. PathProofs!FlashAccounted => Path!FlashAccounted
  <2>1. PathProofs!FlashFrames = Path!FlashFrames
    BY SameFrames DEF PathProofs!FlashFrames, Path!FlashFrames
  <2>2. \A r : PathProofs!WritesFlash(r) = Path!WritesFlash(r)
    BY DEF PathProofs!WritesFlash, Path!WritesFlash
  <2>3. \A S : PathProofs!Cardinality(S) = Path!Cardinality(S)
    BY DEF PathProofs!Cardinality, Path!Cardinality
  <2>4. QED
    BY <2>1, <2>2, <2>3 DEF PathProofs!FlashAccounted, Path!FlashAccounted
<1>3. QED
  BY <1>1, <1>2, SystemFollowsPath, PTL

(* CommandsInOrder of the path, in the system: the motor hears each        *)
(* command at most once, and none older than one it has heard.             *)
THEOREM SystemCommandsInOrder == Spec => Path!CommandsInOrder
<1>1. PathProofs!Spec => PathProofs!CommandsInOrder
  BY PathAssumed, PathProofs!HeardInOrder
<1>2. Path!HearsCommand => PathProofs!HearsCommand
  <2>1. Path!BusTransmits => PathProofs!BusTransmits
    BY SameTransmits
  <2>2. QED
    BY <2>1, SameFrames DEF Path!HearsCommand, PathProofs!HearsCommand
<1>3. [PathProofs!HearsCommand => history'.command > history.command]_(PathProofs!vars)
        => [Path!HearsCommand => history'.command > history.command]_(Path!vars)
  BY <1>2, SameVars
<1>4. PathProofs!CommandsInOrder => Path!CommandsInOrder
  BY <1>3, PTL DEF PathProofs!CommandsInOrder, Path!CommandsInOrder
<1>5. QED
  BY <1>1, <1>4, SystemFollowsPath

(* ImplementsActuator of the path, in the system: with reports, faults and *)
(* the drain timer running beside it, the actuation path keeps its promise *)
(* to the clients.                                                         *)
THEOREM SystemImplementsActuator == Spec => Path!ImplementsActuator
<1>1. PathProofs!Spec => PathProofs!ImplementsActuator
  BY PathAssumed, PathProofs!PathImplementsActuator
<1>2. PathProofs!Service!Init => Path!Service!Init
  BY DEF PathProofs!Service!Init, Path!Service!Init
<1>3. UNCHANGED PathProofs!Service!vars => UNCHANGED Path!Service!vars
  BY DEF PathProofs!Service!vars, Path!Service!vars
<1>4. PathProofs!Service!Next => Path!Service!Next
  <2>1. /\ PathProofs!Service!Publish => Path!Service!Publish
        /\ PathProofs!Service!Lose => Path!Service!Lose
        /\ \A request : PathProofs!Service!Call(request)
                         => Path!Service!Call(request)
        /\ \A n : PathProofs!Service!Drive(n) => Path!Service!Drive(n)
    BY DEF PathProofs!Service!Publish, Path!Service!Publish,
           PathProofs!Service!Lose, Path!Service!Lose,
           PathProofs!Service!Call, Path!Service!Call,
           PathProofs!Service!Drive, Path!Service!Drive
  <2>2. \A i, j : PathProofs!Service!SameService(i, j)
                    <=> Path!Service!SameService(i, j)
    BY DEF PathProofs!Service!SameService, Path!Service!SameService
  <2>3. \A i, result : PathProofs!Service!Answer(i, result)
                         => Path!Service!Answer(i, result)
    BY <2>2 DEF PathProofs!Service!Answer, Path!Service!Answer
  <2>4. \A i : PathProofs!Service!Hear(i) => Path!Service!Hear(i)
    <3>1. \A i : /\ PathProofs!Service!Coast(i) => Path!Service!Coast(i)
                 /\ PathProofs!Service!MoveOrigin(i) => Path!Service!MoveOrigin(i)
                 /\ PathProofs!Service!Configure(i) => Path!Service!Configure(i)
      BY DEF PathProofs!Service!Coast, Path!Service!Coast,
             PathProofs!Service!MoveOrigin, Path!Service!MoveOrigin,
             PathProofs!Service!Configure, Path!Service!Configure
    <3>2. QED
      BY <2>2, <3>1 DEF PathProofs!Service!Hear, Path!Service!Hear
  <2>5. QED
    BY <2>1, <2>3, <2>4 DEF PathProofs!Service!Next, Path!Service!Next
<1>5. [PathProofs!Service!Next]_(PathProofs!Service!vars)
        => [Path!Service!Next]_(Path!Service!vars)
  BY <1>3, <1>4
<1>6. QED
  BY <1>1, <1>2, <1>5, SystemFollowsPath, PTL
     DEF PathProofs!ImplementsActuator, Path!ImplementsActuator,
         PathProofs!Service!Spec, Path!Service!Spec
=============================================================================
