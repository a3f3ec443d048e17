-------------------------- MODULE DisruptorProofs ---------------------------
(***************************************************************************)
(* Proofs about Disruptor, for every capacity, every set of items and      *)
(* either wait strategy: the order of the sequences, the exclusive use of  *)
(* slots, the absence of lost wakeups, and that the ring implements        *)
(* BoundedChannel.                                                         *)
(***************************************************************************)
EXTENDS Disruptor, SequenceTheorems, TLAPS

USE CapacityAssumption, MaxSequenceAssumption, BlockingAssumption

-----------------------------------------------------------------------------
(* Slots: two sequences less than Capacity apart never share one.          *)

\* A sequence's slot exists.
LEMMA SlotInRange ==
  ASSUME NEW a \in Int
  PROVE  Slot(a) \in Slots
BY SMT DEF Slot, Slots

\* A multiple of a positive number is not strictly between 0 and that number.
LEMMA MultipleBound ==
  ASSUME NEW c \in Nat \ {0}, NEW k \in Int
  PROVE  /\ k <= 0 => c * k <= 0
         /\ k >= 1 => c * k >= c
OBVIOUS

\* Sequences less than Capacity apart differ in the bits operator[] keeps.
LEMMA SlotsDistinct ==
  ASSUME NEW a \in Int, NEW b \in Int, a < b, b - a < Capacity
  PROVE  Slot(a) # Slot(b)
<1> DEFINE qa == a \div Capacity
           qb == b \div Capacity
<1>1. /\ qa \in Int /\ qb \in Int
      /\ a = Capacity * qa + Slot(a)
      /\ b = Capacity * qb + Slot(b)
  BY SMT DEF Slot
<1>2. Slot(a) \in Int /\ Slot(b) \in Int
  BY SlotInRange DEF Slots
<1>3. Capacity * (qb - qa) = Capacity * qb - Capacity * qa
  BY <1>1
<1>4. ASSUME Slot(a) = Slot(b) PROVE FALSE
  <2>1. Capacity * (qb - qa) = b - a
    <3> HIDE DEF qa, qb
    <3> QED BY <1>1, <1>2, <1>3, <1>4
  <2>2. /\ qb - qa <= 0 => Capacity * (qb - qa) <= 0
        /\ qb - qa >= 1 => Capacity * (qb - qa) >= Capacity
    BY <1>1, MultipleBound
  <2> HIDE DEF qa, qb
  <2> QED BY <1>1, <2>1, <2>2
<1> QED BY <1>4

-----------------------------------------------------------------------------
(***************************************************************************)
(* The inductive invariant.  What the properties leave out: the room the   *)
(* producer relies on is the room its own cached copy shows; the consumer's *)
(* snapshot lies between what it has given back and what is published; and *)
(* a sleeper's loaded value is stale only between publish and notify.      *)
(***************************************************************************)
CachedRoom == producerSequence - cachedConsumerSequence <= Capacity

SnapshotBounds ==
    /\ available <= publishedSequence
    /\ cPc = "read"  => consumerSequence < available /\ nextReadSequence <= available + 1
    /\ cPc # "read"  => nextReadSequence = consumerSequence + 1

SleeperFresh ==
    /\ cPc \in {"block", "asleep"} => BlockingWait /\ available < nextReadSequence
    /\ cPc = "asleep" /\ publishedSequence # available => pPc = "signal"

FilledItem == pPc = "publish" => buffer[Slot(producerSequence)] \in Items

IInv == TypeOK /\ SequencesOrdered /\ CachedRoom /\ SnapshotBounds
               /\ SleeperFresh /\ FilledItem

\* The ring as constructed satisfies the invariant.
LEMMA InitIInv == Init => IInv
BY DEF Init, IInv, TypeOK, SequencesOrdered, CachedRoom, SnapshotBounds,
       SleeperFresh, FilledItem, Claimed, Positions, Slots

\* Every step of either thread preserves it.
LEMMA NextIInv == IInv /\ [Next]_vars => IInv'
<1> SUFFICES ASSUME IInv, [Next]_vars
             PROVE  IInv'
  OBVIOUS
<1> USE DEF IInv, TypeOK, SequencesOrdered, CachedRoom, SnapshotBounds,
            SleeperFresh, FilledItem, Claimed, Positions, producerVars, consumerVars
<1>1. CASE ClaimCached
  BY <1>1 DEF ClaimCached, nextSequence, wrapPoint
<1>2. CASE Claim
  BY <1>2 DEF Claim, ClaimReload, nextSequence, wrapPoint
<1>3. CASE TryClaim
  BY <1>3 DEF TryClaim, ClaimReload, nextSequence, wrapPoint
<1>4. CASE ClearSlot
  BY <1>4 DEF ClearSlot
<1>5. ASSUME NEW x \in Items, FillSlot(x)
      PROVE  IInv'
  <2>1. Slot(producerSequence) \in Slots
    BY SlotInRange
  <2> QED BY <1>5, <2>1 DEF FillSlot
<1>6. CASE Publish
  BY <1>6 DEF Publish
<1>7. CASE Signal
  BY <1>7 DEF Signal
<1>8. CASE Poll
  BY <1>8 DEF Poll
<1>9. CASE WaitFor
  BY <1>9 DEF WaitFor
<1>10. CASE Block
  BY <1>10 DEF Block
<1>11. CASE ReadSlot
  <2>1. Slot(nextReadSequence) \in Slots
    BY SlotInRange
  <2> QED BY <1>11, <2>1 DEF ReadSlot
<1>12. CASE MarkConsumed
  BY <1>12 DEF MarkConsumed
<1>13. CASE UNCHANGED vars
  BY <1>13 DEF vars
<1> QED
  BY <1>1, <1>2, <1>3, <1>4, <1>5, <1>6, <1>7, <1>8, <1>9, <1>10, <1>11,
     <1>12, <1>13 DEF Next, Producer, Consumer, Finished

\* So it always holds.
LEMMA SpecIInv == Spec => []IInv
BY InitIInv, NextIInv, PTL DEF Spec

-----------------------------------------------------------------------------
(* The properties.                                                         *)

\* For every capacity and both wait strategies, every variable keeps its type:
\* no thread moves a sequence past the last one claimed.
THEOREM TypeCorrect == Spec => []TypeOK
BY SpecIInv, PTL DEF IInv

\* The consumer never runs past publish(), the producer never runs past the
\* consumer by more than the capacity, although it decides on a stale copy.
THEOREM Ordered == Spec => []SequencesOrdered
BY SpecIInv, PTL DEF IInv

\* A slot being cleared or filled is never one the consumer still refers to.
THEOREM SlotsExclusive == Spec => []SlotNeverShared
<1>1. IInv => SlotNeverShared
  <2> SUFFICES ASSUME IInv, Claimed,
                      NEW s \in 0 .. publishedSequence,
                      s > consumerSequence \/ s >= nextReadSequence
               PROVE  Slot(s) # Slot(producerSequence)
    BY DEF SlotNeverShared
  <2>1. /\ s \in Int /\ producerSequence \in Int
        /\ s < producerSequence
        /\ producerSequence - s < Capacity
    BY DEF IInv, TypeOK, SequencesOrdered, Positions
  <2> QED BY <2>1, SlotsDistinct
<1> QED BY <1>1, SpecIInv, PTL

\* A consumer asleep in atomic::wait while there is something to read has a
\* notify on its way.
THEOREM WakeupNeverLost == Spec => []NoLostWakeup
<1>1. IInv => NoLostWakeup
  BY DEF IInv, TypeOK, SleeperFresh, NoLostWakeup, Positions
<1> QED BY <1>1, SpecIInv, PTL

-----------------------------------------------------------------------------
(***************************************************************************)
(* Refinement: every step of the ring is a step of BoundedChannel or       *)
(* leaves its variables alone.  Publish is Send, ReadSlot is Receive,      *)
(* MarkConsumed is GiveBack.                                               *)
(***************************************************************************)

\* Writing the producer's slot does not change what is unread.
LEMMA WriteKeepsUnread ==
  ASSUME IInv, Claimed, NEW x,
         buffer' = [buffer EXCEPT ![Slot(producerSequence)] = x],
         UNCHANGED <<publishedSequence, nextReadSequence>>
  PROVE  unread' = unread
<1> DEFINE n == publishedSequence - nextReadSequence + 1
<1>1. ASSUME NEW i \in 1 .. n
      PROVE  buffer'[Slot(nextReadSequence + i - 1)]
               = buffer[Slot(nextReadSequence + i - 1)]
  <2>1. /\ nextReadSequence + i - 1 \in Int
        /\ producerSequence \in Int
        /\ nextReadSequence + i - 1 < producerSequence
        /\ producerSequence - (nextReadSequence + i - 1) < Capacity
    BY DEF IInv, TypeOK, SequencesOrdered, Positions
  <2>2. Slot(nextReadSequence + i - 1) # Slot(producerSequence)
    BY <2>1, SlotsDistinct
  <2>3. Slot(nextReadSequence + i - 1) \in Slots
    BY <2>1, SlotInRange
  <2> QED BY <2>2, <2>3 DEF IInv, TypeOK
<1> QED BY <1>1 DEF unread

\* The empty ring is the empty channel.
LEMMA InitChannel == Init => Channel!ChanInit
BY DEF Init, Channel!ChanInit, unread

\* Each step is a step of the channel, or leaves it alone.
LEMMA NextChannel ==
  IInv /\ [Next]_vars => [Channel!ChanNext]_(Channel!chanVars)
<1> SUFFICES ASSUME IInv, [Next]_vars
             PROVE  [Channel!ChanNext]_(Channel!chanVars)
  OBVIOUS
<1> USE DEF Channel!chanVars
<1>1. CASE ClearSlot
  <2>1. unread' = unread
    BY <1>1, WriteKeepsUnread DEF ClearSlot, Claimed, consumerVars
  <2> QED BY <1>1, <2>1 DEF ClearSlot, consumerVars
<1>2. ASSUME NEW x \in Items, FillSlot(x)
      PROVE  [Channel!ChanNext]_(Channel!chanVars)
  <2>1. unread' = unread
    BY <1>2, WriteKeepsUnread DEF FillSlot, Claimed, consumerVars
  <2> QED BY <1>2, <2>1 DEF FillSlot, consumerVars
<1>3. CASE Publish
  <2> DEFINE x == buffer[Slot(producerSequence)]
             n == publishedSequence - nextReadSequence + 1
  <2>1. x \in Items
    BY <1>3 DEF Publish, IInv, FilledItem
  <2>2. /\ n \in Nat
        /\ publishedSequence' - nextReadSequence' + 1 = n + 1
        /\ nextReadSequence + (n + 1) - 1 = producerSequence
        /\ nextReadSequence' = nextReadSequence
        /\ buffer' = buffer
        /\ consumerSequence' = consumerSequence
        /\ frame' = frame
        /\ n + (nextReadSequence - 1 - consumerSequence) < Capacity
    BY <1>3 DEF Publish, IInv, TypeOK, SequencesOrdered, Claimed, Positions,
                consumerVars
  <2>3. /\ unread = [i \in 1 .. n |-> buffer[Slot(nextReadSequence + i - 1)]]
        /\ unread' = [i \in 1 .. n + 1 |-> buffer[Slot(nextReadSequence + i - 1)]]
    BY <2>2 DEF unread
  <2>4. Len(unread) = n
    <3> HIDE DEF n
    <3> QED BY <2>2, <2>3
  <2>5. unread' = Append(unread, x)
    <3> HIDE DEF n
    <3> QED BY <2>2, <2>3
  <2>6. Channel!Send(x)
    BY <2>2, <2>4, <2>5 DEF Channel!Send
  <2> QED BY <2>1, <2>6 DEF Channel!ChanNext
<1>4. CASE ReadSlot
  <2> DEFINE n == publishedSequence - nextReadSequence + 1
  <2>1. /\ n \in Nat /\ n > 0
        /\ publishedSequence' - nextReadSequence' + 1 = n - 1
        /\ nextReadSequence' = nextReadSequence + 1
        /\ nextReadSequence \in Int
        /\ buffer' = buffer
        /\ nextReadSequence' - 1 - consumerSequence'
              = (nextReadSequence - 1 - consumerSequence) + 1
        /\ frame' = buffer[Slot(nextReadSequence)]
    BY <1>4 DEF ReadSlot, IInv, TypeOK, SequencesOrdered, SnapshotBounds, Positions
  <2>2. /\ unread = [i \in 1 .. n |-> buffer[Slot(nextReadSequence + i - 1)]]
        /\ unread' = [i \in 1 .. n - 1 |-> buffer[Slot(nextReadSequence + 1 + i - 1)]]
    BY <2>1 DEF unread
  <2>3. \A i \in 1 .. n : buffer[Slot(nextReadSequence + i - 1)]
                            \in Items \cup {NoItem}
    BY <2>1, SlotInRange DEF IInv, TypeOK
  <2>4. \A i \in 1 .. n - 1 : buffer[Slot(nextReadSequence + 1 + i - 1)]
                                 \in Items \cup {NoItem}
    BY <2>1, SlotInRange DEF IInv, TypeOK
  <2>5. unread \in Seq(Items \cup {NoItem})
    <3> HIDE DEF n
    <3> QED BY <2>1, <2>2, <2>3
  <2>6. /\ Len(unread) = n
        /\ unread # <<>>
        /\ Head(unread) = frame'
    <3> HIDE DEF n
    <3> QED BY <2>1, <2>2
  <2>7. unread' = Tail(unread)
    <3> HIDE DEF n
    <3>1. unread' \in Seq(Items \cup {NoItem})
      BY <2>1, <2>2, <2>4
    <3>2. /\ Len(unread') = n - 1
          /\ \A i \in 1 .. n - 1 : unread'[i] = unread[i + 1]
      BY <2>1, <2>2
    <3>3. /\ Tail(unread) \in Seq(Items \cup {NoItem})
          /\ Len(Tail(unread)) = n - 1
          /\ \A i \in 1 .. n - 1 : Tail(unread)[i] = unread[i + 1]
      BY <2>5, <2>6, HeadTailProperties
    <3> QED BY <3>1, <3>2, <3>3, SeqEqual
  <2> QED BY <2>1, <2>6, <2>7 DEF Channel!Receive, Channel!ChanNext
<1>5. CASE MarkConsumed
  <2>1. /\ unread' = unread
        /\ frame' = frame
        /\ nextReadSequence - 1 - consumerSequence > 0
        /\ nextReadSequence' - 1 - consumerSequence' = 0
    BY <1>5 DEF MarkConsumed, unread, IInv, TypeOK, SequencesOrdered,
                SnapshotBounds, Positions
  <2> QED BY <2>1 DEF Channel!GiveBack, Channel!ChanNext
<1>6. CASE \/ ClaimCached \/ Claim \/ TryClaim \/ Signal
           \/ Poll \/ WaitFor \/ Block \/ UNCHANGED vars
  <2>1. UNCHANGED <<buffer, publishedSequence, consumerSequence,
                    nextReadSequence, frame>>
    BY <1>6 DEF ClaimCached, Claim, TryClaim, ClaimReload, Signal, Poll,
                WaitFor, Block, vars, consumerVars
  <2> QED BY <2>1 DEF unread
<1> QED
  BY <1>1, <1>2, <1>3, <1>4, <1>5, <1>6 DEF Next, Producer, Consumer, Finished

\* The ring is a first-in first-out channel of at most Capacity outstanding
\* items: nothing is lost, duplicated, reordered or overwritten before it is
\* given back (the safety part of ImplementsChannel).
THEOREM RingImplementsChannel == Spec => Channel!ChanSafety
BY SpecIInv, InitChannel, NextChannel, PTL DEF Spec, Channel!ChanSafety
=============================================================================
