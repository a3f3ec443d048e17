----------------------------- MODULE Disruptor ------------------------------
(***************************************************************************)
(* The single-producer single-consumer ring of                             *)
(* include/useeplus/disruptor.hpp: the USB worker thread claims a slot,    *)
(* fills it and publishes it; the consumer (the HTTP server's timer, or a  *)
(* thread in waitFor) takes a snapshot of what is published, reads that    *)
(* batch from the slots and gives the whole batch back at once.            *)
(*                                                                         *)
(* A step is one access to memory the other thread also touches.  The two  *)
(* Sequence objects are read with acquire and written with release, each   *)
(* by a single writer, so an interleaving of these steps is a faithful     *)
(* memory model for them; the slots are plain memory, so the consumer must *)
(* never be at a slot the producer is at (SlotNeverShared).                *)
(***************************************************************************)
EXTENDS Integers, Sequences

CONSTANTS
    Items,          \* contents a slot can be filled with
    NoItem,         \* the content of a cleared slot
    Capacity,       \* number of slots
    BlockingWait,   \* BlockingWaitStrategy (TRUE) or YieldingWaitStrategy
    MaxSequence     \* bound: the last sequence the producer claims

\* std::has_single_bit(Capacity): seq & mask is then seq % Capacity.  Only
\* Capacity # 0 is needed.
ASSUME CapacityAssumption == Capacity \in Nat \ {0}
ASSUME MaxSequenceAssumption == MaxSequence \in Nat
ASSUME ItemsAssumption == NoItem \notin Items
ASSUME BlockingAssumption == BlockingWait \in BOOLEAN

VARIABLES
    buffer,                   \* RingBuffer::data
    publishedSequence,
    consumerSequence,
    producerSequence,         \* ProducerState::sequence
    cachedConsumerSequence,   \* ProducerState::cachedConsumerSequence
    pPc,                      \* where the producer thread is
    nextReadSequence,         \* the consumer's read position
    available,                \* the consumer's snapshot of publishedSequence
    frame,                    \* what the consumer read last
    cPc                       \* where the consumer thread is

producerVars == <<producerSequence, cachedConsumerSequence, pPc>>
consumerVars == <<nextReadSequence, available, frame, cPc>>
vars == <<buffer, publishedSequence, consumerSequence, producerVars,
          consumerVars>>

Slots == 0 .. Capacity - 1

\* operator[]: sequence & mask
Slot(sequence) == sequence % Capacity

Init ==
    /\ buffer = [s \in Slots |-> NoItem]
    /\ publishedSequence = -1
    /\ consumerSequence = -1
    /\ producerSequence = -1
    /\ cachedConsumerSequence = -1
    /\ pPc = "idle"
    /\ nextReadSequence = 0
    /\ available = -1
    /\ frame = NoItem
    /\ cPc = "idle"

-----------------------------------------------------------------------------
(***************************************************************************)
(* The producer.                                                           *)
(***************************************************************************)
\* Faulty: one slot too many may be outstanding.
wrapPoint_OffByOne == producerSequence - Capacity

nextSequence == producerSequence + 1
wrapPoint    == nextSequence - Capacity

\* claim() and tryClaim() when the cached consumer sequence already shows room:
\* the consumer's Sequence is not read at all.
ClaimCached ==
    /\ pPc = "idle"
    /\ nextSequence <= MaxSequence
    /\ cachedConsumerSequence >= wrapPoint
    /\ producerSequence' = nextSequence
    /\ pPc' = "clear"
    /\ UNCHANGED <<buffer, publishedSequence, consumerSequence,
                   cachedConsumerSequence, consumerVars>>

\* The loads of consumerSequence: claim() keeps loading (pc "spin") until there
\* is room, tryClaim() loads once and returns std::nullopt ("idle") if there is
\* none.
ClaimReload(ifFull) ==
    /\ nextSequence <= MaxSequence
    /\ cachedConsumerSequence < wrapPoint
    /\ cachedConsumerSequence' = consumerSequence
    /\ \/ /\ cachedConsumerSequence' < wrapPoint
          /\ pPc' = ifFull
          /\ UNCHANGED producerSequence
       \/ /\ cachedConsumerSequence' >= wrapPoint
          /\ producerSequence' = nextSequence
          /\ pPc' = "clear"
    /\ UNCHANGED <<buffer, publishedSequence, consumerSequence, consumerVars>>

Claim    == pPc \in {"idle", "spin"} /\ ClaimReload("spin")
TryClaim == pPc = "idle" /\ ClaimReload("idle")

\* slot.clear() on the claimed slot ...
ClearSlot ==
    /\ pPc = "clear"
    /\ buffer' = [buffer EXCEPT ![Slot(producerSequence)] = NoItem]
    /\ pPc' = "fill"
    /\ UNCHANGED <<publishedSequence, consumerSequence, producerSequence,
                   cachedConsumerSequence, consumerVars>>

\* Faulty: fills the slot after the claimed one.
FillSlot_NextSlot(x) ==
    /\ pPc = "fill"
    /\ buffer' = [buffer EXCEPT ![Slot(producerSequence + 1)] = x]
    /\ pPc' = "publish"
    /\ UNCHANGED <<publishedSequence, consumerSequence, producerSequence,
                   cachedConsumerSequence, consumerVars>>

\* ... and slot.insertContent().
FillSlot(x) ==
    /\ pPc = "fill"
    /\ buffer' = [buffer EXCEPT ![Slot(producerSequence)] = x]
    /\ pPc' = "publish"
    /\ UNCHANGED <<publishedSequence, consumerSequence, producerSequence,
                   cachedConsumerSequence, consumerVars>>

\* publish(): the release store of the sequence ...
Publish ==
    /\ pPc = "publish"
    /\ publishedSequence' = producerSequence
    /\ pPc' = "signal"
    /\ UNCHANGED <<buffer, consumerSequence, producerSequence,
                   cachedConsumerSequence, consumerVars>>

\* ... then signalAllWhenBlocking(): notify_all wakes a consumer blocked in
\* atomic::wait.  It does nothing under YieldingWaitStrategy.
Signal ==
    /\ pPc = "signal"
    /\ pPc' = "idle"
    /\ cPc' = IF BlockingWait /\ cPc = "asleep" THEN "wait" ELSE cPc
    /\ UNCHANGED <<buffer, publishedSequence, consumerSequence,
                   producerSequence, cachedConsumerSequence,
                   nextReadSequence, available, frame>>

Producer ==
    \/ ClaimCached
    \/ Claim
    \/ TryClaim
    \/ ClearSlot
    \/ \E x \in Items : FillSlot(x)
    \/ Publish
    \/ Signal

-----------------------------------------------------------------------------
(***************************************************************************)
(* The consumer.                                                           *)
(***************************************************************************)

\* Faulty: gives the batch back before it is read.
Poll_GivesBackEarly ==
    /\ cPc = "idle"
    /\ publishedSequence >= nextReadSequence
    /\ available' = publishedSequence
    /\ consumerSequence' = publishedSequence
    /\ cPc' = "read"
    /\ UNCHANGED <<buffer, publishedSequence, producerVars, nextReadSequence,
                   frame>>

\* The timer: getHighestPublished(), and an early return if nothing is new.
Poll ==
    /\ cPc = "idle"
    /\ publishedSequence >= nextReadSequence
    /\ available' = publishedSequence
    /\ cPc' = "read"
    /\ UNCHANGED <<buffer, publishedSequence, consumerSequence, producerVars,
                   nextReadSequence, frame>>

\* waitFor(nextReadSequence): the load.  A blocking wait keeps the value it
\* loaded (in available) for atomic::wait, a yielding one loads again.
WaitFor ==
    /\ cPc \in {"idle", "wait"}
    /\ available' = publishedSequence
    /\ cPc' = IF publishedSequence >= nextReadSequence THEN "read"
              ELSE IF BlockingWait THEN "block" ELSE "wait"
    /\ UNCHANGED <<buffer, publishedSequence, consumerSequence, producerVars,
                   nextReadSequence, frame>>

\* Faulty: sleeps without comparing the value again.
Block_NoCompare ==
    /\ cPc = "block"
    /\ cPc' = "asleep"
    /\ UNCHANGED <<buffer, publishedSequence, consumerSequence, producerVars,
                   nextReadSequence, available, frame>>

\* atomic::wait(current): sleeps only if the value is still the one loaded,
\* otherwise returns and waitFor loads again.
Block ==
    /\ cPc = "block"
    /\ cPc' = IF publishedSequence = available THEN "asleep" ELSE "wait"
    /\ UNCHANGED <<buffer, publishedSequence, consumerSequence, producerVars,
                   nextReadSequence, available, frame>>

\* One turn of the reading loop: getBySequence(nextReadSequence), up to the
\* snapshot.
ReadSlot ==
    /\ cPc = "read"
    /\ nextReadSequence <= available
    /\ frame' = buffer[Slot(nextReadSequence)]
    /\ nextReadSequence' = nextReadSequence + 1
    /\ UNCHANGED <<buffer, publishedSequence, consumerSequence, producerVars,
                   available, cPc>>

\* Faulty: reads the batch and never gives it back.
MarkConsumed_Forgets ==
    /\ cPc = "read"
    /\ nextReadSequence > available
    /\ cPc' = "idle"
    /\ UNCHANGED <<buffer, publishedSequence, consumerSequence, producerVars,
                   nextReadSequence, available, frame>>

\* markConsumed(nextReadSequence - 1): the whole batch is given back.
MarkConsumed ==
    /\ cPc = "read"
    /\ nextReadSequence > available
    /\ consumerSequence' = nextReadSequence - 1
    /\ cPc' = "idle"
    /\ UNCHANGED <<buffer, publishedSequence, producerVars, nextReadSequence,
                   available, frame>>

Consumer == Poll \/ WaitFor \/ Block \/ ReadSlot \/ MarkConsumed

\* Where the bounded model may stop: everything was claimed, published and
\* consumed.
Finished ==
    /\ producerSequence = MaxSequence
    /\ consumerSequence = MaxSequence
    /\ pPc = "idle"
    /\ UNCHANGED vars

Next == Producer \/ Consumer \/ Finished

Spec == Init /\ [][Next]_vars

\* Both are running threads; neither waits for a lock.
FairSpec == Spec /\ WF_vars(Producer) /\ WF_vars(Consumer)

-----------------------------------------------------------------------------
(***************************************************************************)
(* Properties.                                                             *)
(***************************************************************************)
Positions == -1 .. MaxSequence

\* Every variable has its type; in particular no thread moves a sequence past
\* the last one claimed.
TypeOK ==
    /\ buffer \in [Slots -> Items \cup {NoItem}]
    /\ publishedSequence \in Positions
    /\ consumerSequence \in Positions
    /\ producerSequence \in Positions
    /\ cachedConsumerSequence \in Positions
    /\ pPc \in {"idle", "spin", "clear", "fill", "publish", "signal"}
    /\ nextReadSequence \in 0 .. MaxSequence + 1
    /\ available \in Positions
    /\ frame \in Items \cup {NoItem}
    /\ cPc \in {"idle", "wait", "block", "asleep", "read"}

\* The producer has claimed a slot it has not published.
Claimed == pPc \in {"clear", "fill", "publish"}

\* The five positions keep their order although each thread moves its own and
\* claim() decides on a stale copy of the consumer's: what is given back was
\* read, what is read was published, at most one claim is unpublished, and at
\* most Capacity sequences are claimed and not given back.
SequencesOrdered ==
    /\ cachedConsumerSequence <= consumerSequence
    /\ consumerSequence < nextReadSequence
    /\ nextReadSequence <= publishedSequence + 1
    /\ producerSequence = IF Claimed THEN publishedSequence + 1
                                     ELSE publishedSequence
    /\ producerSequence - consumerSequence <= Capacity

\* While the producer clears and fills a slot, the consumer holds no reference
\* to it: no published sequence that is unread, or read and not yet given back,
\* lies in the producer's slot.  (getBySequence hands out plain references, and
\* the timer writes to sockets from them.)
SlotNeverShared ==
    Claimed => \A s \in 0 .. publishedSequence :
                  s > consumerSequence \/ s >= nextReadSequence
                    => Slot(s) # Slot(producerSequence)

\* A consumer asleep in atomic::wait with something to read is about to be
\* notified: the store of publish() and the value the wait compares are the same
\* atomic, so no wakeup is lost between the load and the sleep.
NoLostWakeup ==
    cPc = "asleep" /\ publishedSequence >= nextReadSequence => pPc = "signal"

\* What is published and not read, as the slots hold it.
unread == [i \in 1 .. publishedSequence - nextReadSequence + 1 |->
              buffer[Slot(nextReadSequence + i - 1)]]

Channel == INSTANCE BoundedChannel WITH
              queue <- unread,
              held  <- nextReadSequence - 1 - consumerSequence,
              got   <- frame

\* The ring is a first-in first-out channel of Capacity outstanding items, and
\* the consumer's loop keeps reading it and giving slots back.
ImplementsChannel == Channel!ChanSpec

\* A producer blocked in claim() on a full ring gets its slot, as
\* tests/test_disruptor.cpp ProducerBlocksWhenFull expects.
ClaimReturns == pPc = "spin" ~> pPc = "clear"
=============================================================================
