------------------------- MODULE LibusbServerProofs -------------------------
(***************************************************************************)
(* Proofs about LibusbServer, for any number of transfers and flushes, any *)
(* capacity of the ring, and whatever may fail: every claimed slot is      *)
(* published, nothing published is a part of a frame, and no transfer is   *)
(* freed that libusb still has.                                            *)
(***************************************************************************)
EXTENDS LibusbServer, FiniteSetTheorems, TLAPS

USE CountsAssumption

-----------------------------------------------------------------------------
(* The stream: what claimed, published and the slots hold between the      *)
(* callbacks of the decoder.                                               *)

\* A slot is claimed and unpublished exactly while the decoder builds a frame and
\* claim() has returned; otherwise onFrameStart could publish a frame twice, or
\* claim() overwrite one.
FrameOpen ==
    /\ frameActive \in BOOLEAN
    /\ frameActive <=> dec = "building" /\ cb # "claim"

\* The frames of the bounded camera.
StreamTypes ==
    /\ {claimed, published} \subseteq -1 .. MaxFrames - 1
    /\ cb = "claim" => claimed + 1 < MaxFrames /\ dec = "building"
    /\ content \in [Frames -> {"empty", "partial", "whole"}]

StreamInv == StreamTypes /\ FrameOpen /\ ClaimsPublished /\ PublishedWhole

\* What happens outside of send: the stream is left alone, and no callback enters or
\* leaves claim().
Outside == /\ UNCHANGED streamVars
           /\ cb' = "claim" <=> cb = "claim"

\* Every step but those of send is outside of it.
LEMMA StepsOutside == [Next]_vars => Outside \/ Send
<1> SUFFICES ASSUME [Next]_vars PROVE Outside \/ Send
  OBVIOUS
<1>1. CASE Main
  BY <1>1 DEF Main, StartSource, ServerStarted, StopSource, SourceJoined, Exit,
              Outside, cbVars
<1>2. CASE Source
  <2>1. CASE OpenCamera \/ FillPool \/ HandleEvents \/ LeaveLoop \/ Flush
    BY <2>1 DEF OpenCamera, FillPool, HandleEvents, LeaveLoop, Flush, Outside, cbVars
  <2>2. CASE Halt \/ Cancel \/ Drain \/ FreePool
    BY <2>2 DEF Halt, Cancel, Drain, FreePool, Outside, cbVars
  <2>3. CASE Callback
    <3>1. CASE Reap
      BY <3>1 DEF Reap, Outside, cbVars
    <3>2. CASE Handler \/ HaltStream \/ Resubmit
      BY <3>2 DEF Handler, HaltStream, Resubmit, Outside
    <3>3. CASE Send
      BY <3>3
    <3> QED BY <2>3, <3>1, <3>2, <3>3 DEF Callback
  <2> QED BY <1>2, <2>1, <2>2, <2>3 DEF Source
<1>3. CASE Network
  BY <1>3 DEF Network, Bind, Tick, Poll, ReadBatch, Outside, cbVars
<1>4. CASE Unplug \/ Signal
  BY <1>4 DEF Unplug, Signal, Outside, cbVars
<1>5. CASE \E t \in Transfers : Complete(t)
  BY <1>5 DEF Complete, Outside, cbVars
<1>6. CASE Over \/ UNCHANGED vars
  BY <1>6 DEF Over, vars, Outside, cbVars
<1> QED BY <1>1, <1>2, <1>3, <1>4, <1>5, <1>6 DEF Next

\* The open frame's slot exists, and it is the one after the published ones.
LEMMA OpenSlot ==
  ASSUME StreamInv, frameActive
  PROVE  claimed \in Frames /\ published = claimed - 1 /\ dec = "building"
<1>1. claimed - published = 1
  BY DEF StreamInv, ClaimsPublished
<1>2. dec = "building"
  BY Zenon DEF StreamInv, FrameOpen
<1>3. {claimed, published} \subseteq -1 .. MaxFrames - 1
  BY DEF StreamInv, StreamTypes
<1> QED BY <1>1, <1>2, <1>3 DEF Frames

\* The end of a frame, dropped or complete: its slot gets its last content and is
\* published.
LEMMA FrameEnds ==
  ASSUME StreamInv, OnIncomplete \/ OnComplete
  PROVE  StreamInv'
<1>1. /\ claimed \in Frames /\ published = claimed - 1
      /\ content \in [Frames -> {"empty", "partial", "whole"}]
      /\ \A s \in 0 .. published : content[s] # "partial"
  BY OpenSlot DEF OnIncomplete, OnComplete, StreamInv, StreamTypes, PublishedWhole
<1>2. /\ claimed' = claimed /\ published' = claimed /\ frameActive' = FALSE
      /\ cb' = cb /\ cb = "send" /\ dec' # "building"
      /\ \E c \in {"empty", "whole"} : content' = [content EXCEPT ![claimed] = c]
  BY DEF OnIncomplete, OnComplete
<1>3. StreamTypes' /\ ClaimsPublished'
  BY <1>1, <1>2 DEF StreamInv, StreamTypes, ClaimsPublished, Frames
<1>4. FrameOpen'
  BY <1>2, Zenon DEF FrameOpen
<1>5. PublishedWhole'
  BY <1>1, <1>2 DEF PublishedWhole, Frames
<1> QED BY <1>3, <1>4, <1>5 DEF StreamInv

\* send's callbacks keep the invariant.
LEMMA SendStreamInv ==
  ASSUME StreamInv, Send
  PROVE  StreamInv'
<1> USE DEF StreamInv, StreamTypes, FrameOpen, ClaimsPublished, PublishedWhole
<1>1. CASE OnStart
  BY <1>1 DEF OnStart
<1>2. CASE Claim
  BY <1>2 DEF Claim, Frames
<1>3. CASE OnFragment
  <2>1. claimed \in Frames /\ published = claimed - 1 /\ dec = "building"
    BY <1>3, OpenSlot DEF OnFragment
  <2> QED BY <1>3, <2>1 DEF OnFragment, Frames
<1>4. CASE Spin \/ SendReturns
  BY <1>4 DEF Spin, SendReturns, vars, cbVars, streamVars
<1>5. CASE OnIncomplete \/ OnComplete
  BY <1>5, FrameEnds
<1> QED BY <1>1, <1>2, <1>3, <1>4, <1>5 DEF Send

\* It holds at the start and every step keeps it.
LEMMA SpecStreamInv == Spec => []StreamInv
<1>1. Init => StreamInv
  <2> SUFFICES ASSUME Init PROVE StreamInv
    OBVIOUS
  <2>1. FrameOpen
    BY Zenon DEF Init, FrameOpen
  <2>2. StreamTypes /\ ClaimsPublished /\ PublishedWhole
    BY DEF Init, StreamTypes, ClaimsPublished, PublishedWhole, Frames
  <2> QED BY <2>1, <2>2 DEF StreamInv
<1>2. StreamInv /\ [Next]_vars => StreamInv'
  <2>1. StreamInv /\ Outside => StreamInv'
    BY DEF StreamInv, StreamTypes, FrameOpen, ClaimsPublished, PublishedWhole, Outside,
           streamVars
  <2> QED BY <2>1, StepsOutside, SendStreamInv
<1> QED BY <1>1, <1>2, PTL DEF Spec

\* Whatever is dropped, cut or aborted, a claimed slot is published before the next is
\* claimed.
THEOREM EveryClaimPublished == Spec => []ClaimsPublished
BY SpecStreamInv, PTL DEF StreamInv

\* The network thread never finds a part of a frame in a published slot.
THEOREM NoPartPublished == Spec => []PublishedWhole
BY SpecStreamInv, PTL DEF StreamInv

-----------------------------------------------------------------------------
(* The pool: activeTransfers counts exactly what libusb has or has still   *)
(* to call back.                                                           *)

\* The transfers submitted, or finished and not called back.  The one whose callback
\* runs was counted down first.
Counted == {t \in Transfers : transfers[t] \in Submitted \cup Done} \ {cbTransfer}

\* What the callback being run and those to come are about.
CallbackTypes ==
    /\ transfers \in [Transfers -> {"none", "idle", "freed"} \cup Submitted \cup Done]
    /\ cb = "none" => cbTransfer = 0
    /\ cb # "none" => cbTransfer \in Finished
    /\ ready \subseteq Finished \ {cbTransfer}

PoolInv == /\ CallbackTypes
           /\ activeTransfers = Cardinality(Counted)

\* There are finitely many transfers.
LEMMA CountedFinite == IsFiniteSet(Counted) /\ Cardinality(Counted) \in Nat
<1>1. IsFiniteSet(Transfers)
  BY FS_Interval DEF Transfers
<1>2. Counted \subseteq Transfers
  BY DEF Counted
<1> QED BY <1>1, <1>2, FS_Subset, FS_CardinalityType

\* A transfer is counted when it is submitted ...
LEMMA CountUp ==
  ASSUME PoolInv, CallbackTypes', NEW t, t \notin Counted, Counted' = Counted \cup {t},
         activeTransfers' = activeTransfers + 1
  PROVE  PoolInv'
<1>1. Cardinality(Counted \cup {t}) = Cardinality(Counted) + 1
  BY CountedFinite, FS_AddElement
<1> QED BY <1>1 DEF PoolInv

\* ... counted down when it is called back ...
LEMMA CountDown ==
  ASSUME PoolInv, CallbackTypes', NEW t, t \in Counted, Counted' = Counted \ {t},
         activeTransfers' = activeTransfers - 1
  PROVE  PoolInv'
<1>1. Cardinality(Counted \ {t}) = Cardinality(Counted) - 1
  BY CountedFinite, FS_RemoveElement
<1> QED BY <1>1 DEF PoolInv

\* ... and nothing else changes the count.
LEMMA CountSame ==
  ASSUME PoolInv, CallbackTypes', Counted' = Counted, activeTransfers' = activeTransfers
  PROVE  PoolInv'
BY DEF PoolInv

\* With the count at zero and no callback left to run, nothing is counted.
LEMMA Drained ==
  ASSUME PoolInv, cb = "none", activeTransfers <= 0
  PROVE  \A t \in Transfers : transfers[t] \notin Submitted \cup Done
<1>1. Cardinality(Counted) = 0
  BY CountedFinite DEF PoolInv
<1>2. Counted = {}
  BY <1>1, CountedFinite, FS_EmptySet
<1>3. cbTransfer \notin Transfers
  BY DEF PoolInv, CallbackTypes, Transfers
<1> QED BY <1>2, <1>3 DEF Counted

\* Each transfer is called back at most once between two submissions: the steps that
\* touch neither the pool nor the callback keep the invariant ...
LEMMA PoolUntouched ==
  ASSUME PoolInv, UNCHANGED <<transfers, activeTransfers, cbTransfer, ready>>,
         cb' = "none" <=> cb = "none"
  PROVE  PoolInv'
<1>1. Counted' = Counted
  BY DEF Counted
<1>2. CallbackTypes'
  BY DEF PoolInv, CallbackTypes, Finished
<1> QED BY <1>1, <1>2, CountSame

\* ... and so does a call that handles events.
LEMMA EventsPoolInv ==
  ASSUME PoolInv, Events, UNCHANGED <<transfers, activeTransfers, cb, cbTransfer>>
  PROVE  PoolInv'
<1>1. Counted' = Counted
  BY DEF Counted
<1>2. CallbackTypes'
  <2>1. cbTransfer = 0 /\ ready' \subseteq Finished
    BY DEF Events, PoolInv, CallbackTypes
  <2>2. 0 \notin Finished
    BY DEF Finished, Transfers
  <2> QED BY <2>1, <2>2 DEF PoolInv, CallbackTypes, Finished
<1> QED BY <1>1, <1>2, CountSame

\* Filling the pool counts one more, or none when the submission fails.
LEMMA FillPoolPoolInv ==
  ASSUME PoolInv, FillPool
  PROVE  PoolInv'
<1>1. PICK t \in Transfers :
        /\ \A u \in Transfers : u < t <=> transfers[u] # "none"
        /\ \/ /\ transfers' = [transfers EXCEPT ![t] = "in_flight"]
              /\ activeTransfers' = activeTransfers + 1
           \/ UNCHANGED xferVars
  BY DEF FillPool
<1>2. UNCHANGED <<cb, cbTransfer, ready>>
  BY DEF FillPool, cbVars
<1>3. CASE UNCHANGED xferVars
  BY <1>2, <1>3, PoolUntouched DEF xferVars
<1>4. CASE /\ transfers' = [transfers EXCEPT ![t] = "in_flight"]
           /\ activeTransfers' = activeTransfers + 1
  <2>1. transfers[t] = "none"
    BY <1>1 DEF Transfers
  <2>2. t # cbTransfer /\ t \notin Finished
    BY <2>1, <1>1 DEF PoolInv, CallbackTypes, Finished, Done, Transfers
  <2>3. t \notin Counted /\ Counted' = Counted \cup {t}
    BY <1>1, <1>2, <1>4, <2>1, <2>2 DEF Counted, PoolInv, CallbackTypes, Submitted, Done
  <2>4. CallbackTypes'
    BY <1>1, <1>2, <1>4, <2>2 DEF PoolInv, CallbackTypes, Finished, Submitted, Done
  <2> QED BY <1>4, <2>3, <2>4, CountUp
<1> QED BY <1>1, <1>3, <1>4

\* The end of a transfer changes its state, not the count.
LEMMA CompletePoolInv ==
  ASSUME PoolInv, NEW t \in Transfers, Complete(t)
  PROVE  PoolInv'
<1>1. /\ transfers[t] \in Submitted
      /\ \E s \in Done : transfers' = [transfers EXCEPT ![t] = s]
      /\ UNCHANGED <<cb, cbTransfer, ready, activeTransfers>>
  BY DEF Complete, cbVars, srcVars
<1>2. PICK s \in Done : transfers' = [transfers EXCEPT ![t] = s]
  BY <1>1
<1>3. Counted' = Counted
  BY <1>1, <1>2 DEF Counted, PoolInv, CallbackTypes
<1>4. CallbackTypes'
  BY <1>1, <1>2 DEF PoolInv, CallbackTypes, Finished, Submitted, Done
<1> QED BY <1>1, <1>3, <1>4, CountSame

\* A callback counts its transfer down before anything else.
LEMMA ReapPoolInv ==
  ASSUME PoolInv, Reap
  PROVE  PoolInv'
<1>1. PICK t \in ready :
        /\ cb = "none"
        /\ ready' = ready \ {t}
        /\ activeTransfers' = activeTransfers - 1
        /\ \/ /\ transfers' = [transfers EXCEPT ![t] = "idle"]
              /\ UNCHANGED cbVars
           \/ /\ cb' = "handler" /\ cbTransfer' = t
              /\ UNCHANGED transfers
  BY DEF Reap
<1>2. t \in Finished /\ t \in Transfers /\ cbTransfer = 0 /\ t # 0
  BY <1>1 DEF PoolInv, CallbackTypes, Finished, Transfers
<1>3. t \in Counted /\ Counted' = Counted \ {t}
  BY <1>1, <1>2 DEF Counted, PoolInv, CallbackTypes, Finished, Submitted, Done, cbVars,
                    Transfers
<1>4. CallbackTypes'
  BY <1>1, <1>2 DEF PoolInv, CallbackTypes, Finished, Submitted, Done, cbVars
<1> QED BY <1>1, <1>3, <1>4, CountDown

\* A callback ends with its transfer counted again, or given up.
LEMMA CallbackEndPoolInv ==
  ASSUME PoolInv, HaltStream \/ Resubmit
  PROVE  PoolInv'
<1>1. /\ cbTransfer \in Transfers /\ cbTransfer # 0
      /\ transfers[cbTransfer] \in Done
      /\ cb' = "none" /\ cbTransfer' = 0 /\ ready' = ready
  BY DEF HaltStream, Resubmit, PoolInv, CallbackTypes, Finished, Transfers, srcVars
<1>2. CASE /\ transfers' = [transfers EXCEPT ![cbTransfer] = "idle"]
           /\ UNCHANGED activeTransfers
  <2>1. Counted' = Counted
    BY <1>1, <1>2 DEF Counted, PoolInv, CallbackTypes, Submitted, Done, Transfers
  <2>2. CallbackTypes'
    BY <1>1, <1>2 DEF PoolInv, CallbackTypes, Finished, Submitted, Done, Transfers
  <2> QED BY <1>2, <2>1, <2>2, CountSame
<1>3. CASE /\ transfers' = [transfers EXCEPT ![cbTransfer] = "in_flight"]
           /\ activeTransfers' = activeTransfers + 1
  <2>1. cbTransfer \notin Counted /\ Counted' = Counted \cup {cbTransfer}
    BY <1>1, <1>3 DEF Counted, PoolInv, CallbackTypes, Submitted, Done, Transfers
  <2>2. CallbackTypes'
    BY <1>1, <1>3 DEF PoolInv, CallbackTypes, Finished, Submitted, Done, Transfers
  <2> QED BY <1>3, <2>1, <2>2, CountUp
<1> QED BY <1>2, <1>3 DEF HaltStream, Resubmit

\* Cancelling changes the states of the pool and not the count; freeing it finds the
\* count at zero.
LEMMA EndOfPoolInv ==
  ASSUME PoolInv, Cancel \/ FreePool
  PROVE  PoolInv'
<1>1. /\ cb = "none" /\ ready = {}
      /\ UNCHANGED <<cb, cbTransfer, ready, activeTransfers>>
  BY DEF Cancel, FreePool, cbVars
<1>2. CASE Cancel
  <2>1. Counted' = Counted
    BY <1>1, <1>2 DEF Cancel, Counted, PoolInv, CallbackTypes, Submitted, Done
  <2>2. CallbackTypes'
    BY <1>1, <1>2 DEF Cancel, PoolInv, CallbackTypes, Submitted, Done, Finished
  <2> QED BY <1>1, <2>1, <2>2, CountSame
<1>3. CASE FreePool
  <2>1. \A t \in Transfers : transfers[t] \notin Submitted \cup Done
    BY <1>1, <1>3, Drained DEF FreePool
  <2>2. Counted = {} /\ Counted' = {}
    BY <1>1, <1>3, <2>1 DEF FreePool, Counted, Submitted, Done
  <2>3. CallbackTypes'
    BY <1>1, <1>3 DEF FreePool, PoolInv, CallbackTypes, Finished
  <2> QED BY <1>1, <2>2, <2>3, CountSame
<1> QED BY <1>2, <1>3

\* Every step keeps the count exact.
LEMMA NextPoolInv == PoolInv /\ [Next]_vars => PoolInv'
<1> SUFFICES ASSUME PoolInv, [Next]_vars PROVE PoolInv'
  OBVIOUS
<1>1. CASE Main
  BY <1>1, PoolUntouched DEF Main, StartSource, ServerStarted, StopSource, SourceJoined,
                             Exit, cbVars, xferVars, srcVars
<1>2. CASE Source
  <2>1. CASE OpenCamera \/ LeaveLoop
    BY <2>1, PoolUntouched DEF OpenCamera, LeaveLoop, cbVars, xferVars
  <2>2. CASE HandleEvents \/ Drain
    BY <2>2, EventsPoolInv DEF HandleEvents, Drain, cbVars, xferVars
  <2>3. CASE Flush \/ Halt
    <3>1. UNCHANGED <<transfers, activeTransfers, cb, cbTransfer>>
      BY <2>3 DEF Flush, Halt, cbVars, xferVars
    <3>2. Events \/ UNCHANGED ready
      BY <2>3 DEF Flush, Halt
    <3> QED BY <3>1, <3>2, EventsPoolInv, PoolUntouched
  <2>4. CASE Callback
    <3>1. CASE Handler
      BY <3>1, PoolUntouched DEF Handler, xferVars, srcVars
    <3>2. CASE Send
      <4>1. UNCHANGED <<transfers, activeTransfers, cbTransfer, ready>>
        BY <3>2 DEF Send, OnIncomplete, OnStart, Claim, Spin, OnFragment, OnComplete,
                    SendReturns, streamUnchanged, vars, xferVars, srcVars, cbVars
      <4>2. cb # "none" /\ cb' # "none"
        BY <3>2 DEF Send, OnIncomplete, OnStart, Claim, Spin, OnFragment, OnComplete,
                    SendReturns, vars, cbVars
      <4> QED BY <4>1, <4>2, PoolUntouched
    <3> QED BY <2>4, <3>1, <3>2, ReapPoolInv, CallbackEndPoolInv DEF Callback
  <2> QED BY <1>2, <2>1, <2>2, <2>3, <2>4, FillPoolPoolInv, EndOfPoolInv DEF Source
<1>3. CASE Network
  BY <1>3, PoolUntouched DEF Network, Bind, Tick, Poll, ReadBatch, cbVars, xferVars,
                             srcVars
<1>4. CASE Unplug \/ Signal
  BY <1>4, PoolUntouched DEF Unplug, Signal, cbVars, xferVars, srcVars
<1>5. CASE \E t \in Transfers : Complete(t)
  BY <1>5, CompletePoolInv
<1>6. CASE Over \/ UNCHANGED vars
  BY <1>6, PoolUntouched DEF Over, vars, cbVars, xferVars, srcVars
<1> QED BY <1>1, <1>2, <1>3, <1>4, <1>5, <1>6 DEF Next

\* The count is exact from the start.
LEMMA SpecPoolInv == Spec => []PoolInv
<1>1. Init => PoolInv
  <2> SUFFICES ASSUME Init PROVE PoolInv
    OBVIOUS
  <2>1. Counted = {}
    BY DEF Init, Counted, Submitted, Done
  <2>2. CallbackTypes
    BY DEF Init, CallbackTypes
  <2> QED BY <2>1, <2>2, FS_EmptySet DEF Init, PoolInv
<1> QED BY <1>1, NextPoolInv, PTL DEF Spec

\* Only FreePool frees.
LEMMA OthersFreeNothing ==
  ASSUME PoolInv, [Next]_vars, NEW t \in Transfers, transfers'[t] = "freed",
         transfers[t] # "freed"
  PROVE  FreePool
<1>1. transfers' # transfers
  OBVIOUS
<1>2. ~ (Main \/ Network \/ Unplug \/ Signal \/ Over \/ UNCHANGED vars)
  BY <1>1 DEF Main, StartSource, ServerStarted, StopSource, SourceJoined, Exit, Network,
              Bind, Tick, Poll, ReadBatch, Unplug, Signal, Over, vars, xferVars
<1>3. ~ \E u \in Transfers : Complete(u)
  BY DEF Complete, PoolInv, CallbackTypes, Done
<1>4. ~ (OpenCamera \/ HandleEvents \/ LeaveLoop \/ Flush \/ Halt \/ Drain \/ Handler)
  BY <1>1 DEF OpenCamera, HandleEvents, LeaveLoop, Flush, Halt, Drain, Handler, xferVars
<1>5. ~ Send
  BY <1>1 DEF Send, OnIncomplete, OnStart, Claim, Spin, OnFragment, OnComplete,
              SendReturns, streamUnchanged, vars, xferVars
<1>6. ~ (FillPool \/ Cancel \/ Reap \/ HaltStream \/ Resubmit)
  BY <1>1 DEF FillPool, Cancel, Reap, HaltStream, Resubmit, PoolInv, CallbackTypes,
              xferVars
<1> QED BY <1>2, <1>3, <1>4, <1>5, <1>6 DEF Next, Source, Callback

\* Whatever fails and in whatever order the transfers end, the pool is freed only when
\* libusb has nothing of it and no callback is to come.
THEOREM NothingFreedInUse == Spec => FreedOnlyWhenIdle
<1>1. PoolInv /\ [Next]_vars =>
        [\A t \in Transfers :
            transfers'[t] = "freed" => transfers[t] \in {"idle", "freed"}]_vars
  <2> SUFFICES ASSUME PoolInv, [Next]_vars, NEW t \in Transfers,
                      transfers'[t] = "freed", transfers[t] # "freed"
               PROVE  transfers[t] = "idle"
    OBVIOUS
  <2>1. FreePool
    BY OthersFreeNothing
  <2>2. transfers[t] \notin Submitted \cup Done
    BY <2>1, Drained DEF FreePool
  <2>3. transfers[t] # "none"
    BY <2>1 DEF FreePool
  <2> QED BY <2>2, <2>3 DEF PoolInv, CallbackTypes
<1> QED BY <1>1, SpecPoolInv, PTL DEF Spec, FreedOnlyWhenIdle
-----------------------------------------------------------------------------
(* Types.                                                                  *)

\* Where the threads are, and the flags.
PlaceTypes ==
    /\ running \in BOOLEAN /\ plugged \in BOOLEAN
    /\ main \in {"start", "bind", "operational", "join_source", "join_network",
                "exited", "terminated"}
    /\ src \in {"idle", "open", "pool", "events", "flush", "halt", "cancel", "drain",
               "exited"}
    /\ flushes \in 0 .. FlushCalls
    /\ cb \in {"none", "handler", "halt_stream", "send", "claim", "resubmit"}
    /\ dec \in {"fresh", "building", "dropped", "ended"}
    /\ net \in {"idle", "bind", "tick", "poll", "read", "ended"}

\* The network thread is behind what is published.
ReadInv ==
    /\ {available, consumed} \subseteq -1 .. published
    /\ nextRead \in 0 .. published + 1

\* Each step leaves every thread at a place it knows.
LEMMA PlaceStep == PlaceTypes /\ [Next]_vars => PlaceTypes'
<1> SUFFICES ASSUME PlaceTypes, [Next]_vars PROVE PlaceTypes'
  OBVIOUS
<1> USE DEF PlaceTypes, appVars, srcVars, cbVars, xferVars, streamVars, netVars
<1>1. CASE Main
  BY <1>1 DEF Main, StartSource, ServerStarted, StopSource, SourceJoined, Exit
<1>2. CASE Source
  <2>1. CASE OpenCamera \/ FillPool
    BY <2>1 DEF OpenCamera, FillPool
  <2>2. CASE HandleEvents \/ LeaveLoop \/ Flush
    BY <2>2 DEF HandleEvents, LeaveLoop, Flush
  <2>3. CASE Halt \/ Cancel \/ Drain \/ FreePool
    BY <2>3 DEF Halt, Cancel, Drain, FreePool
  <2>4. CASE Callback
    <3>1. CASE Reap
      BY <3>1, ZenonT(60) DEF Reap
    <3>2. CASE Handler \/ HaltStream \/ Resubmit
      BY <3>2 DEF Handler, HaltStream, Resubmit
    <3>3. CASE Send
      BY <3>3 DEF Send, OnIncomplete, OnStart, Claim, Spin, OnFragment, OnComplete,
                  SendReturns, streamUnchanged, vars
    <3> QED BY <2>4, <3>1, <3>2, <3>3 DEF Callback
  <2> QED BY <1>2, <2>1, <2>2, <2>3, <2>4 DEF Source
<1>3. CASE Network
  BY <1>3 DEF Network, Bind, Tick, Poll, ReadBatch
<1>4. CASE Unplug \/ Signal
  BY <1>4 DEF Unplug, Signal
<1>5. CASE \E t \in Transfers : Complete(t)
  BY <1>5 DEF Complete
<1>6. CASE Over \/ UNCHANGED vars
  BY <1>6 DEF Over, vars
<1> QED BY <1>1, <1>2, <1>3, <1>4, <1>5, <1>6 DEF Next

\* What has been published stays so ...
LEMMA PublishedGrows ==
  ASSUME StreamInv, [Next]_vars
  PROVE  /\ published' \in Int /\ published \in Int
         /\ -1 <= published /\ published <= published'
<1>1. /\ published \in -1 .. MaxFrames - 1 /\ claimed \in -1 .. MaxFrames - 1
      /\ claimed - published = IF frameActive THEN 1 ELSE 0
  BY DEF StreamInv, StreamTypes, ClaimsPublished
<1>2. CASE Outside
  BY <1>1, <1>2 DEF Outside, streamVars
<1>3. CASE Send
  <2>1. published' \in {published, claimed}
    BY <1>3 DEF Send, OnIncomplete, OnStart, Claim, Spin, OnFragment, OnComplete,
                SendReturns, streamVars, vars
  <2> QED BY <1>1, <2>1
<1> QED BY <1>2, <1>3, StepsOutside

\* ... and the network thread reads no more than that.
LEMMA ReadStep == StreamInv /\ ReadInv /\ [Next]_vars => ReadInv'
<1> SUFFICES ASSUME StreamInv, ReadInv, [Next]_vars PROVE ReadInv'
  OBVIOUS
<1>1. /\ published' \in Int /\ published \in Int
      /\ -1 <= published /\ published <= published'
  BY PublishedGrows
<1>2. CASE UNCHANGED <<available, nextRead, consumed>>
  <2>1. available' \in -1 .. published' /\ consumed' \in -1 .. published'
    BY <1>1, <1>2 DEF ReadInv
  <2>2. nextRead' \in 0 .. published' + 1
    <3>1. nextRead \in 0 .. published + 1 /\ nextRead' = nextRead
      BY <1>2 DEF ReadInv
    <3>2. ASSUME NEW p \in Int, NEW q \in Int, NEW n \in 0 .. p + 1, p <= q
          PROVE  n \in 0 .. q + 1
      BY <3>2
    <3> QED BY <1>1, <3>1, <3>2, Zenon
  <2> QED BY <2>1, <2>2 DEF ReadInv
<1>3. CASE Poll
  <2>1. available' = published /\ published' = published /\ UNCHANGED <<nextRead, consumed>>
    BY <1>3 DEF Poll, streamVars
  <2> QED BY <1>1, <2>1 DEF ReadInv
<1>4. CASE ReadBatch
  BY <1>1, <1>4 DEF ReadBatch, ReadInv
<1>5. Poll \/ ReadBatch \/ UNCHANGED <<available, nextRead, consumed>>
  <2>1. CASE Main
    BY <2>1 DEF Main, StartSource, ServerStarted, StopSource, SourceJoined, Exit, netVars
  <2>2. CASE OpenCamera \/ FillPool \/ HandleEvents \/ LeaveLoop \/ Flush
    BY <2>2 DEF OpenCamera, FillPool, HandleEvents, LeaveLoop, Flush, netVars
  <2>3. CASE Halt \/ Cancel \/ Drain \/ FreePool
    BY <2>3 DEF Halt, Cancel, Drain, FreePool, netVars
  <2>4. CASE Reap \/ Handler \/ HaltStream \/ Resubmit
    BY <2>4 DEF Reap, Handler, HaltStream, Resubmit, netVars
  <2>5. CASE Send
    BY <2>5 DEF Send, OnIncomplete, OnStart, Claim, Spin, OnFragment, OnComplete,
                SendReturns, streamUnchanged, netVars, vars
  <2>6. CASE Bind \/ Tick \/ Unplug \/ Signal
    BY <2>6 DEF Bind, Tick, Unplug, Signal, netVars
  <2>7. CASE \E t \in Transfers : Complete(t)
    BY <2>7 DEF Complete, netVars
  <2>8. CASE Over \/ UNCHANGED vars
    BY <2>8 DEF Over, vars, netVars
  <2> QED BY <2>1, <2>2, <2>3, <2>4, <2>5, <2>6, <2>7, <2>8
          DEF Next, Source, Callback, Network
<1> QED BY <1>2, <1>3, <1>4, <1>5

\* Every variable has its type; the transfers that are counted are no more than there
\* are.
THEOREM ServerTypeCorrect == Spec => []TypeOK
<1>1. Init => PlaceTypes /\ ReadInv
  BY DEF Init, PlaceTypes, ReadInv
<1>2. StreamInv /\ PoolInv /\ PlaceTypes /\ ReadInv => TypeOK
  <2> SUFFICES ASSUME StreamInv, PoolInv, PlaceTypes, ReadInv PROVE TypeOK
    OBVIOUS
  <2>1. frameActive \in BOOLEAN
    BY DEF StreamInv, FrameOpen
  <2>2. activeTransfers \in 0 .. TransferCount
    <3>1. IsFiniteSet(Transfers) /\ Cardinality(Transfers) = TransferCount
      BY FS_Interval DEF Transfers
    <3>2. Counted \subseteq Transfers
      BY DEF Counted
    <3>3. Cardinality(Counted) <= TransferCount
      BY <3>1, <3>2, FS_Subset
    <3> QED BY <3>3, CountedFinite DEF PoolInv
  <2>3. /\ claimed \in -1 .. MaxFrames - 1
        /\ {published, available, consumed} \subseteq -1 .. claimed
        /\ nextRead \in 0 .. claimed + 1
    BY DEF StreamInv, StreamTypes, ClaimsPublished, ReadInv
  <2>4. /\ transfers \in [Transfers -> {"none", "idle", "freed"} \cup Submitted \cup Done]
        /\ ready \subseteq Finished
        /\ cbTransfer \in IF cb = "none" THEN {0} ELSE Transfers
    BY DEF PoolInv, CallbackTypes, Finished
  <2>5. content \in [Frames -> {"empty", "partial", "whole"}]
    BY DEF StreamInv, StreamTypes
  <2> QED BY <2>1, <2>2, <2>3, <2>4, <2>5 DEF TypeOK, PlaceTypes
<1>3. Spec => [](PlaceTypes /\ ReadInv)
  BY <1>1, PlaceStep, ReadStep, SpecStreamInv, PTL DEF Spec
<1> QED BY <1>2, <1>3, SpecStreamInv, SpecPoolInv, PTL
-----------------------------------------------------------------------------
(* The ring's rules, and what the program leaves behind.                   *)

\* The slots from nextRead up to what is claimed fit in the ring: the worker clears none
\* that the network thread has been offered and has not given back, so that a slot may
\* stand here for its sequence.
RingRespected ==
    /\ consumed = nextRead - 1
    /\ claimed - consumed <= Capacity
    /\ net = "read" => nextRead <= available /\ available <= published

\* The steps that touch the ring's positions.
LEMMA RingStep == StreamInv /\ ReadInv /\ RingRespected /\ [Next]_vars => RingRespected'
<1> SUFFICES ASSUME StreamInv, ReadInv, RingRespected, [Next]_vars PROVE RingRespected'
  OBVIOUS
<1>1. /\ published \in Int /\ published' \in Int /\ published <= published'
      /\ claimed \in Int /\ {available, consumed, nextRead} \subseteq Int
  BY PublishedGrows DEF StreamInv, StreamTypes, ReadInv
<1>2. \/ UNCHANGED <<available, nextRead, consumed>> /\ (net' = "read" => net = "read")
      \/ Poll \/ ReadBatch
  <2>1. CASE Main
    BY <2>1 DEF Main, StartSource, ServerStarted, StopSource, SourceJoined, Exit, netVars
  <2>2. CASE OpenCamera \/ FillPool \/ HandleEvents \/ LeaveLoop \/ Flush
    BY <2>2 DEF OpenCamera, FillPool, HandleEvents, LeaveLoop, Flush, netVars
  <2>3. CASE Halt \/ Cancel \/ Drain \/ FreePool
    BY <2>3 DEF Halt, Cancel, Drain, FreePool, netVars
  <2>4. CASE Reap \/ Handler \/ HaltStream \/ Resubmit
    BY <2>4 DEF Reap, Handler, HaltStream, Resubmit, netVars
  <2>5. CASE Send
    BY <2>5 DEF Send, OnIncomplete, OnStart, Claim, Spin, OnFragment, OnComplete,
                SendReturns, streamUnchanged, netVars, vars
  <2>6. CASE Bind \/ Tick \/ Unplug \/ Signal
    BY <2>6 DEF Bind, Tick, Unplug, Signal, netVars
  <2>7. CASE \E t \in Transfers : Complete(t)
    BY <2>7 DEF Complete, netVars
  <2>8. CASE Over \/ UNCHANGED vars
    BY <2>8 DEF Over, vars, netVars
  <2> QED BY <2>1, <2>2, <2>3, <2>4, <2>5, <2>6, <2>7, <2>8
          DEF Next, Source, Callback, Network
<1>3. claimed' = claimed \/ (claimed' = claimed + 1 /\ ~Full /\ UNCHANGED netVars)
  <2>1. CASE Outside
    BY <2>1 DEF Outside, streamVars
  <2>2. CASE Send
    BY <2>2 DEF Send, OnIncomplete, OnStart, Claim, Spin, OnFragment, OnComplete,
                SendReturns, streamUnchanged, streamVars, vars
  <2> QED BY <2>1, <2>2, StepsOutside
<1>4. CASE UNCHANGED <<available, nextRead, consumed>> /\ (net' = "read" => net = "read")
  BY <1>1, <1>3, <1>4 DEF RingRespected, Full
<1>5. CASE Poll
  <2>1. /\ available' = published /\ net' = IF published < nextRead THEN "tick" ELSE "read"
        /\ UNCHANGED <<nextRead, consumed, claimed, published>>
    BY <1>5 DEF Poll, streamVars
  <2> QED BY <1>1, <2>1 DEF RingRespected
<1>6. CASE ReadBatch
  <2>1. /\ net = "read" /\ net' = "tick" /\ nextRead' = available + 1 /\ consumed' = available
        /\ UNCHANGED claimed
    BY <1>6 DEF ReadBatch, streamVars
  <2> QED BY <1>1, <2>1 DEF RingRespected
<1> QED BY <1>2, <1>4, <1>5, <1>6

\* Neither thread is given more of the ring than it has, whatever else happens.
THEOREM RingNeverOverrun == Spec => []RingRespected
<1>1. Init => ReadInv /\ RingRespected
  BY DEF Init, ReadInv, RingRespected
<1> QED BY <1>1, ReadStep, RingStep, SpecStreamInv, PTL DEF Spec

\* A worker thread that has ended left libusb no transfer, and no callback to run on memory
\* that is gone; main() ends by itself only when both threads have ended, so that
\* the objects it destroys are used by nobody.
LeavesNothing ==
    /\ src = "exited" =>
          /\ cb = "none" /\ ready = {}
          /\ \A t \in Transfers : transfers[t] \in {"none", "freed"}
    /\ main = "join_network" => src = "exited"
    /\ main = "exited" => src = "exited" /\ net = "ended"

LEMMA LeaveStep == PoolInv /\ LeavesNothing /\ [Next]_vars => LeavesNothing'
<1> SUFFICES ASSUME PoolInv, LeavesNothing, [Next]_vars PROVE LeavesNothing'
  OBVIOUS
<1> USE DEF LeavesNothing, appVars, srcVars, cbVars, xferVars, netVars
<1>1. CASE Alive /\ Main
  BY <1>1 DEF Alive, Main, StartSource, ServerStarted, StopSource, SourceJoined, Exit
<1>2. CASE Alive /\ Source
  <2>1. CASE OpenCamera \/ FillPool
    BY <1>2, <2>1 DEF Alive, OpenCamera, FillPool
  <2>2. CASE HandleEvents \/ LeaveLoop \/ Flush \/ Halt \/ Cancel \/ Drain
    BY <1>2, <2>2 DEF Alive, HandleEvents, LeaveLoop, Flush, Halt, Cancel, Drain
  <2>3. CASE FreePool
    <3>1. \A t \in Transfers : transfers[t] \notin Submitted \cup Done
      BY <2>3, Drained DEF FreePool
    <3> QED BY <1>2, <2>3, <3>1 DEF Alive, FreePool, PoolInv, CallbackTypes
  <2>4. CASE Callback
    <3>1. src # "exited"
      BY <2>4 DEF Callback, Reap, Handler, HaltStream, Resubmit, Send, OnIncomplete, OnStart,
                  Claim, Spin, OnFragment, OnComplete, SendReturns
    <3>2. UNCHANGED <<src, main>>
      BY <2>4 DEF Callback, Reap, Handler, HaltStream, Resubmit, Send, OnIncomplete, OnStart,
                  Claim, Spin, OnFragment, OnComplete, SendReturns, streamUnchanged, vars
    <3> QED BY <3>1, <3>2
  <2> QED BY <1>2, <2>1, <2>2, <2>3, <2>4 DEF Source
<1>3. CASE Alive /\ Network
  BY <1>3 DEF Alive, Network, Bind, Tick, Poll, ReadBatch
<1>4. CASE Unplug \/ Signal
  BY <1>4 DEF Unplug, Signal
<1>5. CASE \E t \in Transfers : Complete(t)
  <2>1. src # "exited"
    BY <1>5 DEF Complete, Submitted
  <2> QED BY <1>5, <2>1 DEF Complete
<1>6. CASE Over \/ UNCHANGED vars
  BY <1>6 DEF Over, vars
<1> QED BY <1>1, <1>2, <1>3, <1>4, <1>5, <1>6 DEF Next

\* Nothing of the program runs, and libusb has nothing of it, when main() has returned.
THEOREM EndsClean == Spec => []LeavesNothing
<1>1. Init => LeavesNothing
  BY DEF Init, LeavesNothing
<1> QED BY <1>1, LeaveStep, SpecPoolInv, PTL DEF Spec
=============================================================================
