---------------------------- MODULE LibusbServer ----------------------------
(***************************************************************************)
(* src/apps/libusb_server.cpp and the three components it runs: the worker *)
(* thread of LibusbVideoSource with its transfers, UseeplusVideoStream,    *)
(* which runs inside the transfers' callback, and the timer of MjpegServer *)
(* at the other end of the ring.  What is checked is how they start and    *)
(* stop together.                                                          *)
(*                                                                         *)
(* The decoder is what UpDecoder proves of it: callbacks in the order of   *)
(* EventGrammar.  The ring is what Disruptor proves of it: a channel that  *)
(* lets claim() through when fewer than Capacity frames are outstanding.   *)
(***************************************************************************)
EXTENDS Integers, FiniteSets

CONSTANTS
    TransferCount,     \* BULK_TRANSFER_COUNT
    FlushCalls,        \* the calls of libusb_handle_events after the loop
    Capacity,          \* VIDEO_FRAME_BUFFER_CAPACITY
    MaxFrames,         \* bound: the camera starts at most so many frames
    OpenMayFail,       \* UsbCamera's constructor may throw
    SubmitMayFail,     \* libusb_submit_transfer may fail with the camera present
    EventsMayFail,     \* libusb_handle_events_timeout may return an error
    BindMayFail        \* the port may be taken

ASSUME CountsAssumption ==
    /\ {TransferCount, Capacity} \subseteq Nat \ {0}
    /\ {FlushCalls, MaxFrames} \subseteq Nat
ASSUME FailuresAssumption ==
    {OpenMayFail, SubmitMayFail, EventsMayFail, BindMayFail} \subseteq BOOLEAN

VARIABLES
    running,           \* the global flag
    main,              \* where main() is
    plugged,           \* the camera is on the bus
    src,               \* where the worker thread's loop() is
    transfers,         \* each transfer's state; the pool is what was submitted
    activeTransfers,
    ready,             \* what this call of libusb_handle_events still calls back
    flushes,           \* calls of libusb_handle_events made after the loop
    cb, cbTransfer,    \* the callback being run, and for which transfer
    dec,               \* the decoder: fresh, building a frame, past its end, or
                       \* having dropped one for the one that starts now
    frameActive,
    claimed,           \* currentClaimSequence_, the last sequence claimed
    published,         \* the ring's publishedSequence
    content,           \* what the slot of each sequence holds
    net,               \* where the network thread is
    available, nextRead, consumed

appVars == <<running, main>>
srcVars == <<src, ready, flushes>>
cbVars == <<cb, cbTransfer>>
xferVars == <<transfers, activeTransfers>>
streamVars == <<dec, frameActive, claimed, published, content>>
netVars == <<net, available, nextRead, consumed>>
vars == <<appVars, plugged, srcVars, cbVars, xferVars, streamVars, netVars>>

Transfers == 1 .. TransferCount
Frames == 0 .. MaxFrames - 1

\* How a transfer ends, as libusb reports it.
Done == {"completed", "error", "no_device", "cancelled"}
Submitted == {"in_flight", "cancelling"}

Init ==
    /\ running = TRUE /\ main = "start"
    /\ plugged = TRUE
    /\ src = "idle" /\ ready = {} /\ flushes = 0
    /\ transfers = [t \in Transfers |-> "none"] /\ activeTransfers = 0
    /\ cb = "none" /\ cbTransfer = 0
    /\ dec = "fresh" /\ frameActive = FALSE
    /\ claimed = -1 /\ published = -1
    /\ content = [s \in Frames |-> "empty"]
    /\ net = "idle" /\ available = -1 /\ nextRead = 0 /\ consumed = -1

\* The process is there: main has not returned and nothing has called terminate.
Alive == main \notin {"exited", "terminated"}

-----------------------------------------------------------------------------
(* main().                                                                 *)

StartSource ==
    /\ main = "start"
    /\ main' = "bind"
    /\ src' = "open"
    /\ net' = "bind"
    /\ UNCHANGED <<running, plugged, ready, flushes, cbVars, xferVars,
                   streamVars, available, nextRead, consumed>>

\* loopFuture.wait(): returns with a value and with an exception alike.
ServerStarted ==
    /\ main = "bind"
    /\ net # "bind"
    /\ main' = "operational"
    /\ UNCHANGED <<running, plugged, srcVars, cbVars, xferVars, streamVars, netVars>>

StopSource ==
    /\ main = "operational"
    /\ ~running
    /\ main' = "join_source"
    /\ UNCHANGED <<running, plugged, srcVars, cbVars, xferVars, streamVars, netVars>>

SourceJoined ==
    /\ main = "join_source"
    /\ src = "exited"
    /\ main' = "join_network"
    /\ UNCHANGED <<running, plugged, srcVars, cbVars, xferVars, streamVars, netVars>>

\* ~MjpegServer joins the network thread; nothing after it waits.
Exit ==
    /\ main = "join_network"
    /\ net = "ended"
    /\ main' = "exited"
    /\ UNCHANGED <<running, plugged, srcVars, cbVars, xferVars, streamVars, netVars>>

Main == StartSource \/ ServerStarted \/ StopSource \/ SourceJoined \/ Exit

-----------------------------------------------------------------------------
(* The worker thread outside of callbacks.                                 *)

\* Each of the requests UsbCamera's constructor makes may fail.
CameraThrows == OpenMayFail \/ ~plugged

\* The constructor is called outside of the try block.
OpenCamera ==
    /\ src = "open"
    /\ \/ src' = "pool" /\ main' = main
       \/ /\ CameraThrows
          /\ main' = "terminated" /\ src' = src
    /\ UNCHANGED <<running, plugged, ready, flushes, cbVars, xferVars,
                   streamVars, netVars>>

\* The camera refuses a transfer when it has gone.
SubmitFails == SubmitMayFail \/ ~plugged

FillPool ==
    /\ src = "pool"
    /\ \E t \in Transfers :
          /\ \A u \in Transfers : u < t <=> transfers[u] # "none"
          /\ \/ /\ transfers' = [transfers EXCEPT ![t] = "in_flight"]
                /\ activeTransfers' = activeTransfers + 1
                /\ src' = IF t = TransferCount THEN "events" ELSE "pool"
                /\ UNCHANGED running
             \/ /\ SubmitFails
                /\ running' = FALSE
                /\ src' = "halt"
                /\ UNCHANGED xferVars
    /\ UNCHANGED <<main, plugged, ready, flushes, cbVars, streamVars, netVars>>

Finished == {t \in Transfers : transfers[t] \in Done}

\* A call of libusb_handle_events_timeout finds some of what has finished.
Events ==
    /\ cb = "none" /\ ready = {}
    /\ Finished # {}
    /\ ready' \in SUBSET Finished \ {{}}

HandleEvents ==
    /\ src = "events" /\ running
    /\ Events
    /\ UNCHANGED <<appVars, plugged, src, flushes, cbVars, xferVars,
                   streamVars, netVars>>

LeaveLoop ==
    /\ src = "events"
    /\ cb = "none" /\ ready = {}
    /\ ~running \/ EventsMayFail
    /\ src' = "flush"
    /\ UNCHANGED <<appVars, plugged, ready, flushes, cbVars, xferVars,
                   streamVars, netVars>>

Flush ==
    /\ src = "flush"
    /\ \/ /\ flushes < FlushCalls
          /\ Events \/ (cb = "none" /\ ready = {} /\ UNCHANGED ready)
          /\ flushes' = flushes + 1
          /\ UNCHANGED src
       \/ /\ flushes = FlushCalls
          /\ cb = "none" /\ ready = {}
          /\ src' = "halt"
          /\ UNCHANGED <<ready, flushes>>
    /\ UNCHANGED <<appVars, plugged, cbVars, xferVars, streamVars, netVars>>

\* haltHardware() is a synchronous transfer: libusb handles events meanwhile.  Its
\* failure is ignored, so nothing is assumed of the camera afterwards.
Halt ==
    /\ src = "halt"
    /\ Events \/ (cb = "none" /\ ready = {} /\ UNCHANGED ready)
    /\ src' = "cancel"
    /\ UNCHANGED <<appVars, plugged, flushes, cbVars, xferVars, streamVars, netVars>>

Cancel ==
    /\ src = "cancel"
    /\ cb = "none" /\ ready = {}
    /\ transfers' = [t \in Transfers |-> IF transfers[t] = "in_flight"
                                         THEN "cancelling" ELSE transfers[t]]
    /\ src' = "drain"
    /\ UNCHANGED <<appVars, plugged, ready, flushes, cbVars, activeTransfers,
                   streamVars, netVars>>

Drain ==
    /\ src = "drain"
    /\ activeTransfers > 0
    /\ Events
    /\ UNCHANGED <<appVars, plugged, src, flushes, cbVars, xferVars,
                   streamVars, netVars>>

\* The pool is freed and loop() returns.
FreePool ==
    /\ src = "drain"
    /\ cb = "none" /\ ready = {}
    /\ activeTransfers <= 0
    /\ transfers' = [t \in Transfers |-> IF transfers[t] = "none"
                                         THEN "none" ELSE "freed"]
    /\ src' = "exited"
    /\ UNCHANGED <<appVars, plugged, ready, flushes, cbVars, activeTransfers,
                   streamVars, netVars>>

-----------------------------------------------------------------------------
(* transferCallback, run by the worker thread inside a call above.         *)

\* Faulty: a cancelled transfer is not counted down.
Reap_CancelledUncounted ==
    /\ cb = "none"
    /\ \E t \in ready :
          /\ ready' = ready \ {t}
          /\ IF transfers[t] = "cancelled"
               THEN /\ transfers' = [transfers EXCEPT ![t] = "idle"]
                    /\ UNCHANGED <<running, cbVars, activeTransfers>>
               ELSE /\ cb' = "handler" /\ cbTransfer' = t
                    /\ activeTransfers' = activeTransfers - 1
                    /\ UNCHANGED <<running, transfers>>
    /\ UNCHANGED <<main, plugged, src, flushes, streamVars, netVars>>

Reap ==
    /\ cb = "none"
    /\ \E t \in ready :
          /\ ready' = ready \ {t}
          /\ activeTransfers' = activeTransfers - 1
          /\ IF transfers[t] = "cancelled"
               THEN /\ transfers' = [transfers EXCEPT ![t] = "idle"]
                    /\ running' = (running /\ activeTransfers' # 0)
                    /\ UNCHANGED cbVars
               ELSE /\ cb' = "handler" /\ cbTransfer' = t
                    /\ UNCHANGED <<running, transfers>>
    /\ UNCHANGED <<main, plugged, src, flushes, streamVars, netVars>>

\* The lambda of main(): ends the stream when the program ends or the camera is
\* gone, decodes what was completed, and passes over any other failure.
Handler ==
    /\ cb = "handler"
    /\ cb' = IF ~running \/ transfers[cbTransfer] = "no_device" THEN "halt_stream"
             ELSE IF transfers[cbTransfer] = "completed" THEN "send"
             ELSE "resubmit"
    /\ UNCHANGED <<appVars, plugged, srcVars, cbTransfer, xferVars, streamVars, netVars>>

HaltStream ==
    /\ cb = "halt_stream"
    /\ running' = FALSE
    /\ transfers' = [transfers EXCEPT ![cbTransfer] = "idle"]
    /\ cb' = "none" /\ cbTransfer' = 0
    /\ UNCHANGED <<main, plugged, srcVars, activeTransfers, streamVars, netVars>>

\* Faulty: the transfer is submitted and never counted.
Resubmit_Uncounted ==
    /\ cb = "resubmit"
    /\ cb' = "none" /\ cbTransfer' = 0
    /\ transfers' = [transfers EXCEPT ![cbTransfer] = IF running THEN "in_flight"
                                                      ELSE "idle"]
    /\ UNCHANGED <<appVars, plugged, srcVars, activeTransfers, streamVars, netVars>>

\* A failed submission takes back the count made for it, and the transfer is dropped.
Resubmit ==
    /\ cb = "resubmit"
    /\ cb' = "none" /\ cbTransfer' = 0
    /\ \/ /\ running
          /\ activeTransfers' = activeTransfers + 1
          /\ transfers' = [transfers EXCEPT ![cbTransfer] = "in_flight"]
       \/ /\ ~running \/ SubmitFails
          /\ transfers' = [transfers EXCEPT ![cbTransfer] = "idle"]
          /\ UNCHANGED activeTransfers
    /\ UNCHANGED <<appVars, plugged, srcVars, streamVars, netVars>>

-----------------------------------------------------------------------------
(* UseeplusVideoStream::send: the decoder's callbacks.                     *)

streamUnchanged == <<appVars, plugged, srcVars, cbTransfer, xferVars, netVars>>

\* A frame still being built when a packet of another one comes: what was gathered
\* is dropped, and an empty slot published in its place.
OnIncomplete_Keeps ==
    /\ cb = "send"
    /\ dec = "building" /\ frameActive
    /\ claimed + 1 < MaxFrames
    /\ published' = claimed
    /\ frameActive' = FALSE
    /\ dec' = "dropped"
    /\ UNCHANGED <<claimed, content, cb, streamUnchanged>>

\* Faulty: the slot is emptied and stays claimed.
OnIncomplete_Unpublished ==
    /\ cb = "send"
    /\ dec = "building" /\ frameActive
    /\ claimed + 1 < MaxFrames
    /\ content' = [content EXCEPT ![claimed] = "empty"]
    /\ frameActive' = FALSE
    /\ dec' = "dropped"
    /\ UNCHANGED <<claimed, published, cb, streamUnchanged>>

OnIncomplete ==
    /\ cb = "send"
    /\ dec = "building" /\ frameActive
    /\ claimed + 1 < MaxFrames
    /\ content' = [content EXCEPT ![claimed] = "empty"]
    /\ published' = claimed
    /\ frameActive' = FALSE
    /\ dec' = "dropped"
    /\ UNCHANGED <<claimed, cb, streamUnchanged>>

\* Up to the call of claim().  A frame left active would be published as it is.
OnStart ==
    /\ cb = "send"
    /\ dec # "building"
    /\ claimed + 1 < MaxFrames
    /\ published' = IF frameActive THEN claimed ELSE published
    /\ cb' = "claim"
    /\ dec' = "building"
    /\ UNCHANGED <<frameActive, claimed, content, streamUnchanged>>

Full == claimed + 1 - Capacity > consumed

\* claim() returns, and the slot is cleared.
Claim ==
    /\ cb = "claim"
    /\ ~Full
    /\ claimed' = claimed + 1
    /\ content' = [content EXCEPT ![claimed + 1] = "empty"]
    /\ frameActive' = TRUE
    /\ cb' = "send"
    /\ UNCHANGED <<dec, published, streamUnchanged>>

\* claim() yields and looks again.
Spin == cb = "claim" /\ Full /\ UNCHANGED vars

OnFragment ==
    /\ cb = "send"
    /\ dec = "building" /\ frameActive
    /\ content[claimed] = "empty"
    /\ content' = [content EXCEPT ![claimed] = "partial"]
    /\ UNCHANGED <<dec, frameActive, claimed, published, cb, streamUnchanged>>

\* The end of the image was in the last fragment.
OnComplete ==
    /\ cb = "send"
    /\ dec = "building" /\ frameActive
    /\ content[claimed] = "partial"
    /\ content' = [content EXCEPT ![claimed] = "whole"]
    /\ published' = claimed
    /\ frameActive' = FALSE
    /\ dec' = "ended"
    /\ UNCHANGED <<claimed, cb, streamUnchanged>>

SendReturns ==
    /\ cb = "send"
    /\ dec # "dropped"
    /\ cb' = "resubmit"
    /\ UNCHANGED <<streamVars, streamUnchanged>>

Send == \/ OnIncomplete \/ OnStart \/ Claim \/ Spin \/ OnFragment \/ OnComplete \/ SendReturns
Callback == Reap \/ Handler \/ HaltStream \/ Resubmit \/ Send
Source == \/ OpenCamera \/ FillPool \/ HandleEvents \/ LeaveLoop \/ Flush
          \/ Halt \/ Cancel \/ Drain \/ FreePool \/ Callback

-----------------------------------------------------------------------------
(* The network thread.                                                     *)

\* The listen callback.  Without a timer there is nothing for app.run() to wait for.
Bind ==
    /\ net = "bind"
    /\ \/ net' = "tick"
       \/ BindMayFail /\ net' = "ended"
    /\ UNCHANGED <<appVars, plugged, srcVars, cbVars, xferVars, streamVars,
                   available, nextRead, consumed>>

\* onTimer's test of running: at the end it closes the viewers, the listen socket and
\* the timer, whatever the ring holds.
Tick ==
    /\ net = "tick"
    /\ net' = IF running THEN "poll" ELSE "ended"
    /\ UNCHANGED <<appVars, plugged, srcVars, cbVars, xferVars, streamVars,
                   available, nextRead, consumed>>

Poll ==
    /\ net = "poll"
    /\ available' = published
    /\ net' = IF published < nextRead THEN "tick" ELSE "read"
    /\ UNCHANGED <<appVars, plugged, srcVars, cbVars, xferVars, streamVars,
                   nextRead, consumed>>

\* The frames are sent and the batch is given back.
ReadBatch ==
    /\ net = "read"
    /\ nextRead' = available + 1
    /\ consumed' = available
    /\ net' = "tick"
    /\ UNCHANGED <<appVars, plugged, srcVars, cbVars, xferVars, streamVars, available>>

Network == Bind \/ Tick \/ Poll \/ ReadBatch

-----------------------------------------------------------------------------
(* The camera, libusb and the operator.                                    *)

\* A submitted transfer ends: with data, with a timeout or a stall, because the camera
\* is gone, or cancelled.
Complete(t) ==
    /\ transfers[t] \in Submitted
    /\ \E s \in Done :
          /\ s = "completed" => plugged
          /\ s = "no_device" => ~plugged
          /\ s = "cancelled" => transfers[t] = "cancelling"
          /\ transfers' = [transfers EXCEPT ![t] = s]
    /\ UNCHANGED <<appVars, plugged, srcVars, cbVars, activeTransfers, streamVars,
                   netVars>>

Unplug ==
    /\ plugged
    /\ plugged' = FALSE
    /\ UNCHANGED <<appVars, srcVars, cbVars, xferVars, streamVars, netVars>>

\* signalHandler
Signal ==
    /\ running
    /\ running' = FALSE
    /\ UNCHANGED <<main, plugged, srcVars, cbVars, xferVars, streamVars, netVars>>

Over == ~Alive /\ UNCHANGED vars

Next ==
    \/ Alive /\ (Main \/ Source \/ Network \/ Unplug \/ Signal)
    \/ Alive /\ \E t \in Transfers : Complete(t)
    \/ Over

Spec == Init /\ [][Next]_vars

\* The three threads run, and libusb ends every transfer (its timeout is one second).
FairSpec ==
    /\ Spec
    /\ WF_vars(Alive /\ Main) /\ WF_vars(Alive /\ Source) /\ WF_vars(Alive /\ Network)
    /\ \A t \in Transfers : WF_vars(Alive /\ Complete(t))

-----------------------------------------------------------------------------
\* Type correctness.
TypeOK ==
    /\ {running, plugged, frameActive} \subseteq BOOLEAN
    /\ main \in {"start", "bind", "operational", "join_source", "join_network",
                "exited", "terminated"}
    /\ src \in {"idle", "open", "pool", "events", "flush", "halt", "cancel", "drain",
               "exited"}
    /\ transfers \in [Transfers -> {"none", "idle", "freed"} \cup Submitted \cup Done]
    /\ activeTransfers \in 0 .. TransferCount
    /\ ready \subseteq Finished
    /\ flushes \in 0 .. FlushCalls
    /\ cb \in {"none", "handler", "halt_stream", "send", "claim", "resubmit"}
    /\ cbTransfer \in IF cb = "none" THEN {0} ELSE Transfers
    /\ dec \in {"fresh", "building", "dropped", "ended"}
    /\ claimed \in -1 .. MaxFrames - 1
    /\ {published, available, consumed} \subseteq -1 .. claimed
    /\ content \in [Frames -> {"empty", "partial", "whole"}]
    /\ net \in {"idle", "bind", "tick", "poll", "read", "ended"}
    /\ nextRead \in 0 .. claimed + 1

\* No transfer is freed while libusb still has it, or has its callback to run: the
\* drain of lines 76 to 83 waits for every one, however the loop was left and
\* whatever the callbacks did in the meantime.
FreedOnlyWhenIdle ==
    [][\A t \in Transfers :
          transfers'[t] = "freed" => transfers[t] \in {"idle", "freed"}]_vars

\* Each slot that is claimed is published before the next is claimed, whether its
\* frame was completed or dropped: the ring never waits for a slot nobody fills.
ClaimsPublished == claimed - published = IF frameActive THEN 1 ELSE 0

\* The server is never shown a part of a frame: a published slot holds a frame from
\* its start to its end, or nothing.
PublishedWhole == \A s \in 0 .. published : content[s] # "partial"

\* The worker thread waits in claim() for frames that nobody will read any more.
ClaimStuck == cb = "claim" /\ Full /\ net = "ended"

\* When the flag is cleared, by a signal, by the callback of a camera that has gone,
\* or because the pool could not be filled, the program ends, unless the ring is full
\* with nobody to read it.
ShutdownEnds == ~running ~> (~Alive \/ ClaimStuck)

\* LibusbVideoSource::stop "safely cancels all active USB transfers and joins the
\* worker thread": after a signal the program ends.
SignalEnds == ~running ~> ~Alive
=============================================================================
