----------------------------- MODULE V4l2Server -----------------------------
(***************************************************************************)
(* src/apps/v4l2_server.cpp: main() opens the device (V4l2Device), the     *)
(* worker thread of V4l2VideoSource dequeues buffers that the kernel       *)
(* shares with the process, copies their frames into the ring and queues   *)
(* them again, and the timer of MjpegServer reads the ring.                *)
(*                                                                         *)
(* The device is what UpStream implements, the ring is what Disruptor      *)
(* proves of it: claim() returns when fewer than Capacity frames are       *)
(* outstanding.                                                            *)
(***************************************************************************)
EXTENDS Integers, FiniteSets

CONSTANTS
    Buffers,           \* those VIDIOC_REQBUFS grants, four are asked for
    NoBuffer,
    Capacity,          \* VIDEO_FRAME_BUFFER_CAPACITY
    MaxFrames,         \* bound: the device gives back at most so many buffers
    OpenMayFail,       \* a request of V4l2Device's constructor may fail
    SelectMayFail,     \* select may fail though no signal came
    BindMayFail        \* the port may be taken

ASSUME BuffersAssumption == NoBuffer \notin Buffers
ASSUME CountsAssumption == Capacity \in Nat \ {0} /\ MaxFrames \in Nat
ASSUME FailuresAssumption == {OpenMayFail, SelectMayFail, BindMayFail} \subseteq BOOLEAN

VARIABLES
    running,           \* the global flag
    main,              \* where main() is
    plugged,           \* the device is there
    phase, owner, good,       \* the device, see CaptureQueue
    memory,            \* the frame in each buffer's memory, NoFrame for a part of one
                       \* and for no bytes at all
    filled,            \* how many buffers were given back
    mapped,            \* the buffers that are mapped
    src, held,         \* where the worker is; the buffer it has dequeued
    claimed,           \* currentClaimSequence_
    published,         \* the ring's publishedSequence
    slot,              \* the two halves of what each sequence's slot holds
    net,               \* where the network thread is
    available, nextRead, consumed

appVars == <<running, main, plugged>>
queueVars == <<phase, owner, good>>
deviceVars == <<queueVars, memory, filled>>
srcVars == <<src, held>>
ringVars == <<claimed, published, slot>>
netVars == <<net, available, nextRead, consumed>>
vars == <<appVars, deviceVars, mapped, srcVars, ringVars, netVars>>

Device == INSTANCE CaptureQueue

NoFrame == 0
Sequences == 0 .. MaxFrames - 1

Init ==
    /\ running = TRUE /\ main = "options" /\ plugged = TRUE
    /\ Device!Init
    /\ memory = [b \in Buffers |-> NoFrame] /\ filled = 0
    /\ mapped = {}
    /\ src = "idle" /\ held = NoBuffer
    /\ claimed = -1 /\ published = -1
    /\ slot = [s \in Sequences |-> <<NoFrame, NoFrame>>]
    /\ net = "idle" /\ available = -1 /\ nextRead = 0 /\ consumed = -1

Alive == main # "exited"

-----------------------------------------------------------------------------
(* main(): its options, V4l2Device's constructor.  An exception ends the   *)
(* program.                                                                *)

\* The options are taken, or the program ends: --help, or one it does not know.
ParseOptions ==
    /\ main = "options"
    /\ main' \in {"open", "exited"}
    /\ UNCHANGED <<running, plugged, deviceVars, mapped, srcVars, ringVars, netVars>>

ConstructorThrows == OpenMayFail \/ ~plugged

\* open, S_FMT, G_FMT and REQBUFS.
OpenDevice ==
    /\ main = "open"
    /\ \/ main' = "map"
       \/ ConstructorThrows /\ main' = "exited"
    /\ UNCHANGED <<running, plugged, deviceVars, mapped, srcVars, ringVars, netVars>>

\* VIDIOC_QBUF; nobody looks at whether it fails.
Requeue(b) == \/ plugged /\ Device!Queue(b)
              \/ ~(plugged /\ owner[b] = "user") /\ UNCHANGED queueVars

\* mmap and QBUF.
MapBuffer(b) ==
    /\ main = "map" /\ b \notin mapped
    /\ mapped' = mapped \cup {b}
    /\ Requeue(b)
    /\ UNCHANGED <<appVars, memory, filled, srcVars, ringVars, netVars>>

Streamon ==
    /\ main = "map" /\ mapped = Buffers
    /\ \/ plugged /\ Device!Start /\ main' = "starting"
       \/ ~plugged /\ UNCHANGED queueVars /\ main' = "exited"
    /\ UNCHANGED <<running, plugged, memory, filled, mapped, srcVars, ringVars, netVars>>

\* The device is closed by the kernel when the process ends.
StreamonReturns ==
    /\ main = "starting"
    /\ Device!StartReturns
    /\ phase' = "off" => ConstructorThrows
    /\ main' = IF phase' = "on" THEN "start" ELSE "exited"
    /\ UNCHANGED <<running, plugged, memory, filled, mapped, srcVars, ringVars, netVars>>

-----------------------------------------------------------------------------
(* The rest of main(), to the destructors at its end.                      *)

StartSource ==
    /\ main = "start"
    /\ main' = "bind"
    /\ src' = "loop"
    /\ net' = "bind"
    /\ UNCHANGED <<running, plugged, deviceVars, mapped, held, ringVars, available,
                   nextRead, consumed>>

ServerStarted ==
    /\ main = "bind" /\ net # "bind"
    /\ main' = "operational"
    /\ UNCHANGED <<running, plugged, deviceVars, mapped, srcVars, ringVars, netVars>>

\* Faulty: does not join the worker.
StopSource_NoJoin ==
    /\ main = "operational" /\ ~running
    /\ main' = "join_network"
    /\ UNCHANGED <<running, plugged, deviceVars, mapped, srcVars, ringVars, netVars>>

StopSource ==
    /\ main = "operational" /\ ~running
    /\ src = "ended"
    /\ main' = "join_network"
    /\ UNCHANGED <<running, plugged, deviceVars, mapped, srcVars, ringVars, netVars>>

\* ~MjpegServer, then ~V4l2Device: STREAMOFF ...
Streamoff ==
    /\ main = "join_network" /\ net = "ended"
    /\ main' = "stopping"
    /\ \/ plugged /\ Device!Stop
       \/ ~plugged /\ UNCHANGED queueVars
    /\ UNCHANGED <<running, plugged, memory, filled, mapped, srcVars, ringVars, netVars>>

\* ... which returns ...
StreamoffReturns ==
    /\ main = "stopping" /\ phase = "stopping"
    /\ Device!StopReturns
    /\ UNCHANGED <<appVars, memory, filled, mapped, srcVars, ringVars, netVars>>

\* ... and the buffers are unmapped.
Unmap ==
    /\ main = "stopping" /\ phase # "stopping"
    /\ mapped' = {}
    /\ main' = "exited"
    /\ UNCHANGED <<running, plugged, deviceVars, srcVars, ringVars, netVars>>

Main == \/ ParseOptions \/ OpenDevice \/ (\E b \in Buffers : MapBuffer(b)) \/ Streamon \/ StreamonReturns
        \/ StartSource \/ ServerStarted \/ StopSource
        \/ Streamoff \/ StreamoffReturns \/ Unmap

-----------------------------------------------------------------------------
(* The worker: V4l2VideoSource::loop.                                      *)

SrcAt(from, to) == src = from /\ src' = to

srcUnchanged == <<appVars, deviceVars, mapped, held, ringVars, netVars>>

Loop ==
    /\ SrcAt("loop", IF running THEN "select" ELSE "ended")
    /\ UNCHANGED srcUnchanged

\* A device that has gone is ready too: its error is.
Ready == (\E b \in Buffers : owner[b] = "done") \/ ~plugged

\* Faulty: waits without a timeout.
Select_NoTimeout ==
    /\ SrcAt("select", "dequeue") /\ Ready
    /\ UNCHANGED srcUnchanged

\* The timeout is a second.
Select ==
    /\ \/ SrcAt("select", "dequeue") /\ Ready
       \/ SrcAt("select", "loop") /\ ~Ready
    /\ UNCHANGED srcUnchanged

\* A signal that is handled in this thread, or an error, ends the loop.
SelectFails ==
    /\ SrcAt("select", "ended")
    /\ ~running \/ SelectMayFail
    /\ UNCHANGED srcUnchanged

\* Faulty: a buffer with ERROR is left out.
DequeueFrame_DropsError ==
    /\ src = "dequeue" /\ plugged
    /\ \E b \in Buffers :
          /\ Device!Dequeue(b)
          /\ held' = IF b \in good THEN b ELSE NoBuffer
          /\ src' = IF b \in good THEN "handler" ELSE "loop"
    /\ UNCHANGED <<appVars, memory, filled, mapped, ringVars, netVars>>

\* Faulty: the buffer is queued again before its frame is handled.
DequeueFrame_RequeuesFirst ==
    /\ src = "dequeue" /\ plugged
    /\ \E b \in Buffers :
          /\ owner[b] = "done" /\ owner' = [owner EXCEPT ![b] = "device"]
          /\ good' = good \ {b}
          /\ held' = b
          /\ src' = IF b \in good THEN "handler" ELSE "enqueue"
    /\ UNCHANGED <<appVars, phase, memory, filled, mapped, ringVars, netVars>>

\* dequeue_frame.
DequeueFrame ==
    /\ src = "dequeue" /\ plugged
    /\ \E b \in Buffers :
          /\ Device!Dequeue(b)
          /\ held' = b
          /\ src' = IF b \in good THEN "handler" ELSE "enqueue"
    /\ UNCHANGED <<appVars, memory, filled, mapped, ringVars, netVars>>

DequeueFails ==
    /\ SrcAt("dequeue", "loop") /\ ~plugged
    /\ UNCHANGED srcUnchanged

\* The lambda of main(): nothing is published when the flag is down, or for a payload
\* of no bytes.  What it returns is not used.
Handler ==
    /\ SrcAt("handler", IF running /\ memory[held] # NoFrame THEN "claim" ELSE "enqueue")
    /\ UNCHANGED srcUnchanged

Full == claimed + 1 - Capacity > consumed

\* claim() returns and the slot is cleared.
Claim ==
    /\ SrcAt("claim", "copy") /\ ~Full
    /\ claimed' = claimed + 1
    /\ slot' = [slot EXCEPT ![claimed + 1] = <<NoFrame, NoFrame>>]
    /\ UNCHANGED <<appVars, deviceVars, mapped, held, published, netVars>>

Spin == src = "claim" /\ Full /\ UNCHANGED vars

\* insertContent copies from the mapped buffer, not at once.
Copy ==
    /\ \/ SrcAt("copy", "copy_rest") /\ slot' = [slot EXCEPT ![claimed][1] = memory[held]]
       \/ SrcAt("copy_rest", "publish") /\ slot' = [slot EXCEPT ![claimed][2] = memory[held]]
    /\ UNCHANGED <<appVars, deviceVars, mapped, held, claimed, published, netVars>>

Publish ==
    /\ SrcAt("publish", "enqueue")
    /\ published' = claimed
    /\ UNCHANGED <<appVars, deviceVars, mapped, held, claimed, slot, netVars>>

EnqueueBuffer ==
    /\ SrcAt("enqueue", "loop")
    /\ Requeue(held)
    /\ held' = NoBuffer
    /\ UNCHANGED <<appVars, memory, filled, mapped, ringVars, netVars>>

Source == \/ Loop \/ Select \/ DequeueFrame \/ DequeueFails \/ Handler \/ Claim \/ Spin
          \/ Copy \/ Publish \/ EnqueueBuffer

-----------------------------------------------------------------------------
(* The network thread, as in LibusbServer.                                 *)

Bind ==
    /\ net = "bind"
    /\ \/ net' = "tick"
       \/ BindMayFail /\ net' = "ended"
    /\ UNCHANGED <<appVars, deviceVars, mapped, srcVars, ringVars, available, nextRead,
                   consumed>>

Tick ==
    /\ net = "tick"
    /\ net' = IF running THEN "poll" ELSE "ended"
    /\ UNCHANGED <<appVars, deviceVars, mapped, srcVars, ringVars, available, nextRead,
                   consumed>>

Poll ==
    /\ net = "poll"
    /\ available' = published
    /\ net' = IF published < nextRead THEN "tick" ELSE "read"
    /\ UNCHANGED <<appVars, deviceVars, mapped, srcVars, ringVars, nextRead, consumed>>

\* Faulty: the batch is not given back.
ReadBatch_Forgets ==
    /\ net = "read"
    /\ nextRead' = available + 1
    /\ net' = "tick"
    /\ UNCHANGED <<appVars, deviceVars, mapped, srcVars, ringVars, available, consumed>>

ReadBatch ==
    /\ net = "read"
    /\ nextRead' = available + 1
    /\ consumed' = available
    /\ net' = "tick"
    /\ UNCHANGED <<appVars, deviceVars, mapped, srcVars, ringVars, available>>

Network == Bind \/ Tick \/ Poll \/ ReadBatch

-----------------------------------------------------------------------------
(* The camera, the device and the operator.                                *)

\* The device is done with a buffer: it holds a new frame, none, or a part of one.
Fill(b) ==
    /\ plugged /\ filled < MaxFrames
    /\ filled' = filled + 1
    /\ \/ Device!GiveBack({b}, {b}) /\ memory' \in {[memory EXCEPT ![b] = filled + 1],
                                                   [memory EXCEPT ![b] = NoFrame]}
       \/ Device!GiveBack({b}, {}) /\ memory' = [memory EXCEPT ![b] = NoFrame]
    /\ UNCHANGED <<appVars, mapped, srcVars, ringVars, netVars>>

Unplug ==
    /\ plugged
    /\ plugged' = FALSE
    /\ UNCHANGED <<running, main, deviceVars, mapped, srcVars, ringVars, netVars>>

\* signalHandler
Signal ==
    /\ running
    /\ running' = FALSE
    /\ UNCHANGED <<main, plugged, deviceVars, mapped, srcVars, ringVars, netVars>>

Over == ~Alive /\ UNCHANGED vars

Next ==
    \/ Alive /\ (Main \/ Source \/ SelectFails \/ Network \/ Unplug \/ Signal)
    \/ Alive /\ \E b \in Buffers : Fill(b)
    \/ Over

Spec == Init /\ [][Next]_vars

\* The three threads run, and the device's calls return.  Nothing makes a signal go to
\* the worker's thread.
FairSpec ==
    /\ Spec
    /\ WF_vars(Alive /\ Main) /\ WF_vars(Alive /\ Source) /\ WF_vars(Alive /\ Network)

-----------------------------------------------------------------------------
\* Type correctness.
TypeOK ==
    /\ {running, plugged} \subseteq BOOLEAN
    /\ main \in {"options", "open", "map", "starting", "start", "bind", "operational",
                "join_network", "stopping", "exited"}
    /\ phase \in {"off", "starting", "on", "stopping"}
    /\ owner \in [Buffers -> Device!Owners]
    /\ good \subseteq {b \in Buffers : owner[b] = "done"}
    /\ memory \in [Buffers -> 0 .. MaxFrames] /\ filled \in 0 .. MaxFrames
    /\ mapped \subseteq Buffers
    /\ src \in {"idle", "loop", "select", "dequeue", "handler", "claim", "copy",
               "copy_rest", "publish", "enqueue", "ended"}
    /\ held \in Buffers \cup {NoBuffer}
    /\ slot \in [Sequences -> (0 .. MaxFrames) \X (0 .. MaxFrames)]
    /\ claimed \in -1 .. MaxFrames - 1 /\ claimed - consumed <= Capacity
    /\ {published, available, consumed} \subseteq -1 .. claimed
    /\ net \in {"idle", "bind", "tick", "poll", "read", "ended"}
    /\ nextRead \in 0 .. claimed + 1

\* What the server is shown is one whole frame, each frame once, and never one that the
\* driver marked with ERROR: between DQBUF and QBUF nobody writes to the memory that
\* insertContent copies from.
PublishedWhole ==
    \A s \in 0 .. published :
        /\ slot[s][1] = slot[s][2] /\ slot[s][1] # NoFrame
        /\ \A r \in 0 .. published : slot[r] = slot[s] => r = s

\* While the device streams the worker keeps no buffer but the one whose frame it
\* handles: all others are with the device or wait to be dequeued, whether a frame was
\* marked with ERROR, refused by the handler or published.  The one it reads is mapped
\* and of a stream that is on: main() joins it before the device is stopped.
BuffersConserved ==
    /\ plugged /\ main \in {"start", "bind", "operational", "join_network"} =>
           {b \in Buffers : owner[b] = "user"} = {held} \ {NoBuffer}
    /\ src \in {"copy", "copy_rest"} => held \in mapped /\ phase = "on"

\* The worker waits in claim() for frames that nobody will read any more.
ClaimStuck == src = "claim" /\ Full /\ net = "ended"

\* After a signal the program ends, whatever has become of the camera, unless the ring
\* is full with nobody to read it.
ShutdownEnds == ~running ~> (~Alive \/ ClaimStuck)

\* A buffer that is done is dequeued while the program runs and the worker has not left
\* its loop.
DoneIsTaken ==
    \A b \in Buffers :
        owner[b] = "done" ~> \/ owner[b] # "done" \/ ~plugged \/ ~running
                             \/ ~Alive \/ src = "ended" \/ ClaimStuck
=============================================================================
