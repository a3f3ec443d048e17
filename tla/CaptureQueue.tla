---------------------------- MODULE CaptureQueue ----------------------------
(***************************************************************************)
(* What a V4L2 capture device promises its one application: the buffers go *)
(* round between the two, one that is dequeued stays as it is, and the     *)
(* calls that start and stop the stream return.  UpStream implements it    *)
(* and V4l2Server relies on it.                                            *)
(***************************************************************************)
CONSTANTS Buffers

VARIABLES
    phase,     \* of the stream: off, starting, on, stopping
    owner,     \* of each buffer: the user, the device, or done and not yet dequeued
    good       \* the buffers that are done without ERROR

vars == <<phase, owner, good>>

Owners == {"user", "device", "done"}

Init ==
    /\ phase = "off"
    /\ owner = [b \in Buffers |-> "user"]
    /\ good = {}

\* VIDIOC_QBUF
Queue(b) ==
    /\ phase \in {"off", "on"}
    /\ owner[b] = "user"
    /\ owner' = [owner EXCEPT ![b] = "device"]
    /\ UNCHANGED <<phase, good>>

\* VIDIOC_DQBUF, which reports whether b is good.
Dequeue(b) ==
    /\ phase = "on"
    /\ owner[b] = "done"
    /\ owner' = [owner EXCEPT ![b] = "user"]
    /\ good' = good \ {b}
    /\ UNCHANGED phase

\* VIDIOC_STREAMON
Start == phase = "off" /\ phase' = "starting" /\ UNCHANGED <<owner, good>>

\* It returns; the buffers stay where they are when it fails.
StartReturns ==
    /\ phase = "starting"
    /\ phase' \in {"on", "off"}
    /\ UNCHANGED <<owner, good>>

\* VIDIOC_STREAMOFF
Stop == phase \in {"off", "on"} /\ phase' = "stopping" /\ UNCHANGED <<owner, good>>

StopReturns ==
    /\ phase = "stopping"
    /\ phase' = "off"
    /\ owner' = [b \in Buffers |-> "user"]
    /\ good' = {}

\* The device is done with some of its buffers.
GiveBack(done, whole) ==
    /\ phase # "off"
    /\ done # {} /\ \A b \in done : owner[b] = "device"
    /\ whole \subseteq done
    /\ owner' = [b \in Buffers |-> IF b \in done THEN "done" ELSE owner[b]]
    /\ good' = good \cup whole
    /\ UNCHANGED phase

Returns == StartReturns \/ StopReturns

Next ==
    \/ \E b \in Buffers : Queue(b) \/ Dequeue(b)
    \/ Start \/ Stop \/ Returns
    \/ \E done \in SUBSET Buffers : \E whole \in SUBSET done : GiveBack(done, whole)

Safety == Init /\ [][Next]_vars

\* The application may stop calling, and the camera stop sending.
Spec == Safety /\ WF_vars(Returns)
=============================================================================
