---------------------------- MODULE UpLifecycle -----------------------------
(***************************************************************************)
(* The life of a camera in driver/useeplus_core.c: up_probe acquires what  *)
(* the driver needs and unwinds when a step fails; files are opened, set   *)
(* the format and stream; up_disconnect takes everything down while they   *)
(* may still be at it, and what an open file needs goes with the last one. *)
(*                                                                         *)
(* UpStream is about the data of a session.  Here a session is the two     *)
(* stream bits, the URBs, the work item and the camera's mode, and the     *)
(* question is which of them exist when they are used.  up_disconnect does *)
(* not take the lock that serialises the ioctls, and it is called for a    *)
(* camera that is still attached as well: UsbCamera detaches the driver.   *)
(***************************************************************************)
EXTENDS UpFormat

CONSTANTS
    NumUrbs,           \* NUM_URBS
    Files,             \* file handles
    NoFile,
    AskedWidths,       \* of the sizes that applications ask for
    AskedHeights

ASSUME UrbsAssumption == NumUrbs \in Nat \ {0}
ASSUME FilesAssumption == NoFile \notin Files
ASSUME AskedAssumption == AskedWidths \subseteq Nat /\ AskedHeights \subseteq Nat

VARIABLES
    attached,          \* the camera is on the bus
    ep_enabled,        \* its video endpoints take transfers
    asleep,            \* the system sleeps, and the camera takes no transfer
    itf,               \* the driver and the interface: probing, unwinding, bound,
                       \* disconnecting, gone
    stage,             \* up_probe's next stage
    held,              \* what is allocated, claimed or registered
    urb,               \* usb.urbs: "none" (NULL), "live", or "freed" and not yet NULL
    urb_buf,           \* usb.urb_buffers: TRUE when not NULL
    kill,              \* the URB up_free_urbs is at
    registered,        \* the video device takes opens and ioctls
    v4l2_refs,         \* references to v4l2_dev
    files,             \* open file handles
    owner, streaming,  \* vb2: who has buffers, and whether start_streaming succeeded
    io, urb_sub, io_kill, closer,    \* where the ioctl thread is
    io_urb,            \* the URB whose pointer it has read, and uses next; 0 if none
    hw_active, client_ready,         \* STREAM_HW_ACTIVE, STREAM_CLIENT_READY
    in_flight,         \* URBs the host controller has
    late,              \* history: one was submitted after up_free_urbs had killed it
    cb, cb_urb,        \* the completion handler
    pending, work,     \* the work item
    size, hw_index,    \* v4l2.width and height; current_hw_index
    committed          \* the mode the camera was last put in

usbVars == <<attached, ep_enabled, asleep>>
urbVars == <<urb, urb_buf>>
bitVars == <<hw_active, client_ready>>
ioVars == <<io, urb_sub, io_kill, closer, io_urb>>
flightVars == <<in_flight, late>>
vbVars == <<owner, streaming>>
cbVars == <<cb, cb_urb>>
workVars == <<pending, work>>
fmtVars == <<size, hw_index, committed>>
devVars == <<registered, v4l2_refs, files>>
itfVars == <<itf, stage, kill>>
vars == <<usbVars, itfVars, held, urbVars, devVars, vbVars, ioVars, bitVars,
          flightVars, cbVars, workVars, fmtVars>>

Urbs == 1 .. NumUrbs

\* drv_data, the iAP interface, the workspace, the workqueue, the kfifo, v4l2_dev and
\* the video device.
Resources == {"dev", "iap", "workspace", "wq", "fifo", "v4l2", "vdev"}

Init ==
    /\ attached = TRUE /\ ep_enabled = FALSE /\ asleep = FALSE
    /\ itf = "probing" /\ stage = 1 /\ kill = 0
    /\ held = {} /\ urb = [i \in Urbs |-> "none"] /\ urb_buf = [i \in Urbs |-> FALSE]
    /\ registered = FALSE /\ v4l2_refs = 0 /\ files = {}
    /\ owner = NoFile /\ streaming = FALSE
    /\ io = "idle" /\ urb_sub = 0 /\ io_kill = 0 /\ closer = NoFile /\ io_urb = 0
    /\ hw_active = FALSE /\ client_ready = FALSE
    /\ in_flight = {} /\ late = FALSE /\ cb = "none" /\ cb_urb = 0
    /\ pending = FALSE /\ work = FALSE
    /\ size = Size(640, 480) /\ hw_index = 0 /\ committed = 0

-----------------------------------------------------------------------------
(* up_probe.                                                               *)

\* The stages in their order.  "endpoints", "queue" (with the heartbeat sink) and
\* "park" leave nothing to release.
Stages == <<"dev", "iap", "workspace", "wq", "fifo", "endpoints", "v4l2", "queue",
            "park", "urbs", "vdev">>

\* The label a stage that fails goes to.
OnFailure(s) ==
    CASE s = "dev" -> "failed"
      [] s = "iap" -> "error_free_dev"
      [] s \in {"workspace", "wq", "fifo", "endpoints", "v4l2"} -> "error_release_iap"
      [] s \in {"queue", "park"} -> "error_unreg_v4l2"
      [] s \in {"urbs", "vdev"} -> "error_urbs"

probeUnchanged == <<usbVars, kill, files, vbVars, ioVars, bitVars, flightVars,
                    cbVars, workVars, fmtVars>>

ProbeStage ==
    /\ itf = "probing" /\ Stages[stage] # "urbs"
    /\ \/ /\ Stages[stage] = "park" => attached
          /\ held' = held \cup ({Stages[stage]} \cap Resources)
          /\ stage' = IF stage = Len(Stages) THEN stage ELSE stage + 1
          /\ itf' = IF stage = Len(Stages) THEN "bound" ELSE itf
          /\ v4l2_refs' = IF Stages[stage] \in {"v4l2", "vdev"} THEN v4l2_refs + 1
                          ELSE v4l2_refs
          /\ registered' = (stage = Len(Stages))
       \/ /\ itf' = OnFailure(Stages[stage])
          /\ UNCHANGED <<held, stage, v4l2_refs, registered>>
    /\ UNCHANGED <<urbVars, probeUnchanged>>

\* up_alloc_urbs: an URB, then its buffer; either may be refused.
AllocUrb ==
    /\ itf = "probing" /\ Stages[stage] = "urbs"
    /\ \E i \in Urbs :
          /\ \A j \in Urbs : j < i <=> urb[j] = "live"
          /\ \/ /\ urb' = [urb EXCEPT ![i] = "live"]
                /\ urb_buf' = [urb_buf EXCEPT ![i] = TRUE]
                /\ stage' = IF i = NumUrbs THEN stage + 1 ELSE stage
                /\ UNCHANGED itf
             \/ /\ urb' \in {urb, [urb EXCEPT ![i] = "live"]}
                /\ itf' = "error_urbs"
                /\ UNCHANGED <<urb_buf, stage>>
    /\ UNCHANGED <<held, registered, v4l2_refs, probeUnchanged>>

Unwind(label, next, releases) ==
    /\ itf = label
    /\ itf' = next
    /\ held' = held \ releases
    /\ v4l2_refs' = IF "v4l2" \in releases THEN 0 ELSE v4l2_refs
    /\ UNCHANGED <<stage, registered, probeUnchanged>>

ErrorUrbs ==
    /\ Unwind("error_urbs", "error_unreg_v4l2", {})
    /\ urb' = [i \in Urbs |-> "none"] /\ urb_buf' = [i \in Urbs |-> FALSE]

ErrorUnregV4l2 ==
    Unwind("error_unreg_v4l2", "error_release_iap", {"v4l2"}) /\ UNCHANGED urbVars

\* Faulty: the workqueue is not destroyed.
ErrorReleaseIap_KeepsWq ==
    /\ Unwind("error_release_iap", "error_free_dev", {"iap", "fifo", "workspace"})
    /\ UNCHANGED urbVars

ErrorReleaseIap ==
    /\ Unwind("error_release_iap", "error_free_dev", {"iap", "fifo", "wq", "workspace"})
    /\ UNCHANGED urbVars

ErrorFreeDev == Unwind("error_free_dev", "failed", {"dev"}) /\ UNCHANGED urbVars

Probe == \/ ProbeStage \/ AllocUrb
         \/ ErrorUrbs \/ ErrorUnregV4l2 \/ ErrorReleaseIap \/ ErrorFreeDev

-----------------------------------------------------------------------------
(* up_disconnect, called with the endpoints disabled.                      *)

Disconnecting(from, to) == itf = from /\ itf' = to

discUnchanged == <<attached, asleep, stage, files, vbVars, ioVars, late, cbVars, fmtVars>>

\* The iAP interface is unbound by itself, as UsbCamera does first; up_disconnect ignores it.
DetachIap ==
    /\ itf = "bound" /\ ~asleep
    /\ held' = held \ {"iap"}
    /\ UNCHANGED <<usbVars, itfVars, urbVars, devVars, vbVars, ioVars, bitVars, flightVars,
                   cbVars, workVars, fmtVars>>

\* The camera is unplugged, or the driver is unbound from it.
Disconnect ==
    /\ Disconnecting("bound", "release_iap")
    /\ ~asleep
    /\ ep_enabled' = FALSE
    /\ UNCHANGED <<kill, held, urbVars, registered, v4l2_refs, bitVars, in_flight,
                   workVars, discUnchanged>>

\* The iAP interface is released, if it is still bound.
DiscReleaseIap ==
    /\ Disconnecting("release_iap", "clear")
    /\ held' = held \ {"iap"}
    /\ UNCHANGED <<ep_enabled, kill, urbVars, registered, v4l2_refs, bitVars, in_flight,
                   workVars, discUnchanged>>

DiscClear ==
    /\ Disconnecting("clear", "kill")
    /\ client_ready' = FALSE /\ hw_active' = FALSE
    /\ kill' = 1
    /\ UNCHANGED <<ep_enabled, held, urbVars, registered, v4l2_refs, in_flight,
                   workVars, discUnchanged>>

\* While usb_kill_urb runs, its URB is refused when it is submitted.
BeingKilled(i) == \/ itf = "kill" /\ kill = i
                  \/ io \in {"error_kill", "stop_kill"} /\ io_urb = i

\* up_free_urbs is done with killing URB i.
Killed(i) == \/ itf = "kill" /\ i < kill
             \/ itf \in {"free", "cancel", "unregister", "put", "reset", "gone"}

\* Faulty: the URBs are freed without being killed.
DiscKill_None ==
    /\ Disconnecting("kill", "free")
    /\ kill' = 1
    /\ UNCHANGED <<ep_enabled, held, urbVars, registered, v4l2_refs, bitVars, in_flight,
                   workVars, discUnchanged>>

\* usb_kill_urb has taken the URB back, and its handler has returned.
DiscKill ==
    /\ \/ /\ itf = "kill" /\ kill <= NumUrbs
          /\ cb_urb # kill
          /\ in_flight' = in_flight \ {kill}
          /\ kill' = kill + 1
          /\ UNCHANGED itf
       \/ /\ Disconnecting("kill", "free") /\ kill > NumUrbs
          /\ kill' = 1
          /\ UNCHANGED in_flight
    /\ UNCHANGED <<ep_enabled, held, urbVars, registered, v4l2_refs, bitVars, workVars,
                   discUnchanged>>

\* up_free_urb: the buffer and the URB are freed, then the URB's pointer is NULL.
DiscFree ==
    /\ itf = "free" /\ kill <= NumUrbs
    /\ \/ /\ urb[kill] = "live"
          /\ urb' = [urb EXCEPT ![kill] = "freed"]
          /\ urb_buf' = [urb_buf EXCEPT ![kill] = FALSE]
          /\ UNCHANGED kill
       \/ /\ urb[kill] = "freed"
          /\ urb' = [urb EXCEPT ![kill] = "none"]
          /\ kill' = kill + 1
          /\ UNCHANGED urb_buf
    /\ UNCHANGED <<itf, ep_enabled, held, registered, v4l2_refs, bitVars, in_flight,
                   workVars, discUnchanged>>

\* cancel_work_sync takes the work off the queue, lets nobody queue it, and waits for the
\* worker; then the workqueue is destroyed.
DiscCancelWork ==
    /\ Disconnecting("free", "cancel") /\ kill > NumUrbs
    /\ pending' = FALSE
    /\ kill' = 0
    /\ UNCHANGED <<ep_enabled, held, urbVars, registered, v4l2_refs, bitVars, in_flight,
                   work, discUnchanged>>

DiscDestroyWq ==
    /\ Disconnecting("cancel", "unregister")
    /\ ~work
    /\ held' = held \ {"wq"}
    /\ UNCHANGED <<ep_enabled, kill, urbVars, registered, v4l2_refs, bitVars, in_flight,
                   workVars, discUnchanged>>

\* Faulty: waits until the last file is closed.
DiscUnregister_Waits ==
    /\ Disconnecting("unregister", "put")
    /\ files = {}
    /\ registered' = FALSE
    /\ UNCHANGED <<ep_enabled, kill, held, urbVars, v4l2_refs, bitVars, in_flight,
                   workVars, discUnchanged>>

DiscUnregister ==
    /\ Disconnecting("unregister", "put")
    /\ registered' = FALSE
    /\ UNCHANGED <<ep_enabled, kill, held, urbVars, v4l2_refs, bitVars, in_flight,
                   workVars, discUnchanged>>

\* Faulty: the workspace is not freed.
ReleasedWithDevice_NoWorkspace == {"fifo", "dev", "v4l2"}

\* up_device_release
ReleasedWithDevice == {"fifo", "workspace", "dev", "v4l2"}

\* v4l2_device_put
Put(releases) ==
    /\ v4l2_refs' = v4l2_refs - 1
    /\ held' = held \ (releases \cup IF v4l2_refs = 1 THEN ReleasedWithDevice ELSE {})

\* Faulty: drv_data is freed here.
DiscPut_Frees ==
    /\ Disconnecting("put", "reset")
    /\ v4l2_refs' = v4l2_refs - 1
    /\ held' = held \ ReleasedWithDevice
    /\ UNCHANGED <<ep_enabled, kill, urbVars, registered, bitVars, in_flight, workVars,
                   discUnchanged>>

DiscPut ==
    /\ Disconnecting("put", "reset")
    /\ Put({})
    /\ UNCHANGED <<ep_enabled, kill, urbVars, registered, bitVars, in_flight, workVars,
                   discUnchanged>>

\* The USB core puts an interface whose driver has gone in alternate setting 0.
DiscReset ==
    /\ Disconnecting("reset", "gone")
    /\ ep_enabled' = FALSE
    /\ UNCHANGED <<kill, held, urbVars, registered, v4l2_refs, bitVars, in_flight,
                   workVars, discUnchanged>>

DisconnectSteps ==
    \/ DiscReleaseIap \/ DiscClear \/ DiscKill \/ DiscFree \/ DiscCancelWork
    \/ DiscDestroyWq \/ DiscUnregister \/ DiscPut \/ DiscReset

\* The last reference to an unregistered video device: the v4l2 core puts the one it has
\* to v4l2_dev.
VdevRelease ==
    /\ "vdev" \in held /\ itf \in {"put", "reset", "gone"}
    /\ ~registered /\ files = {}
    /\ Put({"vdev"})
    /\ UNCHANGED <<usbVars, itfVars, urbVars, registered, files, vbVars, ioVars, bitVars,
                   flightVars, cbVars, workVars, fmtVars>>

-----------------------------------------------------------------------------
(* Files, and the ioctls, which take the queue's lock; closing does not.   *)

fileUnchanged == <<usbVars, itfVars, held, urbVars, registered, v4l2_refs, flightVars,
                   cbVars, workVars>>

Open(f) ==
    /\ registered /\ f \notin files /\ ~asleep
    /\ files' = files \cup {f}
    /\ UNCHANGED <<vbVars, ioVars, bitVars, fmtVars, fileUnchanged>>

Ioctl(f) == io = "idle" /\ registered /\ f \in files /\ ~asleep

\* REQBUFS, of some buffers or of none.
Reqbufs(f) ==
    /\ Ioctl(f)
    /\ \/ owner = NoFile /\ owner' = f
       \/ owner = f /\ ~streaming /\ owner' = NoFile
    /\ UNCHANGED <<files, streaming, ioVars, bitVars, fmtVars, fileUnchanged>>

\* up_set_hardware_resolution: the camera takes the mode, or stalls.
Commits(index) == \/ attached /\ committed' = index
                  \/ UNCHANGED committed

\* Faulty: the index is kept only when the camera has taken it.
SetFormat_IndexLater(f, asked) ==
    LET taken == up_s_fmt_vid_cap(asked)
    IN  /\ Ioctl(f)
        /\ owner = NoFile
        /\ size' = taken.size
        /\ Commits(taken.hw_index)
        /\ hw_index' = committed'
        /\ UNCHANGED <<files, vbVars, ioVars, bitVars, fileUnchanged>>

\* S_FMT: width, height and index are set before the camera is asked.
SetFormat(f, asked) ==
    LET taken == up_s_fmt_vid_cap(asked)
    IN  /\ Ioctl(f)
        /\ owner = NoFile
        /\ size' = taken.size
        /\ hw_index' = taken.hw_index
        /\ Commits(taken.hw_index)
        /\ UNCHANGED <<files, vbVars, ioVars, bitVars, fileUnchanged>>

\* STREAMON, up to the test of STREAM_HW_ACTIVE.  urb_sub is not initialised.
Streamon(f) ==
    /\ Ioctl(f)
    /\ owner = f /\ ~streaming
    /\ ~hw_active
    /\ hw_active' = TRUE
    /\ io' = "setup"
    /\ urb_sub' \in 0 .. NumUrbs
    /\ UNCHANGED <<files, vbVars, io_kill, closer, io_urb, client_ready, fmtVars,
                   fileUnchanged>>

\* The interface is elevated and the mode sent, or one of them fails.
Elevate ==
    /\ io = "setup"
    /\ \/ /\ attached
          /\ ep_enabled' = TRUE
          /\ committed' = IF hw_index = 0 THEN 1 ELSE hw_index
          /\ io' = "auth"
       \/ /\ ep_enabled' \in {ep_enabled, attached}
          /\ Commits(IF hw_index = 0 THEN 1 ELSE hw_index)
          /\ io' = "error"
    /\ UNCHANGED <<attached, asleep, itfVars, held, urbVars, devVars, vbVars, urb_sub,
                   io_kill, closer, io_urb, bitVars, flightVars, cbVars, workVars, size,
                   hw_index>>

\* up_write_msg to an endpoint, which may fail and does if the endpoint is gone.
Send(from, to, enabled) ==
    /\ io = from
    /\ io' = "error" \/ (enabled /\ io' = to)
    /\ UNCHANGED <<files, vbVars, urb_sub, io_kill, closer, io_urb, bitVars, fmtVars,
                   fileUnchanged>>

\* up_iap_auth; the endpoints are there whether or not a driver has the iAP interface.
Auth == Send("auth", "video", attached)

\* up_start_video
StartVideo == Send("video", "ready", ep_enabled)

StartReady ==
    /\ io = "ready"
    /\ client_ready' = TRUE
    /\ io' = "submit" /\ urb_sub' = 0
    /\ UNCHANGED <<files, vbVars, io_kill, closer, io_urb, hw_active, fmtVars, fileUnchanged>>

\* The URB's pointer is read; submitting NULL fails.
ReadToSubmit ==
    /\ io = "submit" /\ urb_sub < NumUrbs /\ io_urb = 0
    /\ IF urb[urb_sub + 1] = "none" THEN io' = "error" /\ UNCHANGED io_urb
       ELSE io_urb' = urb_sub + 1 /\ UNCHANGED io
    /\ UNCHANGED <<files, vbVars, urb_sub, io_kill, closer, bitVars, fmtVars,
                   fileUnchanged>>

\* usb_submit_urb fails when the endpoint is disabled, and may fail otherwise.
Submit ==
    /\ io = "submit" /\ io_urb # 0
    /\ \/ /\ ep_enabled /\ ~BeingKilled(io_urb)
          /\ in_flight' = in_flight \cup {io_urb}
          /\ late' = (late \/ Killed(io_urb))
          /\ urb_sub' = urb_sub + 1
          /\ UNCHANGED io
       \/ /\ io' = "error"
          /\ UNCHANGED <<flightVars, urb_sub>>
    /\ io_urb' = 0
    /\ UNCHANGED <<usbVars, itfVars, held, urbVars, devVars, vbVars, io_kill, closer,
                   bitVars, cbVars, workVars, fmtVars>>

Started ==
    /\ io = "submit" /\ urb_sub = NumUrbs /\ io_urb = 0
    /\ io' = "idle" /\ urb_sub' = 0
    /\ streaming' = TRUE
    /\ UNCHANGED <<files, owner, io_kill, closer, io_urb, bitVars, fmtVars, fileUnchanged>>

StartError ==
    /\ io = "error"
    /\ client_ready' = FALSE
    /\ io' = "error_kill" /\ io_kill' = 1
    /\ UNCHANGED <<files, vbVars, urb_sub, closer, io_urb, hw_active, fmtVars,
                   fileUnchanged>>

\* Both clean-ups read the pointers of the URBs one by one.  Nothing is done about NULL,
\* which the one tests for and usb_kill_urb accepts.
ReadToKill ==
    /\ \/ io = "error_kill" /\ io_kill <= urb_sub
       \/ io = "stop_kill" /\ io_kill <= NumUrbs
    /\ io_urb = 0
    /\ IF urb[io_kill] = "none" THEN io_kill' = io_kill + 1 /\ UNCHANGED io_urb
       ELSE io_urb' = io_kill /\ UNCHANGED io_kill
    /\ UNCHANGED <<files, vbVars, io, urb_sub, closer, bitVars, fmtVars, fileUnchanged>>

\* usb_kill_urb; what it does to an URB that has been freed is not defined.
KillUrb ==
    /\ io \in {"error_kill", "stop_kill"} /\ io_urb # 0
    /\ \/ cb_urb # io_urb /\ in_flight' = in_flight \ {io_urb}
       \/ urb[io_urb] # "live" /\ UNCHANGED in_flight
    /\ io_urb' = 0 /\ io_kill' = io_kill + 1
    /\ UNCHANGED <<usbVars, itfVars, held, urbVars, devVars, vbVars, io, urb_sub, closer,
                   late, bitVars, cbVars, workVars, fmtVars>>

StartFailed ==
    /\ io = "error_kill" /\ io_kill > urb_sub /\ io_urb = 0
    /\ io' = "idle" /\ io_kill' = 0 /\ urb_sub' = 0
    /\ hw_active' = FALSE
    /\ UNCHANGED <<files, vbVars, closer, io_urb, client_ready, fmtVars, fileUnchanged>>

Streamoff(f) ==
    /\ Ioctl(f)
    /\ owner = f /\ streaming
    /\ io' = "stop"
    /\ UNCHANGED <<files, vbVars, urb_sub, io_kill, closer, io_urb, bitVars, fmtVars,
                   fileUnchanged>>

\* Closing works on an unregistered device too, and takes no lock: other files are closed
\* while a call is in progress.  One of the file's own keeps it open; the owner's close
\* stops the stream.
Close(f) ==
    /\ f \in files /\ ~asleep
    /\ \/ /\ owner # f
          /\ files' = files \ {f}
          /\ UNCHANGED <<owner, io, closer>>
       \/ /\ owner = f /\ io = "idle" /\ ~streaming
          /\ files' = files \ {f} /\ owner' = NoFile
          /\ UNCHANGED <<io, closer>>
       \/ /\ owner = f /\ io = "idle" /\ streaming
          /\ io' = "stop" /\ closer' = f
          /\ UNCHANGED <<files, owner>>
    /\ UNCHANGED <<streaming, urb_sub, io_kill, io_urb, bitVars, fmtVars, fileUnchanged>>

\* up_stop_streaming parks the camera if the bit was set, and does not ask whether that
\* succeeded.
Stop ==
    /\ io = "stop"
    /\ ep_enabled' \in {ep_enabled, ep_enabled /\ ~hw_active}
    /\ hw_active' = FALSE /\ client_ready' = FALSE
    /\ io' = "stop_kill" /\ io_kill' = 1
    /\ UNCHANGED <<attached, asleep, itfVars, held, urbVars, devVars, vbVars, urb_sub,
                   closer, io_urb, flightVars, cbVars, workVars, fmtVars>>

\* cancel_work_sync: the work is taken off the queue, and cannot be queued ...
StopCancels ==
    /\ io = "stop_kill" /\ io_kill > NumUrbs /\ io_urb = 0
    /\ pending' = FALSE
    /\ io' = "stop_cancel"
    /\ UNCHANGED <<usbVars, itfVars, held, urbVars, devVars, vbVars, urb_sub, io_kill,
                   closer, io_urb, bitVars, flightVars, cbVars, work, fmtVars>>

\* ... until the worker is done; then the call returns.
Stopped ==
    /\ io = "stop_cancel"
    /\ ~work
    /\ streaming' = FALSE
    /\ owner' = IF closer = NoFile THEN owner ELSE NoFile
    /\ files' = files \ {closer}
    /\ io' = "idle" /\ io_kill' = 0 /\ closer' = NoFile
    /\ UNCHANGED <<usbVars, itfVars, held, urbVars, registered, v4l2_refs, urb_sub,
                   io_urb, bitVars, flightVars, cbVars, workVars, fmtVars>>

IoThread == \/ Elevate \/ Auth \/ StartVideo \/ StartReady
            \/ ReadToSubmit \/ Submit \/ Started
            \/ StartError \/ ReadToKill \/ KillUrb \/ StartFailed
            \/ Stop \/ StopCancels \/ Stopped

-----------------------------------------------------------------------------
(* up_read_bulk_callback and up_work_handler.                              *)

dataUnchanged == <<usbVars, itfVars, held, urbVars, devVars, vbVars, ioVars, bitVars,
                   late, fmtVars>>

\* A transfer ends: with data, with an error after which it is submitted again, or
\* with one that ends the URB, as any does when STREAM_CLIENT_READY is not set.
Complete(i) ==
    /\ cb = "none" /\ i \in in_flight
    /\ in_flight' = in_flight \ {i}
    /\ \/ /\ client_ready /\ attached
          /\ cb' \in {"queue", "resubmit"} /\ cb_urb' = i
       \/ UNCHANGED cbVars
    /\ UNCHANGED <<workVars, dataUnchanged>>

\* The data is put into the kfifo, and the work is queued; on a workqueue that has been
\* destroyed, it may be lost or run.
CbQueue ==
    /\ cb = "queue"
    /\ cb' = "resubmit"
    /\ \/ itf # "cancel" /\ io # "stop_cancel" /\ pending' = TRUE
       \/ /\ itf = "cancel" \/ io = "stop_cancel" \/ "wq" \notin held
          /\ UNCHANGED pending
    /\ UNCHANGED <<cb_urb, in_flight, work, dataUnchanged>>

CbResubmit ==
    /\ cb = "resubmit"
    /\ cb' = "none" /\ cb_urb' = 0
    /\ \/ UNCHANGED in_flight
       \/ /\ client_ready /\ ep_enabled /\ ~asleep /\ ~BeingKilled(cb_urb)
          /\ in_flight' = in_flight \cup {cb_urb}
    /\ UNCHANGED <<workVars, dataUnchanged>>

Work ==
    /\ \/ ~work /\ pending /\ work' = TRUE /\ pending' = FALSE
       \/ work /\ work' = FALSE /\ UNCHANGED pending
    /\ UNCHANGED <<in_flight, cbVars, dataUnchanged>>

Data == (\E i \in Urbs : Complete(i)) \/ CbQueue \/ CbResubmit \/ Work

Unplug ==
    /\ attached
    /\ attached' = FALSE /\ ep_enabled' = FALSE
    /\ UNCHANGED <<asleep, itfVars, held, urbVars, devVars, vbVars, ioVars, bitVars,
                   flightVars, cbVars, workVars, fmtVars>>

-----------------------------------------------------------------------------
(* The system sleeps.  Programs are frozen outside the driver first; then  *)
(* the USB core asks the driver, which does nothing, and ends every        *)
(* transfer.                                                               *)

sleepUnchanged == <<attached, ep_enabled, itfVars, held, urbVars, devVars, vbVars, ioVars,
                    bitVars, flightVars, cbVars, workVars, size, hw_index>>

\* up_suspend
Suspend ==
    /\ itf = "bound" /\ io = "idle" /\ attached /\ ~asleep
    /\ asleep' = TRUE
    /\ UNCHANGED <<committed, sleepUnchanged>>

\* up_resume, or, when the camera was without power, up_reset_resume; neither submits an
\* URB.
Resume ==
    /\ asleep /\ in_flight = {} /\ cb = "none"
    /\ asleep' = FALSE
    /\ committed' \in {committed, 0}
    /\ UNCHANGED sleepUnchanged

\* Nothing is left of the camera.
Over == itf \in {"failed", "gone"} /\ files = {} /\ "vdev" \notin held /\ UNCHANGED vars

Next ==
    \/ Probe \/ Unplug \/ Suspend \/ Resume \/ DetachIap \/ Disconnect
    \/ DisconnectSteps \/ VdevRelease
    \/ \E f \in Files :
          \/ Open(f) \/ Reqbufs(f) \/ Streamon(f) \/ Streamoff(f) \/ Close(f)
          \/ \E w \in AskedWidths, h \in AskedHeights : SetFormat(f, Size(w, h))
    \/ IoThread \/ Data \/ Over

Spec == Init /\ [][Next]_vars

\* A disconnect that has begun goes on, and so do the completion handler and the worker.
FairSpec == /\ Spec
            /\ WF_vars(DisconnectSteps) /\ WF_vars(CbQueue \/ CbResubmit) /\ WF_vars(Work)

-----------------------------------------------------------------------------
\* Type correctness.
TypeOK ==
    /\ attached \in BOOLEAN /\ ep_enabled \in BOOLEAN /\ asleep \in BOOLEAN
    /\ registered \in BOOLEAN /\ streaming \in BOOLEAN
    /\ hw_active \in BOOLEAN /\ client_ready \in BOOLEAN
    /\ pending \in BOOLEAN /\ work \in BOOLEAN /\ late \in BOOLEAN
    /\ itf \in {"probing", "bound", "failed", "gone", "error_urbs", "error_unreg_v4l2",
               "error_release_iap", "error_free_dev", "release_iap", "clear", "kill",
               "free", "cancel", "unregister", "put", "reset"}
    /\ stage \in DOMAIN Stages /\ kill \in 0 .. NumUrbs + 1
    /\ held \subseteq Resources
    /\ urb \in [Urbs -> {"none", "live", "freed"}] /\ urb_buf \in [Urbs -> BOOLEAN]
    /\ v4l2_refs \in 0 .. 2
    /\ files \subseteq Files
    /\ owner \in Files \cup {NoFile} /\ closer \in Files \cup {NoFile}
    /\ io \in {"idle", "setup", "auth", "video", "ready", "submit", "error",
              "error_kill", "stop", "stop_kill", "stop_cancel"}
    /\ urb_sub \in 0 .. NumUrbs /\ io_kill \in 0 .. NumUrbs + 1 /\ io_urb \in 0 .. NumUrbs
    /\ in_flight \subseteq Urbs
    /\ cb \in {"none", "queue", "resubmit"} /\ cb_urb \in 0 .. NumUrbs
    /\ size \in up_enum_framesizes /\ hw_index \in 0 .. 3 /\ committed \in 0 .. 3

\* Whoever still runs has what it uses: an open file or a call in progress has drv_data,
\* however far up_disconnect has come; and, unless an URB was submitted behind
\* up_free_urbs' kill, so do a completion handler and the worker, a handler that queues work
\* has the workqueue, and the worker its buffers.  The labels of a probe that fails release
\* what the stages before took.
UsersHoldDevice ==
    /\ files # {} \/ io # "idle" => "dev" \in held
    /\ ~late => /\ in_flight # {} \/ cb # "none" \/ pending \/ work => "dev" \in held
                /\ cb = "queue" \/ pending => {"wq", "fifo"} \subseteq held
                /\ work => {"workspace", "fifo"} \subseteq held
    /\ itf = "error_unreg_v4l2" => "v4l2" \in held
    /\ itf = "error_release_iap" => "iap" \in held

\* "Ensure every callback is stopped and no new ones can be submitted", before the
\* URBs are released: none that is freed is in flight, or in its handler.
NoUrbFreedInFlight ==
    \A i \in in_flight \cup ({cb_urb} \ {0}) : urb[i] = "live" /\ urb_buf[i]

\* The kill loop stops every URB that was submitted before it came to it, its handler's
\* resubmission included: only one submitted behind it is freed in flight.
KilledBeforeFreed == ~late => NoUrbFreedInFlight

\* When a probe has failed, at any stage, or the camera is gone and the last file closed,
\* nothing is left: no allocation, no reference, no URB; and no transfer, handler or work,
\* unless an URB was submitted behind up_free_urbs' kill.
NothingLeftBehind ==
    itf = "failed" \/ (itf = "gone" /\ files = {} /\ "vdev" \notin held) =>
        /\ held = {} /\ v4l2_refs = 0
        /\ \A i \in Urbs : urb[i] = "none" /\ ~urb_buf[i]
        /\ ~late => in_flight = {} /\ cb = "none" /\ ~pending /\ ~work

\* What the camera sends to a stream that is on has the size that G_FMT reports, whether
\* or not it took the last S_FMT, for STREAMON sends the mode again, and though it may
\* have forgotten its mode while the system slept, for then nothing is received any more.
StreamsReportedFormat ==
    streaming /\ in_flight # {} =>
        [size |-> size, hw_index |-> committed] \in SupportedResolutions

\* up_disconnect waits for handlers and the worker, never for an application.
DisconnectReturns == itf = "release_iap" ~> itf = "gone"
=============================================================================
