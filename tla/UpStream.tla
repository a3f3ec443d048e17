------------------------------ MODULE UpStream ------------------------------
(***************************************************************************)
(* Streaming in the kernel driver (driver/useeplus_core.c): STREAMON and   *)
(* STREAMOFF run step by step in the caller's thread, URB completions run  *)
(* in interrupt context, the decoder runs in a work item, and between them *)
(* lie the kfifo, the workspace, the ready queue and the active buffer.    *)
(*                                                                         *)
(* The camera plays Script, one unit per bulk transfer.  A unit is a whole *)
(* packet, or the first or second part of a packet cut by the end of a     *)
(* transfer.  vb2 and the USB core are not part of the repository; they    *)
(* are modelled from how the driver uses them.                             *)
(***************************************************************************)
EXTENDS Integers, Sequences, SequencesExt

CONSTANTS
    Buffers,        \* the vb2 buffers
    None,           \* no buffer
    Script,         \* what the camera sends in a session
    NumUrbs,        \* NUM_URBS
    FifoSize,       \* FIFO_SIZE in units
    WorkspaceSize,  \* MAX_WORKSPACE_SIZE in units
    FrameSize,      \* MAX_FRAME_SIZE in units
    MinQueued,      \* vb2_queue min_queued_buffers
    FailingSubmits, \* the submissions of up_start_streaming (urb_sub) that may fail
    MaxSession      \* bound: how often streaming is started

ASSUME CountsAssumption ==
    /\ {NumUrbs, FifoSize, FrameSize, MinQueued, MaxSession} \subseteq Nat
    /\ WorkspaceSize \in Nat
    /\ WorkspaceSize > FifoSize       \* 512K and 256K
ASSUME BuffersAssumption == None \notin Buffers
ASSUME SubmitAssumption == FailingSubmits \subseteq Nat

Parts == {"whole", "head", "tail"}
ASSUME ScriptAssumption ==
    Script \in Seq([frame : 0 .. 255, part : Parts, soi : BOOLEAN, eoi : BOOLEAN])

VARIABLES
    hw_active, client_ready,    \* STREAM_HW_ACTIVE, STREAM_CLIENT_READY
    io,                         \* where the ioctl thread is
    urb_sub,                    \* up_start_streaming's counter
    kill,                       \* the URB usb_kill_urb is called for
    streaming,                  \* vb2: start_streaming succeeded
    queued_list,                \* vb2: buffers queued, in order
    buf_state,                  \* vb2: state of each buffer
    frames,                     \* what each completed buffer holds
    ready_queue, active_buf,
    payload,                    \* what active_buf holds so far
    session, camera, next_unit, \* the camera
    in_flight,                  \* URBs submitted
    cb,                         \* the URB completion being handled
    fifo,                       \* decoder.fifo
    pending, work,              \* the work item: queued, and where it is
    workspace,                  \* decoder.workspace_buf up to workspace_len
    buf,                        \* what up_decode_bulk was given
    dec,                        \* the decoder's flags in drv_data
    loc,                        \* up_work_handler's copy of them
    cur, pkt                    \* its cursor, and units of the current packet

ioVars   == <<hw_active, io, urb_sub, kill, session>>
vbVars   == <<streaming, queued_list>>
bufVars  == <<buf_state, frames, ready_queue, active_buf, payload>>
camVars  == <<camera, next_unit>>
urbVars  == <<in_flight, cb>>
workVars == <<work, workspace, buf, dec, loc, cur, pkt>>
vars == <<client_ready, ioVars, vbVars, bufVars, camVars, urbVars, fifo,
          pending, workVars>>

Urbs == 1 .. NumUrbs
NoFrame == [ok |-> FALSE, units |-> <<>>]
Idle == [at |-> "idle", urb |-> 0, unit |-> <<>>]
FreshDec == [building |-> FALSE, frame |-> -1, soi |-> FALSE, eof |-> FALSE]

Init ==
    /\ hw_active = FALSE /\ client_ready = FALSE
    /\ io = "idle" /\ urb_sub = 0 /\ kill = 0
    /\ streaming = FALSE /\ queued_list = <<>>
    /\ buf_state = [b \in Buffers |-> "user"]
    /\ frames = [b \in Buffers |-> NoFrame]
    /\ ready_queue = <<>> /\ active_buf = None /\ payload = <<>>
    /\ session = 0 /\ camera = FALSE /\ next_unit = 1
    /\ in_flight = {} /\ cb = Idle
    /\ fifo = <<>> /\ pending = FALSE
    /\ work = "idle" /\ workspace = <<>> /\ buf = <<>> /\ dec = FreshDec /\ loc = FreshDec
    /\ cur = 0 /\ pkt = 0

-----------------------------------------------------------------------------
(***************************************************************************)
(* vb2, in the caller's thread under the device lock.                      *)
(***************************************************************************)

\* QBUF; up_buf_queue when streaming.
Qbuf(b) ==
    /\ io = "idle" /\ buf_state[b] = "user"
    /\ queued_list' = Append(queued_list, b)
    /\ \/ /\ streaming
          /\ buf_state' = [buf_state EXCEPT ![b] = "active"]
          /\ ready_queue' = Append(ready_queue, b)
       \/ /\ ~streaming
          /\ buf_state' = [buf_state EXCEPT ![b] = "queued"]
          /\ UNCHANGED ready_queue
    /\ UNCHANGED <<client_ready, ioVars, streaming, frames, active_buf, payload,
                   camVars, urbVars, fifo, pending, workVars>>

Dqbuf(b) ==
    /\ io = "idle" /\ streaming /\ buf_state[b] = "done"
    /\ buf_state' = [buf_state EXCEPT ![b] = "user"]
    /\ frames' = [frames EXCEPT ![b] = NoFrame]
    /\ \E i \in DOMAIN queued_list :
          queued_list[i] = b /\ queued_list' = RemoveAt(queued_list, i)
    /\ UNCHANGED <<client_ready, ioVars, streaming, ready_queue, active_buf,
                   payload, camVars, urbVars, fifo, pending, workVars>>

\* vb2 hands every queued buffer to the driver, then calls up_start_streaming.
Streamon ==
    /\ io = "idle" /\ ~streaming
    /\ Len(queued_list) >= MinQueued
    /\ session < MaxSession
    /\ buf_state' = [b \in Buffers |->
                        IF b \in Range(queued_list) THEN "active" ELSE buf_state[b]]
    /\ ready_queue' = ready_queue \o queued_list
    /\ io' = "start"
    /\ UNCHANGED <<hw_active, client_ready, urb_sub, kill, session, vbVars,
                   frames, active_buf, payload, camVars, urbVars, fifo, pending,
                   workVars>>

\* up_start_streaming failed: vb2 takes back what the driver still owns.
StartFailed ==
    /\ io = "failed"
    /\ buf_state' = [b \in Buffers |->
                        IF buf_state[b] = "active" THEN "queued" ELSE buf_state[b]]
    /\ io' = "idle"
    /\ UNCHANGED <<hw_active, client_ready, urb_sub, kill, session, vbVars,
                   frames, ready_queue, active_buf, payload, camVars, urbVars,
                   fifo, pending, workVars>>

\* STREAMOFF calls up_stop_streaming if streaming has started.
Streamoff ==
    /\ io = "idle"
    /\ io' = IF streaming THEN "stop" ELSE "stopped"
    /\ UNCHANGED <<hw_active, client_ready, urb_sub, kill, session, vbVars,
                   bufVars, camVars, urbVars, fifo, pending, workVars>>

\* up_stop_streaming returned: every buffer is the caller's again.
StopReturned ==
    /\ io = "stopped"
    /\ io' = "idle"
    /\ streaming' = FALSE
    /\ queued_list' = <<>>
    /\ buf_state' = [b \in Buffers |-> "user"]
    /\ frames' = [b \in Buffers |-> NoFrame]
    /\ UNCHANGED <<hw_active, client_ready, urb_sub, kill, session, ready_queue,
                   active_buf, payload, camVars, urbVars, fifo, pending, workVars>>

-----------------------------------------------------------------------------
(***************************************************************************)
(* up_start_streaming.                                                     *)
(***************************************************************************)
Io(from, to) == io = from /\ io' = to

\* STREAM_HW_ACTIVE is set and the driver's state reset, the workspace to ws.
\* urb_sub is not initialised: any value (one beyond NumUrbs would have error_start
\* leave the array).
ResetTo(ws) ==
    /\ Io("start", "setup")
    /\ ~hw_active
    /\ hw_active' = TRUE
    /\ session' = session + 1
    /\ urb_sub' \in 0 .. NumUrbs
    /\ active_buf' = None
    /\ payload' = <<>>
    /\ dec' = [building |-> FALSE, frame |-> -1, soi |-> dec.soi, eof |-> dec.eof]
    /\ workspace' = ws
    /\ fifo' = <<>>
    /\ UNCHANGED <<client_ready, kill, vbVars, buf_state, frames, ready_queue,
                   camVars, urbVars, pending, work, buf, loc, cur, pkt>>

\* Faulty: the residual of the previous session stays in the workspace.
StartReset_KeepsWorkspace == ResetTo(workspace)

StartReset == ResetTo(<<>>)

\* set_interface, clear_halt, set_hardware_resolution, iap_auth, start_video: all
\* succeed and the camera plays, or one fails.
SetupHardware ==
    /\ \/ /\ Io("setup", "ready")
          /\ camera' = TRUE
       \/ /\ Io("setup", "error")
          /\ camera' \in BOOLEAN
    /\ next_unit' = 1
    /\ UNCHANGED <<hw_active, client_ready, urb_sub, kill, session, vbVars,
                   bufVars, urbVars, fifo, pending, workVars>>

StartReady ==
    /\ Io("ready", "submit")
    /\ client_ready' = TRUE
    /\ urb_sub' = 0
    /\ UNCHANGED <<hw_active, kill, session, vbVars, bufVars, camVars, urbVars,
                   fifo, pending, workVars>>

SubmitUrb ==
    /\ io = "submit" /\ urb_sub < NumUrbs
    /\ \/ /\ in_flight' = in_flight \cup {urb_sub + 1}
          /\ urb_sub' = urb_sub + 1
          /\ UNCHANGED io
       \/ /\ urb_sub \in FailingSubmits
          /\ io' = "error"
          /\ UNCHANGED <<in_flight, urb_sub>>
    /\ UNCHANGED <<hw_active, client_ready, kill, session, vbVars, bufVars,
                   camVars, cb, fifo, pending, workVars>>

StartDone ==
    /\ Io("submit", "idle") /\ urb_sub = NumUrbs
    /\ streaming' = TRUE
    /\ urb_sub' = 0
    /\ UNCHANGED <<hw_active, client_ready, kill, session, queued_list,
                   bufVars, camVars, urbVars, fifo, pending, workVars>>

\* error_start: no more data, kill the URBs counted by urb_sub, ...
ErrorReady ==
    /\ Io("error", "errorKill")
    /\ client_ready' = FALSE
    /\ kill' = 1
    /\ UNCHANGED <<hw_active, urb_sub, session, vbVars, bufVars, camVars,
                   urbVars, fifo, pending, workVars>>

\* ... return the ready queue ...
ReturnReady(state) ==
    /\ Io("errorKill", "failed") /\ kill > urb_sub
    /\ buf_state' = [b \in Buffers |->
                        IF b \in Range(ready_queue) /\ buf_state[b] = "active"
                          THEN state ELSE buf_state[b]]
    /\ ready_queue' = <<>>
    /\ urb_sub' = 0 /\ kill' = 0
    /\ UNCHANGED <<client_ready, session, vbVars, frames, active_buf, payload,
                   camVars, urbVars, fifo, pending, workVars>>

\* Faulty: the guard bit stays set.
ErrorDrain_KeepsActive == ReturnReady("queued") /\ UNCHANGED hw_active

\* Faulty: as up_stop_streaming returns them, with ERROR.
ErrorDrain_AsError == ReturnReady("done") /\ hw_active' = FALSE

\* ... as QUEUED, and clear STREAM_HW_ACTIVE.
ErrorDrain == ReturnReady("queued") /\ hw_active' = FALSE

-----------------------------------------------------------------------------
(***************************************************************************)
(* up_stop_streaming.                                                      *)
(***************************************************************************)

\* STREAM_HW_ACTIVE off, and the camera told to stop; whether it does is not asked.
StopVideo ==
    /\ Io("stop", "stopReady")
    /\ hw_active' = FALSE
    /\ camera' \in {FALSE, camera}
    /\ UNCHANGED <<client_ready, urb_sub, kill, session, vbVars, bufVars,
                   next_unit, urbVars, fifo, pending, workVars>>

StopReady ==
    /\ Io("stopReady", "stopKill")
    /\ client_ready' = FALSE
    /\ kill' = 1
    /\ UNCHANGED <<hw_active, urb_sub, session, vbVars, bufVars, camVars,
                   urbVars, fifo, pending, workVars>>

killBound == IF io = "stopKill" THEN NumUrbs ELSE urb_sub

\* usb_kill_urb waits for the URB's completion handler.
KillUrb ==
    /\ io \in {"stopKill", "errorKill"} /\ kill <= killBound
    /\ cb.urb # kill
    /\ in_flight' = in_flight \ {kill}
    /\ kill' = kill + 1
    /\ UNCHANGED <<hw_active, client_ready, io, urb_sub, session, vbVars,
                   bufVars, camVars, cb, fifo, pending, workVars>>

\* cancel_work_sync: unqueue the work, then wait for it.
StopCancel ==
    /\ Io("stopKill", "stopFlush") /\ kill > NumUrbs
    /\ kill' = 0
    /\ pending' = FALSE
    /\ UNCHANGED <<hw_active, client_ready, urb_sub, session, vbVars,
                   bufVars, camVars, urbVars, fifo, workVars>>

\* What up_stop_streaming does once the worker is gone.
StopReturnBuffers ==
    LET mine == {b \in Range(ready_queue) \cup {active_buf} : b # None} IN
    /\ fifo' = <<>>
    /\ dec' = [building |-> FALSE, frame |-> dec.frame, soi |-> FALSE, eof |-> FALSE]
    /\ buf_state' = [b \in Buffers |->
                        IF b \in mine /\ buf_state[b] = "active"
                          THEN "done" ELSE buf_state[b]]
    /\ active_buf' = None
    /\ payload' = IF active_buf = None THEN payload ELSE <<>>
    /\ ready_queue' = <<>>
    /\ UNCHANGED <<hw_active, client_ready, urb_sub, kill, session, vbVars,
                   frames, camVars, urbVars, pending, work, workspace, buf, loc,
                   cur, pkt>>

\* Faulty: does not wait for a worker that is running.
StopFlush_NoWait == Io("stopFlush", "stopped") /\ StopReturnBuffers

StopFlush ==
    /\ Io("stopFlush", "stopped")
    /\ work = "idle"
    /\ StopReturnBuffers

Ioctl ==
    \/ \E b \in Buffers : Qbuf(b) \/ Dqbuf(b)
    \/ Streamon
    \/ Streamoff

StartStop ==
    \/ StartFailed \/ StopReturned
    \/ StartReset \/ SetupHardware \/ StartReady \/ SubmitUrb \/ StartDone
    \/ ErrorReady \/ ErrorDrain \/ KillUrb
    \/ StopVideo \/ StopReady \/ StopCancel \/ StopFlush

-----------------------------------------------------------------------------
(***************************************************************************)
(* up_read_bulk_callback.  Completions of one endpoint are handled one at  *)
(* a time, and the data of each follows that of the one before; which URB  *)
(* it was in is left open.                                                 *)
(***************************************************************************)
CbAt(at) == cb' = [at |-> at, urb |-> cb.urb, unit |-> <<>>]

\* A transfer ends: with a unit of data; with a transient error (EPROTO, EILSEQ,
\* ECOMM) that loses it, and the URB is submitted again; or with a fatal one
\* (EPIPE, unknown), and the URB is never submitted again.  The handler does
\* nothing unless STREAM_CLIENT_READY.
Complete ==
    /\ cb = Idle
    /\ camera /\ next_unit <= Len(Script)
    /\ next_unit' = next_unit + 1
    /\ \E u \in in_flight :
        /\ in_flight' = in_flight \ {u}
        /\ cb' \in IF client_ready
                     THEN {[at |-> "push", urb |-> u, unit |-> <<session, next_unit>>],
                           [at |-> "resubmit", urb |-> u, unit |-> <<>>], Idle}
                     ELSE {Idle}
    /\ UNCHANGED <<client_ready, ioVars, vbVars, bufVars, camera, fifo, pending,
                   workVars>>

\* Faulty: the room in the kfifo is not tested.
CbPush_Unchecked ==
    /\ cb.at = "push"
    /\ fifo' = Append(fifo, cb.unit)
    /\ CbAt("queue")
    /\ UNCHANGED <<client_ready, ioVars, vbVars, bufVars, camVars, in_flight,
                   pending, workVars>>

\* kfifo_in if the whole transfer fits, else it is dropped.
CbPush ==
    /\ cb.at = "push"
    /\ fifo' = IF Len(fifo) < FifoSize THEN Append(fifo, cb.unit) ELSE fifo
    /\ CbAt("queue")
    /\ UNCHANGED <<client_ready, ioVars, vbVars, bufVars, camVars, in_flight,
                   pending, workVars>>

\* Faulty: leaves the new data to a worker that is already running.
CbQueueWork_IfIdle ==
    /\ cb.at = "queue"
    /\ pending' = (pending \/ work = "idle")
    /\ CbAt("resubmit")
    /\ UNCHANGED <<client_ready, ioVars, vbVars, bufVars, camVars, in_flight,
                   fifo, workVars>>

\* queue_work: nothing if it is already queued.
CbQueueWork ==
    /\ cb.at = "queue"
    /\ pending' = TRUE
    /\ CbAt("resubmit")
    /\ UNCHANGED <<client_ready, ioVars, vbVars, bufVars, camVars, in_flight,
                   fifo, workVars>>

\* The second test of STREAM_CLIENT_READY ...
CbRetest ==
    /\ cb.at = "resubmit"
    /\ IF client_ready THEN CbAt("submit") ELSE cb' = Idle
    /\ UNCHANGED <<client_ready, ioVars, vbVars, bufVars, camVars, in_flight,
                   fifo, pending, workVars>>

beingKilled == io \in {"stopKill", "errorKill"} /\ kill = cb.urb /\ kill <= killBound

\* ... and usb_submit_urb, which refuses a URB that is being killed, and may fail.
CbSubmit ==
    /\ cb.at = "submit"
    /\ \/ ~beingKilled /\ in_flight' = in_flight \cup {cb.urb}
       \/ UNCHANGED in_flight
    /\ cb' = Idle
    /\ UNCHANGED <<client_ready, ioVars, vbVars, bufVars, camVars, fifo, pending,
                   workVars>>

Callback == CbPush \/ CbQueueWork \/ CbRetest \/ CbSubmit

-----------------------------------------------------------------------------
(***************************************************************************)
(* up_work_handler.                                                        *)
(***************************************************************************)
Unit(i) == Script[buf[i][2]]

\* The work item starts: the queued mark is cleared first.
WorkStart ==
    /\ pending /\ work = "idle"
    /\ pending' = FALSE
    /\ work' = "fetch"
    /\ UNCHANGED <<client_ready, ioVars, vbVars, bufVars, camVars, urbVars, fifo,
                   workspace, buf, dec, loc, cur, pkt>>

\* kfifo_out as much as the workspace takes, and copy the decoder's flags.
WorkFetch ==
    /\ work = "fetch"
    /\ LET room == WorkspaceSize - Len(workspace)
           n == IF Len(fifo) < room THEN Len(fifo) ELSE room
       IN  /\ workspace' = workspace \o SubSeq(fifo, 1, n)
           /\ fifo' = SubSeq(fifo, n + 1, Len(fifo))
    /\ work' = IF workspace' = <<>> THEN "idle" ELSE "decode"
    /\ buf' = workspace'
    /\ loc' = IF workspace' = <<>> THEN loc ELSE dec
    /\ UNCHANGED <<client_ready, ioVars, vbVars, bufVars, camVars, urbVars,
                   pending, dec, cur, pkt>>

InDecode == work = "decode" /\ cur < Len(buf)

\* A unit without a header of its own is garbage the decoder seeks through; so is
\* a packet's beginning the decoder takes for a ghost because another header
\* follows too soon.
WorkSkip ==
    /\ InDecode
    /\ \/ Unit(cur + 1).part = "tail"
       \/ /\ Unit(cur + 1).part = "head" /\ cur + 2 <= Len(buf)
          /\ Unit(cur + 2).part # "tail"
    /\ cur' = cur + 1
    /\ UNCHANGED <<client_ready, ioVars, vbVars, bufVars, camVars, urbVars, fifo,
                   pending, work, workspace, buf, dec, loc, pkt>>

\* The units of the packet at the cursor: one, or two of a packet that was cut.  The
\* length alone decides, so the second may be any unit that follows.
PacketHere ==
    /\ InDecode
    /\ \/ Unit(cur + 1).part = "whole" /\ pkt' = 1
       \/ Unit(cur + 1).part = "head" /\ cur + 2 <= Len(buf) /\ pkt' = 2

\* vb2_buffer_done on the active buffer, and the active buffer is gone.
DoneState(b) == [buf_state EXCEPT ![b] = IF @ = "active" THEN "done" ELSE @]
DoneFrame(b, f) == [frames EXCEPT ![b] = IF buf_state[b] = "active" THEN f ELSE @]

NewFrame == ~loc.building \/ loc.frame # Unit(cur + 1).frame

\* on_video_frame_start takes the next ready buffer, if there is one.
TakeReady ==
    \/ /\ ready_queue # <<>>
       /\ active_buf' = Head(ready_queue)
       /\ ready_queue' = Tail(ready_queue)
    \/ /\ ready_queue = <<>>
       /\ active_buf' = None
       /\ UNCHANGED ready_queue

\* Faulty: the buffer still being filled is forgotten.
StartFrame_LosesBuffer ==
    /\ UNCHANGED <<buf_state, frames>>
    /\ TakeReady

\* on_video_frame_incomplete and on_video_frame_start: a buffer still being filled
\* is returned as ERROR before the next one is taken.
StartFrame ==
    /\ \/ /\ active_buf # None
          /\ buf_state' = DoneState(active_buf)
          /\ frames' = DoneFrame(active_buf, NoFrame)
       \/ /\ active_buf = None
          /\ UNCHANGED <<buf_state, frames>>
    /\ TakeReady

WorkBoundary ==
    /\ PacketHere
    /\ work' = "payload"
    /\ \/ /\ ~NewFrame
          /\ UNCHANGED <<loc, bufVars>>
       \/ /\ NewFrame
          /\ loc' = [building |-> TRUE, frame |-> Unit(cur + 1).frame,
                     soi |-> FALSE, eof |-> FALSE]
          /\ payload' = <<>>
          /\ StartFrame
    /\ UNCHANGED <<client_ready, ioVars, vbVars, camVars, urbVars, fifo, pending,
                   workspace, buf, dec, cur>>

pktUnits == SubSeq(buf, cur + 1, cur + pkt)

\* Whether the packet's data holds the end of image.  A piece of another packet in
\* place of a lost second part may be cut before its own.
pktEois  == IF pkt = 2 /\ buf[cur + 2] # <<buf[cur + 1][1], buf[cur + 1][2] + 1>>
              THEN {Unit(cur + 2).eoi, FALSE}
              ELSE {Unit(cur + pkt).eoi}

\* The frame is over, or has not begun: the packet is passed over.
Passed == loc.eof \/ (~loc.soi /\ ~Unit(cur + 1).soi)

WorkPass ==
    /\ work = "payload" /\ Passed
    /\ work' = "decode"
    /\ cur' = cur + pkt
    /\ UNCHANGED <<client_ready, ioVars, vbVars, bufVars, camVars, urbVars, fifo,
                   pending, workspace, buf, dec, loc, pkt>>

\* on_video_frame_fragment, then on_video_frame_complete at the end of the image.
WorkPayload ==
    /\ work = "payload" /\ ~Passed
    /\ work' = "decode"
    /\ cur' = cur + pkt
    /\ \E eoi \in pktEois :
        /\ loc' = [building |-> loc.building, frame |-> loc.frame, soi |-> TRUE,
                   eof |-> eoi]
        /\ \/ /\ active_buf = None
              /\ UNCHANGED <<buf_state, frames, active_buf, payload>>
           \/ /\ active_buf # None              \* it does not fit: ERROR
              /\ Len(payload) + pkt > FrameSize
              /\ buf_state' = DoneState(active_buf)
              /\ frames' = DoneFrame(active_buf, NoFrame)
              /\ active_buf' = None
              /\ payload' = <<>>
           \/ /\ active_buf # None              \* it fits, more to come
              /\ Len(payload) + pkt <= FrameSize
              /\ ~eoi
              /\ payload' = payload \o pktUnits
              /\ UNCHANGED <<buf_state, frames, active_buf>>
           \/ /\ active_buf # None              \* it fits and ends the frame: DONE
              /\ Len(payload) + pkt <= FrameSize
              /\ eoi
              /\ buf_state' = DoneState(active_buf)
              /\ frames' = DoneFrame(active_buf,
                                    [ok |-> TRUE, units |-> payload \o pktUnits])
              /\ active_buf' = None
              /\ payload' = <<>>
    /\ UNCHANGED <<client_ready, ioVars, vbVars, ready_queue, camVars, urbVars,
                   fifo, pending, workspace, buf, dec, pkt>>

\* The decoder returns: its flags are written back, and the residual, up to the
\* workspace_len of now, is moved to the front.  Its own variables are gone.
FinishWork ==
    /\ work = "decode"
    /\ work' = "idle"
    /\ dec' = loc
    /\ workspace' = SubSeq(workspace, cur + 1, Len(workspace))
    /\ buf' = <<>> /\ loc' = FreshDec /\ cur' = 0 /\ pkt' = 0
    /\ UNCHANGED <<client_ready, ioVars, vbVars, bufVars, camVars, urbVars, fifo,
                   pending>>

\* Faulty: waits for the rest of a packet that was cut.
WorkReturn_AwaitsRest == cur = Len(buf) /\ FinishWork

\* It returns at the end, or at a packet that is not complete.
WorkReturn ==
    /\ \/ cur = Len(buf)
       \/ cur + 1 = Len(buf) /\ Unit(cur + 1).part = "head"
    /\ FinishWork

Worker ==
    \/ WorkStart \/ WorkFetch \/ WorkSkip \/ WorkBoundary
    \/ WorkPass \/ WorkPayload \/ WorkReturn

-----------------------------------------------------------------------------
Next == Ioctl \/ StartStop \/ Complete \/ Callback \/ Worker

Spec == Init /\ [][Next]_vars

\* Of the ioctl thread, the completion handler and the kworker, one that can run does.
\* Callers owe the driver nothing, nor does the camera.
FairSpec == Spec /\ WF_vars(StartStop \/ Callback \/ Worker)

-----------------------------------------------------------------------------
Units == (1 .. MaxSession) \X (1 .. Len(Script))
Flags == [building : BOOLEAN, frame : -1 .. 255, soi : BOOLEAN, eof : BOOLEAN]

\* Type correctness.  The kfifo, the workspace and the buffer being filled never
\* hold more than their size (the bounds tests of lines 863, 901 and 986).
TypeOK ==
    /\ {hw_active, client_ready, streaming, camera, pending} \subseteq BOOLEAN
    /\ io \in {"idle", "start", "setup", "ready", "submit", "error", "errorKill",
              "failed", "stop", "stopReady", "stopKill", "stopFlush", "stopped"}
    /\ urb_sub \in 0 .. NumUrbs /\ kill \in 0 .. NumUrbs + 1
    /\ queued_list \in Seq(Buffers) /\ ready_queue \in Seq(Buffers)
    /\ buf_state \in [Buffers -> {"user", "queued", "active", "done"}]
    /\ frames \in [Buffers -> [ok : BOOLEAN, units : Seq(Units)]]
    /\ active_buf \in Buffers \cup {None}
    /\ payload \in Seq(Units) /\ Len(payload) <= FrameSize
    /\ session \in 0 .. MaxSession /\ next_unit \in 1 .. Len(Script) + 1
    /\ in_flight \subseteq Urbs
    /\ cb \in [at : {"idle", "push", "queue", "resubmit", "submit"},
              urb : 0 .. NumUrbs, unit : Units \cup {<<>>}]
    /\ fifo \in Seq(Units) /\ Len(fifo) <= FifoSize
    /\ work \in {"idle", "fetch", "decode", "payload"}
    /\ {workspace, buf} \subseteq Seq(Units) /\ Len(workspace) <= WorkspaceSize
    /\ dec \in Flags /\ loc \in Flags
    /\ cur \in 0 .. Len(buf) /\ pkt \in 0 .. 2

\* A buffer the driver was given is in exactly one place, once: in the ready queue or
\* being filled; a buffer it has given back is in neither.  (up_buf_queue,
\* up_on_frame_start and the vb2_buffer_done calls of three threads.)
OwnershipExact ==
    LET held == ready_queue \o (IF active_buf = None THEN <<>> ELSE <<active_buf>>)
    IN  /\ IsInjective(held)
        /\ Range(held) = {b \in Buffers : buf_state[b] = "active"}

\* When up_stop_streaming returns nothing of the driver moves any more: no URB is
\* submitted, no completion handler or worker runs or will run, no data is left
\* and every buffer has been given back.
StopQuiesces ==
    io = "stopped" =>
        /\ in_flight = {} /\ cb = Idle
        /\ ~pending /\ work = "idle"
        /\ fifo = <<>>
        /\ ready_queue = <<>> /\ active_buf = None
        /\ \A b \in Buffers : buf_state[b] # "active"

\* A buffer returned as DONE holds packets of the session it was queued in, in the
\* order the camera sent them, from a start of image to an end of image, whatever
\* transfers were lost and wherever packets were cut.
FramesClean ==
    \A b \in {x \in Buffers : frames[x].ok} :
        LET u == frames[b].units
            at(i) == Script[u[i][2]]
        IN  /\ u # <<>> /\ at(1).soi /\ at(Len(u)).eoi
            /\ \A i \in 1 .. Len(u) : u[i][1] = session
            /\ \A i \in 1 .. Len(u) - 1 : u[i][2] < u[i + 1][2]

\* Data in the kfifo of a running stream has a worker coming for it: queue_work does
\* nothing when the work is queued already, and that is never too little.
NoLostWork ==
    io = "idle" /\ streaming /\ fifo # <<>> =>
        pending \/ work = "fetch" \/ cb.at = "queue"

\* The early return of up_start_streaming at line 445, which would report a stream
\* that has not been started, is never taken: every way out of an earlier stream,
\* the failed start included, has cleared STREAM_HW_ACTIVE.
StartNeverSkipped == io = "start" => ~hw_active

\* STREAMON and STREAMOFF return, whatever the completion handlers and the worker
\* are doing when they are called and whether or not the camera plays on.
CallsReturn == io # "idle" ~> io = "idle"

\* error_start returns the buffers "to userspace per V4L2 spec" (lines 537-539):
\* none is the driver's when up_start_streaming fails.
FailedStartReturnsBuffers ==
    io = "failed" => \A b \in Buffers : buf_state[b] # "active"

\* To the application the driver is a capture device as CaptureQueue has it: a buffer
\* goes round between the two, through a failed start and a stop as well.  That the calls
\* return is CallsReturn.
Capture == INSTANCE CaptureQueue WITH
    phase <- IF io = "idle" THEN IF streaming THEN "on" ELSE "off"
             ELSE IF io \in {"stop", "stopReady", "stopKill", "stopFlush", "stopped"}
               THEN "stopping" ELSE "starting",
    owner <- [b \in Buffers |-> IF buf_state[b] \in {"queued", "active"} THEN "device"
                                ELSE buf_state[b]],
    good  <- {b \in Buffers : frames[b].ok}

ImplementsCaptureQueue == Capture!Safety
=============================================================================
