# A verification development for useeplus

TLA+ models of the useeplus borescope software, the TLC configurations that check
them on small instances, and TLAPS proofs of the properties that hold for every
instance.

## The system

An endoscope camera sends JPEG frames over a USB bulk endpoint in a private
packet format. The repository turns that into video in two ways:

* **User space** (`src/`, `include/useeplus/`): `LibusbVideoSource` keeps four
  libusb transfers in flight in a worker thread; each completed transfer is
  handed to `UseeplusVideoStream::send`, which decodes it and writes frames into
  a single-producer single-consumer ring (`Disruptor`); `MjpegServer` polls the
  ring with a timer in its network thread and writes each frame to the viewers.
* **Kernel** (`driver/`): a V4L2 driver does the same with URBs, a kfifo, a work
  item that decodes, and vb2 buffers; `v4l2_server` reads `/dev/videoN` and
  writes into the same ring.

Both share one decoder, `driver/useeplus_protocol.c`.

| component | state it keeps | operations | interacts through | what is hard | what makes it correct |
|---|---|---|---|---|---|
| Disruptor | published, consumer and producer sequences, the producer's cached copy, the slots | claim, tryClaim, publish, waitFor, markConsumed | atomics read by the other thread, plain slots | stale cached sequence, wrap, sleep against publish | FIFO, nothing lost or overwritten, slots exclusive, no lost wakeup, claim returns |
| Decoder | building_frame, frame_id, found_soi, eof_reached; the caller's buffer | up_decode_bulk | four callbacks | packets cut anywhere, stale memory that looks like packets, absurd lengths | cursor in bounds, bounded residual, callback grammar, result independent of the cuts, termination |
| Kernel streaming | two stream bits, ready queue, active buffer, kfifo, workspace, decoder flags, URBs | start, stop, buf_queue, URB completion, work handler | vb2, USB core, workqueue | four contexts at once, failure half-way through start, stop against everything | every buffer in one place, stop leaves nothing moving, frames clean, data always has a worker, calls return |
| Kernel probe / disconnect / S_FMT / sleep | resources acquired, references, open files, format | up_probe, up_disconnect, up_s_fmt_vid_cap, open, release, up_device_release, up_suspend, up_resume | USB core, v4l2 core | unwinding of any stage, unplugging in the middle of an ioctl, a file open after the camera is gone, a camera that forgets its mode while the system sleeps | who runs has what it uses, no URB killed and freed is still in flight, nothing left behind, the camera streams what G_FMT says |
| V4L2 user space | device file, mappings, the dequeued buffer | V4l2Device, V4l2VideoSource::loop, v4l2_server's handler | V4L2 ioctls, mapped memory, ring, `running` | memory shared with the kernel, buffers that must come back, order of shutdown, unplugging | frames copied whole and once, buffers conserved, nothing read after unmapping, the program ends |
| UseeplusVideoStream | input buffer with its read offset, frameActive_, current claim, the slots it fills | send and four callbacks | decoder below, ring above | incomplete frames own a claimed slot; slots are reused without being shrunk; the buffer is compacted only now and then | every claim is published once, a slot holds one whole picture or nothing, the buffer is never reallocated |
| MjpegServer | viewers, listen socket, read position | onTimer, /stream, onAborted, start, destructor | ring, uWebSockets loop, `running` | eviction, aborts, responses at an address that was used before, failed bind, shutdown | each viewer sees frames in order; the ring is always drained |
| LibusbVideoSource | active transfer count, transfer pool | start, loop, callback, drain, stop | libusb events, `running` | resubmission against cancellation | drain ends, no callback after free |
| libusb_server, v4l2_server (main) | `running` | options, choice of a camera, main, signal handler | all of the above | order of shutdown, one worker failing, a prompt that waits while cameras come and go | a signal ends the program |
| UsbCamera | the device handle; on the camera's side its interfaces, alternate setting and mode | listCameras, constructor, read, haltHardware, destructor | libusb, the kernel driver, other programs | two programs and the driver after one camera, a constructor that throws half-way, a camera replaced while the user decides | who commands a camera has it alone, other cameras are left alone, the camera goes back to the driver |
| Resolutions (`camera_resolution.hpp`, the driver's table) | none | ENUM_FRAMESIZES, S_FMT, the request sent to the camera | both sides send the same request | two tables kept by hand | a size that is listed is taken for itself, both sides send the same mode |
| UsbContext, UsbDeviceFinder, UsbDeviceList | none that lasts | wrappers of libusb's context and device list, and a search | nobody: no program uses them | | not modelled |
| HTTP response builder, page, constants; benchmarks, tools, build files | none | formatting | | | not modelled |

## The modules

| module | models | EXTENDS / composes |
|---|---|---|
| `BoundedChannel` | what the ring promises: a FIFO with a bound on what is outstanding | |
| `Disruptor` | `include/useeplus/disruptor.hpp` with the producer of `useeplus_video_stream.cpp` and the consumer of `mjpeg_server.cpp` | implements `BoundedChannel` |
| `DisruptorProofs` | theorems | `Disruptor` |
| `MCDisruptor` | two items, two slots, six sequences | `Disruptor` |
| `UpDecoder` | `driver/useeplus_protocol.c` and the buffer its callers keep | |
| `UseeplusVideoStream` | `useeplus_video_stream.cpp` and `video_frame_fragment.hpp`: send, the callbacks, the slots | extends `UpDecoder`, implements `PictureAssembly` |
| `PictureAssembly` | what the readers of the ring are promised of its pictures: one for each frame that is over, of that frame's fragments and nothing else | |
| `CameraStream` | what a stream of packets is, and what the decoder promises of one: the reading of its packets, one after the other | extends `UpDecoder` |
| `UpDecoderProofs` | theorems about `UpDecoder`, `CameraStream` and `UseeplusVideoStream` | `UseeplusVideoStream`, `CameraStream` |
| `MCUpDecoder` | streams made from packets, and a second reading of those packets to compare with | `UseeplusVideoStream`, `CameraStream` |
| `CaptureQueue` | what a capture device promises its application: buffers go round, calls return | |
| `UpStream` | `driver/useeplus_core.c`, streaming | implements `CaptureQueue` |
| `UpStreamProofs` | theorems | `UpStream` |
| `MCUpStream` | the camera's scripts | `UpStream` |
| `UpFormat` | the sizes and modes of the driver and of user space, and the request that sets one | |
| `UpLifecycle` | `driver/useeplus_core.c`: probe, disconnect, files, formats, sleep, and what they do to a stream | extends `UpFormat`, abstracts the sessions of `UpStream` |
| `UpLifecycleProofs` | theorems, those about `UpFormat` too | `UpLifecycle` |
| `UsbCamera` | `usb_camera.cpp`, options and choice in `apps/libusb_server.cpp`, beside the kernel driver | what a program does with the camera is `LibusbServer` |
| `UsbCameraProofs` | theorems | `UsbCamera` |
| `LibusbServer` | `apps/libusb_server.cpp`, `libusb_video_source.cpp`, the callbacks of `useeplus_video_stream.cpp`, start and stop of `mjpeg_server.cpp` | uses what `UpDecoder` and `Disruptor` promise |
| `LibusbServerProofs` | theorems | `LibusbServer` |
| `MjpegServer` | the viewers of `mjpeg_server.cpp` | uses what `Disruptor` promises |
| `MjpegServerProofs` | theorems | `MjpegServer` |
| `MCMjpegServer` | the symmetry of addresses | `MjpegServer` |
| `V4l2Server` | `apps/v4l2_server.cpp`, `v4l2_video_source.cpp`, `v4l2_device.cpp` | instantiates `CaptureQueue`, uses what `Disruptor` promises |
| `V4l2ServerProofs` | theorems | `V4l2Server` |

The two chains meet in their contracts: `Disruptor` implements `BoundedChannel`, whose
bound is the guard of `claim` in both servers; `UpStream` implements `CaptureQueue`,
whose actions are the device of `V4l2Server`. The two chains contend for the camera itself
in `UsbCamera`, where either of them is one holder of its interfaces.

A definition whose comment begins with "Faulty" is no part of a model: it is what a
plausible slip in the code would make of the definition after it, and a property that
would not notice it would not be worth stating.

### Disruptor

A step is one access to memory the other thread also touches. The two `Sequence`
objects each have one writer and are stored with release and loaded with acquire,
so interleaving whole steps is sound; the slots are plain memory, and
`SlotNeverShared` is what makes interleaving sound for them: it says that there is
no data race. The clearing and the filling of a slot are two steps, so a reader in
between would be seen. `waitFor` under `BlockingWaitStrategy` is two steps, the load
and the `atomic::wait` that compares again, with the sleep a state of its own.
`claim` loads the consumer's sequence once per step and may spin for ever.
`MaxSequence` bounds how often the producer claims; `Finished` is the only state in
which the bounded model stops, so a deadlock anywhere else would be reported.

### UpDecoder

The state is the caller's buffer, the cursor and the four decoder fields. `Deliver`
appends a chunk of any length (both callers do, the kernel through its kfifo), one
action per outcome of a turn of the loop follows, `KeepResidual` drops what was
consumed. `events` records the callbacks. Fields of several bytes are one byte:
delimiter, device id and their checks are the byte `DEL`; device number and flags
are one byte with three classes of value. The bytes are otherwise arbitrary
numbers: the proofs are about every stream.

`CameraStream` knows a stream by the positions where its packets begin (`Packets`).
`WellPackedStreams` says which streams those are: a packet has a length the decoder
accepts, is in the stream entire, and holds no header within the look-ahead for ghosts
(see "Where the code and its comments disagree"); a stale header outside of the packets
reaches into none of them, and if its length could be that of a packet, another header
follows in time to give it away. `ReadUpTo` reads one packet after the other, without
chunks, buffer or cursor, and `ChunkingInvisible` says that the callbacks made for a stream
are those of this reading.

`MCUpDecoder` builds streams from video packets of two frames, padding, stale
headers with and without an absurd length, and headers too short for a fragment. TLC
evaluates two assumptions of it: the streams are well packed (`StreamsArePackets`), and
`ReadUpTo` reads their bytes as `Assemble` reads the script they were made from
(`ReadAsRuns`), frame by frame, which has been written without a look at the decoder's
state. They make the hypothesis of the theorem one that the streams of the run satisfy.

### UseeplusVideoStream

Every step of `UpDecoder` with what `UseeplusVideoStream` does with the events it adds. A
slot is its storage and the number of bytes that count (`VideoFrameFragment`): `clear` sets
the number to 0 and leaves the bytes, `insertContent` overwrites them and makes the storage
longer when it has to. `buf` of `UpDecoder` is `inputBuffer_` from `readOffset` on;
`SendReturns` moves the offset and erases only when all is consumed or the consumed part
has grown beyond `FOUR_KILOBYTES`. The slot of a frame that is interrupted is cleared and
published. The run uses a ring of one slot, so that every frame finds what the one
before left. The wait of `claim` for readers is in `Disruptor` and `LibusbServer`.

`PictureAssembly` has neither slots nor storage: its picture grows by the fragments of the
frame that is open, is shown when the frame is complete, and an empty one is shown when
another frame interrupts it. In the mapping a picture is what counts of the claimed slot
while `frameActive_` is set. A step of the decoder is one of its steps though it may make
two callbacks (`incomplete` and `start`, the last fragment and `complete`). That the first
branch of `onFrameStart`, a frame that starts while one is active, is never taken is part
of the refinement: `PictureAssembly` has no such step.

### UpStream

Four contexts: the ioctl thread (`io` is its program counter; vb2 and the device
lock allow one call at a time), one URB completion at a time (`cb`), the worker
(`work`, with its local copy `loc` of the decoder's flags, its cursor and the bytes
`buf` it was given), and the camera. Each test of a stream bit, each queue operation
and each call of a decoder callback is a step of its own, because another context
may come between. A unit of data is a bulk transfer: a whole packet or one half of
a packet that was cut; the decoder here is the outcome of `UpDecoder` on such
units. When a transfer is lost the half before it is followed by something else,
which the decoder may take for a ghost or for the rest: both are steps.

vb2, the workqueue and the USB core are not in the repository and are modelled from
what the driver relies on: `usb_kill_urb` refuses resubmission and waits for the
handler, `cancel_work_sync` unqueues and waits, a buffer given back twice is ignored
(`vb2_buffer_done` warns and returns), a failed start makes vb2 take back what the
driver kept. `urb_sub` starts with any value, since it is not initialised.
`up_stop_streaming` does not look at whether the camera could be told to stop, so it may
go on sending. Left out: `pipeline.sequence`, timestamps, the debug counters, STREAMON
with too few buffers (vb2 then starts from a later QBUF, the same call in the same
context).

Seen from outside (`ImplementsCaptureQueue`) the phase is where the ioctl thread is, a
buffer the driver has been given is the device's whether vb2 calls it queued or active,
and a buffer is good when it was returned as DONE. Every step of the driver is then a
step of `CaptureQueue` or none: in particular a buffer never changes between its
completion and its DQBUF, and a failed start leaves the buffers where they were.

### UpLifecycle

The interface thread (`itf`: probing, one state per label of the unwinding, bound, one
state per stage of `up_disconnect`), the ioctl thread (`io`), one completion handler
(`cb`), the worker, and the camera's plug. `held` is what is allocated, claimed or
registered, `urb` and `urb_buf` the two arrays, `v4l2_refs` the references to
`v4l2_dev`. `up_disconnect` does not take the lock that serialises the ioctls, so each
of its calls interleaves with each step of a STREAMON, STREAMOFF or close in progress.
A URB is "live", "freed" or NULL: `usb_free_urb` and the NULLing of its slot are two steps
(`DiscFree`), and STREAMON, its error path and STREAMOFF read the slot in one step and use
the pointer in another (`ReadToSubmit` and `Submit`, `ReadToKill` and `KillUrb`, with
`io_urb` for what was read), because the two threads have no lock in common. `io_urb` may so
be a URB that has been freed; submitting it does the bookkeeping of a submission, killing
it may do that of a kill or nothing. `up_v4l2_release` takes no lock either: a file that
does not own the queue is closed while a call of another is in progress, and only a close
that has a stream to stop, or buffers to free, comes between calls of its own file.
S_FMT records size and index before it asks the camera; what the camera really does is
`committed`.

The driver may be unbound from a camera that is still attached, through sysfs or by
`libusb_detach_kernel_driver` (`usb_camera.cpp:29`), which takes the iAP interface first
(`DetachIap`; `up_disconnect` ignores it) and then the video interface (`Disconnect`). The
endpoints are disabled before `up_disconnect` runs, but a STREAMON that chooses the
alternate setting meanwhile enables them again. `late` records that a URB has been
submitted after `up_free_urbs` had killed it. After that a completion handler may come at
any time, and find a workqueue that was destroyed, on which the work is queued or lost
(`CbQueue`).

Relied on, from outside the repository: the USB core disables the endpoints before it
calls disconnect and after it has returned (`DiscReset`), and enables them when an
alternate setting is chosen; a submission to a disabled endpoint, of a NULL URB or of one
that is being killed fails; `usb_kill_urb` of NULL returns; while `cancel_work_sync` waits
the work cannot be queued; `video_unregister_device` stops new opens and ioctls and the
last close drops its reference; programs are frozen outside the driver before the system
sleeps, the USB core then ends every transfer, and a camera whose power was cut has
forgotten its mode (`Suspend`, `Resume`: the driver's own handlers do nothing). Left out:
several cameras, which share nothing; a reader in DQBUF, which is outside the device lock
and which unplugging does not wake.

### UpFormat

No state: the driver's table and its S_FMT as a function of the size asked for, the
user-space table, what `V4l2Device` keeps of what S_FMT and G_FMT report, and the request
each side sends, with the frame interval as its four bytes. `UpLifecycle` keeps the
driver's format with these operators; `UpLifecycleProofs` compares the two sides.

### UsbCamera

The holders of a camera's two interfaces are the kernel driver, as far as its `up_probe`
and `up_disconnect` take and give up interfaces (`Probed`, `DetachedFrom`), and any
number of programs. A program is a program counter with one value per call to libusb
that others may come between: listing, prompt, open, two detachments, two claims,
elevation, negotiation, stream, two releases, attachment, closing. Cameras are bus
addresses: one that is unplugged comes back at another, and a list that was read before
still names the old one. An exception in the constructor ends the program, since the
worker thread calls it outside its `try`; the destructor does not run, and the kernel
closes the handle and gives back what was claimed (`Throw`, `HandleCloses`). The module of
the driver may be loaded at any time; once loaded it is offered every camera without a
driver. libusb, the USB core and the camera are modelled from what the code relies on: a
claim succeeds exactly when nobody has the interface, an interface that loses its
holder falls back to alternate setting 0, calls on a camera that is gone fail. The
results of the authentication and start messages are not looked at by the code, so they
are not in the model. What a program does between the end of the constructor and the
destructor is `LibusbServer`; here it is one state, left by one step (`haltHardware`) that
may never come: a program may hang there for ever (`server_full_ring`). The properties of
this module do not rest on its coming, and the module states no liveness.

### V4l2Server

`main` constructs `V4l2Device` request by request (an exception at any of them ends the
program), starts the worker and the network thread, and on the signal joins the worker,
joins the network thread, and destroys the device. The worker's turn is `select`,
DQBUF, the handler, `claim`, a copy in two halves (`Copy` twice, so that a device that
wrote meanwhile would leave a frame of two halves), publish and QBUF. The device is
`CaptureQueue` with memory: `Fill` gives back a buffer with a new frame, or one that holds
`NoFrame`: one marked ERROR, or a good one of no bytes, for which the handler publishes
nothing. `select` ends with its timeout, a buffer, the loss of the
camera or a signal in that thread. After an unplugging DQBUF fails and the loop goes
round until the signal comes. `ParseOptions` is what precedes the device. Left out: failure
of `mmap` (the code does not unmap what it had mapped, and the process ends); the format
the driver returns is in `UpFormat`.

### LibusbServer

The whole user-space program at the grain at which its threads meet: `main` waits
for the network thread to start, for the flag and for the two joins (`main`); the
worker opens the camera, fills the pool, handles events, flushes, halts the camera,
cancels and drains (`src`), and runs the transfers' callback inside each call that
handles events (`cb`); the network thread ticks (`net`). `HandleEvents`, `Flush`,
`Halt` and `Drain` take any part of what has finished; the callbacks of that part
then run to their end before the worker goes on, as libusb runs them (`ready`, which
is a snapshot: a transfer resubmitted meanwhile belongs to a later call).
`haltHardware` is a synchronous transfer and so handles events too.

Two components appear as what is shown of them elsewhere. The decoder makes callbacks
in the order `EventGrammar` proves; the ring lets `claim` through when fewer than
`Capacity` frames are outstanding, as `RingImplementsChannel` proves. The C++ global
flag is one atomic. An exception that leaves the worker thread (the camera's
constructor is outside the `try`) ends the program: `main = "terminated"`.

Options and the choice of a camera are in `UsbCamera`. Left out: the counter of frames the
hardware dropped, which nothing reads, and the other pages of the HTTP server.

### MjpegServer

What the timer does with a batch, frame by frame and viewer by viewer. uWebSockets runs one
callback at a time, so only `Publish` and `Signal` come between the steps of a tick.
`viewers` is `activeViewers_` in its order, `open` the connections that uWebSockets still
has, and `write_offset` what is queued on each; a write leaves any amount up to `MaxQueued`.
The history variables `joined` and `got` say when a connection came and what it was sent.
`IdModulus` stands for 2^32, the range of `currentFrameId`, and is small so that the ids
wrap. A response's address may be that of an earlier connection as soon as that one has
gone, listed or not: `Stream` asks only for what the code does, room in the list, and
nothing is assumed of the allocator. What an open entry reads from a response that has been
freed (`getWriteOffset`) is any value. `maxOutgoing` is the constant 0 in the code: the
branch for lagging viewers runs only when it is larger, so both values are checked.

`UpToDate` leaves out frame 0 and the frames after a wrap, because line 85
compares with `<` and an entry starts with 0: no viewer is sent them.
`DeliveredInOrder` and `UpToDate` are about a connection that is the only one with an open
entry at its address: a second open entry, which `WatchersExact` would exclude and the
code does not, sends it every frame a second time.

## The runs

| run | instance | shows |
|---|---|---|
| `disruptor` | 2 slots, 6 sequences, 2 items, blocking wait | slots exclusive, no lost wakeup, implements the channel, claim returns |
| `decoder` | all scripts of 3 of 11 items, all cuts into chunks of up to 9 bytes, a ring of one slot, a reserve of 23 bytes | the cursor, the residual, the order of the callbacks, the callbacks that the packets call for whatever the cuts (the two assumptions of `MCUpDecoder` among them), the slots as `PictureAssembly`, every picture empty or framed by its markers; the input buffer stays within its reserve; decoding ends |
| `stream` | 2 buffers, 2 URBs, kfifo of 2, 2 sessions, 5 transfers; the setting up of the camera and the first submission may fail | the streaming invariants, that the driver is a `CaptureQueue`, that a stream can be started again and every call returns, while the camera, the transfers and the kfifo fail |
| `stream_failed_start` | 2 buffers, 2 URBs, 2 sessions, 2 transfers; every submission may fail | finding: a buffer not returned |
| `server` | 2 transfers, 1 flush, a ring of 1, 2 frames; opening, submitting, handling events and binding may fail, a signal and an unplugging come at any time | claims published, no partial frame shown, nothing freed that libusb has, the program ends |
| `server_full_ring` | the same, nothing fails | finding: a signal with the ring full never ends the program |
| `viewers` | 2 addresses that come back, 3 places, 4 frames, queue limits 0 and 1, ids modulo 3 | whoever watches has an open entry, order, no gap or marked as lagging |
| `viewers_address_reuse` | the same | finding: the wrong entry is marked as closed |
| `lifecycle` | 2 URBs, 2 files, one size asked for, every stage of probe may fail, the system sleeps, the camera is unplugged or the driver unbound at any time | who runs has what it uses, only a URB submitted behind the kill loop is freed in flight, nothing left behind, the format, disconnect returns |
| `lifecycle_unbind` | the same with 1 file | finding: a URB freed in flight |
| `v4l2_server` | 2 buffers, a ring of 1, 3 frames; the constructor, `select` and bind may fail, a signal and an unplugging come at any time | frames copied whole and once, buffers conserved, done buffers are taken, the program ends |
| `camera` | 2 programs, 2 addresses; the driver may be loaded, cameras plugged and unplugged and programs signalled at any time, every call may fail | a program commands a camera alone, no other camera is disturbed, the camera goes back to the driver |

Bounds. Six sequences wrap a ring of two slots three times; every relation between the five
positions occurs within two wraps. Three items per script are enough for a frame to be
begun, interrupted and followed, and every cut of the byte stream is tried, so every field
of every header is split somewhere; nine bytes are the longest packet with the first byte of
the next. The constants of the protocol are scaled with their order kept, and so are the
limit of compaction (2) and the reserve (23, the least `BuffersAssumption` allows). Two
sessions are needed for anything stale to do harm, two URBs for one completion to race the
kill of another, a kfifo of two for both coalescing and overflow. Two transfers let one be
called back while the other is cancelled; a ring of one is full after the first frame, and
the second is the one that waits. Four frames with ids modulo three reach a wrap. Three
places and two addresses are enough for one viewer to be evicted in front of another, for a
closed entry, an open one that was left behind and one of a live connection at the same
address, and for a connection to be refused; addresses are interchangeable (symmetry). Two
files let one close or set the format while the other streams, and two URBs let disconnect
be at one while the start is at the other. One size asked for, which is not the one at the
start, is enough for the format to change while a stream is to have the other; the
thresholds of S_FMT are proved for every size asked for (`UpLifecycleProofs`). Two programs
let one take the camera while the other is half-way, and two addresses let the camera of a
list be replaced by another. Three frames are one more than the buffers and two more than
the ring, so that a buffer goes round twice and `claim` waits.

What the bounds do not reach: a ring larger than two (proved instead), a decoder
buffer beyond 24 bytes (its safety is proved), more than two sessions of the driver,
more than two transfers or URBs (the code has four and sixteen; they differ only in
number), more than two of the four capture buffers, a third file.

Fairness. The ring's two threads and the driver's contexts are scheduled (weak fairness of
each thread as a whole; in `UpStream` only of the three contexts together: one that can run
does); neither the camera, nor the applications that queue buffers, nor the arrival of
chunks is assumed to go on; the thread in `send` is. Because a thread's fairness is that of
its whole next-step relation, a spinning `claim` satisfies it without making progress: that
it returns is a consequence of the consumer's steps. In `LibusbServer` main, the worker and
the network thread are each scheduled, and libusb ends every transfer it has, because each
is submitted with a timeout of a second; nothing is assumed of the signal, the unplugging,
the camera's data or which of the finished transfers one call finds. In `UpLifecycle` a
disconnect that has begun, the handler and the worker go on, and nothing else: nobody has to
unplug, open or close, and an ioctl may stop half-way. In `V4l2Server` the three threads run
and `select` comes back by its timeout; no frame has to come, and no signal has to reach the
worker's thread. `UsbCamera` and `MjpegServer` have no liveness.

Type correctness is proved for every component; only the run of `UpStream` checks it too,
whose types have bounds that could be wrong.

## Where the code and its comments disagree

Four disagreements have a run of their own. In each, TLC's counterexample is a
behaviour of the code:

* `stream_failed_start`: when a later URB cannot be submitted, the buffer the worker
  already took is not given back, and the worker is not cancelled. With such a submission
  failing, `OwnershipExact`, `StopQuiesces` and `FramesClean` no longer hold after
  the failed start, nor does `ImplementsCaptureQueue`: a frame completed during the
  failing start stays done, and the next STREAMON hands it to the driver again. That is
  why in `stream` only the first submission of a start may fail. With 2 transfers in the
  place of 5 TLC has checked the rest of that run (`StartNeverSkipped`, `CallsReturn`,
  `NoLostWork`, `TypeOK`) with every submission failing too.
* `server_full_ring`: a signal while the worker waits in `claim` for room. The timer
  sees the flag, closes itself without reading the ring, and `main` joins a thread
  that spins. `ShutdownEnds` says that this is the only way not to end, and `V4l2Server`
  has the same (`ClaimStuck`).
* `lifecycle_unbind`: the driver unbound while the camera is attached, as `UsbCamera` does
  when it takes a camera that is being started through V4L2 (`usb_camera.cpp:29`).
  `up_free_urbs` clears `STREAM_HW_ACTIVE` and kills the URBs while the video device is still
  registered, so that a STREAMON that comes then passes its test, enables the endpoints,
  and submits a URB that the loop has killed already. The URB is freed in flight;
  `useeplus_core.c:658` says "Ensure every callback is stopped and no new ones can be
  submitted". The same behaviour goes on to what `UsersHoldDevice` and `NothingLeftBehind`
  except for it (`~late`): the handler of that URB puts data in the kfifo and queues work on
  the workqueue after `destroy_workqueue`, and the worker and the transfer may outlast
  drv_data. `KilledBeforeFreed` says that there is no other way: whatever was in flight, or
  was resubmitted by its handler, when the loop came to it is stopped.
* `viewers_address_reuse`: `onAborted` marks the first entry of an address
  (`mjpeg_server.cpp:181`), which may be that of an earlier connection, closed and not yet
  erased; its own stays open. It is written to although the response has been freed, and
  when another connection gets the address, both entries send it each frame, so that it
  receives frames twice. An allocator that hands out a block again before the next
  frame is enough.

Four more can be had from the models by changing a constant or a fairness condition, or
by asking for them, and have no run:

* `up_start_streaming` kills URBs up to an uninitialised count when setting up the camera
  fails: `urb_sub` (`useeplus_core.c:438`) has not been assigned on the ways to `error_start`
  before the first submission, and line 532 says "Free any URBs that were successfully
  submitted before the failure". TLC refutes
  `[][io = "setup" /\ io' = "error" => urb_sub' = 0]_vars` of `UpStream`.
* STREAMON has read a URB's pointer, `up_disconnect` frees the URB, and STREAMON submits it
  (`useeplus_core.c:515`). A plain unplugging is enough, since the pointer is read before the
  submission can fail; and STREAMOFF or the error path of STREAMON may in the same way pass
  a freed URB to `usb_kill_urb` (`useeplus_core.c:391`, `:535`). TLC refutes
  `io = "submit" /\ io_urb # 0 => urb[io_urb] = "live"` of `UpLifecycle`.
* The look-ahead for ghosts is 512 bytes (`useeplus_protocol.c:119`), and documented as
  160 (`useeplus_protocol.c:70`, `docs/UseeplusProtocol.md:104`): genuine packets of 161
  to 512 bytes followed by another are dropped. `IsPacket` of `CameraStream` excludes them.
* The drain of `libusb_video_source.cpp:77` has no end while `running` is set and
  handling events has failed: the callbacks resubmit what is not yet cancelled.
  `constants.hpp:145` speaks of a grace period "before the video source thread forcibly
  exits". `ShutdownEnds` is about what happens once the flag is down.

Others were met while modelling and are visible as steps of the models:

* `useeplus_protocol.c:256` reports a frame that is interrupted by a new frame id as
  incomplete; `docs/UseeplusProtocol.md:93` has it delivered as a complete frame.
  `Opened` in `CameraStream` and `Assemble` in `MCUpDecoder` follow the code.
* `mjpeg_server.cpp:218` waits for the future and never gets it, so a failed bind is
  not noticed and `main` goes on to "System fully operational" (`Bind` with
  `BindMayFail`, `ServerStarted`).
* `libusb_video_source.cpp:168`: transfers whose resubmission fails are dropped for
  good, down to none, while the program runs on (`Resubmit`).
* `mjpeg_server.cpp:77` disconnects a viewer as soon as a byte is queued;
  `constants.hpp:202` speaks of dropping frames for it (`Evict`).
* `mjpeg_server.cpp:85`: frame 0 is sent to nobody (`SkipSent`).
* A constructor of `UsbCamera` that throws after it has detached the kernel driver leaves the
  camera without it (`Throw`): `usb_camera.cpp:97` ("Return control to the OS") is in the
  destructor, which does not run. `GivenBack` excepts a camera whose program died.
* `usb_camera.cpp:83` does not ask whether the authentication and the start command
  arrived; `usb_camera.hpp:25` says the constructor turns on the video feed
  (`Negotiate`).
* The prompt of `libusb_server` looks neither at the flag nor at the end of its input, at
  which it repeats itself for ever (`Choose`).
* TRY_FMT (`useeplus_core.c:149`) answers with the current format, not with the one that
  S_FMT would take.
* The driver sends the hint "keep the frame interval" (`useeplus_core.c:177`), `UsbCamera`
  sends 0 in its place: the only difference between the two requests
  (`SameModeEitherWay`). `getClosest` of `camera_resolution.hpp:20` ignores the
  height, which the driver looks at; no program calls it.
* `V4l2Device` asks for its format before it asks for buffers, and until then another file
  may set another (`SetFormat` asks only that nobody has buffers).
* After the system has slept nobody submits the URBs again (`Resume`): a stream that was
  on is silent until it is stopped and started.

## What is proved

`DisruptorProofs`, for any positive capacity, any items, either strategy:
`TypeCorrect`, `Ordered`, `SlotsExclusive`, `WakeupNeverLost`, and
`RingImplementsChannel`, the safety part of the refinement. The inductive invariant
adds to the order of the positions what each thread's program counter implies about
its snapshot and its claim; without the bound of `cachedConsumerSequence` by
`consumerSequence` a claim could not be shown to leave room, and without the link
between the counter and the snapshot `ReadSlot` could pass what is published. That
two sequences less than Capacity apart lie in different slots is the lemma
`SlotsDistinct`.

`UpDecoderProofs`, for every stream of numbers, any chunk length and all length
constants. Of the decoder:

* `TypeCorrect`, `CursorSafe`, `ResidualSafe`, `CallbacksGrammatical`. The invariant ties
  the flags to the last callback (a frame is being built exactly when there is one, its end
  was seen exactly when the last callback was complete).
* `ImagesFramed`, `ImagesMarked`: the image of a frame begins with SOI and ends with its
  first EOI. The invariant adds that a frame that has only begun has no SOI yet
  (`SoiAwaited`): without it the first fragment could be taken for a later one and not be
  cut. What one fragment is, a stretch of its packet cut at the first markers, is
  `FragmentPiece`.
* `FragmentsFromStream`: the fragments are stretches of the stream, in order and apart. The
  invariant says that the buffer is the stretch of the stream that ends with what has been
  delivered (`BufferInStream`), and that all fragments lie before the cursor, so that the
  next lies behind them (`Placed`). There is a witness for each state, not a variable, so
  this one is proved and not run.
* `TurnsRunOut`, an action property: each turn of the loop makes a natural number smaller.
  It is the part of `DecodeTerminates` that is about the code; what is left to TLC is that
  turns are taken.
* `ReadsPacketByPacket` and `CutsDoNotShow` (`ChunkingInvisible`), of streams made of packets
  (`WellPackedStreams`, the only hypothesis; a stream of other bytes may be read differently
  when it is cut differently, because what the look-ahead finds depends on what has
  arrived). The invariant has three parts. The cursor is never inside a packet
  (`AmongPackets`): a turn that rejects or skips moves at most to where the next packet
  begins, because stale headers do not reach further, and a turn at a packet takes it
  whole, because neither a ghost nor a bad length is found there. What the decoder has made
  of the stream is the reading of the packets before the cursor (`ReadsPackets`); between the
  boundary of a frame and its fragment it has also opened the packet at the cursor
  (`Opened`, and not yet `Shown`). And a decoder that waits has not been sent what it
  waits for (`Starved`), so that when all has been sent no packet is left (`NoneLeft`). That
  the positions without a packet, between one cursor and the next, add nothing to the
  reading is an induction over positions. It is done by the least counterexample
  (`EveryNumber`, from the library's facts about well-founded orders), not by the
  induction theorems, which take an operator as a parameter.

Of the video stream, in the same module: `StreamIsDecoder`, that each behaviour of it is one
of the decoder, so that all of the above holds of it; and

* `NeverReallocated`, `InputReserved`. The invariant `Parts` stands on the decoder's: at
  most `FOUR_KILOBYTES` of consumed bytes, a residual shorter than a packet, and a chunk.
  With the constants of the code this asks for chunks of at most 32 KB less 4 KB less a
  packet; the transfers are 16 KB or less.
* `VideoTypeCorrect`, and `StreamAssembles`, the refinement of `PictureAssembly`, for any
  number of slots. `TurnKinds` sorts the decoder's turns into the five things they may do
  to frames; one lemma for each callback says what becomes of the slot, on
  `InsertedContent`: the content of a slot grows by what is inserted, over whatever the
  storage holds. The invariant `SelfInv` has the size within the storage, and
  `frameActive_` set exactly while the decoder has a frame open, two flags of two modules
  that are never compared in the code.
* `PicturesFramed`, `PublishedFramed`: what is published is empty or begins with SOI and
  ends with EOI. The picture in progress has begun with SOI as soon as it has a fragment
  (`PictureBegun`).

`UpStreamProofs`, for any buffers, URBs, script, sizes and number of sessions:

* `GuardAlwaysClear`, whether or not submissions fail: `STREAM_HW_ACTIVE` is set only
  while a start is in progress or has succeeded (`GuardInv`).
* Likewise in either case `StreamTypeCorrect` (`TypeOK`): the kfifo, the workspace and the
  payload are never fuller than their sizes. The workspace needs that the decoder leaves
  at most the first part of a packet in it (`WorkTypes`).
* `WorkIsComing` (`NoLostWork`), in either case, for a workspace larger than the kfifo:
  whoever adds to the kfifo is about to queue the work or has queued it (`BacklogInv`),
  and the worker lets the work be queued again before it takes out all there is
  (`FetchTakesAll`).
* When no submission fails but the first of a start (`FailingSubmits \subseteq {0}`),
  `StopIsQuiet`, `BuffersOwned` and
  `DriverIsCaptureDevice`, the refinement of `CaptureQueue`. The invariant has two
  halves. `HaltInv` is the argument of `up_stop_streaming`: what it has stopped so far
  (`StopInv`: the URBs before `kill` are gone and no handler that could submit one of
  them is left) and that between streams, up to the first submission, nothing moves
  (`QuietInv`). It says nothing of
  buffers. `HeldInv` takes `OwnershipExact` apart; it needs of the other half that the
  ready queue is empty when STREAMON fills it, and of vb2's list, until the stream is
  started, that it holds each buffer once and none that is done (`QueuedInv`). The
  refinement adds that only a done buffer holds a frame (`FrameInv`).
* From the same assumption, `FramesAreClean` (`FramesClean`): a DONE buffer holds packets of
  its own session in the camera's order, from SOI to EOI. `OrderInv` says where the camera's
  units are: oldest first in the payload, the rest of the workspace, the kfifo and the URBs
  that have completed, all of this session. `DecodeInv` says what is in the payload: it
  begins with SOI unless it is empty, and has no end of a frame yet.
* The assumption is needed: TLC refutes all four when a later submission may fail. The URBs
  submitted before it may complete until they are killed, so that the driver may keep a
  buffer (run `stream_failed_start`), and error_start does not wait for the worker, which
  may still run when the next call comes and give a frame of the failed session back as
  DONE in the next one.
* What holds whatever submissions fail is `UrbsEndWithStream` (between streams no
  URB is in flight) and `StopAlwaysQuiets` (the stop of a started stream leaves nothing that
  moves). Their invariant, `DrainInv`, has in place of `QuietInv` what error_start is
  certain of: the URBs in flight while a start goes on are numbered up to `urb_sub`, and up
  to there it kills them (`StartInv`). Of the worker it says something only at the end of a
  stop (`StoppedInv`).
* A stop also heals. When the STREAMOFF of a started stream returns, everything the four
  theorems rest on holds again (`StopRestores`; `Restored` is the conjunction of their
  invariants), and it lasts until another submission fails behind one that succeeded
  (`RestoredServes`). Only the order of the units in the workspace is not restored by the
  stop itself: what an unfinished start has mixed there may stay until the next start resets
  it, and nobody reads it until then (`IsBetween`). The proofs of the four theorems use
  their assumption only in the form that no step is such a failing submission
  (`SubmissionFails`), so that they serve here again.
* `ActivitiesRunOut`, an action property, in either case: a call, a completion handler and a
  run of the worker each have a natural number of steps left, which their own steps make
  smaller and nobody else's change. For the worker it is the buffer: what arrives meanwhile
  is for the next run. This is the part of `CallsReturn` that is about the code's loops.

`LibusbServerProofs`, for any number of transfers, flushes and frames, any capacity and
whatever may fail: `ServerTypeCorrect`, `EveryClaimPublished`, `NoPartPublished`,
`NothingFreedInUse`. The two about slots need that a slot is
claimed exactly while the decoder builds a frame and
`claim` has returned (`FrameOpen`). The last needs that `activeTransfers` is exactly
the number of transfers that are submitted, or finished and not called back, the one
whose callback runs not among them (`PoolInv`), and that a call that handles events
never calls back a transfer twice (`ready`): then a count of zero means that libusb
has nothing. The steps that count up, down or not at all are three lemmas. Two more results
lean on the same invariant: `EndsClean`, that nothing is left when the source has ended and
that main() returns after both threads; and `RingNeverOverrun`, below.

`UpLifecycleProofs`, for any number of URBs, any files and any sizes asked for, whether the
camera is unplugged or the driver unbound from it: `LifecycleTypeCorrect`,
`DeviceOutlivesUsers`, `UrbsFreedWhenIdle` (`KilledBeforeFreed`), `EverythingReleased` and
`PicturesAsReported`. The invariant says what is held at each stage of probing, unwinding
and disconnecting (`HeldInv`), who has a reference (`RefsInv`), that a file keeps the video
device (`FilesInv`), which URBs are allocated (`UrbInv`), that what the kill loop has
passed is neither in flight nor in its handler unless `late` is set, and that then the work
and the worker stop with `cancel_work_sync` (`FlightInv`), that a call in progress belongs
to the file that has the buffers and uses the URB it is at (`CallInv`), and that the camera
is in the mode of the recorded index from the moment a start has sent it until nothing is
received any more (`FormatInv`). `FlightInv` is inductive because a handler can resubmit
only a URB it has, and the loop waits for that one's handler; only a STREAMON can bring back
a URB that was killed, and that is what sets `late`. Four theorems
are about the formats, whatever size and frame rate is asked for: `EnumeratedTaken`,
`TakenIsSupported`, `SameModeEitherWay`, `IntervalSent`.

`UsbCameraProofs`, for any programs and cameras: `CameraTypeCorrect`, `OneCommander`,
`ReturnedToTheOS`, and the action property `OthersUntouched` (`NoOtherDisturbed`). A program
that has an interface is between its claim and its release (`HoldersKnown`) and has it as
long as it does not let go (`Claims`); the driver has half a camera only while a program is
between its two detachments (`DriverHalves`); a camera nobody has is about to be claimed or
given back (`Unclaimed`).

`V4l2ServerProofs`, for any buffers, capacity and number of frames, whatever fails:
`V4l2TypeCorrect`, `NoBufferKept`, `OneWholeFrame`. A buffer the user has is the one the
worker holds, once all are mapped (`OwnerInv`). A frame is in one place: in the buffer
that waits for its copy, or in a slot (`FrameInv`); that its slot is within bounds needs that
every claimed sequence is that of a frame the device gave back without ERROR (`CountInv`).
`EveryCallTaken`: the ioctls find the device as they need it while the camera is there; the
program does not look at what QBUF returns, so that one refused would lose a buffer.
`DeviceUsedAsPromised`: everything that becomes of the device is as `CaptureQueue` has it.
That is how the model is built, but for what the program must do itself; it is stated because
`DriverIsCaptureDevice` shows the same of the driver, so that the two sides of `/dev/videoN`
meet in one module.

In `LibusbServer` and `V4l2Server` a slot is known by its sequence, not by the remainder of
the sequence by Capacity, and the ring has no code of its own. `RingNeverOverrun`, in both
proof modules, is why this is right: the sequence claimed is never more than Capacity ahead
of what has been given back, everything read has been published, and all that has been read
is given back at once. Under these rules two sequences in use have different slots
(`SlotsDistinct` of `DisruptorProofs`).

`MjpegServerProofs`, for any addresses, limits, frames and ids, and any allocator:
`MjpegTypeCorrect`, `WhoWatchesIsListed` (`WatchersListed`), `SentInOrder`
(`DeliveredInOrder`) and `NoViewerBehind` (`UpToDate`). The invariant has that each
connection has an open entry (`EntriesInv`: what `onAborted` or an eviction closes is an
entry of the connection that ends, or an older one at its address, and the others of that
address belong to nobody); and for an entry that is the only open one at the address of a
connection (`Sole`) what the tick has promised it (`Promise`): up to the last sequence that
entry was offered (`Passed`, which differs between the entries before and behind the one
being served), what its connection was sent is in order and, until the ids wrap, ends with
the latest frame. An entry becomes the only one when its connection joins or never: closing
another at the address ends the connection.

Only model-checked:

* Liveness, which is about fairness and `ENABLED`: `DecodeTerminates` (its decreasing measure
  is proved, see `TurnsRunOut`), `CallsReturn` (see `ActivitiesRunOut`), the ends of streams
  and of programs, the liveness of the
  channel that the ring implements.
* That `ReadUpTo`, a function defined on positions of bytes, is what one would compute from the
  packets by hand (`ReadAsRuns`): an equation between two computations over the scripts.

Every safety property of every passing run is proved.

`DisruptorProofs` covers both wait strategies, the run only the blocking one, the one
with a wakeup to lose.

## Not modelled

* `driver-design/useeplus_core.c`: a reordered copy of the driver for study. The models of
  the original stand for it.
* `UsbContext`, `UsbDeviceFinder`, `UsbDeviceList`: no program uses them; the copy of the
  search that is used, `UsbCamera::listCameras`, is modelled.
* `hardwareDroppedFrames_`: counted in `useeplus_video_stream.cpp`, read by nobody.
* The HTTP response builder, the page, the constants, `getClosest`: formatting, values
  and a function that nobody calls.
* Benchmarks, tools and build files.
* Timestamps, sequence numbers of V4L2 buffers and debug counters of the driver: no
  decision depends on them.

## Plan

1. *Proofs* across modules: that a DONE buffer of `UpStream` is a published picture of
   `PictureAssembly`, so that both consumers of the camera's stream promise the same. It
   needs a `UpStream` whose worker runs `UpDecoder` on bytes; today a packet is a unit there.
2. *UpLifecycle* with a reader in DQBUF and several probes of one camera (unplugged and
   plugged in again), composed with the data path of `UpStream`.
3. *UsbCamera* and `UpLifecycle` together, so that the unbinding of the one is the call of
   the other, once it is settled what the driver should do with a stream that starts.
