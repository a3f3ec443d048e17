------------------------------ MODULE UpFormat ------------------------------
(***************************************************************************)
(* The sizes of a picture on their way to the camera: those that           *)
(* driver/useeplus_core.c enumerates, the one it takes for a size that is  *)
(* asked for, the mode it sends; and the same in user space, where         *)
(* camera_resolution.hpp lists them, V4l2Device asks the driver for one    *)
(* and UsbCamera sends a mode by itself.  There is no state here:          *)
(* UpLifecycle keeps the driver's format, and the camera's mode.           *)
(***************************************************************************)
EXTENDS Integers, Sequences

Size(w, h) == [width |-> w, height |-> h]
Resolution(w, h, hw_index) == [size |-> Size(w, h), hw_index |-> hw_index]

\* enum up_resolution_index: the camera's numbers for its modes.
UP_RES_480P == 1
UP_RES_240P == 2
UP_RES_720P == 3

-----------------------------------------------------------------------------
(* The driver.                                                             *)

up_sizes == <<Size(640, 480), Size(320, 240), Size(1280, 720)>>

\* ENUM_FRAMESIZES, over all its indices, and ENUM_FRAMEINTERVALS: the frames per
\* second of a size, none for one that is not in the table.
up_enum_framesizes == {up_sizes[i] : i \in 1 .. Len(up_sizes)}
up_enum_frameintervals(size) == IF size \in up_enum_framesizes THEN {30} ELSE {}

\* S_FMT: the size and the mode that are taken for the size that is asked for.
up_s_fmt_vid_cap(asked) ==
    IF asked.width >= 1280 \/ asked.height >= 720 THEN Resolution(1280, 720, UP_RES_720P)
    ELSE IF asked.width <= 320 \/ asked.height <= 240
           THEN Resolution(320, 240, UP_RES_240P)
           ELSE Resolution(640, 480, UP_RES_480P)

-----------------------------------------------------------------------------
(* The request with which a mode is probed and committed.                  *)

\* In units of 100 ns.
FrameInterval(fps) == 10000000 \div (IF fps = 0 THEN 30 ELSE fps)

\* Four bytes, the low one first.
LittleEndian(n) ==
    <<n % 256, (n \div 256) % 256, (n \div 65536) % 256, (n \div 16777216) % 256>>
Decoded(bytes) ==
    bytes[1] + 256 * bytes[2] + 65536 * bytes[3] + 16777216 * bytes[4]

\* The fields of the request that are not zero.
Payload(hint, frame_index, interval) ==
    [bmHint |-> hint, bFormatIndex |-> 2, bFrameIndex |-> frame_index,
     dwFrameInterval |-> LittleEndian(interval)]

up_set_hardware_resolution(frame_index, target_fps) ==
    Payload(1, frame_index, FrameInterval(target_fps))

-----------------------------------------------------------------------------
(* User space.                                                             *)

\* SupportedResolutions, of which --res chooses one.
HD_720P == Resolution(1280, 720, UP_RES_720P)
VGA_480P == Resolution(640, 480, UP_RES_480P)
LOW_240P == Resolution(320, 240, UP_RES_240P)
SupportedResolutions == {HD_720P, VGA_480P, LOW_240P}

\* active_resolution_ of a V4l2Device, after S_FMT and a G_FMT that reports a size.
active_resolution(target, reported) ==
    IF reported = target.size THEN target ELSE [target EXCEPT !.size = reported]

\* What UsbCamera sends, whose hint stays 0.
UsbCameraPayload(resolution) == Payload(0, resolution.hw_index, FrameInterval(30))
=============================================================================
