------------------------------ MODULE UpDecoder -----------------------------
(***************************************************************************)
(* The stream decoder of driver/useeplus_protocol.c together with the      *)
(* residual-keeping buffer both of its callers wrap around it              *)
(* (UseeplusVideoStream::send and the kernel's up_work_handler): a chunk   *)
(* arrives, up_decode_bulk walks the buffer one turn of its loop at a      *)
(* time, calling back for frame start, fragment, complete and incomplete,  *)
(* and what it did not consume waits for the next chunk.                   *)
(*                                                                         *)
(* A byte is a number.  The delimiter, the device id and their validity    *)
(* are one byte (DEL), the length field is one byte, dev_num and flags are *)
(* one byte (0: an image fragment, 1: gravity sensor or other flags, 2: a  *)
(* device number above MAX_DEV_NUM); the length constants scale with that. *)
(***************************************************************************)
EXTENDS Integers, Sequences

CONSTANTS
    Streams,              \* the byte sequences the camera may send
    MaxChunk,             \* bound: the longest chunk delivered at once
    DEL,                  \* UP_PKT_DEL with a valid device id
    FF, SOI, EOI,         \* JPEG_DEL, JPEG_SOI, JPEG_EOI
    HDR_LEN,              \* UP_USB_FRM_HDR_LEN
    FRAG_HDR_LEN,         \* UP_VIDEO_FRM_FRAG_HDR_LEN
    MAX_FRAG_LEN,         \* UP_MAX_VIDEO_FRM_FRAG_LEN
    SOI_MAX_POS,          \* JPEG_SOI_MAX_POS
    MAX_GHOST_OFF         \* MAX_GHOST_HDR_OFF

ASSUME StreamsAssumption == Streams \subseteq Seq(Nat)
ASSUME ChunkAssumption == MaxChunk \in Nat \ {0}
ASSUME LengthsAssumption ==
    /\ HDR_LEN \in Nat /\ HDR_LEN >= 2
    /\ FRAG_HDR_LEN \in Nat /\ FRAG_HDR_LEN >= 2
    /\ MAX_FRAG_LEN \in Nat
    /\ SOI_MAX_POS \in Nat
    /\ MAX_GHOST_OFF \in Nat

DATA_OFFSET == HDR_LEN + FRAG_HDR_LEN     \* VIDEO_DATA_OFFSET

VARIABLES
    stream,           \* all the camera sends; never changes
    sent,             \* how many bytes of it have been delivered
    buf,              \* inputBuffer_ from readOffset_, workspace
    cur_pos,
    building_frame, frame_id, found_soi, eof_reached,   \* struct up_decoder
    events,           \* the callbacks made so far
    pc

decVars == <<building_frame, frame_id, found_soi, eof_reached>>
vars == <<stream, sent, buf, cur_pos, decVars, events, pc>>

Init ==
    /\ stream \in Streams
    /\ sent = 0
    /\ buf = <<>>
    /\ cur_pos = 0
    /\ building_frame = FALSE
    /\ frame_id = 0
    /\ found_soi = FALSE
    /\ eof_reached = FALSE
    /\ events = <<>>
    /\ pc = "idle"

-----------------------------------------------------------------------------
(* What the code reads at a position of the buffer.                        *)

IsHdr(pos)   == buf[pos + 1] = DEL       \* up_is_valid_usb_frm_hdr
PlLen(pos)   == buf[pos + 2]             \* up_get_usb_frm_pl_len
FrameId(pos) == buf[pos + HDR_LEN + 1]
Flags(pos)   == buf[pos + HDR_LEN + 2]

Least(S) == CHOOSE s \in S : \A t \in S : s <= t

Lesser(a, b) == IF a < b THEN a ELSE b

usb_frm_len == HDR_LEN + PlLen(cur_pos)

\* up_check_ghost_hdr: the offsets at which another header begins, within reach
\* and with the whole header in the buffer.
GhostOffsets ==
    {o \in HDR_LEN .. Lesser(Len(buf) - cur_pos - HDR_LEN, MAX_GHOST_OFF) :
        IsHdr(cur_pos + o)}

\* Where marker FF <<m>> begins in data, counted from 0, among the first lim bytes.
MarkerAt(data, m, lim) ==
    {i \in 0 .. Lesser(Len(data), lim) - 2 : data[i + 1] = FF /\ data[i + 2] = m}

Event(kind, arg) == [ev |-> kind, arg |-> arg]

-----------------------------------------------------------------------------
(***************************************************************************)
(* The callers: append a chunk, decode, keep the rest.                     *)
(***************************************************************************)
Deliver ==
    /\ pc = "idle"
    /\ \E n \in 1 .. Lesser(Len(stream) - sent, MaxChunk) :
          /\ buf' = buf \o SubSeq(stream, sent + 1, sent + n)
          /\ sent' = sent + n
    /\ cur_pos' = 0
    /\ pc' = "loop"
    /\ UNCHANGED <<stream, decVars, events>>

\* Faulty: clears the buffer when the decoder returns.
KeepResidual_Clears ==
    /\ pc = "return"
    /\ buf' = <<>>
    /\ cur_pos' = 0
    /\ pc' = "idle"
    /\ UNCHANGED <<stream, sent, decVars, events>>

\* readOffset_ += consumed; the kernel moves the residual to the front.
KeepResidual ==
    /\ pc = "return"
    /\ buf' = SubSeq(buf, cur_pos + 1, Len(buf))
    /\ cur_pos' = 0
    /\ pc' = "idle"
    /\ UNCHANGED <<stream, sent, decVars, events>>

-----------------------------------------------------------------------------
(***************************************************************************)
(* The turns of up_decode_bulk's loop that find no fragment.               *)
(***************************************************************************)
InLoop == pc = "loop" /\ Len(buf) - cur_pos >= DATA_OFFSET

LoopExit ==
    /\ pc = "loop"
    /\ Len(buf) - cur_pos < DATA_OFFSET
    /\ pc' = "return"
    /\ UNCHANGED <<stream, sent, buf, cur_pos, decVars, events>>

Advance(n) ==
    /\ cur_pos' = cur_pos + n
    /\ pc' = "loop"
    /\ UNCHANGED <<stream, sent, buf, decVars, events>>

\* UP_INVALID_USB_FRM_HDR, no header here: seek byte by byte.
SeekByte == InLoop /\ ~IsHdr(cur_pos) /\ Advance(1)

\* UP_IS_GHOST_HDR: another header is near, so this one is stale memory.
SkipGhost ==
    /\ InLoop
    /\ IsHdr(cur_pos)
    /\ GhostOffsets # {}
    /\ Advance(Least(GhostOffsets))

RealHdr == InLoop /\ IsHdr(cur_pos) /\ GhostOffsets = {}

\* Faulty: rejects the length without moving on.
RejectLength_Stays == RealHdr /\ PlLen(cur_pos) > MAX_FRAG_LEN /\ Advance(0)

\* UP_INVALID_USB_FRM_HDR, a length no packet has.
RejectLength == RealHdr /\ PlLen(cur_pos) > MAX_FRAG_LEN /\ Advance(1)

\* Faulty: waits for the rest of a packet of any length.
NeedData_AnyLength ==
    /\ RealHdr
    /\ usb_frm_len + cur_pos > Len(buf)
    /\ pc' = "return"
    /\ UNCHANGED <<stream, sent, buf, cur_pos, decVars, events>>

\* UP_DECODE_NEED_DATA: the packet is not complete yet.
NeedData ==
    /\ RealHdr
    /\ PlLen(cur_pos) <= MAX_FRAG_LEN
    /\ usb_frm_len + cur_pos > Len(buf)
    /\ pc' = "return"
    /\ UNCHANGED <<stream, sent, buf, cur_pos, decVars, events>>

\* Faulty: takes a packet whose last byte has not arrived.
WholePkt_OneShort ==
    /\ RealHdr
    /\ PlLen(cur_pos) <= MAX_FRAG_LEN
    /\ usb_frm_len + cur_pos <= Len(buf) + 1

WholePkt ==
    /\ RealHdr
    /\ PlLen(cur_pos) <= MAX_FRAG_LEN
    /\ usb_frm_len + cur_pos <= Len(buf)

\* UP_DECODE_SKIP: too short for a fragment header.
SkipShort == WholePkt /\ PlLen(cur_pos) < FRAG_HDR_LEN /\ Advance(usb_frm_len)

\* UP_DECODE_OK with a device number no lens has.
SkipDevice ==
    /\ WholePkt
    /\ PlLen(cur_pos) >= FRAG_HDR_LEN
    /\ Flags(cur_pos) = 2
    /\ Advance(usb_frm_len)

-----------------------------------------------------------------------------
(***************************************************************************)
(* UP_DECODE_OK: first the frame boundary, then the fragment.              *)
(***************************************************************************)
Accepted ==
    /\ WholePkt
    /\ PlLen(cur_pos) >= FRAG_HDR_LEN
    /\ Flags(cur_pos) # 2

NewFrame == ~building_frame \/ frame_id # FrameId(cur_pos)

\* Faulty: reports the old frame incomplete even when it had been completed.
Boundary_AlwaysIncomplete ==
    /\ Accepted
    /\ pc' = "fragment"
    /\ \/ /\ ~NewFrame
          /\ UNCHANGED <<decVars, events>>
       \/ /\ NewFrame
          /\ events' = Append(IF building_frame
                                THEN Append(events, Event("incomplete", <<>>))
                                ELSE events,
                              Event("start", <<FrameId(cur_pos)>>))
          /\ frame_id' = FrameId(cur_pos)
          /\ building_frame' = TRUE
          /\ found_soi' = FALSE
          /\ eof_reached' = FALSE
    /\ UNCHANGED <<stream, sent, buf, cur_pos>>

\* A packet of another frame closes the frame being built, if its end has not
\* been seen, and starts the next one.
Boundary ==
    /\ Accepted
    /\ pc' = "fragment"
    /\ \/ /\ ~NewFrame
          /\ UNCHANGED <<decVars, events>>
       \/ /\ NewFrame
          /\ events' = Append(IF building_frame /\ ~eof_reached
                                THEN Append(events, Event("incomplete", <<>>))
                                ELSE events,
                              Event("start", <<FrameId(cur_pos)>>))
          /\ frame_id' = FrameId(cur_pos)
          /\ building_frame' = TRUE
          /\ found_soi' = FALSE
          /\ eof_reached' = FALSE
    /\ UNCHANGED <<stream, sent, buf, cur_pos>>

video_data == SubSeq(buf, cur_pos + DATA_OFFSET + 1, cur_pos + usb_frm_len)

soiAt == MarkerAt(video_data, SOI, SOI_MAX_POS)

\* The fragment belongs to no image: the frame is over, the fragment header is
\* invalid, or the image has not begun and does not begin here.
NoImage == \/ eof_reached
           \/ Flags(cur_pos) # 0
           \/ ~found_soi /\ soiAt = {}

SkipFragment == pc = "fragment" /\ NoImage /\ Advance(usb_frm_len)

\* The image from its SOI on, up to and with its EOI.
image == IF found_soi THEN video_data
                      ELSE SubSeq(video_data, Least(soiAt) + 1, Len(video_data))
eoiAt == MarkerAt(image, EOI, Len(image))
imgFragment == IF eoiAt = {} THEN image ELSE SubSeq(image, 1, Least(eoiAt) + 2)

withFragment == Append(events, Event("fragment", imgFragment))

Fragment ==
    /\ pc = "fragment"
    /\ ~NoImage
    /\ found_soi' = TRUE
    /\ eof_reached' = (eoiAt # {})
    /\ events' = IF eoiAt = {} THEN withFragment
                 ELSE Append(withFragment, Event("complete", <<>>))
    /\ cur_pos' = cur_pos + usb_frm_len
    /\ pc' = "loop"
    /\ UNCHANGED <<stream, sent, buf, building_frame, frame_id>>

-----------------------------------------------------------------------------
Decode ==
    \/ LoopExit
    \/ SeekByte
    \/ SkipGhost
    \/ RejectLength
    \/ NeedData
    \/ SkipShort
    \/ SkipDevice
    \/ Boundary
    \/ SkipFragment
    \/ Fragment

\* The camera has nothing more to send.
Finished == pc = "idle" /\ sent = Len(stream) /\ UNCHANGED vars

Next == Deliver \/ KeepResidual \/ Decode \/ Finished

Spec == Init /\ [][Next]_vars

\* The decoding thread is not preempted for ever.  Nothing is assumed of the
\* camera.
FairSpec == Spec /\ WF_vars(Decode) /\ WF_vars(KeepResidual)

-----------------------------------------------------------------------------
(***************************************************************************)
(* Properties.                                                             *)
(***************************************************************************)
Kinds == {"start", "fragment", "complete", "incomplete"}
Events == [ev : Kinds, arg : Seq(Nat)]

\* Every variable has its type.
TypeOK ==
    /\ stream \in Seq(Nat)
    /\ sent \in 0 .. Len(stream)
    /\ buf \in Seq(Nat)
    /\ cur_pos \in Nat
    /\ building_frame \in BOOLEAN
    /\ frame_id \in Nat
    /\ found_soi \in BOOLEAN
    /\ eof_reached \in BOOLEAN
    /\ events \in Seq(Events)
    /\ pc \in {"idle", "loop", "fragment", "return"}

\* The cursor never passes the end of what has arrived, so the unsigned
\* (len - cur_pos) of the loop condition never wraps and no packet is read
\* beyond the buffer, whatever bytes and lengths the stream holds.
CursorInBuffer ==
    /\ cur_pos <= Len(buf)
    /\ pc = "fragment" => cur_pos + usb_frm_len <= Len(buf)

\* What is left for the next chunk is less than one packet of the largest
\* accepted length, whatever the stream holds: garbage, ghosts and absurd
\* lengths never make the callers' buffers grow.
ResidualBounded ==
    pc \in {"idle", "return"} =>
        Len(buf) - cur_pos < HDR_LEN + FRAG_HDR_LEN + MAX_FRAG_LEN

\* The callbacks come in an order the consumers can build frames from: each
\* start is followed by fragments, a complete comes right after a fragment, and
\* each started frame is closed by exactly one complete or incomplete before the
\* next one starts.
Follows == { <<"start", "fragment">>, <<"start", "incomplete">>,
             <<"fragment", "fragment">>, <<"fragment", "complete">>,
             <<"fragment", "incomplete">>,
             <<"complete", "start">>, <<"incomplete", "start">> }

Grammatical(evs) ==
    /\ evs # <<>> => evs[1].ev = "start"
    /\ \A i \in 1 .. Len(evs) - 1 : <<evs[i].ev, evs[i + 1].ev>> \in Follows

EventGrammar == Grammatical(events)

\* What a fragment holds of the markers of the image, by where in the image it is.
FragmentOk(data, isFirst, isLast) ==
    /\ isFirst => 0 \in MarkerAt(data, SOI, Len(data))
    /\ MarkerAt(data, EOI, Len(data)) = IF isLast THEN {Len(data) - 2} ELSE {}

Marked(evs) ==
    \A i \in {j \in 1 .. Len(evs) : evs[j].ev = "fragment"} :
        FragmentOk(evs[i].arg, evs[i - 1].ev = "start",
                   i < Len(evs) /\ evs[i + 1].ev = "complete")

\* The image handed over for a frame begins with its SOI marker, and it is complete with the
\* fragment that ends with its first EOI marker: no other fragment holds one, whatever
\* lies before, between and behind the packets and whatever an earlier frame left behind.
ImagesMarked == Marked(events)

\* Every chunk is decoded to its end: up_decode_bulk returns.
DecodeTerminates == pc = "loop" ~> pc = "idle"
=============================================================================
