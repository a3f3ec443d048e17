------------------------- MODULE UseeplusVideoStream ------------------------
(***************************************************************************)
(* UseeplusVideoStream around the decoder: every step of UpDecoder with    *)
(* what the four callbacks do with the events it adds, the slots of the    *)
(* ring they fill (VideoFrameFragment: storage that is reused, of which    *)
(* the first activeSize bytes count), and the input buffer that send()     *)
(* consumes by moving readOffset_ and compacts only now and then.          *)
(*                                                                         *)
(* buf of UpDecoder is inputBuffer_ from readOffset_ on.  Readers, and the *)
(* wait for them in claim(), are Disruptor and LibusbServer.  The count of *)
(* frames the hardware dropped, which nothing reads, is left out.          *)
(***************************************************************************)
EXTENDS UpDecoder

CONSTANTS
    FOUR_KILOBYTES,       \* Units::FOUR_KILOBYTES, scaled
    INPUT_RESERVE,        \* Units::THIRTY_TWO_KILOBYTES, scaled
    CAPACITY,             \* slots of the ring
    PREALLOCATED          \* frame_reserve_capacity, scaled

ASSUME BuffersAssumption ==
    /\ FOUR_KILOBYTES \in Nat /\ INPUT_RESERVE \in Nat
    /\ INPUT_RESERVE >= FOUR_KILOBYTES + HDR_LEN + FRAG_HDR_LEN + MAX_FRAG_LEN + MaxChunk
    /\ CAPACITY \in Nat \ {0} /\ PREALLOCATED \in Nat

VARIABLES
    readOffset,           \* readOffset_
    self                  \* frameActive_, currentClaimSequence_; the slots; what was
                          \* in each slot when it was published

streamVars == <<readOffset, self>>

Slots == 0 .. CAPACITY - 1

VideoInit ==
    /\ Init
    /\ readOffset = 0
    /\ self = [frameActive |-> FALSE, claimed |-> -1, published |-> <<>>,
               slots |-> [i \in Slots |->
                  [storage |-> [n \in 1 .. PREALLOCATED |-> 0], activeSize |-> 0]]]

-----------------------------------------------------------------------------
(* VideoFrameFragment.                                                     *)

clear(slot) == [slot EXCEPT !.activeSize = 0]

\* Faulty: counts the last content only.
insertContent_SetsSize(slot, content) ==
    LET end == slot.activeSize + Len(content)
    IN  [storage |-> SubSeq(slot.storage, 1, slot.activeSize) \o content \o
                     SubSeq(slot.storage, end + 1, Len(slot.storage)),
         activeSize |-> Len(content)]

\* Behind what the slot holds, in the old storage as far as it reaches.
insertContent(slot, content) ==
    LET end == slot.activeSize + Len(content)
    IN  [storage |-> SubSeq(slot.storage, 1, slot.activeSize) \o content \o
                     SubSeq(slot.storage, end + 1, Len(slot.storage)),
         activeSize |-> end]

Contents(slot) == SubSeq(slot.storage, 1, slot.activeSize)

-----------------------------------------------------------------------------
(* The callbacks, on the state of the stream s.                            *)

Claimed(s) == s.claimed % CAPACITY

publish(s) == [s EXCEPT !.published = Append(@, Contents(s.slots[Claimed(s)]))]

\* The next sequence of the ring.
claim(s) == [s EXCEPT !.claimed = @ + 1]

onFrameStart(s) ==
    LET t == claim(IF s.frameActive THEN publish(s) ELSE s)
    IN  [t EXCEPT !.slots[Claimed(t)] = clear(@), !.frameActive = TRUE]

onVideoPayload(s, data) ==
    IF s.frameActive THEN [s EXCEPT !.slots[Claimed(s)] = insertContent(@, data)] ELSE s

onFrameComplete(s) ==
    IF s.frameActive THEN [publish(s) EXCEPT !.frameActive = FALSE] ELSE s

\* Faulty: the part that has come is published.
onFrameIncomplete_NoClear(s) ==
    IF s.frameActive THEN [publish(s) EXCEPT !.frameActive = FALSE] ELSE s

onFrameIncomplete(s) ==
    IF s.frameActive
      THEN [publish([s EXCEPT !.slots[Claimed(s)] = clear(@)]) EXCEPT !.frameActive = FALSE]
      ELSE s

Callback(s, e) ==
    CASE e.ev = "start"      -> onFrameStart(s)
      [] e.ev = "fragment"   -> onVideoPayload(s, e.arg)
      [] e.ev = "complete"   -> onFrameComplete(s)
      [] e.ev = "incomplete" -> onFrameIncomplete(s)

-----------------------------------------------------------------------------
(* send().                                                                 *)

\* Appends the chunk; the decoder starts at readOffset_.
SendBegins == Deliver /\ UNCHANGED streamVars

\* A turn of the decoder, with the callbacks it makes: two at the most, the end of a frame
\* and the start of the next or the last fragment and the end.
SendDecodes ==
    LET n == Len(events)
    IN  /\ Decode
        /\ self' = CASE Len(events') = n     -> self
                     [] Len(events') = n + 1 -> Callback(self, events'[n + 1])
                     [] Len(events') = n + 2 ->
                          Callback(Callback(self, events'[n + 1]), events'[n + 2])
        /\ UNCHANGED readOffset

\* Faulty: only a buffer that is used up is emptied.
ReadOffsetAfter_NoErase(consumed) ==
    IF consumed = Len(buf) THEN 0 ELSE readOffset + consumed

\* inputBuffer_ is emptied when it is used up, and compacted when the consumed part
\* has grown.
ReadOffsetAfter(consumed) ==
    IF consumed = Len(buf) \/ readOffset + consumed > FOUR_KILOBYTES THEN 0
    ELSE readOffset + consumed

SendReturns ==
    /\ KeepResidual
    /\ readOffset' = ReadOffsetAfter(cur_pos)
    /\ UNCHANGED self

VideoFinished == Finished /\ UNCHANGED streamVars

VideoNext == SendBegins \/ SendDecodes \/ SendReturns \/ VideoFinished

VideoSpec == VideoInit /\ [][VideoNext]_<<vars, streamVars>>

\* As UpDecoder's FairSpec: the thread in send() goes on.
VideoFairSpec ==
    /\ VideoSpec
    /\ WF_<<vars, streamVars>>(SendDecodes) /\ WF_<<vars, streamVars>>(SendReturns)

-----------------------------------------------------------------------------
\* Type correctness of what is added to UpDecoder.
VideoTypeOK ==
    /\ readOffset \in Nat
    /\ self \in [frameActive : BOOLEAN, claimed : Nat \cup {-1}, published : Seq(Seq(Nat)),
                 slots : [Slots -> [storage : Seq(Nat), activeSize : Nat]]]

\* However long the stream, and though the buffer is compacted only now and then, the
\* bytes in inputBuffer_ stay within what the constructor reserved: send() never
\* reallocates, and the memory of a stream that never ends on a packet's boundary
\* does not grow.
InputReserved == readOffset + Len(buf) <= INPUT_RESERVE

\* To the readers the slots are pictures as PictureAssembly has them: though storage is used
\* again and never shrinks, nothing of the frame a slot held before is shown, and no picture
\* is left out or shown twice.
Assembly == INSTANCE PictureAssembly WITH
    callbacks <- events,
    open      <- self.frameActive,
    picture   <- IF self.frameActive THEN Contents(self.slots[Claimed(self)]) ELSE <<>>,
    shown     <- self.published

ImplementsAssembly == Assembly!Spec

\* Every picture that is published is empty or an image from its SOI marker to an EOI marker.
Framed(pic) ==
    LET n == Len(pic)
    IN  /\ n >= 2
        /\ pic[1] = FF /\ pic[2] = SOI
        /\ pic[n - 1] = FF /\ pic[n] = EOI

PublishedFramed ==
    \A i \in 1 .. Len(self.published) :
        self.published[i] = <<>> \/ Framed(self.published[i])
=============================================================================
